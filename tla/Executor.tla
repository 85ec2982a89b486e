------------------------------ MODULE Executor ------------------------------
(***************************************************************************)
(* The single-threaded executor of async-cortex-m (executor.rs): the       *)
(* block_on loop that polls the main future and the spawned tasks whose    *)
(* ready flag is set, spawn, the waker (a store of TRUE into a ready       *)
(* flag), r#yield (task.rs), and the platform hooks signal_event_ready and *)
(* wait_for_event (async-embedded lib.rs) on ARM (SEV/WFE) and on RISC-V   *)
(* with the riscv-wait-wfi-single-hart feature (TASK_READY flag + WFI).   *)
(*                                                                         *)
(* The foreground runs one step of the loop at a time; interrupt handlers *)
(* of drivers (timer.rs, serial.rs) interleave with every step.  A poll of *)
(* a future is one step: its flag is cleared before it and the wakes it   *)
(* issues land after the clear.  What the user future does during a poll  *)
(* is chosen from what the runtime lets it do: stay pending, yield, wait  *)
(* on a driver's one-shot interrupt, wake another task (channel/mutex      *)
(* notify), spawn, call block_on again, or (main only) complete.          *)
(***************************************************************************)
EXTENDS Naturals

CONSTANTS
  NTASKS,    \* capacity of the task table (heapless::Vec<_, NTASKS>)
  Platform   \* "arm" (SEV/WFE) or "riscv_wfi" (riscv-wait-wfi-single-hart)

ASSUME NTASKS \in Nat \ {0}
ASSUME Platform \in {"arm", "riscv_wfi"}

Main  == 0              \* the future passed to block_on
Slots == 1..NTASKS      \* tasks[Slot - 1] of the task table
Ids   == {Main} \cup Slots

VARIABLES
  inBlockOn, \* Executor::in_block_on
  ntasks,    \* (*self.tasks.get()).len()
  ready,     \* ready[Main]: block_on's local `ready`; ready[s]: Node::ready of tasks[s-1]
  pc,        \* where the foreground is: "idle" (outside block_on), "main", "tasks",
             \* "wfe" (about to call wait_for_event), "asleep", "aborted" (udf)
  i,         \* loop index of the task scan (1-based)
  len,       \* the table length snapshot taken at (A)
  woken,     \* task_woken
  event,     \* ARM: the event register; RISC-V: TASK_READY
  armed,     \* tasks whose waker sits in a driver with the interrupt unmasked
  wanted,    \* ghost: tasks woken since their last poll
  pollbit    \* ghost: flipped at every poll of a task

vars == <<inBlockOn, ntasks, ready, pc, i, len, woken, event, armed, wanted, pollbit>>

Spawned == {Main} \cup 1..ntasks
Running == inBlockOn /\ pc # "aborted"

(* What signal_event_ready leaves in the latch: SEV sets the event register, *)
(* the RISC-V hook sets TASK_READY; both are TRUE.                          *)
SignalEventReady == TRUE

(* What an interrupt handler leaves in the latch: on ARM exception entry and  *)
(* return set the event register; on RISC-V nothing touches TASK_READY.       *)
IsrLatch == IF Platform = "arm" THEN TRUE ELSE event

(* What wait_for_event leaves in the latch when it returns without sleeping: *)
(* WFE consumes the event; the RISC-V hook only clears TASK_READY after WFI. *)
LatchAfterSkip == Platform = "riscv_wfi"

Init ==
  /\ inBlockOn = FALSE
  /\ ntasks = 0
  /\ ready = [x \in Ids |-> FALSE]
  /\ pc = "idle"
  /\ i = 1
  /\ len = 0
  /\ woken = FALSE
  /\ event \in IF Platform = "arm" THEN BOOLEAN ELSE {FALSE}
  /\ armed = {}
  /\ wanted = {}
  /\ pollbit = [x \in Ids |-> FALSE]
-----------------------------------------------------------------------------
(* Mutant: the flag is cleared after the poll instead of before it.         *)
PollWakesLate(t, W) ==
  /\ ready' = [x \in Ids |-> (x \in W \/ ready[x]) /\ x # t]
  /\ wanted' = (wanted \ {t}) \cup W
  /\ pollbit' = [pollbit EXCEPT ![t] = ~@]

(* A poll of t: the executor stores FALSE into t's flag, then the future    *)
(* runs and its wakers store TRUE into the flags of the tasks in W.         *)
PollWakes(t, W) ==
  /\ ready' = [x \in Ids |-> x \in W \/ (ready[x] /\ x # t)]
  /\ wanted' = (wanted \ {t}) \cup W
  /\ pollbit' = [pollbit EXCEPT ![t] = ~@]

(* The poll of t returns Pending after doing one of these.                 *)
Pending(t) ==
  \/ PollWakes(t, {}) /\ UNCHANGED <<ntasks, event, armed>>
  \/ PollWakes(t, {t}) /\ event' = SignalEventReady /\ UNCHANGED <<ntasks, armed>>
  \/ /\ t \notin armed
     /\ armed' = armed \cup {t}
     /\ PollWakes(t, {}) /\ UNCHANGED <<ntasks, event>>
  \/ \E u \in Spawned \ {t} : PollWakes(t, {u}) /\ UNCHANGED <<ntasks, event, armed>>
  \/ /\ ntasks < NTASKS
     /\ ntasks' = ntasks + 1
     /\ PollWakes(t, {ntasks + 1}) /\ UNCHANGED <<event, armed>>

(* The poll of t ends in crate::abort(): spawn on a full table, a nested    *)
(* block_on, or a spawned task whose future returned.                      *)
PollAborts(t) ==
  /\ ntasks = NTASKS \/ inBlockOn \/ t # Main
  /\ pc' = "aborted"
  /\ PollWakes(t, {})
  /\ UNCHANGED <<inBlockOn, ntasks, i, len, woken, event, armed>>

(* The main future returns Ready: block_on breaks out of its loop.  It      *)
(* cannot while it still awaits a driver future, whose waker points at the  *)
(* stack-local flag.                                                        *)
MainReady ==
  /\ Main \notin armed
  /\ PollWakes(Main, {})
  /\ pc' = "idle"
  /\ inBlockOn' = FALSE
  /\ UNCHANGED <<ntasks, i, len, woken, event, armed>>
-----------------------------------------------------------------------------
(* Mutant: the capacity test of the push is off by one.                    *)
SpawnOffByOne ==
  /\ pc = "idle"
  /\ \/ /\ ntasks <= NTASKS
        /\ ntasks' = ntasks + 1
        /\ ready' = [ready EXCEPT ![ntasks + 1] = TRUE]
        /\ wanted' = wanted \cup {ntasks + 1}
        /\ UNCHANGED <<pc, pollbit>>
     \/ /\ ntasks > NTASKS
        /\ pc' = "aborted"
        /\ UNCHANGED <<ntasks, ready, wanted, pollbit>>
  /\ UNCHANGED <<inBlockOn, i, len, woken, event, armed>>

(* task::spawn from the top-level code, before or between block_on calls.  *)
Spawn ==
  /\ pc = "idle"
  /\ \/ /\ ntasks < NTASKS
        /\ ntasks' = ntasks + 1
        /\ ready' = [ready EXCEPT ![ntasks + 1] = TRUE]
        /\ wanted' = wanted \cup {ntasks + 1}
        /\ UNCHANGED <<pc, pollbit>>
     \/ /\ ntasks = NTASKS
        /\ pc' = "aborted"
        /\ UNCHANGED <<ntasks, ready, wanted, pollbit>>
  /\ UNCHANGED <<inBlockOn, i, len, woken, event, armed>>

(* block_on entry: the guard is clear, the main flag starts TRUE.           *)
BlockOn ==
  /\ pc = "idle"
  /\ inBlockOn' = TRUE
  /\ ready' = [ready EXCEPT ![Main] = TRUE]
  /\ wanted' = wanted \cup {Main}
  /\ pc' = "main"
  /\ UNCHANGED <<ntasks, i, len, woken, event, armed, pollbit>>

(* Top of the loop: task_woken := false; poll main if its flag is set; then *)
(* take the snapshot (A) of the table length, after main's poll.           *)
PollMain ==
  /\ pc = "main"
  /\ ready[Main]
  /\ \/ /\ Pending(Main)
        /\ pc' = "tasks"
        /\ woken' = TRUE
        /\ i' = 1
        /\ len' = ntasks'
        /\ UNCHANGED inBlockOn
     \/ MainReady
     \/ PollAborts(Main)

SkipMain ==
  /\ pc = "main"
  /\ ~ready[Main]
  /\ pc' = "tasks"
  /\ woken' = FALSE
  /\ i' = 1
  /\ len' = ntasks
  /\ UNCHANGED <<inBlockOn, ntasks, ready, event, armed, wanted, pollbit>>

(* Mutant: the scan polls tasks[i] without looking at its flag.             *)
PollTaskUnchecked ==
  /\ pc = "tasks"
  /\ i <= len
  /\ \/ Pending(i) /\ woken' = TRUE /\ i' = i + 1 /\ UNCHANGED <<inBlockOn, pc, len>>
     \/ PollAborts(i)

(* One iteration of `for i in 0..len` over a task whose flag is set.        *)
PollTask ==
  /\ pc = "tasks"
  /\ i <= len
  /\ ready[i]
  /\ \/ Pending(i) /\ woken' = TRUE /\ i' = i + 1 /\ UNCHANGED <<inBlockOn, pc, len>>
     \/ PollAborts(i)

SkipTask ==
  /\ pc = "tasks"
  /\ i <= len
  /\ ~ready[i]
  /\ i' = i + 1
  /\ UNCHANGED <<inBlockOn, ntasks, ready, pc, len, woken, event, armed, wanted, pollbit>>

(* After the scan: another round if any future was polled, else sleep.     *)
EndRound ==
  /\ pc = "tasks"
  /\ i > len
  /\ \/ woken /\ pc' = "main"
     \/ ~woken /\ pc' = "wfe"
  /\ UNCHANGED <<inBlockOn, ntasks, ready, i, len, woken, event, armed, wanted, pollbit>>

(* Mutant: wait_for_event sleeps whatever the latch holds.                 *)
WaitForEventBlind ==
  /\ pc = "wfe"
  /\ pc' = "asleep"
  /\ UNCHANGED <<inBlockOn, ntasks, ready, i, len, woken, event, armed, wanted, pollbit>>

(* Mutant: WFE returns on a set event register without consuming it.       *)
WaitForEventSticky ==
  /\ pc = "wfe"
  /\ \/ event /\ pc' = "main" /\ UNCHANGED event
     \/ ~event /\ pc' = "asleep" /\ UNCHANGED event
  /\ UNCHANGED <<inBlockOn, ntasks, ready, i, len, woken, armed, wanted, pollbit>>

(* wait_for_event: return at once if the latch is set, else sleep until an *)
(* interrupt.                                                              *)
WaitForEvent ==
  /\ pc = "wfe"
  /\ \/ event /\ event' = LatchAfterSkip /\ pc' = "main"
     \/ ~event /\ pc' = "asleep" /\ UNCHANGED event
  /\ UNCHANGED <<inBlockOn, ntasks, ready, i, len, woken, armed, wanted, pollbit>>

(* A driver's one-shot interrupt: it wakes the task whose waker it holds   *)
(* and masks itself; if the core was asleep, the loop resumes.             *)
Interrupt(t) ==
  /\ t \in armed
  /\ pc # "aborted"
  /\ armed' = armed \ {t}
  /\ ready' = [ready EXCEPT ![t] = TRUE]
  /\ wanted' = wanted \cup {t}
  /\ event' = IsrLatch
  /\ pc' = IF pc = "asleep" THEN "main" ELSE pc
  /\ UNCHANGED <<inBlockOn, ntasks, i, len, woken, pollbit>>

Foreground == PollMain \/ SkipMain \/ PollTask \/ SkipTask \/ EndRound \/ WaitForEvent

Next ==
  \/ Spawn
  \/ BlockOn
  \/ Foreground
  \/ \E t \in Ids : Interrupt(t)

(* The foreground never stops while it is not asleep; user code outside    *)
(* block_on and the interrupts are not assumed to happen.                  *)
Spec == Init /\ [][Next]_vars /\ WF_vars(Foreground)
-----------------------------------------------------------------------------
TypeOK ==
  /\ inBlockOn \in BOOLEAN
  /\ ntasks \in 0..NTASKS
  /\ ready \in [Ids -> BOOLEAN]
  /\ pc \in {"idle", "main", "tasks", "wfe", "asleep", "aborted"}
  /\ i \in 1..NTASKS + 1
  /\ len \in 0..NTASKS
  /\ woken \in BOOLEAN
  /\ event \in BOOLEAN
  /\ armed \subseteq Ids
  /\ wanted \subseteq Ids
  /\ pollbit \in [Ids -> BOOLEAN]

(* The core only sleeps when no flag is set: a wake that lands after the   *)
(* scan read its flag (an interrupt between the scan and wait_for_event)   *)
(* must leave the latch set, so that wait_for_event does not sleep on it.  *)
SleepOnlyWhenIdle == pc = "asleep" => \A t \in Ids : ~ready[t]

(* No lost wakes (spec P2): a task woken by a yield, a notify, an interrupt *)
(* or spawn, at any time during its poll or after it, is polled again while *)
(* block_on runs.                                                           *)
WakeEventuallyPolled ==
  \A t \in Ids, b \in BOOLEAN :
    (t \in wanted /\ pollbit[t] = b) ~> (pollbit[t] # b \/ ~Running)

(* The executor does not spin: once no flag is set and no interrupt can     *)
(* set one, the loop reaches wait_for_event and the core sleeps.            *)
SleepsWhenIdle ==
  (Running /\ armed = {} /\ \A t \in Ids : ~ready[t]) ~> (pc = "asleep" \/ ~Running)
-----------------------------------------------------------------------------
(* The executor implements the abstract scheduler: block_on's loop, the    *)
(* snapshot of the table length, the scan and the sleep are refinements of  *)
(* "poll some future whose flag is set", and every such future is polled.  *)
Sched == INSTANCE Scheduler
           WITH phase <- IF pc = "aborted" THEN "aborted"
                         ELSE IF inBlockOn THEN "running" ELSE "idle"

SchedulerRefinement == Sched!Spec
=============================================================================
