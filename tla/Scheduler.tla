----------------------------- MODULE Scheduler -----------------------------
(***************************************************************************)
(* What the executor promises to the futures it drives (spec 4.3, 5): a    *)
(* future is polled only while its ready flag is set and while block_on    *)
(* runs; its flag is cleared before the poll, so a wake issued during the  *)
(* poll survives it; each future with its flag set is eventually polled.   *)
(* In which order and when the core sleeps is left open.  The compositions *)
(* of the synchronisation primitives with the executor (Mutex, Channel)    *)
(* poll tasks according to this specification.                            *)
(***************************************************************************)
EXTENDS Naturals

CONSTANT NTASKS

Main  == 0
Slots == 1..NTASKS
Ids   == {Main} \cup Slots

VARIABLES
  phase,   \* "idle" (outside block_on), "running", "aborted"
  ntasks,  \* number of spawned tasks
  ready,   \* the ready flags
  armed,   \* tasks a driver interrupt will wake
  pollbit  \* flipped at every poll

avars == <<phase, ntasks, ready, armed, pollbit>>

Spawned == {Main} \cup 1..ntasks

(* Flags after a poll of t that issued the wakes W.                        *)
AfterPoll(t, W) == [x \in Ids |-> x \in W \/ (ready[x] /\ x # t)]

Init ==
  /\ phase = "idle"
  /\ ntasks = 0
  /\ ready = [x \in Ids |-> FALSE]
  /\ armed = {}
  /\ pollbit = [x \in Ids |-> FALSE]

Spawn ==
  /\ phase = "idle"
  /\ \/ /\ ntasks < NTASKS
        /\ ntasks' = ntasks + 1
        /\ ready' = [ready EXCEPT ![ntasks + 1] = TRUE]
        /\ UNCHANGED phase
     \/ phase' = "aborted" /\ UNCHANGED <<ntasks, ready>>
  /\ UNCHANGED <<armed, pollbit>>

BlockOn ==
  /\ phase = "idle"
  /\ phase' = "running"
  /\ ready' = [ready EXCEPT ![Main] = TRUE]
  /\ UNCHANGED <<ntasks, armed, pollbit>>

(* A poll of a ready future: it may wake any spawned future (itself        *)
(* included), hand its waker to a driver, spawn, complete (main) or abort. *)
Poll(t) ==
  /\ phase = "running"
  /\ ready[t]
  /\ pollbit' = [pollbit EXCEPT ![t] = ~@]
  /\ \/ \E W \in SUBSET Spawned, A \in {armed, armed \cup {t}} :
          /\ ready' = AfterPoll(t, W)
          /\ armed' = A
          /\ UNCHANGED <<phase, ntasks>>
     \/ /\ ntasks < NTASKS
        /\ ntasks' = ntasks + 1
        /\ ready' = AfterPoll(t, {ntasks + 1})
        /\ UNCHANGED <<phase, armed>>
     \/ /\ t = Main
        /\ Main \notin armed
        /\ phase' = "idle"
        /\ ready' = AfterPoll(t, {})
        /\ UNCHANGED <<ntasks, armed>>
     \/ phase' = "aborted" /\ ready' = AfterPoll(t, {}) /\ UNCHANGED <<ntasks, armed>>

Interrupt(t) ==
  /\ phase # "aborted"
  /\ t \in armed
  /\ armed' = armed \ {t}
  /\ ready' = [ready EXCEPT ![t] = TRUE]
  /\ UNCHANGED <<phase, ntasks, pollbit>>

Next ==
  \/ Spawn
  \/ BlockOn
  \/ \E t \in Ids : Poll(t) \/ Interrupt(t)

(* Every future whose flag stays set is eventually polled.                 *)
Spec == Init /\ [][Next]_avars /\ \A t \in Ids : WF_avars(Poll(t))
=============================================================================
