------------------------------- MODULE Timer -------------------------------
(***************************************************************************)
(* The nRF52 RTC timer driver (nrf52/src/timer.rs) used by the main future *)
(* of a block_on: Timer::wait programs compare register CC[0] and awaits a *)
(* Wait future, whose poll installs its waker in the static WAKER and      *)
(* unmasks RTC0; the RTC0 handler wakes WAKER once and masks itself.       *)
(* The RTC counter runs on its own clock (CMod values standing for 2^24)   *)
(* and its COMPARE event is raised when the counter reaches CC; RTC0 runs  *)
(* whenever that event is set and RTC0 is unmasked (INTENSET.COMPARE0 is   *)
(* set once in init).  The foreground steps of wait() are separate steps,  *)
(* as the counter can advance between two register accesses.  When         *)
(* Droppable, the future may drop a pending Wait (select!, a timeout);     *)
(* Wait has no Drop impl.                                                 *)
(***************************************************************************)
EXTENDS Naturals

CONSTANTS
  CMod,       \* values of the RTC counter (2^24 on the chip)
  Durations,  \* the tick counts wait() is called with
  Droppable   \* whether the future drops pending Wait futures

ASSUME Durations \subseteq 0..CMod - 1 /\ Droppable \in BOOLEAN

NoWaker == "none"

VARIABLES
  counter,    \* RTC0 COUNTER
  cc,         \* RTC0 CC[0]
  evt,        \* RTC0 EVENTS_COMPARE[0]
  masked,     \* RTC0 disabled in the NVIC
  waker,      \* the static WAKER: NoWaker or "main" (block_on's flag)
  ready,      \* block_on's `ready` flag of the main future
  wpc,        \* "idle", "arming" (inside wait(), CC not yet written),
              \* "waiting" (a Wait pending), "done" (block_on returned)
  now,        \* the counter value wait() read
  ticks,      \* the ticks of the current wait()
  elapsed,    \* ghost: counter steps since wait() read `now` (capped at CMod)
  dangling    \* ghost: RTC0 stored into the flag of a returned block_on

vars == <<counter, cc, evt, masked, waker, ready, wpc, now, ticks,
          elapsed, dangling>>

Init ==
  /\ counter = 0       \* init(): TASKS_CLEAR, TASKS_START
  /\ cc = 0            \* reset value
  /\ evt = FALSE
  /\ masked = TRUE
  /\ waker = NoWaker
  /\ ready = TRUE
  /\ wpc = "idle"
  /\ now = 0 /\ ticks = 0 /\ elapsed = 0
  /\ dangling = FALSE
-----------------------------------------------------------------------------
(* The RTC counts; reaching CC raises the COMPARE event.                   *)
Tick ==
  /\ counter' = (counter + 1) % CMod
  /\ evt' = (evt \/ counter' = cc)
  /\ elapsed' = IF elapsed < CMod THEN elapsed + 1 ELSE elapsed
  /\ UNCHANGED <<cc, masked, waker, ready, wpc, now, ticks, dangling>>

(* The RTC0 handler: wake WAKER and mask the one-shot interrupt; with no   *)
(* waker it returns with the event still set (and is entered again).       *)
RTC0 ==
  /\ evt /\ ~masked
  /\ waker # NoWaker
  /\ ready' = TRUE
  /\ dangling' = (dangling \/ wpc = "done")
  /\ masked' = TRUE
  /\ UNCHANGED <<counter, cc, evt, waker, wpc, now, ticks, elapsed>>

(* A poll of the main future begins with its flag cleared; it calls        *)
(* wait(d): mask RTC0, read the counter, reset the COMPARE event.          *)
StartWait ==
  /\ wpc = "idle"
  /\ \E d \in Durations : ticks' = d
  /\ ready' = FALSE
  /\ masked' = TRUE
  /\ now' = counter
  /\ evt' = FALSE
  /\ elapsed' = 0
  /\ wpc' = "arming"
  /\ UNCHANGED <<counter, cc, waker, dangling>>

(* Mutant: installing the waker does not unmask RTC0.                      *)
WaitPollNoUnmask(flag) ==
  \/ /\ evt
     /\ evt' = FALSE
     /\ wpc' = "idle"
     /\ ready' = TRUE
     /\ UNCHANGED <<masked, waker>>
  \/ /\ ~evt
     /\ waker' = "main"
     /\ wpc' = "waiting"
     /\ ready' = flag
     /\ UNCHANGED <<evt, masked>>

(* Wait::poll.  has_expired reads and resets the COMPARE event; if it was *)
(* set the Wait is Ready and the future goes on (it yields).  Otherwise   *)
(* the waker is stored in WAKER and RTC0 unmasked; Pending.  The field    *)
(* installed_waker is initialised to false and never assigned, so every   *)
(* poll takes the `!self.installed_waker` branches: the uninstall on the  *)
(* expired path (mask, WAKER.take) and the re-arm branch never run, and   *)
(* WAKER is never cleared.  `flag` is main's flag as the poll found it,   *)
(* after the executor cleared it.                                         *)
WaitPoll(flag) ==
  \/ /\ evt
     /\ evt' = FALSE
     /\ wpc' = "idle"
     /\ ready' = TRUE
     /\ UNCHANGED <<masked, waker>>
  \/ /\ ~evt
     /\ waker' = "main"
     /\ masked' = FALSE
     /\ wpc' = "waiting"
     /\ ready' = flag
     /\ UNCHANGED evt

(* The rest of wait(): CC[0] := now + ticks (wrapping), then the new Wait  *)
(* (installed_waker = false) is polled, in the same poll of main.          *)
ArmCompare ==
  /\ wpc = "arming"
  /\ cc' = (now + ticks) % CMod
  /\ WaitPoll(ready)
  /\ UNCHANGED <<counter, now, ticks, elapsed, dangling>>

(* The pending Wait is polled again when the flag is set.                  *)
RetryWait ==
  /\ wpc = "waiting"
  /\ ready
  /\ WaitPoll(FALSE)
  /\ UNCHANGED <<counter, cc, now, ticks, elapsed, dangling>>

(* The future drops its pending Wait (the other branch of a select! won);  *)
(* WAKER and the unmasked RTC0 stay as they are.  The future goes on.      *)
DropWait ==
  /\ Droppable
  /\ wpc = "waiting" /\ ready
  /\ wpc' = "idle"
  /\ UNCHANGED <<counter, cc, evt, masked, waker, ready, now, ticks, elapsed,
                 dangling>>

(* The main future returns: block_on's frame, and its flag, are gone.      *)
Finish ==
  /\ wpc = "idle" /\ ready
  /\ wpc' = "done"
  /\ ready' = FALSE
  /\ UNCHANGED <<counter, cc, evt, masked, waker, now, ticks,
                 elapsed, dangling>>

(* Another future joined with the Wait sets main's flag.                   *)
SpuriousWake ==
  /\ wpc = "waiting" /\ ~ready
  /\ ready' = TRUE
  /\ UNCHANGED <<counter, cc, evt, masked, waker, wpc, now, ticks,
                 elapsed, dangling>>

(* A COMPARE event with RTC0 unmasked pends the interrupt in the NVIC,    *)
(* which preempts thread mode before its next instruction.                *)
RTC0Pending == evt /\ ~masked

(* The steps of block_on polling main, in thread mode: a poll starts only *)
(* with the flag set; ArmCompare continues the poll StartWait began.      *)
Foreground ==
  /\ ~RTC0Pending
  /\ \/ ready /\ (StartWait \/ RetryWait \/ DropWait \/ Finish)
     \/ ArmCompare

Next == Foreground \/ Tick \/ RTC0 \/ SpuriousWake

(* The RTC always counts (LFCLK started in init), an unmasked pending RTC0 *)
(* is taken, and block_on polls main while its flag is set.                *)
Spec == Init /\ [][Next]_vars /\ WF_vars(Tick) /\ WF_vars(RTC0) /\ WF_vars(Foreground)
-----------------------------------------------------------------------------
(* Timer::wait "waits for at least `dur`": a Wait returns Ready (its poll *)
(* finds and resets the COMPARE event) only once the counter has advanced  *)
(* `ticks` times since wait() read it.                                     *)
WaitAtLeast ==
  [][(wpc \in {"arming", "waiting"} /\ wpc' = "idle" /\ evt /\ ~evt')
        => elapsed >= ticks]_vars

(* A pending Wait is eventually done with: the RTC0 wake reaches it and    *)
(* its next poll sees the event, or the future drops it.                   *)
WaitEventuallyReturns == wpc = "waiting" ~> wpc # "waiting"

(* RTC0 never stores into the flag of a block_on that has returned (the   *)
(* stack slot of its `ready` is reused).                                   *)
NoDanglingWake == ~dangling
====
