-------------------------------- MODULE Twim --------------------------------
(***************************************************************************)
(* The nRF52 TWIM (I2C host) driver (nrf52/src/twim.rs) used by one task   *)
(* that loops on read, write and write_then_read transactions.  Each is a  *)
(* one-shot DMA future (Read, Write, WriteThenRead): its first poll masks  *)
(* the interrupt, aborts a transfer a forgotten future left running (if    *)
(* RXSTARTED or TXSTARTED is set: STOP, reset the events), starts the      *)
(* transfer, stores WAKER and unmasks; its later polls look at ERROR, then *)
(* STOPPED.  The handler wakes WAKER and masks itself.  ERROR and STOPPED  *)
(* are enabled in INTEN by init(); the line is level-sensitive and the     *)
(* NVIC pending bit latches while it is high.  When Forgettable, the task  *)
(* may mem::forget a pending future, the case the first poll defends       *)
(* against.  The transfer length is abstracted to "all bytes moved" or not.*)
(***************************************************************************)
EXTENDS Naturals

CONSTANT Forgettable   \* whether the task forgets pending futures

ASSUME Forgettable \in BOOLEAN

Kinds == {"read", "write", "write_then_read"}

VARIABLES
  tpc,        \* the task's future: "idle" (none / NotStarted) or "InProgress"
  kind,       \* which of the three futures is pending
  busy,       \* the TWIM runs the current DMA transfer
  stopping,   \* STOP was triggered on a running transfer; its STOPPED is to come
  error,      \* EVENTS_ERROR
  stopped,    \* EVENTS_STOPPED
  rxstarted,  \* EVENTS_RXSTARTED
  txstarted,  \* EVENTS_TXSTARTED
  pend,       \* NVIC pending bit of the TWIM interrupt
  masked,     \* the TWIM interrupt disabled in the NVIC
  waker,      \* WAKER is Some (the task's waker)
  ready,      \* the task's ready flag
  halted,     \* a panic stopped the program (Drop's todo!())
  raised      \* ghost: the events the current transfer itself raised

vars == <<tpc, kind, busy, stopping, error, stopped, rxstarted, txstarted,
          pend, masked, waker, ready, halted, raised>>

Init ==
  /\ tpc = "idle" /\ kind = "read"
  /\ busy = FALSE /\ stopping = FALSE
  /\ error = FALSE /\ stopped = FALSE /\ rxstarted = FALSE /\ txstarted = FALSE
  /\ pend = FALSE /\ masked = TRUE /\ waker = FALSE
  /\ ready = TRUE /\ halted = FALSE /\ raised = {}
-----------------------------------------------------------------------------
(* The interrupt line: an enabled event is set.                            *)
Line == error \/ stopped

(* The STARTED events a transfer of kind k raises (write_then_read starts  *)
(* TX, and RX through the LASTTX_STARTRX short).                           *)
Started(k) == CASE k = "read"  -> [rx |-> TRUE,  tx |-> FALSE]
              []   k = "write" -> [rx |-> FALSE, tx |-> TRUE]
              []   OTHER       -> [rx |-> TRUE,  tx |-> TRUE]

(* The first poll, NotStarted: mask; if a transfer was started and never  *)
(* handled, trigger STOP and reset ERROR and STOPPED; start the transfer, *)
(* store WAKER, unmask; Pending.                                           *)
Start ==
  /\ tpc = "idle" /\ ready
  /\ \E k \in Kinds :
       /\ kind' = k
       /\ rxstarted' = (rxstarted \/ Started(k).rx)
       /\ txstarted' = (txstarted \/ Started(k).tx)
  /\ IF rxstarted \/ txstarted
       THEN /\ stopping' = (stopping \/ busy)
            /\ error' = FALSE /\ stopped' = FALSE
       ELSE UNCHANGED <<stopping, error, stopped>>
  /\ busy' = TRUE
  /\ raised' = {}
  /\ waker' = TRUE /\ masked' = FALSE
  /\ tpc' = "InProgress"
  /\ ready' = FALSE
  /\ UNCHANGED <<pend, halted>>

(* The STARTED events a completed poll of kind k resets.                    *)
ResetStarted(k) ==
  /\ rxstarted' = (rxstarted /\ ~Started(k).rx)
  /\ txstarted' = (txstarted /\ ~Started(k).tx)

(* ERROR set: reset STOPPED and the STARTED events (not ERROR), Finished,  *)
(* Ready(Err).  The interrupt stays as it is and WAKER keeps its waker.    *)
ErrorPath ==
  /\ error
  /\ stopped' = FALSE /\ ResetStarted(kind)
  /\ tpc' = "idle"
  /\ UNCHANGED <<error, masked, waker, halted>>

(* Mutant: WAKER is taken without masking the interrupt first.             *)
StoppedPathUnmasked ==
  /\ ~error /\ stopped
  /\ stopped' = FALSE /\ ResetStarted(kind)
  /\ waker' = FALSE
  /\ UNCHANGED masked
  /\ IF kind = "write_then_read" /\ busy
       THEN halted' = TRUE /\ UNCHANGED tpc
       ELSE tpc' = "idle" /\ UNCHANGED halted
  /\ UNCHANGED error

(* STOPPED set: reset it and the STARTED events, mask, take WAKER, compare *)
(* AMOUNT with the length.  A transfer still running has moved fewer bytes *)
(* (ShortRead/ShortWrite).  Read and Write return Finished; the short      *)
(* returns of WriteThenRead skip `state = Finished`, so dropping the       *)
(* completed future runs Drop's todo!() on InProgress.                     *)
StoppedPath ==
  /\ ~error /\ stopped
  /\ stopped' = FALSE /\ ResetStarted(kind)
  /\ masked' = TRUE /\ waker' = FALSE
  /\ IF kind = "write_then_read" /\ busy
       THEN halted' = TRUE /\ UNCHANGED tpc
       ELSE tpc' = "idle" /\ UNCHANGED halted
  /\ UNCHANGED error

(* Mutant: a spurious wake-up returns Pending without re-arming.           *)
PollNoRearm ==
  /\ tpc = "InProgress" /\ ready
  /\ \/ (ErrorPath \/ StoppedPath) /\ UNCHANGED ready
     \/ /\ ~error /\ ~stopped
        /\ ready' = FALSE
        /\ UNCHANGED <<tpc, error, stopped, rxstarted, txstarted, masked, waker, halted>>
  /\ UNCHANGED <<kind, busy, stopping, pend, raised>>

(* A poll of the pending future.  With neither event the wake was spurious:*)
(* unmask (re-arm) and return Pending.  After Ready the loop goes on.      *)
Poll ==
  /\ tpc = "InProgress" /\ ready
  /\ \/ (ErrorPath \/ StoppedPath) /\ UNCHANGED ready
     \/ /\ ~error /\ ~stopped
        /\ masked' = FALSE /\ ready' = FALSE
        /\ UNCHANGED <<tpc, error, stopped, rxstarted, txstarted, waker, halted>>
  /\ UNCHANGED <<kind, busy, stopping, pend, raised>>

(* The task mem::forgets the pending future: no Drop, WAKER, the unmasked *)
(* interrupt and the transfer stay.  The loop goes on.                     *)
Forget ==
  /\ Forgettable /\ tpc = "InProgress" /\ ready
  /\ tpc' = "idle"
  /\ UNCHANGED <<kind, busy, stopping, error, stopped, rxstarted, txstarted,
                 pend, masked, waker, ready, halted, raised>>

(* The current transfer ends: all bytes moved and the STOP short raised    *)
(* STOPPED, or the device NACKed and ERROR is raised (nothing triggers a   *)
(* STOP after it).                                                          *)
TransferEnd ==
  /\ busy
  /\ busy' = FALSE /\ pend' = TRUE
  /\ \/ stopped' = TRUE /\ raised' = raised \cup {"stopped"} /\ UNCHANGED error
     \/ error' = TRUE /\ raised' = raised \cup {"error"} /\ UNCHANGED stopped
  /\ UNCHANGED <<tpc, kind, stopping, rxstarted, txstarted, masked, waker,
                 ready, halted>>

(* The STOP triggered by a first poll takes effect on the bus: STOPPED.    *)
StopEnd ==
  /\ stopping
  /\ stopping' = FALSE /\ stopped' = TRUE /\ pend' = TRUE
  /\ UNCHANGED <<tpc, kind, busy, error, rxstarted, txstarted, masked, waker,
                 ready, halted, raised>>

(* The handler: wake WAKER and mask, or, with no waker, just return.  The  *)
(* line sets the pending bit again on exit while an event is still set.     *)
TWIM0 ==
  /\ pend /\ ~masked
  /\ pend' = Line
  /\ IF waker THEN ready' = TRUE /\ masked' = TRUE ELSE UNCHANGED <<ready, masked>>
  /\ UNCHANGED <<tpc, kind, busy, stopping, error, stopped, rxstarted,
                 txstarted, waker, halted, raised>>

(* Another future of the task (join!, a timer) sets its flag.              *)
SpuriousWake ==
  /\ ~ready
  /\ ready' = TRUE
  /\ UNCHANGED <<tpc, kind, busy, stopping, error, stopped, rxstarted,
                 txstarted, pend, masked, waker, halted, raised>>

(* After the panic the program is stopped (panic-udf).                     *)
Halted == halted /\ UNCHANGED vars

Task == ~halted /\ (Start \/ Poll \/ Forget)

Next == Task \/ Halted \/ (~halted /\ (TransferEnd \/ StopEnd \/ TWIM0 \/ SpuriousWake))

(* The executor polls the task while its flag is set; an unmasked pending  *)
(* interrupt is taken; a transfer and a STOP end on the bus in bounded time.*)
Spec == Init /\ [][Next]_vars /\ WF_vars(Task) /\ WF_vars(~halted /\ TWIM0)
          /\ WF_vars(~halted /\ TransferEnd) /\ WF_vars(~halted /\ StopEnd)
-----------------------------------------------------------------------------
(* The interrupt is unmasked only while WAKER holds a waker (the code's    *)
(* note: the interrupt must be disabled before the waker is taken down);   *)
(* otherwise an event would re-enter a handler that cannot mask itself.    *)
UnmaskedOnlyWithWaker == ~masked => waker

(* Every transaction eventually returns (or the program has panicked).     *)
TransactionReturns == tpc = "InProgress" ~> (tpc = "idle" \/ halted)

(* A transaction's result is about its own transfer: a poll returns Err    *)
(* only on an ERROR this transfer raised, and Ok/Short only on the STOPPED *)
(* it raised, the buffer then no longer in the DMA's hands.                *)
ResultIsOwn ==
  [][(tpc = "InProgress" /\ ready /\ ~halted /\ (ErrorPath \/ StoppedPath))
       => IF error THEN "error" \in raised ELSE "stopped" \in raised /\ ~busy]_vars
=============================================================================
