----------------------------- MODULE MCDrivers -----------------------------
(***************************************************************************)
(* The UARTE and TWIM drivers side by side, as 8-sensor.rs and 9-clock.rs  *)
(* run them: each has its own tasks, statics and interrupt, and a panic of *)
(* the TWIM task (Drop's todo!()) stops the whole program, the serial      *)
(* tasks with it.  The models share no variable: their NVIC bits and       *)
(* ready flags are renamed apart.                                          *)
(***************************************************************************)
EXTENDS Naturals

CONSTANTS Chunks, Forgettable

VARIABLES
  rstate, wstate, rxBusy, txBusy, endrx, endtx, upend, umasked, rxWaker,
  txWaker, chunks, uready,
  tpc, kind, busy, stopping, error, stopped, rxstarted, txstarted, tpend,
  tmasked, waker, tready, halted, raised

svars == <<rstate, wstate, rxBusy, txBusy, endrx, endtx, upend, umasked,
           rxWaker, txWaker, chunks, uready>>
tvars == <<tpc, kind, busy, stopping, error, stopped, rxstarted, txstarted,
           tpend, tmasked, waker, tready, halted, raised>>
vars == <<svars, tvars>>

U == INSTANCE Serial WITH pend <- upend, masked <- umasked, ready <- uready
T == INSTANCE Twim WITH pend <- tpend, masked <- tmasked, ready <- tready

Init == U!Init /\ T!Init

(* A serial step; after a panic nothing runs.                              *)
SerialStep(A) == ~halted /\ A /\ UNCHANGED tvars

TwimStep(A) == A /\ UNCHANGED svars

Next == SerialStep(U!Next) \/ TwimStep(T!Next)

(* The fairness of each model: the executor polls each task whose flag is  *)
(* set, an unmasked pending interrupt is taken, and transfers end.         *)
Spec ==
  /\ Init /\ [][Next]_vars
  /\ WF_vars(SerialStep(U!PollR)) /\ WF_vars(SerialStep(U!PollW))
  /\ WF_vars(SerialStep(U!UARTE0_UART0)) /\ WF_vars(SerialStep(U!TxEnd))
  /\ WF_vars(TwimStep(T!Task)) /\ WF_vars(TwimStep(~halted /\ T!TWIM0))
  /\ WF_vars(TwimStep(~halted /\ T!TransferEnd))
  /\ WF_vars(TwimStep(~halted /\ T!StopEnd))
-----------------------------------------------------------------------------
(* UARTE: a task waiting on a transfer has its waker stored and the shared *)
(* interrupt unmasked, whatever the other direction did.                  *)
WaiterArmed == U!WaiterArmed

(* A write() eventually returns, all its chunks sent: the shared           *)
(* interrupt, masked by the handler or by a completed read, still gets     *)
(* each ENDTX to the writer's flag, and the next Write::poll sees it.      *)
(* Only a panic of another task stops it.                                  *)
WriteCompletes == wstate = "InProgress" ~> (wstate = "idle" \/ halted)

(* Once its buffer is full (ENDRX set), a read() eventually returns,       *)
(* whatever the writer does with the shared interrupt meanwhile.           *)
ReadCompletes == (rstate = "InProgress" /\ endrx) ~> (rstate = "idle" \/ halted)

(* TWIM: the interrupt is unmasked only while WAKER holds a waker.         *)
UnmaskedOnlyWithWaker == T!UnmaskedOnlyWithWaker

(* TWIM: every transaction eventually returns, or the program panics.      *)
TransactionReturns == T!TransactionReturns
=============================================================================
