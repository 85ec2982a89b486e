------------------------------- MODULE Serial -------------------------------
(***************************************************************************)
(* The nRF52 UARTE driver (nrf52/src/serial.rs): Rx::read and Tx::write    *)
(* each await a one-shot DMA future (Read, Write) whose first poll resets  *)
(* its END event, installs its waker in RX_WAKER / TX_WAKER with the       *)
(* interrupt masked, unmasks it and starts the transfer, and whose later   *)
(* polls look at the END event.  Both directions share one interrupt,      *)
(* UARTE0_UART0, whose handler wakes every installed waker and masks the   *)
(* interrupt.  A reader task R loops on read() and a writer task W loops   *)
(* on write(); each is polled by the executor only with its flag set, the  *)
(* flag cleared before the poll.  ENDRX and ENDTX are enabled in INTEN by  *)
(* init(); the interrupt line is level-sensitive and its NVIC pending bit  *)
(* latches while the line is high, masked or not.                          *)
(***************************************************************************)
EXTENDS Naturals

CONSTANT Chunks   \* most Write futures one write() runs (128-byte chunks)

ASSUME Chunks \in Nat \ {0}

Tasks == {"R", "W"}

VARIABLES
  rstate,   \* the reader's Read future: "idle" (none / NotStarted), "InProgress"
  wstate,   \* the writer's Write future: "idle", "InProgress"
  rxBusy,   \* the RX DMA transfer is running (TASKS_STARTRX written, not ended)
  txBusy,   \* the TX DMA transfer is running
  endrx,    \* EVENTS_ENDRX
  endtx,    \* EVENTS_ENDTX
  pend,     \* NVIC pending bit of UARTE0_UART0
  masked,   \* UARTE0_UART0 disabled in the NVIC
  rxWaker,  \* RX_WAKER is Some (it is always the reader's waker)
  txWaker,  \* TX_WAKER is Some (always the writer's waker)
  chunks,   \* Write futures left in the current write(), the pending one included
  ready     \* the tasks' ready flags

vars == <<rstate, wstate, rxBusy, txBusy, endrx, endtx, pend, masked, rxWaker,
          txWaker, chunks, ready>>

Init ==
  /\ rstate = "idle" /\ wstate = "idle"
  /\ rxBusy = FALSE /\ txBusy = FALSE
  /\ endrx = FALSE /\ endtx = FALSE
  /\ pend = FALSE
  /\ masked = TRUE          \* nothing unmasks UARTE0_UART0 before a poll
  /\ rxWaker = FALSE /\ txWaker = FALSE
  /\ chunks = 0
  /\ ready = [t \in Tasks |-> TRUE]
-----------------------------------------------------------------------------
(* The interrupt line: an enabled END event is set.                        *)
Line == endrx \/ endtx

(* Flags after a poll of task t that returned with its flag `f`.            *)
AfterPoll(t, f) == [ready EXCEPT ![t] = f]

(* Read::poll in NotStarted (non-empty buffer): reset ENDRX, mask, store    *)
(* RX_WAKER, unmask, TASKS_STARTRX; Pending.                               *)
StartRead ==
  /\ rstate = "idle" /\ ready["R"]
  /\ endrx' = FALSE
  /\ rxWaker' = TRUE
  /\ masked' = FALSE
  /\ rxBusy' = TRUE
  /\ rstate' = "InProgress"
  /\ ready' = AfterPoll("R", FALSE)
  /\ UNCHANGED <<wstate, txBusy, endtx, pend, txWaker, chunks>>

(* Mutant: completing a read leaves the interrupt masked.                  *)
ReadDoneNoUnmask ==
  /\ endrx' = FALSE
  /\ rxWaker' = FALSE
  /\ masked' = TRUE
  /\ rstate' = "idle"

(* Read::poll in InProgress with ENDRX set: reset ENDRX, mask, take        *)
(* RX_WAKER, unmask again if TX_WAKER is Some (the TX side may still need  *)
(* the interrupt); Ready, and the loop goes on to its next read().         *)
ReadDone ==
  /\ endrx' = FALSE
  /\ rxWaker' = FALSE
  /\ masked' = ~txWaker
  /\ rstate' = "idle"

(* Read::poll in InProgress.  Without ENDRX the wake was spurious: unmask  *)
(* (re-arm the one-shot interrupt); Pending.                                *)
PollRead ==
  /\ rstate = "InProgress" /\ ready["R"]
  /\ \/ endrx /\ ReadDone /\ ready' = ready
     \/ ~endrx /\ masked' = FALSE /\ ready' = AfterPoll("R", FALSE)
               /\ UNCHANGED <<endrx, rxWaker, rstate>>
  /\ UNCHANGED <<wstate, rxBusy, txBusy, endtx, pend, txWaker, chunks>>

(* Write::poll in NotStarted (non-empty bytes): reset ENDTX, mask, store   *)
(* TX_WAKER, unmask, TASKS_STARTTX; Pending.                                *)
WriteFromRam ==
  /\ endtx' = FALSE
  /\ txWaker' = TRUE
  /\ masked' = FALSE
  /\ txBusy' = TRUE
  /\ wstate' = "InProgress"
  /\ ready' = AfterPoll("W", FALSE)

(* write(): a slice in RAM is one Write; one outside RAM is copied to the *)
(* stack and written one 128-byte chunk after the other.                   *)
StartWrite ==
  /\ wstate = "idle" /\ ready["W"]
  /\ \E n \in 1..Chunks : chunks' = n
  /\ WriteFromRam
  /\ UNCHANGED <<rstate, rxBusy, endrx, pend, rxWaker>>

(* Mutant: completing a write leaves the interrupt masked.                 *)
WriteDoneNoUnmask ==
  /\ endtx' = FALSE
  /\ txWaker' = FALSE
  /\ masked' = TRUE
  /\ wstate' = "idle"

(* Write::poll in InProgress with ENDTX set: reset ENDTX, mask, take       *)
(* TX_WAKER, unmask again if RX_WAKER is Some; Ready.                       *)
WriteDone ==
  /\ endtx' = FALSE
  /\ txWaker' = FALSE
  /\ masked' = ~rxWaker
  /\ wstate' = "idle"

(* Write::poll in InProgress; without ENDTX, re-arm and return Pending.    *)
(* After the last chunk write() returns; otherwise, in the same poll, the  *)
(* loop copies the next chunk and polls its new Write.                     *)
PollWrite ==
  /\ wstate = "InProgress" /\ ready["W"]
  /\ \/ /\ endtx /\ chunks = 1
        /\ WriteDone /\ ready' = ready /\ chunks' = 0
        /\ UNCHANGED txBusy
     \/ /\ endtx /\ chunks > 1
        /\ chunks' = chunks - 1
        /\ WriteFromRam
     \/ /\ ~endtx /\ masked' = FALSE /\ ready' = AfterPoll("W", FALSE)
        /\ UNCHANGED <<endtx, txWaker, wstate, txBusy, chunks>>
  /\ UNCHANGED <<rstate, rxBusy, endrx, pend, rxWaker>>

(* The RX DMA has filled the buffer: ENDRX is raised and the line latches  *)
(* the pending bit.                                                        *)
RxEnd ==
  /\ rxBusy
  /\ rxBusy' = FALSE /\ endrx' = TRUE /\ pend' = TRUE
  /\ UNCHANGED <<rstate, wstate, txBusy, endtx, masked, rxWaker, txWaker, chunks, ready>>

(* The TX DMA has sent the bytes: ENDTX is raised.                         *)
TxEnd ==
  /\ txBusy
  /\ txBusy' = FALSE /\ endtx' = TRUE /\ pend' = TRUE
  /\ UNCHANGED <<rstate, wstate, rxBusy, endrx, masked, rxWaker, txWaker, chunks, ready>>

(* Mutant: the handler wakes the TX waker only when there is no RX waker.  *)
UARTE0_UART0_ElseIf ==
  /\ pend /\ ~masked
  /\ ready' = [t \in Tasks |-> ready[t] \/ (t = "R" /\ rxWaker)
                                        \/ (t = "W" /\ txWaker /\ ~rxWaker)]
  /\ masked' = (rxWaker \/ txWaker)
  /\ pend' = Line
  /\ UNCHANGED <<rstate, wstate, rxBusy, txBusy, endrx, endtx, rxWaker, txWaker, chunks>>

(* UARTE0_UART0: wake RX_WAKER if Some, wake TX_WAKER if Some, and mask    *)
(* the interrupt if a waker ran.  Taking it clears the pending bit, which  *)
(* the line sets again on exit while an END event is still high.           *)
UARTE0_UART0 ==
  /\ pend /\ ~masked
  /\ ready' = [t \in Tasks |-> ready[t] \/ (t = "R" /\ rxWaker)
                                        \/ (t = "W" /\ txWaker)]
  /\ masked' = (rxWaker \/ txWaker)
  /\ pend' = Line
  /\ UNCHANGED <<rstate, wstate, rxBusy, txBusy, endrx, endtx, rxWaker, txWaker, chunks>>

(* Other futures of a task (join!, a timer) set its flag.                  *)
SpuriousWake(t) ==
  /\ ~ready[t]
  /\ ready' = [ready EXCEPT ![t] = TRUE]
  /\ UNCHANGED <<rstate, wstate, rxBusy, txBusy, endrx, endtx, pend, masked,
                 rxWaker, txWaker, chunks>>

PollR == StartRead \/ PollRead
PollW == StartWrite \/ PollWrite

Next ==
  \/ PollR \/ PollW
  \/ RxEnd \/ TxEnd
  \/ UARTE0_UART0
  \/ \E t \in Tasks : SpuriousWake(t)

(* The executor polls a task whose flag is set; an unmasked pending        *)
(* interrupt is taken; TX at a fixed baud rate always ends.  RX ends only  *)
(* when the peer sends enough bytes, so RxEnd gets no fairness.            *)
Spec == Init /\ [][Next]_vars /\ WF_vars(PollR) /\ WF_vars(PollW)
          /\ WF_vars(UARTE0_UART0) /\ WF_vars(TxEnd)
-----------------------------------------------------------------------------
(* A task waiting on a transfer (its future Pending, its flag clear) always *)
(* has its waker stored and the shared interrupt unmasked: neither the   *)
(* handler's mask nor the other direction's completion (ReadDone,        *)
(* WriteDone) may leave it without a wake-up.                            *)
WaiterArmed ==
  /\ (rstate = "InProgress" /\ ~ready["R"]) => (rxWaker /\ ~masked)
  /\ (wstate = "InProgress" /\ ~ready["W"]) => (txWaker /\ ~masked)
=============================================================================
