------------------------------ MODULE Channel ------------------------------
(***************************************************************************)
(* unsync::Channel (async-cortex-m unsync/channel.rs): a ring buffer of    *)
(* crate::NTASKS slots with usize read/write cursors and one waker         *)
(* registry per direction, shared by the main future and NSPAWN spawned    *)
(* tasks and polled as the Scheduler allows (a task runs only when its     *)
(* flag is set, the flag is cleared before the poll).  Tasks in Senders    *)
(* loop { send(x).await; yield }, the others loop { recv().await; yield }. *)
(* The payload is the sender's id.  When Cancellable, a task may drop its  *)
(* pending Send or Recv future (select!, a timeout); neither type has a    *)
(* Drop impl, so its registry entry stays behind.                          *)
(***************************************************************************)
EXTENDS Naturals, Sequences

CONSTANTS
  NTASKS,       \* crate::NTASKS: buffer capacity and registry capacity
  NSPAWN,       \* spawned tasks, besides the main future
  Senders,      \* the tasks that send; the others receive
  Width,        \* bits of usize
  MaxSends,     \* bound on the send() calls of a run
  Cancellable,  \* whether tasks drop pending channel futures
  None, Vacant, NoKey, Uninit

Tasks     == 0..NSPAWN
Receivers == Tasks \ Senders
Keys      == 0..NTASKS - 1
CAP       == NTASKS
Mod       == 2 ^ Width

ASSUME /\ NSPAWN \in 1..NTASKS /\ Senders \subseteq Tasks
       /\ NoKey \notin Keys /\ Uninit \notin Tasks /\ Cancellable \in BOOLEAN

VARIABLES
  ready,    \* the ready flags of the tasks
  tpc,      \* "idle", or "sending"/"receiving" while a future is pending
  key,      \* Send::opt_key / Recv::opt_key of the pending future
  buf,      \* Channel::buffer; Uninit for a slot not holding a message
  read,     \* Channel::read
  write,    \* Channel::write
  sendW,    \* Channel::send_wakers
  recvW,    \* Channel::recv_wakers
  aborted,  \* a registry insert panicked ("OOM")
  q,        \* ghost: the messages sent and not yet received, in order
  nsent     \* ghost: send() calls made so far

vars == <<ready, tpc, key, buf, read, write, sendW, recvW, aborted, q, nsent>>

WS == INSTANCE WakerSet

(* Flags after a poll of t that woke the tasks in W.                       *)
AfterPoll(t, W) == [x \in Tasks |-> x \in W \/ (ready[x] /\ x # t)]

(* usize addition, wrapping as in a release build.                        *)
Add(a, b) == (a + b) % Mod

Init ==
  /\ ready = [t \in Tasks |-> TRUE]
  /\ tpc = [t \in Tasks |-> "idle"]
  /\ key = [t \in Tasks |-> NoKey]
  /\ buf = [i \in 0..CAP - 1 |-> Uninit]
  /\ read = 0 /\ write = 0
  /\ sendW = WS!Empty /\ recvW = WS!Empty
  /\ aborted = FALSE
  /\ q = <<>> /\ nsent = 0
-----------------------------------------------------------------------------
(* Mutant: the full test admits one message more than the capacity.       *)
HasRoomOffByOne == write <= Add(read, CAP)

(* try_send's test: `write < read + cap`.                                   *)
HasRoom == write < Add(read, CAP)

(* try_recv's test: `write > read`.                                         *)
HasItem == write > read

(* The outcome of a Pending poll: t's waker goes into registry ws at a     *)
(* vacant key, or the slab is full and insert panics.                      *)
Register(t, ws, mode) ==
  \/ \E k \in WS!FreeKeys(ws) :
       /\ key' = [key EXCEPT ![t] = k]
       /\ tpc' = [tpc EXCEPT ![t] = mode]
       /\ ready' = AfterPoll(t, {})
       /\ UNCHANGED aborted
       /\ IF mode = "sending" THEN sendW' = WS!Insert(ws, k, t) /\ UNCHANGED recvW
                              ELSE recvW' = WS!Insert(ws, k, t) /\ UNCHANGED sendW
  \/ /\ WS!FreeKeys(ws) = {}
     /\ aborted' = TRUE
     /\ UNCHANGED <<ready, tpc, key, sendW, recvW>>

(* Send::poll: drop t's entry from send_wakers, then try_send: write the   *)
(* slot at write % cap, advance write, notify_one a receiver and signal;  *)
(* if full, register in send_wakers and return Pending.                    *)
SendPoll(t) ==
  LET ws == IF key[t] \in Keys THEN WS!Remove(sendW, key[t]) ELSE sendW
      r  == WS!NotifyOne(recvW)
  IN  \/ /\ HasRoom
         /\ buf' = [buf EXCEPT ![write % CAP] = t]
         /\ write' = Add(write, 1)
         /\ q' = Append(q, t)
         /\ sendW' = ws /\ recvW' = r.reg
         /\ ready' = AfterPoll(t, r.woken \cup {t})
         /\ key' = [key EXCEPT ![t] = NoKey]
         /\ tpc' = [tpc EXCEPT ![t] = "idle"]
         /\ UNCHANGED <<read, aborted>>
      \/ /\ ~HasRoom
         /\ Register(t, ws, "sending")
         /\ UNCHANGED <<buf, read, write, q>>

(* Recv::poll: drop t's entry from recv_wakers, then try_recv: move the    *)
(* message out of read % cap, advance read, notify_one a sender and        *)
(* signal; if empty, register in recv_wakers and return Pending.           *)
RecvPoll(t) ==
  LET ws == IF key[t] \in Keys THEN WS!Remove(recvW, key[t]) ELSE recvW
      r  == WS!NotifyOne(sendW)
  IN  \/ /\ HasItem
         /\ buf' = [buf EXCEPT ![read % CAP] = Uninit]
         /\ read' = Add(read, 1)
         /\ q' = SubSeq(q, 2, Len(q))
         /\ recvW' = ws /\ sendW' = r.reg
         /\ ready' = AfterPoll(t, r.woken \cup {t})
         /\ key' = [key EXCEPT ![t] = NoKey]
         /\ tpc' = [tpc EXCEPT ![t] = "idle"]
         /\ UNCHANGED <<write, aborted>>
      \/ /\ ~HasItem
         /\ Register(t, ws, "receiving")
         /\ UNCHANGED <<buf, read, write, q>>

(* A sender calls send() and polls the new future.                         *)
StartSend(t) ==
  /\ t \in Senders /\ tpc[t] = "idle" /\ nsent < MaxSends
  /\ nsent' = nsent + 1
  /\ SendPoll(t)

(* A receiver calls recv() and polls the new future.                       *)
StartRecv(t) ==
  /\ t \in Receivers /\ tpc[t] = "idle"
  /\ RecvPoll(t) /\ UNCHANGED nsent

(* The pending future is polled again.                                     *)
RetrySend(t) == tpc[t] = "sending" /\ SendPoll(t) /\ UNCHANGED nsent

RetryRecv(t) == tpc[t] = "receiving" /\ RecvPoll(t) /\ UNCHANGED nsent

(* The pending future is dropped; with no Drop impl its registry entry,   *)
(* and any notification it holds, stay behind.  The task goes on.          *)
DropFuture(t) ==
  /\ Cancellable /\ tpc[t] # "idle"
  /\ tpc' = [tpc EXCEPT ![t] = "idle"]
  /\ key' = [key EXCEPT ![t] = NoKey]
  /\ ready' = AfterPoll(t, {t})
  /\ UNCHANGED <<buf, read, write, sendW, recvW, aborted, q, nsent>>

(* The executor polls a task whose flag is set.                            *)
Poll(t) ==
  /\ ready[t] /\ ~aborted
  /\ \/ StartSend(t) \/ StartRecv(t)
     \/ RetrySend(t) \/ RetryRecv(t)
     \/ DropFuture(t)

(* Another future of the task (or its driver) sets its flag.               *)
SpuriousWake(t) ==
  /\ ~ready[t] /\ ~aborted
  /\ ready' = [ready EXCEPT ![t] = TRUE]
  /\ UNCHANGED <<tpc, key, buf, read, write, sendW, recvW, aborted, q, nsent>>

(* After the panic the program is stopped (panic-udf).                     *)
Halted == aborted /\ UNCHANGED vars

Next == Halted \/ \E t \in Tasks : Poll(t) \/ SpuriousWake(t)

(* Every task with its flag set is eventually polled (Scheduler).          *)
Spec == Init /\ [][Next]_vars /\ \A t \in Tasks : WF_vars(Poll(t))
-----------------------------------------------------------------------------
TypeOK ==
  /\ ready \in [Tasks -> BOOLEAN]
  /\ tpc \in [Tasks -> {"idle", "sending", "receiving"}]
  /\ key \in [Tasks -> Keys \cup {NoKey}]
  /\ buf \in [0..CAP - 1 -> Senders \cup {Uninit}]
  /\ read \in 0..Mod - 1 /\ write \in 0..Mod - 1
  /\ sendW \in [entries : [Keys -> WS!Entry], notifiable : 0..NTASKS]
  /\ recvW \in [entries : [Keys -> WS!Entry], notifiable : 0..NTASKS]
  /\ aborted \in BOOLEAN
  /\ q \in Seq(Senders) /\ nsent \in 0..MaxSends

(* The ring buffer is exact (spec 3, P3/P4): try_recv's and try_send's     *)
(* cursor tests tell empty and full exactly as the messages in flight do,  *)
(* and the slots from read on hold those messages in send order.  It can  *)
(* only fail after the cursors pass usize::MAX.                            *)
RingBufferExact ==
  /\ HasItem = (Len(q) > 0)
  /\ HasRoom = (Len(q) < CAP)
  /\ \A j \in 1..Len(q) : buf[(read + j - 1) % CAP] = q[j]

(* No lost wakeup (spec 4.6, P6), in each direction: while the buffer     *)
(* holds a message and Recv futures wait, one of them holds a notification *)
(* (its waker was taken by notify_one) with its flag still set; likewise  *)
(* for Send futures while the buffer has room.                             *)
WaitingKeys(mode) == [t \in {x \in Tasks : tpc[x] = mode} |-> key[t]]

NoLostWakeup ==
  /\ (Len(q) > 0 /\ \E t \in Tasks : tpc[t] = "receiving")
       => \E t \in WS!Notified(recvW, WaitingKeys("receiving")) : ready[t]
  /\ (Len(q) < CAP /\ \E t \in Tasks : tpc[t] = "sending")
       => \E t \in WS!Notified(sendW, WaitingKeys("sending")) : ready[t]

(* The registry entries no pending future owns: those a dropped Send or   *)
(* Recv left behind.                                                       *)
Leaked(ws, mode) == WS!Occupied(ws) \ {key[t] : t \in {x \in Tasks : tpc[x] = mode}}

(* No wakeup is lost as long as every registry entry belongs to a pending  *)
(* future: dropping a future is harmless until its entry is left behind.   *)
NoLostWakeupUnlessLeaked ==
  (Leaked(sendW, "sending") = {} /\ Leaked(recvW, "receiving") = {}) => NoLostWakeup
=============================================================================
