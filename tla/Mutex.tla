------------------------------- MODULE Mutex -------------------------------
(***************************************************************************)
(* unsync::Mutex (async-cortex-m unsync/mutex.rs) shared by the main       *)
(* future and NSPAWN spawned tasks, polled as the Scheduler specification  *)
(* allows: a task runs only when its ready flag is set, and the flag is    *)
(* cleared before the poll.  Each task loops: lock().await, a critical     *)
(* section that spans a yield, drop of the guard.  While its Lock future   *)
(* waits, the task may drop it instead of polling it (a select! or a      *)
(* timeout around lock()), which runs Lock's Drop.  Other futures of the   *)
(* same task (join!, driver interrupts) may set its flag at any time.     *)
(***************************************************************************)
EXTENDS Naturals

CONSTANTS
  NTASKS,  \* crate::NTASKS: the capacity of the waker registry
  NSPAWN,  \* spawned tasks sharing the mutex, besides the main future
  None, Vacant, NoKey

Main  == 0
Tasks == 0..NSPAWN
Keys  == 0..NTASKS - 1

ASSUME NSPAWN \in 1..NTASKS /\ NoKey \notin Keys

VARIABLES
  ready,   \* the ready flags of the tasks
  tpc,     \* "idle" (no Lock future), "waiting" (Lock pending), "holding" (a guard)
  key,     \* Lock::opt_key
  locked,  \* Mutex::locked
  wakers,  \* Mutex::wakers
  oom      \* insert found the slab full and panicked ("OOM"): the program stopped

vars == <<ready, tpc, key, locked, wakers, oom>>

WS == INSTANCE WakerSet

(* Flags after a poll of t that woke the tasks in W.                       *)
AfterPoll(t, W) == [x \in Tasks |-> x \in W \/ (ready[x] /\ x # t)]

Init ==
  /\ ready = [t \in Tasks |-> TRUE]
  /\ tpc = [t \in Tasks |-> "idle"]
  /\ key = [t \in Tasks |-> NoKey]
  /\ locked = FALSE
  /\ wakers = WS!Empty
  /\ oom = FALSE
-----------------------------------------------------------------------------
(* Lock::poll by task t: remove t's entry, try_lock, and on failure insert *)
(* t's waker and return Pending.  A guard obtained starts a critical       *)
(* section that yields (wakes t itself).  Insert into a full slab panics   *)
(* (`expect("OOM")`), which stops the program.                             *)
LockPollBody(t, ws) ==
  \/ /\ ~locked
     /\ locked' = TRUE
     /\ wakers' = ws
     /\ key' = [key EXCEPT ![t] = NoKey]
     /\ tpc' = [tpc EXCEPT ![t] = "holding"]
     /\ ready' = AfterPoll(t, {t})
     /\ UNCHANGED oom
  \/ /\ locked
     /\ IF WS!FreeKeys(ws) = {}
          THEN oom' = TRUE /\ UNCHANGED <<ready, tpc, key, wakers>>
          ELSE /\ \E k \in WS!FreeKeys(ws) :
                    /\ wakers' = WS!Insert(ws, k, t)
                    /\ key' = [key EXCEPT ![t] = k]
               /\ tpc' = [tpc EXCEPT ![t] = "waiting"]
               /\ ready' = AfterPoll(t, {})
               /\ UNCHANGED oom
     /\ UNCHANGED locked

(* Mutant: the stale entry is removed only on the way to Pending, so a     *)
(* notified waiter that gets the lock leaves its entry in the slab.        *)
LockPollNoRemove(t) ==
  LET ws == IF key[t] \in Keys THEN WS!Remove(wakers, key[t]) ELSE wakers
  IN  LockPollBody(t, IF locked THEN ws ELSE wakers)

LockPoll(t) ==
  LET ws == IF key[t] \in Keys THEN WS!Remove(wakers, key[t]) ELSE wakers
  IN  LockPollBody(t, ws)

(* A task without a Lock future calls lock() and polls it.                 *)
StartLock(t) ==
  /\ tpc[t] = "idle"
  /\ LockPoll(t)

(* The waiting Lock future is polled again.                                *)
RetryLock(t) ==
  /\ tpc[t] = "waiting"
  /\ LockPoll(t)

(* The waiting Lock future is dropped: Lock::drop cancels its entry; the   *)
(* task goes on (it yields).                                               *)
CancelLock(t) ==
  /\ tpc[t] = "waiting"
  /\ LET r == WS!Cancel(wakers, key[t])
     IN  /\ wakers' = r.reg
         /\ ready' = AfterPoll(t, r.woken \cup {t})
  /\ key' = [key EXCEPT ![t] = NoKey]
  /\ tpc' = [tpc EXCEPT ![t] = "idle"]
  /\ UNCHANGED <<locked, oom>>

(* After the critical section the guard is dropped (MutexGuard::drop:      *)
(* locked := false; notify_any) and the task yields, or calls lock() again *)
(* at once, whose try_lock then succeeds before any woken waiter runs.     *)
Release(t) ==
  /\ tpc[t] = "holding"
  /\ LET r == WS!NotifyAny(wakers)
     IN  /\ wakers' = r.reg
         /\ ready' = AfterPoll(t, r.woken \cup {t})
  /\ \/ locked' = FALSE /\ tpc' = [tpc EXCEPT ![t] = "idle"]
     \/ UNCHANGED <<locked, tpc>>
  /\ UNCHANGED <<key, oom>>

(* The executor polls a task whose flag is set.                            *)
Poll(t) ==
  /\ ready[t]
  /\ \/ StartLock(t)
     \/ RetryLock(t)
     \/ CancelLock(t)
     \/ Release(t)

(* Another future of the task (or its driver) sets its flag.               *)
SpuriousWake(t) ==
  /\ ~ready[t]
  /\ ready' = [ready EXCEPT ![t] = TRUE]
  /\ UNCHANGED <<tpc, key, locked, wakers, oom>>

(* After the OOM panic nothing runs (panic-udf executes UDF).              *)
Next == ~oom /\ \E t \in Tasks : Poll(t) \/ SpuriousWake(t)

(* Every task with its flag set is eventually polled (Scheduler).          *)
Spec == Init /\ [][Next]_vars /\ \A t \in Tasks : WF_vars(Poll(t))
-----------------------------------------------------------------------------
TypeOK ==
  /\ ready \in [Tasks -> BOOLEAN]
  /\ tpc \in [Tasks -> {"idle", "waiting", "holding"}]
  /\ key \in [Tasks -> Keys \cup {NoKey}]
  /\ locked \in BOOLEAN
  /\ wakers \in [entries : [Keys -> WS!Entry], notifiable : 0..NTASKS]
  /\ oom \in BOOLEAN

(* No lost wakeup (spec 4.6, P6): whenever the mutex is free while Lock    *)
(* futures wait, one of them holds a notification (its waker was taken by  *)
(* notify_any or passed on by cancel) and its flag is still set, so it     *)
(* will be polled and take the lock.  Breaking it takes a guard drop, a    *)
(* notify, and the notified future dropped before it re-polls.             *)
NoLostWakeup ==
  (~locked /\ \E t \in Tasks : tpc[t] = "waiting")
    => \E t \in WS!Notified(wakers, key) : ready[t]

(* The registry's count of entries holding a waker stays exact through     *)
(* insert, remove, cancel and notify_any (spec 4.4, P6).                   *)
NotifiableCount == WS!CountMatches(wakers)

(* The registry never overflows (waker_set.rs:138): every Lock future that *)
(* finds the mutex taken finds a free slot, because each entry is removed *)
(* by its owner's next poll or by Lock's Drop.  A leak takes a notify, a  *)
(* successful re-poll and further waiters before the slab is full.        *)
NoRegistryOOM == ~oom
=============================================================================
