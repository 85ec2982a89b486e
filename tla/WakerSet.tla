------------------------------ MODULE WakerSet ------------------------------
(***************************************************************************)
(* The waker registry of async-embedded (unsync/waker_set.rs, Inner): a    *)
(* slab of Option<Waker> entries with a `notifiable` count, used by Mutex  *)
(* (one registry) and Channel (one per direction).  A registry is a value *)
(* [entries, notifiable]; an operation that wakes returns the new value    *)
(* and the set of tasks whose waker it invoked.  An entry holds a task (a  *)
(* Some(waker) storing into that task's ready flag), None (taken by a     *)
(* notify, the owner not yet back to remove it) or is Vacant.  The slab's  *)
(* remove returns the stored Option<Waker> (the `slab` crate API the code  *)
(* was ported from); iteration is in key order.                           *)
(***************************************************************************)
EXTENDS Integers, FiniteSetsExt

CONSTANTS
  Tasks,   \* the tasks whose wakers can be registered
  Keys,    \* the slab's keys; its capacity is crate::NTASKS
  None,    \* an entry whose waker was taken by a notify
  Vacant   \* a free slab slot

ASSUME None \notin Tasks /\ Vacant \notin Tasks /\ None # Vacant

Entry == Tasks \cup {None, Vacant}

Registry == [entries : [Keys -> Entry], notifiable : Int]

(* Inner::new                                                              *)
Empty == [entries |-> [k \in Keys |-> Vacant], notifiable |-> 0]

Occupied(ws) == {k \in Keys : ws.entries[k] # Vacant}
Live(ws)     == {k \in Keys : ws.entries[k] \in Tasks}
FreeKeys(ws) == Keys \ Occupied(ws)

(* The outcome of an operation that may invoke wakers.                     *)
Result(ws, W) == [reg |-> ws, woken |-> W]

(* Inner::insert on the vacant key k the slab hands out: stores Some(waker) *)
(* and counts it.  A full slab panics ("OOM"); callers guard on FreeKeys.  *)
Insert(ws, k, t) ==
  [entries |-> [ws.entries EXCEPT ![k] = t], notifiable |-> ws.notifiable + 1]

(* Mutant: remove decrements for any occupied entry, as it would if the    *)
(* slab returned Option<Option<Waker>> and `is_some` tested the outer one. *)
RemoveOccupied(ws, k) ==
  [entries |-> [ws.entries EXCEPT ![k] = Vacant], notifiable |-> ws.notifiable - 1]

(* Inner::remove: frees the slot; a waker still present is uncounted.      *)
Remove(ws, k) ==
  [entries    |-> [ws.entries EXCEPT ![k] = Vacant],
   notifiable |-> IF ws.entries[k] \in Tasks THEN ws.notifiable - 1 ELSE ws.notifiable]

(* opt_waker.take(); w.wake(); self.notifiable -= 1                        *)
Take(ws, k) ==
  [entries |-> [ws.entries EXCEPT ![k] = None], notifiable |-> ws.notifiable - 1]

(* Mutant: notify(One) stops at the first occupied entry as Any does.     *)
NotifyOneFirstOccupied(ws) ==
  IF Occupied(ws) = {} \/ ws.entries[Min(Occupied(ws))] = None THEN Result(ws, {})
  ELSE LET k == Min(Occupied(ws)) IN Result(Take(ws, k), {ws.entries[k]})

(* Inner::notify(Notify::One): wake the first entry still holding a waker. *)
NotifyOne(ws) ==
  IF Live(ws) = {} THEN Result(ws, {})
  ELSE LET k == Min(Live(ws)) IN Result(Take(ws, k), {ws.entries[k]})

(* Mutant: notify(Any) wakes the first entry but forgets the count.        *)
NotifyAnyUncounted(ws) ==
  IF Occupied(ws) = {} \/ ws.entries[Min(Occupied(ws))] = None THEN Result(ws, {})
  ELSE LET k == Min(Occupied(ws))
       IN Result([ws EXCEPT !.entries[k] = None], {ws.entries[k]})

(* Inner::notify(Notify::Any): the loop breaks after the first entry, so   *)
(* only the first occupied entry is looked at; if its waker was already    *)
(* taken nothing is woken.                                                 *)
NotifyAny(ws) ==
  IF Occupied(ws) = {} \/ ws.entries[Min(Occupied(ws))] = None THEN Result(ws, {})
  ELSE LET k == Min(Occupied(ws)) IN Result(Take(ws, k), {ws.entries[k]})

(* Mutant: cancel treats a notified entry like a waiting one and passes    *)
(* nothing on (the Option<Option<Waker>> reading of `Some(_)`).            *)
CancelDropsNotification(ws, k) ==
  Result([entries |-> [ws.entries EXCEPT ![k] = Vacant], notifiable |-> ws.notifiable - 1], {})

(* Inner::cancel: remove k; if its waker had already been taken, the       *)
(* notification is passed to the first entry still holding a waker.       *)
Cancel(ws, k) ==
  IF ws.entries[k] \in Tasks THEN Result(Remove(ws, k), {})
  ELSE NotifyOne(Remove(ws, k))

(* The tasks with a notification in flight: their waker was taken and they *)
(* have not yet removed their entry.                                       *)
Notified(ws, key) == {t \in DOMAIN key : key[t] \in Keys /\ ws.entries[key[t]] = None}

(* The count the code keeps equals the number of entries holding a waker   *)
(* (spec 4.4, P6).                                                         *)
CountMatches(ws) == ws.notifiable = Cardinality(Live(ws))
=============================================================================
