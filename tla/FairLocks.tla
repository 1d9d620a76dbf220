----------------------------- MODULE FairLocks -----------------------------
(***************************************************************************)
(* The tokio `Mutex` and `RwLock` that the daemon takes through `lock()`,  *)
(* `read_owned()` and `write_owned()`.  Both are built on one fair, first  *)
(* in first out semaphore: a task joins the queue when its acquisition is  *)
(* first polled, it holds the lock once nobody ahead of it conflicts, and  *)
(* it leaves when its guard is dropped or when the waiting future is       *)
(* dropped before it was granted.  A `Mutex` is an `RwLock` whose every    *)
(* user asks for "write".                                                  *)
(*                                                                         *)
(* A lock is a value, so a module keeps its locks in one variable:         *)
(*   mode[t]   what t asked for, "none" when t is not in the queue         *)
(*   ahead[t]  the tasks that were in the queue when t joined and have     *)
(*             not left since                                              *)
(***************************************************************************)

Modes == {"none", "read", "write"}

LockStates(Tasks) ==
    [mode : [Tasks -> Modes], ahead : [Tasks -> SUBSET Tasks]]

\* A lock nobody has asked for.
FreeLock(Tasks) ==
    [mode |-> [t \in Tasks |-> "none"], ahead |-> [t \in Tasks |-> {}]]

\* The tasks that hold lk or wait for it.
Queued(lk) == {t \in DOMAIN lk.mode : lk.mode[t] # "none"}

\* t joins the end of the queue.
Join(lk, t, m) ==
    [mode  |-> [lk.mode EXCEPT ![t] = m],
     ahead |-> [lk.ahead EXCEPT ![t] = Queued(lk)]]

\* t drops its guard, or the future in which it waited.
Leave(lk, t) ==
    [mode  |-> [lk.mode EXCEPT ![t] = "none"],
     ahead |-> [u \in DOMAIN lk.ahead |-> IF u = t THEN {} ELSE lk.ahead[u] \ {t}]]

\* t has been granted what it asked for: readers share, a writer is alone.
Holds(lk, t) ==
    \/ lk.mode[t] = "write" /\ lk.ahead[t] = {}
    \/ lk.mode[t] = "read" /\ \A u \in lk.ahead[t] : lk.mode[u] = "read"

HoldsWrite(lk, t) == lk.mode[t] = "write" /\ Holds(lk, t)
HoldsRead(lk, t) == lk.mode[t] = "read" /\ Holds(lk, t)

\* The queue is a total order of the tasks in it, and only they are in it.
WellQueued(lk) ==
    /\ \A t \in DOMAIN lk.mode : lk.ahead[t] \subseteq Queued(lk)
    /\ \A t \in DOMAIN lk.mode : lk.mode[t] = "none" => lk.ahead[t] = {}
    /\ \A t, u \in Queued(lk) : t # u => (t \in lk.ahead[u] \/ u \in lk.ahead[t])
=============================================================================
