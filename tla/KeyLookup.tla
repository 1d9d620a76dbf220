------------------------------- MODULE KeyLookup -------------------------------
(***************************************************************************)
(* How a run of memory generation gets its key.  The Keychain may keep a   *)
(* caller waiting for as long as a dialog is open, so the read is made by a *)
(* thread of its own: a run that is cancelled leaves the read behind, and  *)
(* the next one takes it over.  The steps of one wait are kept apart,      *)
(* since the thread may complete between any two of them.                  *)
(***************************************************************************)
EXTENDS Naturals, Sequences, FiniteSets

CONSTANTS
    Waiters,    \* resolve_key calls that overlap: at most one passes the gate
    MaxLookups, \* bound: native lookups
    MaxRuns     \* bound: runs of one waiter

VARIABLES
    caller,     \* where resolve_key of each waiter is
    holder,     \* key_lookup_gate: who holds it
    joined,     \* the operation a waiter waits for, or 0
    heard,      \* the notification a waiter has registered for was sent
    cached,     \* cached_key: the read it came from, or 0
    current,    \* KeyLookupCoordinator: current, or 0
    lookups,    \* KeyLookupOperation: outcome
    stored,     \* the Keychain has a key
    runs

vars == <<caller, holder, joined, heard, cached, current, lookups, stored, runs>>

Nobody == "nobody"
Outcomes == {"pending", "key", "none"}

Init ==
    /\ caller = [w \in Waiters |-> "idle"] /\ holder = Nobody
    /\ joined = [w \in Waiters |-> 0] /\ heard = [w \in Waiters |-> FALSE]
    /\ cached = 0 /\ current = 0 /\ lookups = <<>> /\ stored \in BOOLEAN
    /\ runs = [w \in Waiters |-> 0]

\* begin_run, or a generate after the key was refused: the cache is cleared.
Ask(w) ==
    /\ caller[w] = "idle" /\ runs[w] < MaxRuns
    /\ runs' = [runs EXCEPT ![w] = @ + 1]
    /\ cached' = 0
    /\ caller' = [caller EXCEPT ![w] = "gate"]
    /\ UNCHANGED <<holder, joined, heard, current, lookups, stored>>

Pass(w) ==
    /\ caller[w] = "gate" /\ holder = Nobody
    /\ holder' = w
    /\ caller' = [caller EXCEPT ![w] = "inside"]
    /\ UNCHANGED <<joined, heard, cached, current, lookups, stored, runs>>

Leave(w, where) ==
    /\ caller' = [caller EXCEPT ![w] = where]
    /\ holder' = Nobody
    /\ joined' = [joined EXCEPT ![w] = 0] /\ heard' = [heard EXCEPT ![w] = FALSE]

Cached(w) ==
    /\ caller[w] = "inside" /\ cached # 0
    /\ Leave(w, "idle")
    /\ UNCHANGED <<cached, current, lookups, stored, runs>>

\* operation: take the one there is, or start a thread.
Join(w) ==
    /\ caller[w] = "inside" /\ cached = 0
    /\ IF current # 0
       THEN joined' = [joined EXCEPT ![w] = current] /\ UNCHANGED <<current, lookups>>
       ELSE /\ Len(lookups) < MaxLookups
            /\ \E outcome \in {"pending", "none"} :      \* "none": the spawn failed
                  lookups' = Append(lookups, outcome)
            /\ current' = Len(lookups) + 1
            /\ joined' = [joined EXCEPT ![w] = Len(lookups) + 1]
    /\ caller' = [caller EXCEPT ![w] = "register"]
    /\ UNCHANGED <<holder, heard, cached, stored, runs>>

RegisteredFaulty == {"await"}
\* Notified::enable comes before the look at the outcome.
Registered == {"inspect", "settle", "await"}

\* The thread: it reads the Keychain, publishes the outcome and notifies those
\* who have registered.
Read(op) ==
    /\ op \in DOMAIN lookups /\ lookups[op] = "pending"
    /\ lookups' = [lookups EXCEPT ![op] = IF stored THEN "key" ELSE "none"]
    /\ heard' = [w \in Waiters |-> heard[w] \/ (joined[w] = op /\ caller[w] \in Registered)]
    /\ UNCHANGED <<caller, holder, joined, cached, current, stored, runs>>

\* Notified::enable
Register(w) ==
    /\ caller[w] = "register"
    /\ caller' = [caller EXCEPT ![w] = "inspect"]
    /\ heard' = [heard EXCEPT ![w] = FALSE]
    /\ UNCHANGED <<holder, joined, cached, current, lookups, stored, runs>>

Inspect(w) ==
    /\ caller[w] = "inspect" /\ lookups[joined[w]] = "pending"
    /\ caller' = [caller EXCEPT ![w] = "settle"]
    /\ UNCHANGED <<holder, joined, heard, cached, current, lookups, stored, runs>>

Settle(w) ==
    /\ caller[w] = "settle"
    /\ caller' = [caller EXCEPT ![w] = "await"]
    /\ UNCHANGED <<holder, joined, heard, cached, current, lookups, stored, runs>>

Awake(w) ==
    /\ caller[w] = "await" /\ heard[w]
    /\ caller' = [caller EXCEPT ![w] = "register"]
    /\ UNCHANGED <<holder, joined, heard, cached, current, lookups, stored, runs>>

\* The outcome is there: the key is kept and the operation finished.
Take(w) ==
    /\ caller[w] = "inspect" /\ lookups[joined[w]] # "pending"
    /\ cached' = IF lookups[joined[w]] = "key" THEN joined[w] ELSE cached
    /\ current' = IF current = joined[w] THEN 0 ELSE current
    /\ Leave(w, "idle")
    /\ UNCHANGED <<lookups, stored, runs>>

AbandonFaulty(w) ==
    /\ caller[w] \notin {"idle", "gate"}
    /\ current' = IF current = joined[w] THEN 0 ELSE current
    /\ Leave(w, "idle")
    /\ UNCHANGED <<cached, lookups, stored, runs>>

\* The run is cancelled: what the waiter held is dropped, the thread goes on.
Abandon(w) ==
    /\ caller[w] \notin {"idle", "gate"}
    /\ Leave(w, "idle")
    /\ UNCHANGED <<cached, current, lookups, stored, runs>>

\* The user saves a key, or removes it.
Change ==
    /\ stored' = ~stored
    /\ UNCHANGED <<caller, holder, joined, heard, cached, current, lookups, runs>>

Next ==
    \/ \E w \in Waiters :
          \/ Ask(w) \/ Pass(w) \/ Cached(w) \/ Join(w) \/ Register(w) \/ Inspect(w)
          \/ Settle(w) \/ Awake(w) \/ Take(w) \/ Abandon(w)
    \/ \E op \in DOMAIN lookups : Read(op)
    \/ Change

Spec == Init /\ [][Next]_vars

\* Every task takes its steps, and the dialog of a read is answered at last.
Fairness ==
    /\ \A w \in Waiters :
          /\ SF_vars(Pass(w)) /\ WF_vars(Cached(w) \/ Join(w)) /\ WF_vars(Register(w))
          /\ WF_vars(Inspect(w) \/ Take(w)) /\ WF_vars(Settle(w)) /\ WF_vars(Awake(w))
    /\ \A op \in 1..MaxLookups : WF_vars(Read(op))

FairSpec == Spec /\ Fairness

-----------------------------------------------------------------------------
TypeOK ==
    /\ caller \in [Waiters -> {"idle", "gate", "inside", "register", "inspect", "settle", "await"}]
    /\ holder \in Waiters \union {Nobody}
    /\ \A w \in Waiters : caller[w] \notin {"idle", "gate"} <=> holder = w
    /\ joined \in [Waiters -> 0..Len(lookups)] /\ heard \in [Waiters -> BOOLEAN]
    /\ cached \in 0..Len(lookups) /\ current \in 0..Len(lookups)
    /\ lookups \in Seq(Outcomes) /\ Len(lookups) <= MaxLookups
    /\ stored \in BOOLEAN /\ runs \in [Waiters -> 0..MaxRuns]

\* The Keychain never shows two dialogs at once, whoever is cancelled meanwhile.
OneLookup == Cardinality({op \in DOMAIN lookups : lookups[op] = "pending"}) <= 1

\* Nobody waits for a read that is over: its notification is not lost between
\* the look at the outcome and the wait.
WaiterWakes ==
    \A w \in Waiters :
       (caller[w] = "await" /\ lookups[joined[w]] # "pending") ~> caller[w] # "await"

================================================================================
