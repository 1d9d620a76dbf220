---- MODULE MCDaemonData ----
(* Model values for DaemonData. *)
EXTENDS DaemonData, TLC

CONSTANTS c, a, m1, m2, r1, r2, slack, forever

OneApp == {slack}
OneRun == {m1}
TwoRuns == {m1, m2}
OneRequest == {r1}
TwoRequests == {r1, r2}

OneWindow == {1}
NoWindow == {}

GateKinds == RequestKinds \ {"retention"}
RetentionKinds == {"retention"}
LockKinds == {"blacklist", "deleteAll", "retention"}

Expiring == control.retention # Forever \/ \E r \in Requests : request[r].kind = "retention"

\* The bound of `gates`: while rows may expire, three observations and at most one request,
\* which sets the retention; else two observations and two requests of the other kinds.
WithinBound ==
    IF Expiring
    THEN \A r, q \in Requests :
            /\ pc[r] # "new" => request[r].kind = "retention"
            /\ r = q \/ "new" \in {pc[r], pc[q]}
    ELSE obs <= 2

Symmetric == Permutations(Requests)
====
