--------------------------- MODULE DatabaseVault ---------------------------
(***************************************************************************)
(* What Storage::open_or_recover and a purge promise, with no file system  *)
(* and no failures in sight: one database is in use, or none is; one that  *)
(* cannot be used moves into the vault in a single step; a version leaves  *)
(* the vault only by a purge, and only while there is a database.          *)
(***************************************************************************)
CONSTANTS
    Versions,
    None       \* no database: not a version

VARIABLES current, usable, vault

vars == <<current, usable, vault>>

Init ==
    /\ current \in Versions
    /\ usable = FALSE
    /\ vault = {}

Displace ==
    /\ current # None
    /\ ~usable
    /\ current' = None
    /\ vault' = vault \cup {current}
    /\ usable' = FALSE

\* A version is never used again.
Create ==
    /\ current = None
    /\ current' \in Versions \ vault
    /\ usable' = TRUE
    /\ UNCHANGED vault

Decay ==
    /\ current # None
    /\ current' \in Versions \ vault
    /\ usable' = FALSE
    /\ UNCHANGED vault

Purge ==
    /\ current # None
    /\ \E v \in vault : vault' = vault \ {v}
    /\ UNCHANGED <<current, usable>>

Next == Displace \/ Create \/ Decay \/ Purge

Spec == Init /\ [][Next]_vars

TypeOK ==
    /\ current \in Versions \cup {None}
    /\ usable \in BOOLEAN
    /\ vault \subseteq Versions
=============================================================================
