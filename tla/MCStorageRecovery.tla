---- MODULE MCStorageRecovery ----
(* Small instances of StorageRecovery. *)
EXTENDS StorageRecovery

OneIncident == {1}
TwoIncidents == 1..2
====
