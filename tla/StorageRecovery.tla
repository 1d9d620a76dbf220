-------------------------- MODULE StorageRecovery --------------------------
(***************************************************************************)
(* Storage::open_or_recover and purge_quarantine_incidents over a file     *)
(* system that forgets.  An unusable database, with its sidecar, is copied *)
(* into a private incident directory, removed, and replaced by a fresh     *)
(* one.  The incident's state.json carries the protocol from one start of  *)
(* the daemon to the next:                                                 *)
(*                                                                         *)
(*   Pending     the copies are being made                                 *)
(*   Ready       the copies are durable, the originals may be removed      *)
(*   Finalized   the originals are gone, or somebody else changed them     *)
(*   Purging     the user asked for the copies to be destroyed             *)
(*                                                                         *)
(* The process may be killed between any two file operations, and power    *)
(* may be lost: what was not synced by then may or may not be there        *)
(* afterwards.  A file's contents are named by a version: a version is an  *)
(* identity (length, modification time, inode) together with its bytes.    *)
(***************************************************************************)
EXTENDS Integers, FiniteSets, FiniteSetsExt

CONSTANTS
    Ids,          \* incident directories, in the order of their names
    MaxVersion,   \* bound: versions of the database files
    MaxCrashes,   \* bound: kills and power losses
    Contested,    \* may another process touch the files during a start?
    TornState     \* may the removal of a state.json be interrupted half way?

ASSUME IdsKnown == Ids \subseteq Nat \ {0} /\ IsFiniteSet(Ids)
ASSUME RecoveryBounds ==
    /\ MaxVersion \in Nat \ {0} /\ MaxCrashes \in Nat
    /\ Contested \in BOOLEAN /\ TornState \in BOOLEAN

\* The database and one of its sidecars.
Files == {"db", "wal"}
Versions == 1..MaxVersion
Phases == {"Pending", "Ready", "Finalized", "Purging"}

\* What a file of an incident may hold beside a version.
Absent == 0
Partial == -1
Zeroed == -2

VARIABLES
    live,      \* the file system as the process sees it
    disk,      \* the file system as it is on the medium
    unsynced,  \* <<incident, file>> written and not yet synced
    listed,    \* IncidentState.files: the versions an incident stands for
    pc,
    job,       \* the locals of the call in progress: see Jobs
    born,      \* versions handed out so far
    bad,       \* versions that Storage::open classifies as unusable
    crashes,
    history    \* owed: originals removed, purged: what a reported purge destroyed,
               \* overtaken: written by somebody else between the comparison and the unlink

vars == <<live, disk, unsynced, listed, pc, job, born, bad, crashes, history>>

Incidents == [there : BOOLEAN, state : Phases \cup {"none", "damaged"},
              temp : BOOLEAN, copy : [Files -> Versions \cup {Absent, Partial, Zeroed}]]
FileSystems == [source : [Files -> Versions \cup {Absent}], incident : [Ids -> Incidents]]
Jobs == [todo : SUBSET Ids, inc : Ids \cup {0}, phase : Phases,
         next : {"reconcile", "open", "changed", "purge"},
         left : SUBSET Files, attempt : 0..1, cand : Versions \cup {Absent}]

NoIncident == [there |-> FALSE, state |-> "none", temp |-> FALSE,
               copy |-> [f \in Files |-> Absent]]
Idle == [todo |-> {}, inc |-> 0, phase |-> "Pending", next |-> "reconcile",
         left |-> {}, attempt |-> 0, cand |-> Absent]

\* Before the first start: an unusable database, with or without a sidecar.
Init ==
    /\ \E wal \in {Absent, 1} :
          live = [source   |-> [f \in Files |-> IF f = "db" THEN 1 ELSE wal],
                  incident |-> [i \in Ids |-> NoIncident]]
    /\ disk = live
    /\ unsynced = {}
    /\ listed = [i \in Ids |-> [f \in Files |-> Absent]]
    /\ pc = "down"
    /\ job = Idle
    /\ born = 1
    /\ bad = {1}
    /\ crashes = 0
    /\ history = [owed |-> {}, purged |-> {}, overtaken |-> {}]

-----------------------------------------------------------------------------
Present(fs) == {i \in Ids : fs.incident[i].there}
Here == live.incident[job.inc]
Family(i) == {f \in Files : listed[i][f] # Absent}

Goto(place) == pc' = place
Local(j) == job' = j

\* What a sync of a directory makes durable: the names in it.
SyncSources == disk' = [disk EXCEPT !.source = live.source]
SyncIncident(i) ==
    disk' = [disk EXCEPT !.incident[i] = [live.incident[i] EXCEPT !.there = @ /\ disk.incident[i].there]]
SyncRoot ==
    disk' = [disk EXCEPT !.incident =
                [i \in Ids |-> IF live.incident[i].there
                               THEN [disk.incident[i] EXCEPT !.there = TRUE]
                               ELSE NoIncident]]

Unchanged == UNCHANGED <<listed, born, bad, crashes, history>>

\* validate_incident_copies: every listed copy is there in its full length.
\* A zeroed copy has kept its length.
CopiesValid(i) ==
    \A f \in Family(i) : live.incident[i].copy[f] \in Versions \cup {Zeroed}

\* source_family_matches_manifest: nothing was changed, nothing appeared.
FamilyMatches(i) ==
    \A f \in Files : live.source[f] \in {Absent, listed[i][f]}

\* source_family_matches_incident
IncidentMatches(i) ==
    /\ FamilyMatches(i)
    /\ \A f \in Family(i) : live.source[f] # Absent => live.source[f] = live.incident[i].copy[f]

-----------------------------------------------------------------------------
(***************************************************************************)
(* reconcile_quarantine_incidents: what an earlier start left behind.      *)
(***************************************************************************)
Refused == Goto("stuck") /\ UNCHANGED <<live, disk, unsynced, job>> /\ Unchanged

\* validated_incident_directories
Start ==
    /\ pc = "down"
    /\ Local([Idle EXCEPT !.todo = Present(live)])
    /\ Goto("reconcile")
    /\ UNCHANGED <<live, disk, unsynced>> /\ Unchanged

Reconciling(i) == pc = "reconcile" /\ job.todo # {} /\ i = Min(job.todo)

\* UnexpectedQuarantineStructure
ReconcileRefused(i) ==
    /\ Reconciling(i)
    /\ LET state == live.incident[i].state IN
          \/ state = "damaged"
          \/ state \in {"none", "Pending"} /\ live.source["db"] = Absent
          \/ state \in {"Ready", "Finalized"} /\ ~CopiesValid(i)
    /\ Refused

\* An incident directory without a state.json is forgotten.
ReconcileEraseFaulty(i) ==
    /\ Reconciling(i)
    /\ \/ live.incident[i].state = "Purging"
       \/ live.incident[i].state = "Pending" /\ live.source["db"] # Absent
    /\ Local([job EXCEPT !.inc = i, !.next = "reconcile"])
    /\ Goto("erase")
    /\ UNCHANGED <<live, disk, unsynced>> /\ Unchanged

ReconcileErase(i) ==
    /\ Reconciling(i)
    /\ \/ live.incident[i].state = "Purging"
       \/ live.incident[i].state \in {"none", "Pending"} /\ live.source["db"] # Absent
    /\ Local([job EXCEPT !.inc = i, !.next = "reconcile"])
    /\ Goto("erase")
    /\ UNCHANGED <<live, disk, unsynced>> /\ Unchanged

ReconcileReady(i) ==
    /\ Reconciling(i)
    /\ live.incident[i].state = "Ready"
    /\ CopiesValid(i)
    /\ Local([job EXCEPT !.inc = i, !.next = "reconcile"])
    /\ Goto("finalize")
    /\ UNCHANGED <<live, disk, unsynced>> /\ Unchanged

ReconcileFinalized(i) ==
    /\ Reconciling(i)
    /\ live.incident[i].state = "Finalized"
    /\ CopiesValid(i)
    /\ live' = [live EXCEPT !.incident[i].temp = FALSE]
    /\ disk' = [disk EXCEPT !.incident[i].temp = FALSE]
    /\ Local([job EXCEPT !.todo = @ \ {i}])
    /\ UNCHANGED <<unsynced, pc>> /\ Unchanged

ReconcileDone ==
    /\ pc = "reconcile"
    /\ job.todo = {}
    /\ Goto("identify")
    /\ UNCHANGED <<live, disk, unsynced, job>> /\ Unchanged

-----------------------------------------------------------------------------
(***************************************************************************)
(* write_incident_state: a synced temporary file, a rename, and a sync of  *)
(* the directory, whatever the phase to be written.                        *)
(***************************************************************************)
\* A stale temporary file is removed first.
WriteTemp ==
    /\ pc = "write"
    /\ live' = [live EXCEPT !.incident[job.inc].temp = TRUE]
    /\ unsynced' = unsynced \cup {<<job.inc, "temp">>}
    /\ Goto("temp")
    /\ UNCHANGED <<disk, job>> /\ Unchanged

WriteSynced ==
    /\ pc = "temp"
    /\ unsynced' = unsynced \ {<<job.inc, "temp">>}
    /\ Goto("synced")
    /\ UNCHANGED <<live, disk, job>> /\ Unchanged

WriteRenamed ==
    /\ pc = "synced"
    /\ live' = [live EXCEPT !.incident[job.inc].temp = FALSE,
                            !.incident[job.inc].state = job.phase]
    /\ unsynced' = IF <<job.inc, "temp">> \in unsynced
                   THEN (unsynced \ {<<job.inc, "temp">>}) \cup {<<job.inc, "state">>}
                   ELSE unsynced \ {<<job.inc, "state">>}
    /\ Goto("renamed")
    /\ UNCHANGED <<disk, job>> /\ Unchanged

\* Where a written phase leads.
AfterWrite ==
    CASE job.phase = "Pending"   -> "copy"
      [] job.phase = "Ready"     -> "finalize"
      [] job.phase = "Purging"   -> "erase"
      [] job.phase = "Finalized" -> job.next

\* The rename is not made durable.
WriteDoneFaulty ==
    /\ pc = "renamed"
    /\ Local(IF job.phase = "Finalized" THEN [job EXCEPT !.todo = @ \ {job.inc}, !.cand = Absent]
             ELSE [job EXCEPT !.left = IF job.phase = "Pending" THEN Family(job.inc) ELSE {}])
    /\ Goto(AfterWrite)
    /\ UNCHANGED <<live, disk, unsynced>> /\ Unchanged

WriteDone ==
    /\ pc = "renamed"
    /\ SyncIncident(job.inc)
    /\ Local(IF job.phase = "Finalized" THEN [job EXCEPT !.todo = @ \ {job.inc}, !.cand = Absent]
             ELSE [job EXCEPT !.left = IF job.phase = "Pending" THEN Family(job.inc) ELSE {}])
    /\ Goto(AfterWrite)
    /\ UNCHANGED <<live, unsynced>> /\ Unchanged

-----------------------------------------------------------------------------
(***************************************************************************)
(* finalize_ready_incident: the originals go, the sidecar first.  Somebody *)
(* else may write a file after its identity was compared and before it is  *)
(* unlinked.  The copies were found valid, or were made, just before.      *)
(***************************************************************************)
\* Somebody changed the sources: they stay, and so do the copies.
FinalizeChanged ==
    /\ pc = "finalize"
    /\ ~IncidentMatches(job.inc)
    /\ Local([job EXCEPT !.phase = "Finalized",
                         !.next = IF @ = "open" THEN "changed" ELSE @])
    /\ Goto("write")
    /\ UNCHANGED <<live, disk, unsynced>> /\ Unchanged

FinalizeBegin ==
    /\ pc = "finalize"
    /\ IncidentMatches(job.inc)
    /\ Local([job EXCEPT !.left = Family(job.inc)])
    /\ Goto("remove")
    /\ UNCHANGED <<live, disk, unsynced>> /\ Unchanged

NextRemoved == IF "wal" \in job.left THEN "wal" ELSE "db"

\* The identity is not looked at again before the unlink.
RemoveComparedFaulty ==
    /\ pc = "remove"
    /\ job.left # {}
    /\ live.source[NextRemoved] # Absent
    /\ Goto("unlinking")
    /\ UNCHANGED <<live, disk, unsynced, job>> /\ Unchanged

\* database_file_identity is what the incident lists.
RemoveCompared ==
    /\ pc = "remove"
    /\ job.left # {}
    /\ live.source[NextRemoved] # Absent
    /\ live.source[NextRemoved] = listed[job.inc][NextRemoved]
    /\ Goto("unlinking")
    /\ UNCHANGED <<live, disk, unsynced, job>> /\ Unchanged

RemoveAbsent ==
    /\ pc = "remove"
    /\ job.left # {}
    /\ live.source[NextRemoved] = Absent
    /\ Local([job EXCEPT !.left = @ \ {NextRemoved}])
    /\ UNCHANGED <<live, disk, unsynced, pc>> /\ Unchanged

RemoveChanged ==
    /\ pc = "remove"
    /\ job.left # {}
    /\ live.source[NextRemoved] \notin {Absent, listed[job.inc][NextRemoved]}
    /\ Goto(IF job.next = "open" THEN "changed" ELSE "down")
    /\ UNCHANGED <<live, disk, unsynced, job>> /\ Unchanged

\* remove_file takes what is there by now.
RemoveOriginal ==
    /\ pc = "unlinking"
    /\ live.source[NextRemoved] # Absent
    /\ live' = [live EXCEPT !.source[NextRemoved] = Absent]
    /\ history' = [history EXCEPT !.owed = @ \cup {<<NextRemoved, live.source[NextRemoved]>>}]
    /\ Local([job EXCEPT !.left = @ \ {NextRemoved}])
    /\ Goto("remove")
    /\ UNCHANGED <<disk, unsynced, listed, born, bad, crashes>>

\* The file has gone: the start fails.
RemoveFailed ==
    /\ pc = "unlinking"
    /\ live.source[NextRemoved] = Absent
    /\ Goto("down")
    /\ UNCHANGED <<live, disk, unsynced, job>> /\ Unchanged

\* The unlinks are not made durable.
RemoveDoneFaulty ==
    /\ pc = "remove"
    /\ job.left = {}
    /\ Local([job EXCEPT !.phase = "Finalized"])
    /\ Goto("write")
    /\ UNCHANGED <<live, disk, unsynced>> /\ Unchanged

\* The parent directory is synced before the incident is called finalized.
RemoveDone ==
    /\ pc = "remove"
    /\ job.left = {}
    /\ SyncSources
    /\ Local([job EXCEPT !.phase = "Finalized"])
    /\ Goto("write")
    /\ UNCHANGED <<live, unsynced>> /\ Unchanged

-----------------------------------------------------------------------------
(***************************************************************************)
(* open_or_recover_with: identify, open, and quarantine what cannot be     *)
(* opened, twice at most.                                                  *)
(***************************************************************************)
Identify ==
    /\ pc = "identify"
    /\ Local([job EXCEPT !.cand = live.source["db"], !.next = "open"])
    /\ Goto("open")
    /\ UNCHANGED <<live, disk, unsynced>> /\ Unchanged

Fresh == born + 1

\* Storage::open creates the database.  SQLite syncs the directory in which it
\* creates its files.
OpenFresh ==
    /\ pc = "open"
    /\ live.source["db"] = Absent
    /\ Fresh <= MaxVersion
    /\ \E wal \in {live.source["wal"], Fresh} :
          live' = [live EXCEPT !.source["db"] = Fresh, !.source["wal"] = wal]
    /\ disk' = [disk EXCEPT !.source = live'.source]
    /\ born' = Fresh
    /\ Local(Idle)
    /\ Goto("running")
    /\ UNCHANGED <<unsynced, listed, bad, crashes, history>>

OpenUsable ==
    /\ pc = "open"
    /\ live.source["db"] \notin bad \cup {Absent}
    /\ SyncSources
    /\ Local(Idle)
    /\ Goto("running")
    /\ UNCHANGED <<live, unsynced>> /\ Unchanged

\* The error is returned when there was no database to identify before.
OpenUnusable ==
    /\ pc = "open"
    /\ live.source["db"] \in bad
    /\ Goto(IF job.cand = Absent THEN "down" ELSE "quarantine")
    /\ UNCHANGED <<live, disk, unsynced, job>> /\ Unchanged

QuarantineChanged ==
    /\ pc = "quarantine"
    /\ live.source["db"] # job.cand
    /\ Goto("changed")
    /\ UNCHANGED <<live, disk, unsynced, job>> /\ Unchanged

\* create_quarantine_directory picks a random name.
QuarantineMade(i) ==
    /\ pc = "quarantine"
    /\ live.source["db"] = job.cand
    /\ ~live.incident[i].there /\ ~disk.incident[i].there
    /\ live' = [live EXCEPT !.incident[i] = [NoIncident EXCEPT !.there = TRUE]]
    /\ Local([job EXCEPT !.inc = i])
    /\ Goto("made")
    /\ UNCHANGED <<disk, unsynced>> /\ Unchanged

\* No name is left: a few attempts, then the start fails.
QuarantineFull ==
    /\ pc = "quarantine"
    /\ live.source["db"] = job.cand
    /\ \A i \in Ids : live.incident[i].there \/ disk.incident[i].there
    /\ Goto("down")
    /\ Local(Idle)
    /\ UNCHANGED <<live, disk, unsynced>> /\ Unchanged

\* source_incident_files fails when the database has gone.
QuarantineListed ==
    /\ pc = "made"
    /\ SyncRoot
    /\ IF live.source["db"] = Absent
       THEN Goto("down") /\ UNCHANGED <<listed, job>>
       ELSE /\ listed' = [listed EXCEPT ![job.inc] = [live.source EXCEPT !["db"] = job.cand]]
            /\ Local([job EXCEPT !.phase = "Pending"])
            /\ Goto("write")
    /\ UNCHANGED <<live, unsynced, born, bad, crashes, history>>

NextCopied == IF "db" \in job.left THEN "db" ELSE "wal"

CopyCreate ==
    /\ pc = "copy"
    /\ job.left # {}
    /\ IF live.source[NextCopied] = Absent
       THEN Goto("down") /\ UNCHANGED live
       ELSE /\ live' = [live EXCEPT !.incident[job.inc].copy[NextCopied] = Partial]
            /\ Goto("filling")
    /\ UNCHANGED <<disk, unsynced, job>> /\ Unchanged

\* The source was opened before: an unlink in between would not be noticed.
CopyWrite ==
    /\ pc = "filling"
    /\ live' = [live EXCEPT !.incident[job.inc].copy[NextCopied] =
                   IF live.source[NextCopied] = Absent THEN listed[job.inc][NextCopied]
                   ELSE live.source[NextCopied]]
    /\ unsynced' = unsynced \cup {<<job.inc, NextCopied>>}
    /\ Goto("filled")
    /\ UNCHANGED <<disk, job>> /\ Unchanged

\* The copy is not synced.
CopySyncFaulty ==
    /\ pc = "filled"
    /\ Local([job EXCEPT !.left = @ \ {NextCopied}])
    /\ Goto("copy")
    /\ UNCHANGED <<live, disk, unsynced>> /\ Unchanged

CopySync ==
    /\ pc = "filled"
    /\ unsynced' = unsynced \ {<<job.inc, NextCopied>>}
    /\ Local([job EXCEPT !.left = @ \ {NextCopied}])
    /\ Goto("copy")
    /\ UNCHANGED <<live, disk>> /\ Unchanged

CopiesSynced ==
    /\ pc = "copy"
    /\ job.left = {}
    /\ SyncIncident(job.inc)
    /\ Goto("copied")
    /\ UNCHANGED <<live, unsynced, job>> /\ Unchanged

\* validate_sources_and_copies: a source that has gone cannot be compared.
Revalidate ==
    /\ pc = "copied"
    /\ IF \E f \in Family(job.inc) : live.source[f] = Absent /\ FamilyMatches(job.inc)
       THEN Goto("down") /\ UNCHANGED job
       ELSE IF IncidentMatches(job.inc)
            THEN Goto("write") /\ Local([job EXCEPT !.phase = "Ready"])
            ELSE Goto("changed") /\ UNCHANGED job
    /\ UNCHANGED <<live, disk, unsynced>> /\ Unchanged

\* Attempts are not limited.
ChangedFaulty ==
    /\ pc = "changed"
    /\ Goto("identify")
    /\ Local([Idle EXCEPT !.attempt = job.attempt + 1])
    /\ UNCHANGED <<live, disk, unsynced>> /\ Unchanged

\* DatabaseChangedDuringRecovery: one more attempt, then the start fails.
Changed ==
    /\ pc = "changed"
    /\ IF job.attempt = 0
       THEN Goto("identify") /\ Local([Idle EXCEPT !.attempt = 1])
       ELSE Goto("down") /\ Local(Idle)
    /\ UNCHANGED <<live, disk, unsynced>> /\ Unchanged

-----------------------------------------------------------------------------
(***************************************************************************)
(* purge_quarantine_incidents, the first thing that delete-all and a       *)
(* finite retention policy do, and secure_purge_incident, which a start    *)
(* uses too.                                                               *)
(***************************************************************************)
\* Only incidents that are finalized are taken for copies.
PurgeBeginFaulty ==
    /\ pc = "running"
    /\ Present(live) # {}
    /\ Local([Idle EXCEPT !.next = "purge", !.todo =
                 {i \in Present(live) : live.incident[i].state = "Finalized"}])
    /\ Goto("purge")
    /\ UNCHANGED <<live, disk, unsynced>> /\ Unchanged

PurgeBegin ==
    /\ pc = "running"
    /\ Present(live) # {}
    /\ IF \E i \in Present(live) : live.incident[i].state = "damaged"
       THEN UNCHANGED <<pc, job>>
       ELSE Goto("purge") /\ Local([Idle EXCEPT !.todo = Present(live), !.next = "purge"])
    /\ UNCHANGED <<live, disk, unsynced>> /\ Unchanged

\* Nothing is marked.
PurgeMarkedFaulty(i) == TRUE

\* A complete incident is first marked, so that a later start goes on.
PurgeMarked(i) == live.incident[i].state \notin {"Ready", "Finalized"}

PurgeNext(i) ==
    /\ pc = "purge"
    /\ i \in job.todo
    /\ Local([job EXCEPT !.inc = i, !.phase = "Purging"])
    /\ Goto(IF PurgeMarked(i) THEN "erase" ELSE "write")
    /\ history' = [history EXCEPT !.owed =
                      @ \ {<<f, live.incident[i].copy[f]>> : f \in Files}]
    /\ UNCHANGED <<live, disk, unsynced, listed, born, bad, crashes>>

PurgeDone ==
    /\ pc = "purge"
    /\ job.todo = {}
    /\ history' = [history EXCEPT !.purged =
                      {o \in Files \X (1..born) : live.source[o[1]] # o[2]}]
    /\ Local(Idle)
    /\ Goto("running")
    /\ UNCHANGED <<live, disk, unsynced, listed, born, bad, crashes>>

\* The entries in the order of their names; state.json is the last of them.
NextErased ==
    CASE Here.temp -> "temp"
      [] ~Here.temp /\ Here.copy["db"] # Absent -> "db"
      [] ~Here.temp /\ Here.copy["db"] = Absent /\ Here.copy["wal"] # Absent -> "wal"
      [] OTHER -> "state"

Left == Here.temp \/ Here.state # "none" \/ \E f \in Files : Here.copy[f] # Absent

\* The bytes of one entry, in the cache or on the medium.
Overwritten(incident, entry) ==
    CASE entry = "temp"  -> incident
      [] entry = "state" -> [incident EXCEPT !.state = IF @ = "none" THEN @ ELSE "damaged"]
      [] entry \in Files -> [incident EXCEPT !.copy[entry] = IF @ = Absent THEN @ ELSE Zeroed]

Unlinked(incident, entry) ==
    CASE entry = "temp"  -> [incident EXCEPT !.temp = FALSE]
      [] entry = "state" -> [incident EXCEPT !.state = "none"]
      [] entry \in Files -> [incident EXCEPT !.copy[entry] = Absent]

\* securely_remove_private_file: zeros reach the medium before the name goes.
EraseOverwrite ==
    /\ pc = "erase"
    /\ Left
    /\ NextErased = "state" => TornState
    /\ live' = [live EXCEPT !.incident[job.inc] = Overwritten(@, NextErased)]
    /\ disk' = [disk EXCEPT !.incident[job.inc] = Overwritten(@, NextErased)]
    /\ unsynced' = unsynced \ {<<job.inc, NextErased>>}
    /\ Goto("unlink")
    /\ UNCHANGED job /\ Unchanged

\* Without TornState: the removal of state.json is taken for atomic.
EraseState ==
    /\ pc = "erase"
    /\ Left
    /\ NextErased = "state" /\ ~TornState
    /\ live' = [live EXCEPT !.incident[job.inc] = Unlinked(@, "state")]
    /\ disk' = [disk EXCEPT !.incident[job.inc] = Unlinked(@, "state")]
    /\ unsynced' = unsynced \ {<<job.inc, "state">>}
    /\ UNCHANGED <<pc, job>> /\ Unchanged

EraseUnlink ==
    /\ pc = "unlink"
    /\ live' = [live EXCEPT !.incident[job.inc] = Unlinked(@, NextErased)]
    /\ Goto("erase")
    /\ UNCHANGED <<disk, unsynced, job>> /\ Unchanged

EraseSynced ==
    /\ pc = "erase"
    /\ ~Left
    /\ SyncIncident(job.inc)
    /\ Goto("erased")
    /\ UNCHANGED <<live, unsynced, job>> /\ Unchanged

EraseDirectory ==
    /\ pc = "erased"
    /\ live' = [live EXCEPT !.incident[job.inc] = NoIncident]
    /\ Goto("unnamed")
    /\ UNCHANGED <<disk, unsynced, job>> /\ Unchanged

EraseDone ==
    /\ pc = "unnamed"
    /\ SyncRoot
    /\ Local([job EXCEPT !.todo = @ \ {job.inc}])
    /\ Goto(job.next)
    /\ UNCHANGED <<live, unsynced>> /\ Unchanged

-----------------------------------------------------------------------------
(***************************************************************************)
(* What happens to the process and to its files.                           *)
(***************************************************************************)
Exit ==
    /\ pc \in {"stuck", "running"}
    /\ Local(Idle)
    /\ Goto("down")
    /\ UNCHANGED <<live, disk, unsynced>> /\ Unchanged

\* The process is killed.  The kernel still has what it wrote, and writes it
\* out before anything worse happens.
Crash ==
    /\ pc \notin {"down", "stuck"}
    /\ crashes < MaxCrashes
    /\ crashes' = crashes + 1
    /\ disk' = live
    /\ unsynced' = {}
    /\ Local(Idle)
    /\ Goto("down")
    /\ UNCHANGED <<live, listed, born, bad, history>>

\* Each unsynced name is kept as the process left it or as the medium has it,
\* and a file that was never synced may be torn.
Survives(kept, torn) ==
    [source   |-> [f \in Files |-> IF <<0, f>> \in kept THEN live.source[f] ELSE disk.source[f]],
     incident |-> [i \in Ids |->
        LET now == live.incident[i]
            was == disk.incident[i]
            there == IF <<i, "there">> \in kept THEN now.there ELSE was.there
            Copy(f) == IF <<i, f>> \in kept THEN now.copy[f] ELSE was.copy[f]
            state == IF <<i, "state">> \in kept THEN now.state ELSE was.state
        IN  IF ~there THEN NoIncident
            ELSE [there |-> TRUE,
                  temp  |-> IF <<i, "temp">> \in kept THEN now.temp ELSE was.temp,
                  state |-> IF <<i, "state">> \in torn /\ state # "none" THEN "damaged" ELSE state,
                  copy  |-> [f \in Files |-> IF <<i, f>> \in torn /\ Copy(f) # Absent
                                             THEN Partial ELSE Copy(f)]]]]

Undecided ==
    {<<0, f>> : f \in {g \in Files : live.source[g] # disk.source[g]}} \cup
    {d \in Ids \X (Files \cup {"state", "there"}) :
        LET now == live.incident[d[1]]
            was == disk.incident[d[1]]
        IN  IF d[2] \in Files THEN now.copy[d[2]] # was.copy[d[2]] ELSE now[d[2]] # was[d[2]]}

PowerLoss ==
    /\ pc # "stuck"
    /\ live # disk \/ unsynced # {}
    /\ crashes < MaxCrashes
    /\ crashes' = crashes + 1
    /\ \E kept \in SUBSET Undecided, torn \in SUBSET unsynced :
          /\ live' = Survives(kept, torn)
          /\ disk' = live'
    /\ unsynced' = {}
    /\ Local(Idle)
    /\ Goto("down")
    /\ UNCHANGED <<listed, born, bad, history>>

\* Between two starts the database becomes unusable.
Decay ==
    /\ pc = "down"
    /\ live.source["db"] \notin bad \cup {Absent}
    /\ born + 2 <= MaxVersion
    /\ live' = [live EXCEPT !.source["db"] = Fresh]
    /\ disk' = [disk EXCEPT !.source["db"] = Fresh]
    /\ born' = Fresh
    /\ bad' = bad \cup {Fresh}
    /\ UNCHANGED <<unsynced, listed, pc, job, crashes, history>>

\* Somebody else, SQLite in another process or the user, writes a file that
\* is there, brings or takes the sidecar.
Touch(f, usable) ==
    /\ Contested
    /\ pc \in {"open", "quarantine", "made", "filling", "copied", "finalize", "remove", "unlinking"}
    /\ f = "db" => live.source["db"] # Absent
    /\ born + 2 <= MaxVersion
    /\ live' = [live EXCEPT !.source[f] = Fresh]
    /\ disk' = [disk EXCEPT !.source[f] = Fresh]
    /\ born' = Fresh
    /\ bad' = IF usable THEN bad ELSE bad \cup {Fresh}
    /\ history' = IF pc = "unlinking" /\ f = NextRemoved
                  THEN [history EXCEPT !.overtaken = @ \cup {<<f, Fresh>>}]
                  ELSE history
    /\ UNCHANGED <<unsynced, listed, pc, job, crashes>>

TakeSidecar ==
    /\ Contested
    /\ pc \in {"open", "quarantine", "made", "copy", "filling", "copied", "finalize", "remove",
               "unlinking"}
    /\ live.source["wal"] # Absent
    /\ live' = [live EXCEPT !.source["wal"] = Absent]
    /\ disk' = [disk EXCEPT !.source["wal"] = Absent]
    /\ UNCHANGED <<unsynced, listed, pc, job, born, bad, crashes, history>>

-----------------------------------------------------------------------------
Reconcile ==
    \/ Start \/ ReconcileDone
    \/ \E i \in Ids : \/ ReconcileRefused(i) \/ ReconcileErase(i)
                      \/ ReconcileReady(i) \/ ReconcileFinalized(i)
Write == WriteTemp \/ WriteSynced \/ WriteRenamed \/ WriteDone
Finalize ==
    \/ FinalizeChanged \/ FinalizeBegin \/ RemoveCompared \/ RemoveAbsent \/ RemoveChanged
    \/ RemoveOriginal \/ RemoveFailed \/ RemoveDone
Open == Identify \/ OpenFresh \/ OpenUsable \/ OpenUnusable
Quarantine ==
    \/ QuarantineChanged \/ (\E i \in Ids : QuarantineMade(i)) \/ QuarantineFull
    \/ QuarantineListed
    \/ CopyCreate \/ CopyWrite \/ CopySync \/ CopiesSynced \/ Revalidate \/ Changed
Erase == EraseOverwrite \/ EraseState \/ EraseUnlink \/ EraseSynced \/ EraseDirectory \/ EraseDone

\* What the program does once it is started, or asked to purge.
Work ==
    \/ Reconcile \/ Write \/ Finalize \/ Open \/ Quarantine \/ Erase
    \/ (\E i \in Ids : PurgeNext(i)) \/ PurgeDone

Others == Decay \/ TakeSidecar \/ \E f \in Files, usable \in BOOLEAN : Touch(f, usable)

Next == Work \/ PurgeBegin \/ Exit \/ Crash \/ PowerLoss \/ Others

Spec == Init /\ [][Next]_vars

\* A start that is under way goes on, and a daemon that is down is started.
Fairness == WF_vars(Work)

FairSpec == Spec /\ Fairness

-----------------------------------------------------------------------------
TypeOK ==
    /\ live \in FileSystems
    /\ disk \in FileSystems
    /\ unsynced \subseteq Ids \X (Files \cup {"temp", "state"})
    /\ listed \in [Ids -> [Files -> Versions \cup {Absent}]]
    /\ job \in Jobs
    /\ born \in Versions
    /\ bad \subseteq Versions
    /\ crashes \in 0..MaxCrashes
    /\ history \in [owed : SUBSET (Files \X Versions), purged : SUBSET (Files \X Versions),
                    overtaken : SUBSET (Files \X Versions)]

\* An incident whose copy of f survives a power loss, and which no start
\* throws away.
KeepsForGood(i, f, v) ==
    \A fs \in {live, disk} :
        /\ fs.incident[i].there
        /\ fs.incident[i].state \in {"Ready", "Finalized"}
        /\ fs.incident[i].copy[f] = v
        /\ <<i, f>> \notin unsynced

\* What somebody else wrote in the place of an original after its identity was
\* compared and before it was unlinked goes, and no copy was made of it.
Owed == history.owed \ history.overtaken

\* Every other original that recovery removed is kept, byte for byte, in a
\* durable incident until the user has the quarantine purged.
OriginalsKept == \A o \in Owed : \E i \in Ids : KeepsForGood(i, o[1], o[2])

\* A start never meets a quarantine that it refuses: every later start would
\* refuse it again.
NeverStuck == pc # "stuck"

\* No sidecar of a database that was removed lies beside the fresh one.
FreshIsClean == pc = "running" => live.source["wal"] \in {Absent, live.source["db"]}

\* After a purge was reported, no copy of what was there before exists, and
\* no power loss brings one back.
PurgedStaysPurged ==
    \A fs \in {live, disk}, i \in Ids, f \in Files :
        fs.incident[i].there => <<f, fs.incident[i].copy[f]>> \notin history.purged

\* Every original a recovery took away from its place, but for one overtaken at its unlink, is
\* kept by an incident until a purge succeeds, and what a purge erased never comes back.
IncidentsSound == TypeOK /\ OriginalsKept /\ PurgedStaysPurged

\* No start meets a quarantine it refuses, no original is lost, and no sidecar of a removed
\* database lies beside the fresh one.
StorageSound == NeverStuck /\ OriginalsKept /\ FreshIsClean

\* A usable database is never removed, whoever else writes it, unless it was
\* written between the comparison of its identity and the unlink.
UsableStays ==
    [][(pc \in {"remove", "unlinking"}) /\ live.source["db"] # Absent /\ live'.source["db"] = Absent
          => \/ live.source["db"] \in bad
             \/ <<"db", live.source["db"]>> \in history.overtaken]_vars

\* The copies that count: durable, in an incident no start throws away.
Vaulted ==
    {disk.incident[i].copy["db"] : i \in {j \in Ids :
        /\ disk.incident[j].there
        /\ disk.incident[j].state \in {"Ready", "Finalized"}}}

Vault == INSTANCE DatabaseVault WITH
    None    <- Absent,
    current <- IF disk.source["db"] \in Vaulted THEN Absent ELSE disk.source["db"],
    usable  <- disk.source["db"] \notin bad \cup Vaulted \cup {Absent},
    vault   <- Vaulted

\* Kills and power losses do not show: the database that cannot be used moves
\* into the vault at once, and stays there until it is purged.
MovesAtOnce == Vault!Spec

\* When kills and power losses stop, a start ends with an open database.
StartCompletes == Fairness => []<>(pc = "running")
=============================================================================
