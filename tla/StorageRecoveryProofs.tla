---------------------- MODULE StorageRecoveryProofs ----------------------
(***************************************************************************)
(* Theorems of StorageRecovery, for any number of incidents, versions,     *)
(* kills and power losses.                                                 *)
(***************************************************************************)
EXTENDS StorageRecovery, WellFoundedInduction, TLAPS

Writing == {"write", "temp", "synced", "renamed"}
Copying == {"copy", "filling", "filled", "copied"}
Erasing == {"erase", "unlink", "erased", "unnamed"}
PCs == {"down", "stuck", "running", "reconcile", "identify", "open", "changed", "quarantine",
        "made", "finalize", "remove", "unlinking", "purge"} \cup Writing \cup Copying \cup Erasing

\* The states in which an incident's copies count.
Keeping == {"Ready", "Finalized"}

\* A call that works on an incident has one.
CallTyped ==
    /\ pc \in PCs
    /\ pc \in {"made", "finalize", "remove", "unlinking"} \cup Writing \cup Copying \cup Erasing
         => job.inc \in Ids

Typed == TypeOK /\ CallTyped

-----------------------------------------------------------------------------
LEMMA TypeFacts ==
    ASSUME Typed
    PROVE  /\ live \in FileSystems /\ disk \in FileSystems /\ job \in Jobs
           /\ \A i \in Ids : live.incident[i] \in Incidents /\ disk.incident[i] \in Incidents
           /\ live.source \in [Files -> Versions \cup {Absent}]
           /\ disk.source \in [Files -> Versions \cup {Absent}]
           /\ NoIncident \in Incidents /\ Idle \in Jobs
           /\ Present(live) \subseteq Ids
           /\ \A i \in Ids : Family(i) \subseteq Files
           /\ NextRemoved \in Files /\ NextCopied \in Files
BY DEF Typed, TypeOK, FileSystems, Incidents, Jobs, NoIncident, Idle, Present, Family, NextRemoved,
       NextCopied, Files, Phases

\* Replacing one incident, a part of it, or the sources, of a file system.
LEMMA FileSystemChanged ==
    ASSUME NEW fs \in FileSystems
    PROVE  /\ \A i \in Ids, x \in Incidents : [fs EXCEPT !.incident[i] = x] \in FileSystems
           /\ \A i \in Ids, b \in BOOLEAN : [fs EXCEPT !.incident[i].temp = b] \in FileSystems
           /\ \A i \in Ids, b \in BOOLEAN, p \in Phases \cup {"none", "damaged"} :
                 [fs EXCEPT !.incident[i].temp = b, !.incident[i].state = p] \in FileSystems
           /\ \A i \in Ids, f \in Files, v \in Versions \cup {Absent, Partial, Zeroed} :
                 [fs EXCEPT !.incident[i].copy[f] = v] \in FileSystems
           /\ \A f \in Files, v \in Versions \cup {Absent} :
                 [fs EXCEPT !.source[f] = v] \in FileSystems
           /\ \A v, w \in Versions \cup {Absent} :
                 [fs EXCEPT !.source["db"] = v, !.source["wal"] = w] \in FileSystems
           /\ \A s \in [Files -> Versions \cup {Absent}] : [fs EXCEPT !.source = s] \in FileSystems
           /\ \A d \in [Ids -> Incidents] : [fs EXCEPT !.incident = d] \in FileSystems
<1>1. ASSUME NEW i \in Ids, NEW x \in Incidents PROVE [fs EXCEPT !.incident[i] = x] \in FileSystems
  BY DEF FileSystems
<1>0. ASSUME NEW i \in Ids PROVE fs.incident[i] \in Incidents
  BY DEF FileSystems
<1>2. ASSUME NEW i \in Ids, NEW b \in BOOLEAN
      PROVE  [fs EXCEPT !.incident[i].temp = b] \in FileSystems
  <2>1. [fs.incident[i] EXCEPT !.temp = b] \in Incidents
    BY <1>0 DEF Incidents
  <2> QED
    BY <1>1, <2>1
<1>3. ASSUME NEW i \in Ids, NEW b \in BOOLEAN, NEW p \in Phases \cup {"none", "damaged"}
      PROVE  [fs EXCEPT !.incident[i].temp = b, !.incident[i].state = p] \in FileSystems
  <2>1. [fs.incident[i] EXCEPT !.temp = b, !.state = p] \in Incidents
    BY <1>0 DEF Incidents
  <2>2. [fs EXCEPT !.incident[i].temp = b, !.incident[i].state = p]
           = [fs EXCEPT !.incident[i] = [fs.incident[i] EXCEPT !.temp = b, !.state = p]]
    BY <1>0 DEF FileSystems
  <2> QED
    BY <1>1, <2>1, <2>2
<1>4. ASSUME NEW i \in Ids, NEW f \in Files, NEW v \in Versions \cup {Absent, Partial, Zeroed}
      PROVE  [fs EXCEPT !.incident[i].copy[f] = v] \in FileSystems
  <2>1. [fs.incident[i] EXCEPT !.copy[f] = v] \in Incidents
    BY <1>0 DEF Incidents
  <2> QED
    BY <1>1, <2>1
<1>5. ASSUME NEW v \in Versions \cup {Absent}, NEW w \in Versions \cup {Absent}
      PROVE  [fs EXCEPT !.source["db"] = v, !.source["wal"] = w] \in FileSystems
  BY DEF FileSystems, Files
<1>6. ASSUME NEW s \in [Files -> Versions \cup {Absent}] 
      PROVE  [fs EXCEPT !.source = s] \in FileSystems
  BY DEF FileSystems
<1>7. ASSUME NEW d \in [Ids -> Incidents]
      PROVE  [fs EXCEPT !.incident = d] \in FileSystems
  BY DEF FileSystems
<1>8. ASSUME NEW f \in Files, NEW v \in Versions \cup {Absent}
      PROVE  [fs EXCEPT !.source[f] = v] \in FileSystems
  BY DEF FileSystems
<1> QED
  BY <1>1, <1>2, <1>3, <1>4, <1>5, <1>6, <1>7, <1>8

\* What a sync leaves on the medium is a file system.
LEMMA SyncIncidentTyped ==
    ASSUME live \in FileSystems, disk \in FileSystems, NEW i \in Ids, SyncIncident(i)
    PROVE  disk' \in FileSystems
<1>0. live.incident[i] \in Incidents /\ disk.incident[i] \in Incidents
  BY DEF FileSystems
<1>1. [live.incident[i] EXCEPT !.there = @ /\ disk.incident[i].there] \in Incidents
  BY <1>0 DEF Incidents
<1> QED
  BY <1>1, FileSystemChanged DEF SyncIncident

LEMMA SyncRootTyped ==
    ASSUME live \in FileSystems, disk \in FileSystems, SyncRoot
    PROVE  disk' \in FileSystems
<1>1. NoIncident \in Incidents
  BY DEF NoIncident, Incidents
<1>2. ASSUME NEW i \in Ids
      PROVE [disk.incident[i] EXCEPT !.there = TRUE] \in Incidents
  <2>1. disk.incident[i] \in Incidents
    BY DEF FileSystems
  <2> QED
    BY <2>1 DEF Incidents
<1>3. disk'.incident \in [Ids -> Incidents]
  BY <1>1, <1>2 DEF SyncRoot, FileSystems
<1> QED
  BY <1>3 DEF SyncRoot, FileSystems

LEMMA ReconcileTyped == Typed /\ Reconcile => Typed'
<1> SUFFICES ASSUME Typed, Reconcile PROVE Typed'
    OBVIOUS
<1> USE TypeFacts DEF Typed, TypeOK, CallTyped, PCs, Writing, Copying, Erasing, Goto, Local, Unchanged, Jobs
<1>1. CASE Start
    BY <1>1 DEF Start
<1>2. CASE ReconcileDone
    BY <1>2 DEF ReconcileDone
<1>3. ASSUME NEW i \in Ids, ReconcileRefused(i)
      PROVE  Typed'
    BY <1>3 DEF ReconcileRefused, Refused
<1>4. ASSUME NEW i \in Ids, ReconcileErase(i)
      PROVE  Typed'
    BY <1>4 DEF ReconcileErase
<1>5. ASSUME NEW i \in Ids, ReconcileReady(i)
      PROVE  Typed'
    BY <1>5 DEF ReconcileReady
<1>6. ASSUME NEW i \in Ids, ReconcileFinalized(i)
      PROVE  Typed'
  <2>1. live' \in FileSystems /\ disk' \in FileSystems
    BY <1>6, FileSystemChanged DEF ReconcileFinalized
  <2> QED
    BY <1>6, <2>1 DEF ReconcileFinalized
<1> QED
    BY <1>1, <1>2, <1>3, <1>4, <1>5, <1>6 DEF Reconcile

LEMMA WriteTyped == Typed /\ Write => Typed'
<1> SUFFICES ASSUME Typed, Write PROVE Typed'
    OBVIOUS
<1> USE TypeFacts DEF Typed, TypeOK, CallTyped, PCs, Writing, Copying, Erasing, Goto, Local, Unchanged, Jobs
<1>1. CASE WriteTemp
  <2>1. live' \in FileSystems
    BY <1>1, FileSystemChanged DEF WriteTemp
  <2> QED
    BY <1>1, <2>1 DEF WriteTemp
<1>2. CASE WriteSynced
    BY <1>2 DEF WriteSynced
<1>3. CASE WriteRenamed
  <2>1. live' \in FileSystems
    BY <1>3, FileSystemChanged DEF WriteRenamed
  <2> QED
    BY <1>3, <2>1 DEF WriteRenamed
<1>4. CASE WriteDone
  <2>1. disk' \in FileSystems
    BY <1>4, SyncIncidentTyped DEF WriteDone
  <2>2. job' \in Jobs /\ job'.inc = job.inc
    BY <1>4 DEF WriteDone, Phases
  <2>3. pc' \in {"copy", "finalize", "erase", "reconcile", "open", "changed", "purge"}
    BY <1>4 DEF WriteDone, AfterWrite, Phases
  <2> QED
    BY <1>4, <2>1, <2>2, <2>3 DEF WriteDone
<1> QED
    BY <1>1, <1>2, <1>3, <1>4 DEF Write

LEMMA FinalizeTyped == Typed /\ Finalize => Typed'
<1> SUFFICES ASSUME Typed, Finalize PROVE Typed'
    OBVIOUS
<1> USE TypeFacts DEF Typed, TypeOK, CallTyped, PCs, Writing, Copying, Erasing, Goto, Local, Unchanged, Jobs
<1>1. CASE FinalizeChanged
  <2>1. job' \in Jobs /\ job'.inc = job.inc
    BY <1>1 DEF FinalizeChanged, Phases
  <2> QED
    BY <1>1, <2>1 DEF FinalizeChanged
<1>2. CASE FinalizeBegin
  <2>1. job' \in Jobs /\ job'.inc = job.inc
    BY <1>2 DEF FinalizeBegin, Phases
  <2> QED
    BY <1>2, <2>1 DEF FinalizeBegin
<1>3. CASE RemoveOriginal
  <2>1. live' \in FileSystems
    BY <1>3, FileSystemChanged DEF RemoveOriginal
  <2>2. job' \in Jobs /\ job'.inc = job.inc
    BY <1>3 DEF RemoveOriginal, Phases
  <2>3. history' \in [owed : SUBSET (Files \X Versions), purged : SUBSET (Files \X Versions),
                   overtaken : SUBSET (Files \X Versions)]
    BY <1>3 DEF RemoveOriginal, Versions, Files
  <2> QED
    BY <1>3, <2>1, <2>2, <2>3 DEF RemoveOriginal
<1>4. CASE RemoveChanged \/ RemoveCompared \/ RemoveAbsent \/ RemoveFailed
    BY <1>4 DEF RemoveChanged, RemoveCompared, RemoveAbsent, RemoveFailed
<1>5. CASE RemoveDone
  <2>1. disk' \in FileSystems
    BY <1>5, FileSystemChanged DEF RemoveDone, SyncSources
  <2>2. job' \in Jobs /\ job'.inc = job.inc
    BY <1>5 DEF RemoveDone, Phases
  <2> QED
    BY <1>5, <2>1, <2>2 DEF RemoveDone
<1> QED
    BY <1>1, <1>2, <1>3, <1>4, <1>5 DEF Finalize

LEMMA OpenTyped == Typed /\ Open => Typed'
<1> SUFFICES ASSUME Typed, Open PROVE Typed'
    OBVIOUS
<1> USE TypeFacts DEF Typed, TypeOK, CallTyped, PCs, Writing, Copying, Erasing, Goto, Local, Unchanged, Jobs
<1>1. CASE Identify
  <2>1. job' \in Jobs /\ job'.inc = job.inc
    BY <1>1 DEF Identify, Files, Phases
  <2> QED
    BY <1>1, <2>1 DEF Identify
<1>2. CASE OpenFresh
  <2>1. PICK wal \in {live.source["wal"], Fresh} :
           live' = [live EXCEPT !.source["db"] = Fresh, !.source["wal"] = wal]
    BY <1>2 DEF OpenFresh
  <2>2. Fresh \in Versions /\ wal \in Versions \cup {Absent}
    BY <1>2, <2>1 DEF OpenFresh, Fresh, Versions, Files
  <2>3. live' \in FileSystems
    BY <2>1, <2>2, FileSystemChanged
  <2>4. disk' \in FileSystems
    BY ZenonT(40), <1>2, <2>3, FileSystemChanged DEF OpenFresh, FileSystems
  <2> QED
    BY <1>2, <2>2, <2>3, <2>4 DEF OpenFresh
<1>3. CASE OpenUsable
  <2>1. disk' \in FileSystems
    BY <1>3, FileSystemChanged DEF OpenUsable, SyncSources
  <2> QED
    BY <1>3, <2>1 DEF OpenUsable
<1>4. CASE OpenUnusable
    BY <1>4 DEF OpenUnusable
<1> QED
    BY <1>1, <1>2, <1>3, <1>4 DEF Open

LEMMA QuarantineTyped == Typed /\ Quarantine => Typed'
<1> SUFFICES ASSUME Typed, Quarantine PROVE Typed'
    OBVIOUS
<1> USE TypeFacts DEF Typed, TypeOK, CallTyped, PCs, Writing, Copying, Erasing, Goto, Local, Unchanged, Jobs
<1>1. CASE QuarantineChanged
    BY <1>1 DEF QuarantineChanged
<1>2. ASSUME NEW i \in Ids, QuarantineMade(i)
      PROVE  Typed'
  <2>1. live' \in FileSystems
    <3>1. [NoIncident EXCEPT !.there = TRUE] \in Incidents
      BY DEF Incidents
    <3> QED
      BY <1>2, <3>1, FileSystemChanged DEF QuarantineMade
  <2>2. job' \in Jobs
    BY <1>2 DEF QuarantineMade, Phases
  <2> QED
    BY <1>2, <2>1, <2>2 DEF QuarantineMade
<1>3. CASE QuarantineFull
    BY <1>3 DEF QuarantineFull
<1>4. CASE QuarantineListed
  <2>1. disk' \in FileSystems
    BY <1>4, SyncRootTyped DEF QuarantineListed
  <2>2. job' \in Jobs /\ job'.inc = job.inc
    BY <1>4 DEF QuarantineListed, Phases
  <2>3. listed' \in [Ids -> [Files -> Versions \cup {Absent}]]
    BY <1>4 DEF QuarantineListed
  <2> QED
    BY <1>4, <2>1, <2>2, <2>3 DEF QuarantineListed
<1>5. CASE CopyCreate
  <2>1. CASE live.source[NextCopied] = Absent
    BY <1>5, <2>1 DEF CopyCreate
  <2>2. CASE live.source[NextCopied] # Absent
    <3>1. live' = [live EXCEPT !.incident[job.inc].copy[NextCopied] = Partial]
      BY <1>5, <2>2 DEF CopyCreate
    <3>2. live' \in FileSystems
      BY <1>5, <3>1, FileSystemChanged DEF CopyCreate
    <3> QED
      BY <1>5, <2>2, <3>2 DEF CopyCreate
  <2> QED
    BY <2>1, <2>2
<1>6. CASE CopyWrite
  <2>1. live' \in FileSystems
    <3> DEFINE v == IF live.source[NextCopied] = Absent THEN listed[job.inc][NextCopied]
                    ELSE live.source[NextCopied]
    <3>1. v \in Versions \cup {Absent, Partial, Zeroed} /\ job.inc \in Ids
      BY <1>6 DEF CopyWrite
    <3>2. live' = [live EXCEPT !.incident[job.inc].copy[NextCopied] = v]
      BY <1>6 DEF CopyWrite
    <3> HIDE DEF v
    <3> QED
      BY <3>1, <3>2, FileSystemChanged
  <2>2. unsynced' \subseteq Ids \X (Files \cup {"temp", "state"})
    BY <1>6 DEF CopyWrite
  <2> QED
    BY <1>6, <2>1, <2>2 DEF CopyWrite
<1>7. CASE CopySync
  <2>1. job' \in Jobs /\ job'.inc = job.inc
    BY <1>7 DEF CopySync, Phases
  <2>2. unsynced' \subseteq Ids \X (Files \cup {"temp", "state"})
    BY <1>7 DEF CopySync
  <2> QED
    BY <1>7, <2>1, <2>2 DEF CopySync
<1>8. CASE CopiesSynced
  <2>1. disk' \in FileSystems
    BY <1>8, SyncIncidentTyped DEF CopiesSynced
  <2> QED
    BY <1>8, <2>1 DEF CopiesSynced
<1>9. CASE Revalidate
  <2>1. job' \in Jobs /\ job'.inc = job.inc
    BY <1>9 DEF Revalidate, Phases
  <2> QED
    BY <1>9, <2>1 DEF Revalidate
<1>10. CASE Changed
    BY <1>10 DEF Changed
<1> QED
    BY <1>1, <1>2, <1>3, <1>4, <1>5, <1>6, <1>7, <1>8, <1>9, <1>10 DEF Quarantine

LEMMA EraseTypes ==
    /\ NextErased \in Files \cup {"temp", "state"}
    /\ \A x \in Incidents, e \in Files \cup {"temp", "state"} :
          Overwritten(x, e) \in Incidents /\ Unlinked(x, e) \in Incidents
<1>1. NextErased \in Files \cup {"temp", "state"}
  BY DEF NextErased, Files
<1>2. ASSUME NEW x \in Incidents, NEW e \in Files \cup {"temp", "state"}
      PROVE  Overwritten(x, e) \in Incidents
  BY DEF Overwritten, Incidents, Files, Versions
<1>3. ASSUME NEW x \in Incidents, NEW e \in Files \cup {"temp", "state"}
      PROVE  Unlinked(x, e) \in Incidents
  BY DEF Unlinked, Incidents, Files
<1> QED
  BY <1>1, <1>2, <1>3

LEMMA EraseTyped == Typed /\ Erase => Typed'
<1> SUFFICES ASSUME Typed, Erase PROVE Typed'
    OBVIOUS
<1> USE TypeFacts DEF Typed, TypeOK, CallTyped, PCs, Writing, Copying, Erasing, Goto, Local, Unchanged, Jobs
<1>1. CASE EraseOverwrite
  <2>1. job.inc \in Ids
    BY <1>1 DEF EraseOverwrite
  <2>2. live' \in FileSystems /\ disk' \in FileSystems
    BY <1>1, <2>1, EraseTypes, FileSystemChanged DEF EraseOverwrite
  <2> QED
    BY <1>1, <2>2 DEF EraseOverwrite
<1>2. CASE EraseState
  <2>1. job.inc \in Ids
    BY <1>2 DEF EraseState
  <2>2. live' \in FileSystems /\ disk' \in FileSystems
    BY <1>2, <2>1, EraseTypes, FileSystemChanged DEF EraseState
  <2> QED
    BY <1>2, <2>2 DEF EraseState
<1>3. CASE EraseUnlink
  <2>1. job.inc \in Ids
    BY <1>3 DEF EraseUnlink
  <2>2. live' \in FileSystems
    BY <1>3, <2>1, EraseTypes, FileSystemChanged DEF EraseUnlink
  <2> QED
    BY <1>3, <2>2 DEF EraseUnlink
<1>4. CASE EraseSynced
  <2>1. disk' \in FileSystems
    BY <1>4, SyncIncidentTyped DEF EraseSynced
  <2> QED
    BY <1>4, <2>1 DEF EraseSynced
<1>5. CASE EraseDirectory
  <2>1. live' \in FileSystems
    BY <1>5, FileSystemChanged DEF EraseDirectory
  <2> QED
    BY <1>5, <2>1 DEF EraseDirectory
<1>6. CASE EraseDone
  <2>1. disk' \in FileSystems
    BY <1>6, SyncRootTyped DEF EraseDone
  <2>2. job' \in Jobs /\ pc' \in {"reconcile", "open", "changed", "purge"}
    BY <1>6 DEF EraseDone
  <2> QED
    BY <1>6, <2>1, <2>2 DEF EraseDone
<1> QED
    BY <1>1, <1>2, <1>3, <1>4, <1>5, <1>6 DEF Erase

LEMMA PurgeTyped ==
    Typed /\ ((\E i \in Ids : PurgeNext(i)) \/ PurgeDone \/ PurgeBegin \/ Exit) => Typed'
<1> SUFFICES ASSUME Typed, (\E i \in Ids : PurgeNext(i)) \/ PurgeDone \/ PurgeBegin \/ Exit
             PROVE  Typed'
    OBVIOUS
<1> USE TypeFacts DEF Typed, TypeOK, CallTyped, PCs, Writing, Copying, Erasing, Goto, Local, Unchanged, Jobs
<1>1. ASSUME NEW i \in Ids, PurgeNext(i)
      PROVE  Typed'
  <2>1. job' \in Jobs /\ job'.inc \in Ids
    BY <1>1 DEF PurgeNext, Phases
  <2>2. pc' \in {"erase", "write"}
    BY <1>1 DEF PurgeNext
  <2> QED
    BY <1>1, <2>1, <2>2 DEF PurgeNext
<1>2. CASE PurgeDone
  <2>1. 1..born \subseteq Versions
    BY RecoveryBounds DEF Versions
  <2>2. Files \X (1..born) \subseteq Files \X Versions
    BY <2>1
  <2>3. history'.purged \subseteq Files \X Versions /\ history'.owed = history.owed
        /\ history'.overtaken = history.overtaken
    BY <1>2, <2>2 DEF PurgeDone
  <2>4. history' = [owed |-> history'.owed, purged |-> history'.purged,
                  overtaken |-> history'.overtaken]
    BY <1>2 DEF PurgeDone
  <2> QED
    BY <1>2, <2>3, <2>4 DEF PurgeDone
<1>3. CASE PurgeBegin
  <2>1. job' \in Jobs
    BY ZenonT(40), <1>3 DEF PurgeBegin, Idle
  <2> QED
    BY <1>3, <2>1 DEF PurgeBegin
<1>4. CASE Exit
    BY <1>4 DEF Exit
<1> QED
    BY <1>1, <1>2, <1>3, <1>4

\* Whatever a power loss leaves is a file system.
LEMMA SurvivesTyped ==
    ASSUME live \in FileSystems, disk \in FileSystems, NEW kept, NEW torn
    PROVE  Survives(kept, torn) \in FileSystems
<1>1. Survives(kept, torn).source \in [Files -> Versions \cup {Absent}]
  BY DEF Survives, FileSystems
<1>2. \A i \in Ids : live.incident[i] \in Incidents /\ disk.incident[i] \in Incidents
  BY DEF FileSystems
<1>3. NoIncident \in Incidents
  BY DEF NoIncident, Incidents
<1>4. ASSUME NEW i \in Ids
      PROVE  Survives(kept, torn).incident[i] \in Incidents
  BY <1>2, <1>3 DEF Survives, Incidents
<1>5. Survives(kept, torn).incident \in [Ids -> Incidents]
  BY <1>4 DEF Survives
<1> QED
  BY <1>1, <1>5 DEF Survives, FileSystems

LEMMA FaultTyped == Typed /\ (Crash \/ PowerLoss \/ Others) => Typed'
<1> SUFFICES ASSUME Typed, Crash \/ PowerLoss \/ Others
             PROVE  Typed'
    OBVIOUS
<1> USE TypeFacts, RecoveryBounds
    DEF Typed, TypeOK, CallTyped, PCs, Writing, Copying, Erasing, Goto, Local, Unchanged, Jobs
<1>1. CASE Crash
    BY <1>1 DEF Crash
<1>2. CASE PowerLoss
    BY <1>2, SurvivesTyped DEF PowerLoss
<1>3. CASE Decay
  <2>1. Fresh \in Versions
    BY <1>3 DEF Decay, Fresh, Versions
  <2>2. live' \in FileSystems /\ disk' \in FileSystems
    BY <1>3, <2>1, FileSystemChanged DEF Decay, Files
  <2> QED
    BY <1>3, <2>1, <2>2 DEF Decay
<1>4. CASE TakeSidecar
  <2>1. live' \in FileSystems /\ disk' \in FileSystems
    BY <1>4, FileSystemChanged DEF TakeSidecar, Files
  <2> QED
    BY <1>4, <2>1 DEF TakeSidecar
<1>5. ASSUME NEW f \in Files, NEW usable \in BOOLEAN, Touch(f, usable)
      PROVE  Typed'
  <2>1. Fresh \in Versions
    BY <1>5 DEF Touch, Fresh, Versions
  <2>2. live' \in FileSystems /\ disk' \in FileSystems
    BY <1>5, <2>1, FileSystemChanged DEF Touch
  <2>3. history' \in [owed : SUBSET (Files \X Versions), purged : SUBSET (Files \X Versions),
                     overtaken : SUBSET (Files \X Versions)]
    <3>1. <<f, Fresh>> \in Files \X Versions
      BY <2>1
    <3>2. history' \in {history, [history EXCEPT !.overtaken = @ \cup {<<f, Fresh>>}]}
      BY <1>5 DEF Touch
    <3> QED
      BY <3>1, <3>2
  <2> QED
    BY <1>5, <2>1, <2>2, <2>3 DEF Touch
<1> QED
    BY <1>1, <1>2, <1>3, <1>4, <1>5 DEF Others

LEMMA InitTyped == Init => Typed
<1> SUFFICES ASSUME Init PROVE Typed
    OBVIOUS
<1>1. 1 \in Versions
  BY RecoveryBounds DEF Versions
<1>2. live \in FileSystems
  BY <1>1 DEF Init, FileSystems, Files, NoIncident, Incidents
<1> QED
  BY <1>1, <1>2, RecoveryBounds
  DEF Init, Typed, TypeOK, CallTyped, PCs, Writing, Copying, Erasing, Jobs, Idle, Phases

LEMMA TypedKept == Typed /\ [Next]_vars => Typed'
<1>1. Typed /\ UNCHANGED vars => Typed'
  BY DEF Typed, TypeOK, CallTyped, vars
<1> QED
  BY <1>1, ReconcileTyped, WriteTyped, FinalizeTyped, OpenTyped, QuarantineTyped, EraseTyped,
     PurgeTyped, FaultTyped DEF Next, Work

\* Whatever a start or a purge had done when it was killed, and whatever the
\* medium had of it, the files and the locals of the next call have their
\* types, and a call that works on an incident has one.
THEOREM RecoveryIsTyped == Spec => []TypeOK
<1>1. Spec => []Typed
  BY InitTyped, TypedKept, PTL DEF Spec
<1> QED
  BY <1>1, PTL DEF Typed

-----------------------------------------------------------------------------
\* No version is older than a file that has it.
VersionsBorn ==
    /\ \A f \in Files : live.source[f] <= born /\ disk.source[f] <= born
    /\ \A i \in Ids, f \in Files : listed[i][f] <= born
    /\ job.cand <= born

\* A file differs from the medium only by having been removed.
OnlyRemoved == \A f \in Files : live.source[f] \in {Absent, disk.source[f]}

\* What is quarantined as a database could not be opened.
ListedUnusable ==
    /\ \A i \in Ids : listed[i]["db"] \in bad \cup {Absent}
    /\ pc = "quarantine" /\ live.source["db"] = job.cand => job.cand \in bad
    /\ pc = "made" => job.cand \in bad

\* Between the comparison and the unlink: the file is what was compared, or is
\* gone, or was overtaken.
Compared ==
    pc = "unlinking" =>
        /\ job.left # {}
        /\ \/ live.source[NextRemoved] \in {Absent, listed[job.inc][NextRemoved]}
           \/ <<NextRemoved, live.source[NextRemoved]>> \in history.overtaken

\* Nobody overtakes a removal who is not there.
Alone == ~Contested => history.overtaken = {}

Laid == VersionsBorn /\ OnlyRemoved /\ ListedUnusable

Displaced == Laid /\ Compared /\ Alone

\* A step that has nothing to do with the database's own files.
Quiet ==
    /\ live'.source = live.source /\ disk'.source = disk.source
    /\ UNCHANGED <<listed, born, bad>>
    /\ job'.cand \in {job.cand, Absent}
    /\ pc' \notin {"quarantine", "made"}

\* The steps that are not quiet.
Loud ==
    \/ RemoveOriginal \/ RemoveDone \/ Open \/ (\E i \in Ids : QuarantineMade(i))
    \/ QuarantineListed \/ Crash \/ PowerLoss \/ Others

LEMMA QuietOrLoud == Typed /\ Next => Quiet \/ Loud
<1> SUFFICES ASSUME Typed, Next, ~Loud PROVE Quiet
    OBVIOUS
<1> USE TypeFacts
    DEF Quiet, Typed, TypeOK, CallTyped, Goto, Local, Unchanged, FileSystems, Jobs, Idle
<1>1. CASE Start
    BY <1>1 DEF Start
<1>2. CASE ReconcileDone
    BY <1>2 DEF ReconcileDone
<1>3. ASSUME NEW i \in Ids, ReconcileRefused(i)
      PROVE  Quiet
    BY <1>3 DEF ReconcileRefused, Refused
<1>4. ASSUME NEW i \in Ids, ReconcileErase(i)
      PROVE  Quiet
    BY <1>4 DEF ReconcileErase
<1>5. ASSUME NEW i \in Ids, ReconcileReady(i)
      PROVE  Quiet
    BY <1>5 DEF ReconcileReady
<1>6. ASSUME NEW i \in Ids, ReconcileFinalized(i)
      PROVE  Quiet
    BY <1>6 DEF ReconcileFinalized, Reconciling
<1>7. CASE WriteTemp
    BY <1>7 DEF WriteTemp
<1>8. CASE WriteSynced
    BY <1>8 DEF WriteSynced
<1>9. CASE WriteRenamed
    BY <1>9 DEF WriteRenamed
<1>10. CASE WriteDone
    BY <1>10 DEF WriteDone, AfterWrite, SyncIncident, Phases
<1>11. CASE FinalizeChanged
    BY <1>11 DEF FinalizeChanged
<1>12. CASE FinalizeBegin
    BY <1>12 DEF FinalizeBegin
<1>13. CASE RemoveChanged \/ RemoveCompared \/ RemoveAbsent \/ RemoveFailed
    BY <1>13 DEF RemoveChanged, RemoveCompared, RemoveAbsent, RemoveFailed
<1>14. CASE QuarantineChanged
    BY <1>14 DEF QuarantineChanged
<1>15. CASE QuarantineFull
    BY <1>15 DEF QuarantineFull
<1>16. CASE CopyCreate
    BY <1>16 DEF CopyCreate
<1>17. CASE CopyWrite
    BY <1>17 DEF CopyWrite
<1>18. CASE CopySync
    BY <1>18 DEF CopySync
<1>19. CASE CopiesSynced
    BY <1>19 DEF CopiesSynced, SyncIncident
<1>20. CASE Revalidate
    BY <1>20 DEF Revalidate
<1>21. CASE Changed
    BY <1>21 DEF Changed
<1>22. CASE EraseOverwrite
    BY <1>22 DEF EraseOverwrite
<1>23. CASE EraseState
    BY <1>23 DEF EraseState
<1>24. CASE EraseUnlink
    BY <1>24 DEF EraseUnlink
<1>25. CASE EraseSynced
    BY <1>25 DEF EraseSynced, SyncIncident
<1>26. CASE EraseDirectory
    BY <1>26 DEF EraseDirectory
<1>27. CASE EraseDone
    BY <1>27 DEF EraseDone, SyncRoot
<1>28. ASSUME NEW i \in Ids, PurgeNext(i)
      PROVE  Quiet
    BY <1>28 DEF PurgeNext
<1>29. CASE PurgeDone
    BY <1>29 DEF PurgeDone
<1>30. CASE PurgeBegin
    BY <1>30 DEF PurgeBegin
<1>31. CASE Exit
    BY <1>31 DEF Exit
<1> QED
    BY <1>1, <1>2, <1>3, <1>4, <1>5, <1>6, <1>7, <1>8, <1>9, <1>10, <1>11, <1>12,
       <1>13, <1>14, <1>15, <1>16, <1>17, <1>18, <1>19, <1>20, <1>21, <1>22, <1>23,
       <1>24, <1>25, <1>26, <1>27, <1>28, <1>29, <1>30, <1>31
    DEF Next, Work, Reconcile, Write, Finalize, Quarantine, Erase, Loud

LEMMA LaidKept == Typed /\ Laid /\ [Next]_vars => Laid'
<1> SUFFICES ASSUME Typed, Laid, [Next]_vars PROVE Laid'
    OBVIOUS
<1>0. Typed'
  BY TypedKept
<1>t. /\ born \in Nat /\ born' \in Nat /\ job.cand \in Nat /\ job'.cand \in Nat
      /\ \A f \in Files : live.source[f] \in Nat /\ disk.source[f] \in Nat
      /\ \A i \in Ids, f \in Files : listed[i][f] \in Nat
      /\ live.source \in [Files -> Nat] /\ disk.source \in [Files -> Nat]
      /\ "db" \in Files /\ "wal" \in Files
  <2>1. Versions \cup {Absent} \subseteq Nat
    BY RecoveryBounds DEF Versions, Absent
  <2>2. /\ born \in Versions /\ born' \in Versions /\ live \in FileSystems /\ disk \in FileSystems
        /\ job \in Jobs /\ job' \in Jobs /\ listed \in [Ids -> [Files -> Versions \cup {Absent}]]
    BY <1>0 DEF Typed, TypeOK
  <2>3. job.cand \in Versions \cup {Absent} /\ job'.cand \in Versions \cup {Absent}
    BY <2>2 DEF Jobs
  <2>4. /\ live.source \in [Files -> Versions \cup {Absent}]
        /\ disk.source \in [Files -> Versions \cup {Absent}]
    BY <2>2 DEF FileSystems
  <2> HIDE DEF Versions, Absent
  <2> QED
    BY <2>1, <2>2, <2>3, <2>4 DEF Files
<1> USE <1>t DEF Laid, VersionsBorn, OnlyRemoved, ListedUnusable, Absent
<1>1. CASE UNCHANGED vars
  BY <1>1 DEF vars
<1>2. CASE Quiet
  BY <1>2 DEF Quiet
<1> USE TypeFacts DEF FileSystems, Goto, Local, Unchanged, Idle
<1>3. CASE RemoveOriginal
  BY <1>3 DEF RemoveOriginal
<1>4. CASE RemoveDone
  BY <1>4 DEF RemoveDone, SyncSources
<1>5. CASE Identify
  BY <1>5 DEF Identify
<1>6. CASE OpenFresh
  BY <1>6 DEF OpenFresh, Fresh
<1>7. CASE OpenUsable
  BY <1>7 DEF OpenUsable, SyncSources
<1>8. CASE OpenUnusable
  BY <1>8 DEF OpenUnusable
<1>9. ASSUME NEW i \in Ids, QuarantineMade(i)
      PROVE  Laid'
  BY <1>9 DEF QuarantineMade
<1>10. CASE QuarantineListed
  <2>1. /\ live' = live /\ disk'.source = disk.source /\ born' = born /\ bad' = bad
        /\ job'.cand = job.cand /\ pc' \in {"down", "write"} /\ job.cand \in bad
    BY <1>10 DEF QuarantineListed, SyncRoot, Jobs
  <2>2. ASSUME NEW i \in Ids, NEW f \in Files
        PROVE  /\ listed'[i][f] \in {listed[i][f], live.source[f], job.cand}
               /\ listed'[i]["db"] \in {listed[i]["db"], job.cand}
    <3>1. CASE listed' = listed
      BY <3>1
    <3>2. CASE listed' = [listed EXCEPT ![job.inc] = [live.source EXCEPT !["db"] = job.cand]]
      <4>0. i \in Ids /\ f \in Files /\ "db" \in Files /\ live.source \in [Files -> Nat]
            /\ listed \in [Ids -> [Files -> Versions \cup {Absent}]]
        BY <1>t DEF Typed, TypeOK
      <4>1. i # job.inc => listed'[i] = listed[i]
        BY ONLY <3>2, <4>0
      <4>2. i = job.inc => listed'[i] = [live.source EXCEPT !["db"] = job.cand]
        BY ONLY <3>2, <4>0
      <4>3. [live.source EXCEPT !["db"] = job.cand][f] \in {live.source[f], job.cand}
        BY ONLY <4>0
      <4>4. [live.source EXCEPT !["db"] = job.cand]["db"] = job.cand
        BY ONLY <4>0
      <4> QED
        BY <4>1, <4>2, <4>3, <4>4
    <3> QED
      BY <1>10, <3>1, <3>2 DEF QuarantineListed
  <2> QED
    BY <2>1, <2>2
<1>11. CASE Crash
  BY <1>11 DEF Crash
<1>12. CASE PowerLoss
  BY <1>12 DEF PowerLoss, Survives
<1>13. CASE Decay
  BY <1>13 DEF Decay, Fresh
<1>14. CASE TakeSidecar
  BY <1>14 DEF TakeSidecar
<1>15. ASSUME NEW f \in Files, NEW usable \in BOOLEAN, Touch(f, usable)
       PROVE  Laid'
  BY <1>15 DEF Touch, Fresh
<1> QED
  BY <1>1, <1>2, <1>3, <1>4, <1>5, <1>6, <1>7, <1>8, <1>9, <1>10, <1>11, <1>12, <1>13, <1>14,
     <1>15, QuietOrLoud DEF Loud, Open, Others

\* Who changes the history, and who comes between a comparison and its unlink.
LEMMA HistorySteps ==
    ASSUME Typed, Next
    PROVE  /\ \/ UNCHANGED history \/ RemoveOriginal \/ PurgeDone \/ (\E i \in Ids : PurgeNext(i))
              \/ \E f \in Files, usable \in BOOLEAN : Touch(f, usable)
           /\ pc' = "unlinking" =>
                \/ RemoveCompared \/ TakeSidecar
                \/ \E f \in Files, usable \in BOOLEAN : Touch(f, usable)
<1> SUFFICES ASSUME ~TakeSidecar, ~\E f \in Files, usable \in BOOLEAN : Touch(f, usable)
             PROVE  /\ \/ UNCHANGED history \/ RemoveOriginal \/ PurgeDone
                       \/ \E i \in Ids : PurgeNext(i)
                    /\ pc' = "unlinking" => RemoveCompared
  BY DEF TakeSidecar
<1> USE DEF Unchanged, Goto
<1>1. CASE RemoveOriginal \/ PurgeDone \/ \E i \in Ids : PurgeNext(i)
  BY <1>1 DEF RemoveOriginal, PurgeDone, PurgeNext
<1>2. CASE Reconcile \/ Erase
  BY <1>2, TypeFacts DEF Reconcile, Start, ReconcileDone, ReconcileRefused, ReconcileErase, ReconcileReady,
     ReconcileFinalized, Reconciling, Refused, Erase,
     EraseOverwrite, EraseState, EraseUnlink, EraseSynced, EraseDirectory, EraseDone, Jobs
<1>3. CASE Write
  BY <1>3, TypeFacts DEF Write, WriteTemp, WriteSynced, WriteRenamed, WriteDone, AfterWrite, Jobs, Phases
<1>4. CASE FinalizeChanged \/ FinalizeBegin \/ RemoveChanged \/ RemoveCompared
           \/ RemoveAbsent \/ RemoveFailed \/ RemoveDone
  BY <1>4 DEF FinalizeChanged, FinalizeBegin, RemoveChanged, RemoveCompared, RemoveAbsent,
     RemoveFailed, RemoveDone
<1>5. CASE Open \/ Quarantine
  BY <1>5 DEF Open, Identify, OpenFresh,
     OpenUsable, OpenUnusable, Quarantine, QuarantineChanged, QuarantineMade, QuarantineFull,
     QuarantineListed, CopyCreate, CopyWrite, CopySync, CopiesSynced, Revalidate, Changed
<1>6. CASE PurgeBegin \/ Exit \/ Crash \/ PowerLoss \/ Decay
  BY <1>6 DEF PurgeBegin, Exit, Crash, PowerLoss, Decay
<1> QED
  BY <1>1, <1>2, <1>3, <1>4, <1>5, <1>6 DEF Next, Work, Finalize, Others

\* An overtaken original is owed no longer.
LEMMA TouchKeepsOwed ==
    ASSUME Typed, NEW f \in Files, NEW usable \in BOOLEAN, Touch(f, usable)
    PROVE  Owed' \subseteq Owed
<1>1. history'.owed = history.owed /\ history.overtaken \subseteq history'.overtaken
  BY DEF Touch, Typed, TypeOK
<1> QED
  BY <1>1 DEF Owed

LEMMA OwedShrinks ==
    ASSUME Typed, Next, ~RemoveOriginal
    PROVE  Owed' \subseteq Owed
<1> USE DEF Owed, Typed, TypeOK
<1>1. CASE UNCHANGED history
  BY <1>1
<1>2. CASE PurgeDone
  BY <1>2 DEF PurgeDone
<1>3. ASSUME NEW i \in Ids, PurgeNext(i)
      PROVE  Owed' \subseteq Owed
  BY <1>3 DEF PurgeNext
<1>4. ASSUME NEW f \in Files, NEW usable \in BOOLEAN, Touch(f, usable)
      PROVE  Owed' \subseteq Owed
  BY <1>4, TouchKeepsOwed
<1> QED
  BY <1>1, <1>2, <1>3, <1>4, HistorySteps

LEMMA ComparedKept == Typed /\ Displaced /\ [Next]_vars => Compared' /\ Alone'
<1> SUFFICES ASSUME Typed, Displaced, [Next]_vars PROVE Compared' /\ Alone'
    OBVIOUS
<1> USE TypeFacts DEF Displaced, Compared, Alone, NextRemoved
<1>1. CASE UNCHANGED vars
  BY <1>1 DEF vars
<1>2. CASE RemoveCompared
  BY <1>2 DEF RemoveCompared, Goto, Unchanged
<1>3. CASE TakeSidecar
  <2>1. /\ pc' = pc /\ job' = job /\ listed' = listed /\ history' = history
        /\ live'.source = [live.source EXCEPT !["wal"] = Absent] /\ Contested
    BY <1>3 DEF TakeSidecar, FileSystems
  <2>2. NextRemoved' = NextRemoved /\ live'.source[NextRemoved] \in {live.source[NextRemoved], Absent}
    BY <2>1 DEF Files
  <2> QED
    BY <2>1, <2>2
<1>4. ASSUME NEW f \in Files, NEW usable \in BOOLEAN, Touch(f, usable)
      PROVE  Compared' /\ Alone'
  <2>1. /\ pc' = pc /\ job' = job /\ listed' = listed /\ Contested
        /\ live'.source = [live.source EXCEPT ![f] = Fresh]
        /\ history' = IF pc = "unlinking" /\ f = NextRemoved
                      THEN [history EXCEPT !.overtaken = @ \cup {<<f, Fresh>>}]
                      ELSE history
    BY <1>4 DEF Touch, FileSystems
  <2>2. CASE pc = "unlinking" /\ f = NextRemoved
    <3>1. <<f, Fresh>> \in history'.overtaken
      BY <2>1, <2>2 DEF Typed, TypeOK
    <3>2. NextRemoved' = f /\ live'.source[f] = Fresh
      BY <2>1, <2>2
    <3> QED
      BY <2>1, <2>2, <3>1, <3>2
  <2>3. CASE ~(pc = "unlinking" /\ f = NextRemoved)
    <3>1. history' = history
      BY <2>1, <2>3
    <3>2. pc = "unlinking" => live'.source[NextRemoved] = live.source[NextRemoved]
      BY <2>1, <2>3
    <3> QED
      BY <2>1, <3>1, <3>2
  <2> QED
    BY <2>2, <2>3
<1>5. ASSUME Next, ~TakeSidecar, ~RemoveCompared,
             ~\E f \in Files, usable \in BOOLEAN : Touch(f, usable)
      PROVE  Compared' /\ Alone'
  <2>1. pc' # "unlinking"
    BY <1>5, HistorySteps
  <2>2. history'.overtaken = history.overtaken
    <3>1. CASE RemoveOriginal
      BY <3>1 DEF RemoveOriginal, Typed, TypeOK
    <3>2. CASE PurgeDone \/ \E i \in Ids : PurgeNext(i)
      BY <3>2 DEF PurgeDone, PurgeNext, Typed, TypeOK
    <3> QED
      BY <1>5, <3>1, <3>2, HistorySteps
  <2> QED
    BY <2>1, <2>2
<1> QED
  BY <1>1, <1>2, <1>3, <1>4, <1>5

LEMMA DisplacedKept == Typed /\ Displaced /\ [Next]_vars => Displaced'
BY LaidKept, ComparedKept DEF Displaced

LEMMA InitDisplaced == Init => Displaced
BY DEF Init, Displaced, Laid, Compared, Alone, VersionsBorn, OnlyRemoved, ListedUnusable, Idle, Files, Absent

LEMMA TypedDisplaced == Spec => [](Typed /\ Displaced)
<1>1. Init => Typed /\ Displaced
  BY InitTyped, InitDisplaced
<1>2. Typed /\ Displaced /\ [Next]_vars => (Typed /\ Displaced)'
  BY TypedKept, DisplacedKept
<1> QED
  BY <1>1, <1>2, PTL DEF Spec

\* A step that takes the database while originals are removed takes one that
\* could not be opened.
LEMMA RemovalStep ==
    ASSUME Typed, Displaced, [Next]_vars,
           pc \in {"remove", "unlinking"}, live.source["db"] # Absent, live'.source["db"] = Absent
    PROVE  \/ live.source["db"] \in bad
           \/ <<"db", live.source["db"]>> \in history.overtaken
<1> USE TypeFacts DEF FileSystems, Files
<1>1. "db" \in Files
  OBVIOUS
<1>2. ~(UNCHANGED vars) /\ ~Quiet
  BY DEF vars, Quiet
<1>3. CASE RemoveOriginal
  <2>1. NextRemoved = "db" /\ pc = "unlinking" /\ job.inc \in Ids
    BY <1>3 DEF RemoveOriginal, NextRemoved, Typed, CallTyped
  <2>2. CASE live.source["db"] = listed[job.inc]["db"]
    BY <2>1, <2>2 DEF Displaced, Laid, ListedUnusable
  <2> QED
    BY <2>1, <2>2 DEF Displaced, Compared
<1>4. CASE PowerLoss
  <2>1. live'.source["db"] \in {live.source["db"], disk.source["db"]}
    BY <1>4, <1>1 DEF PowerLoss, Survives
  <2> QED
    BY <2>1, <1>1 DEF Displaced, Laid, OnlyRemoved
<1>5. ~(RemoveDone \/ Open \/ (\E i \in Ids : QuarantineMade(i)) \/ QuarantineListed)
  BY DEF RemoveDone, Open, Identify, OpenFresh, OpenUsable, OpenUnusable, QuarantineMade,
         QuarantineListed
<1>6. ~Crash /\ ~Decay
  BY DEF Crash, Decay
<1>7. ~TakeSidecar
  BY DEF TakeSidecar
<1>8. ASSUME NEW f \in Files, NEW usable \in BOOLEAN, Touch(f, usable)
      PROVE  FALSE
  <2>1. Fresh # Absent
    BY RecoveryBounds DEF Fresh, Typed, TypeOK, Versions, Absent
  <2>2. live'.source["db"] \in {live.source["db"], Fresh}
    BY <1>8, <1>1 DEF Touch
  <2> QED
    BY <2>1, <2>2
<1> QED
  BY <1>2, <1>3, <1>4, <1>5, <1>6, <1>7, <1>8, QuietOrLoud DEF Loud, Others

\* Whoever else writes the database meanwhile, finalize_ready_incident never
\* unlinks one that could be opened, but for one written between the comparison
\* of its identity and the unlink: what an incident lists as the database is the
\* file that Storage::open refused.
THEOREM UsableIsNeverRemoved == Spec => UsableStays
<1> DEFINE Taken == (pc \in {"remove", "unlinking"}) /\ live.source["db"] # Absent /\ live'.source["db"] = Absent
                    => \/ live.source["db"] \in bad
                       \/ <<"db", live.source["db"]>> \in history.overtaken
<1>1. Typed /\ Displaced /\ [Next]_vars => [Taken]_vars
  BY RemovalStep
<1> QED
  BY <1>1, TypedDisplaced, PTL DEF Spec, UsableStays

-----------------------------------------------------------------------------
\* Which writes the medium may still lack.
FewUnsynced ==
    /\ \A i \in Ids : <<i, "state">> \notin unsynced
    /\ pc = "synced" => <<job.inc, "temp">> \notin unsynced
    /\ \A i \in Ids, f \in Files :
          <<i, f>> \in unsynced => pc = "filled" /\ i = job.inc /\ f = NextCopied

LEMMA FewUnsyncedKept == Typed /\ FewUnsynced /\ Next => FewUnsynced'
<1> SUFFICES ASSUME Typed, FewUnsynced, Next PROVE FewUnsynced'
    OBVIOUS
<1> USE DEF FewUnsynced, Typed, CallTyped, Copying, Writing, Goto, Local, Unchanged, NextCopied, Files
<1>1. CASE Start
  BY <1>1 DEF Start
<1>2. CASE ReconcileDone
  BY <1>2 DEF ReconcileDone
<1>3. ASSUME NEW i \in Ids, ReconcileRefused(i)
      PROVE  FewUnsynced'
  BY <1>3 DEF ReconcileRefused, Refused, Reconciling
<1>4. ASSUME NEW i \in Ids, ReconcileErase(i)
      PROVE  FewUnsynced'
  BY <1>4 DEF ReconcileErase, Reconciling
<1>5. ASSUME NEW i \in Ids, ReconcileReady(i)
      PROVE  FewUnsynced'
  BY <1>5 DEF ReconcileReady, Reconciling
<1>6. ASSUME NEW i \in Ids, ReconcileFinalized(i)
      PROVE  FewUnsynced'
  BY <1>6 DEF ReconcileFinalized, Reconciling
<1>7. CASE WriteTemp
  BY <1>7 DEF WriteTemp
<1>8. CASE WriteSynced
  BY <1>8 DEF WriteSynced
<1>9. CASE WriteRenamed
  BY <1>9 DEF WriteRenamed
<1>10. CASE WriteDone
  BY <1>10 DEF WriteDone, AfterWrite, TypeOK, Jobs, Phases
<1>11. CASE FinalizeChanged
  BY <1>11 DEF FinalizeChanged
<1>12. CASE FinalizeBegin
  BY <1>12 DEF FinalizeBegin
<1>13. CASE RemoveOriginal
  BY <1>13 DEF RemoveOriginal
<1>14. CASE RemoveChanged \/ RemoveCompared \/ RemoveAbsent \/ RemoveFailed
  BY <1>14 DEF RemoveChanged, RemoveCompared, RemoveAbsent, RemoveFailed
<1>15. CASE RemoveDone
  BY <1>15 DEF RemoveDone
<1>16. CASE Identify
  BY <1>16 DEF Identify
<1>17. CASE OpenFresh
  BY <1>17 DEF OpenFresh
<1>18. CASE OpenUsable
  BY <1>18 DEF OpenUsable
<1>19. CASE OpenUnusable
  BY <1>19 DEF OpenUnusable
<1>20. CASE QuarantineChanged
  BY <1>20 DEF QuarantineChanged
<1>21. ASSUME NEW i \in Ids, QuarantineMade(i)
      PROVE  FewUnsynced'
  BY <1>21 DEF QuarantineMade
<1>22. CASE QuarantineFull
  BY <1>22 DEF QuarantineFull
<1>23. CASE QuarantineListed
  BY <1>23 DEF QuarantineListed
<1>24. CASE CopyCreate
  BY <1>24 DEF CopyCreate
<1>25. CASE CopyWrite
  BY <1>25 DEF CopyWrite
<1>26. CASE CopySync
  BY <1>26 DEF CopySync
<1>27. CASE CopiesSynced
  BY <1>27 DEF CopiesSynced
<1>28. CASE Revalidate
  BY <1>28 DEF Revalidate
<1>29. CASE Changed
  BY <1>29 DEF Changed
<1>30. CASE EraseOverwrite
  BY <1>30 DEF EraseOverwrite
<1>31. CASE EraseState
  BY <1>31 DEF EraseState
<1>32. CASE EraseUnlink
  BY <1>32 DEF EraseUnlink
<1>33. CASE EraseSynced
  BY <1>33 DEF EraseSynced
<1>34. CASE EraseDirectory
  BY <1>34 DEF EraseDirectory
<1>35. CASE EraseDone
  BY <1>35 DEF EraseDone, TypeOK, Jobs
<1>36. ASSUME NEW i \in Ids, PurgeNext(i)
      PROVE  FewUnsynced'
  BY <1>36 DEF PurgeNext
<1>37. CASE PurgeDone
  BY <1>37 DEF PurgeDone
<1>38. CASE PurgeBegin
  BY <1>38 DEF PurgeBegin
<1>39. CASE Exit
  BY <1>39 DEF Exit
<1>40. CASE Crash
  BY <1>40 DEF Crash
<1>41. CASE PowerLoss
  BY <1>41 DEF PowerLoss
<1>42. CASE Decay
  BY <1>42 DEF Decay
<1>43. CASE TakeSidecar
  BY <1>43 DEF TakeSidecar
<1>44. ASSUME NEW f \in Files, NEW usable \in BOOLEAN, Touch(f, usable)
      PROVE  FewUnsynced'
  BY <1>44 DEF Touch
<1> QED
  BY <1>1, <1>2, <1>3, <1>4, <1>5, <1>6, <1>7, <1>8, <1>9, <1>10, <1>11, <1>12, <1>13,
     <1>14, <1>15, <1>16, <1>17, <1>18, <1>19, <1>20, <1>21, <1>22, <1>23, <1>24, <1>25,
     <1>26, <1>27, <1>28, <1>29, <1>30, <1>31, <1>32, <1>33, <1>34, <1>35, <1>36, <1>37,
     <1>38, <1>39, <1>40, <1>41, <1>42, <1>43, <1>44
     DEF Next, Work, Reconcile, Write, Finalize, Open, Quarantine, Erase, Others

OnMedium(i) ==
    /\ live.incident[i].there /\ disk.incident[i].there
    /\ live.incident[i].copy = disk.incident[i].copy

\* The copies of an incident are on the medium before its state says so, and its
\* state is before anything else happens.
KeepersDurable ==
    \A i \in Ids : live.incident[i].state \in Keeping =>
        /\ OnMedium(i)
        /\ \/ disk.incident[i].state \in Keeping
           \/ (pc = "renamed" /\ job.inc = i /\ job.phase = "Ready")

WritingPhase(phase) == pc \in Writing /\ job.phase = phase

\* Where the call is says what has been done to its incident.
Protocol ==
    /\ pc = "renamed" => Here.state = job.phase
    /\ pc = "made" => Here.there /\ Here.state = "none"
    /\ pc \in Copying \/ WritingPhase("Pending") =>
         /\ Here.state \notin Keeping
         /\ Here.there /\ disk.incident[job.inc].there
    /\ pc = "copied" \/ WritingPhase("Ready") => OnMedium(job.inc)
    /\ pc \in {"finalize", "remove", "unlinking"} \/ WritingPhase("Finalized") =>
         Here.state \in Keeping
    /\ WritingPhase("Purging") =>
         \A f \in Files : <<f, Here.copy[f]>> \notin Owed
    /\ pc \in Erasing => Here.state \notin Keeping
    /\ pc \in {"remove", "unlinking"} =>
         \A f \in job.left :
            /\ listed[job.inc][f] # Absent
            /\ live.source[f] = listed[job.inc][f] => Here.copy[f] = listed[job.inc][f]

Safeguarded == FewUnsynced /\ KeepersDurable /\ Protocol /\ OriginalsKept

\* Steps that change no copy, no state and no name of an incident.
SameIncidents ==
    /\ pc # "renamed"
    /\ \A i \in Ids :
          /\ live'.incident[i].there = live.incident[i].there
          /\ live'.incident[i].state = live.incident[i].state
          /\ live'.incident[i].copy = live.incident[i].copy
          /\ disk'.incident[i].there = disk.incident[i].there
          /\ disk'.incident[i].state = disk.incident[i].state
          /\ disk'.incident[i].copy = disk.incident[i].copy
          /\ \A f \in Files : <<i, f>> \in unsynced' => <<i, f>> \in unsynced

LEMMA SameIncidentsKeep ==
    ASSUME Safeguarded, SameIncidents, Owed' \subseteq Owed, Owed \subseteq Files \X Versions
    PROVE  KeepersDurable' /\ OriginalsKept'
<1>1. KeepersDurable'
  BY DEF Safeguarded, KeepersDurable, SameIncidents, OnMedium
<1>2. ASSUME NEW o \in Owed'
      PROVE  \E i \in Ids : KeepsForGood(i, o[1], o[2])'
  <2>1. o \in Owed /\ o[1] \in Files
    BY <1>2 DEF SameIncidents
  <2>2. PICK i \in Ids : KeepsForGood(i, o[1], o[2])
    BY <2>1 DEF Safeguarded, OriginalsKept
  <2>3. KeepsForGood(i, o[1], o[2])'
    BY <2>1, <2>2 DEF KeepsForGood, SameIncidents
  <2> QED
    BY <2>3
<1> QED
  BY <1>1, <1>2 DEF OriginalsKept

\* Steps that work on an incident whose copies do not count.
AtWork(i) ==
    /\ live.incident[i].state \notin Keeping /\ live'.incident[i].state \notin Keeping
    /\ pc = "renamed" => job.inc = i
    /\ \A j \in Ids \ {i} :
          /\ OnMedium(j) => live'.incident[j] = live.incident[j] /\ disk'.incident[j] = disk.incident[j]
          /\ live.incident[j].state \notin Keeping => live'.incident[j].state \notin Keeping
          /\ \A f \in Files : <<j, f>> \in unsynced' => <<j, f>> \in unsynced

LEMMA AtWorkKeeps ==
    ASSUME Safeguarded, NEW i \in Ids, AtWork(i), Owed' \subseteq Owed, Owed \subseteq Files \X Versions
    PROVE  KeepersDurable' /\ OriginalsKept'
<1>1. KeepersDurable'
  BY DEF Safeguarded, KeepersDurable, AtWork, OnMedium
<1>2. ASSUME NEW o \in Owed'
      PROVE  \E j \in Ids : KeepsForGood(j, o[1], o[2])'
  <2>1. o \in Owed /\ o[1] \in Files
    BY <1>2 DEF AtWork
  <2>2. PICK j \in Ids : KeepsForGood(j, o[1], o[2])
    BY <2>1 DEF Safeguarded, OriginalsKept
  <2>3. j # i /\ OnMedium(j)
    BY <2>2 DEF KeepsForGood, AtWork, Keeping, Safeguarded, KeepersDurable
  <2>4. KeepsForGood(j, o[1], o[2])'
    BY <2>1, <2>2, <2>3 DEF KeepsForGood, AtWork
  <2> QED
    BY <2>4
<1> QED
  BY <1>1, <1>2 DEF OriginalsKept

\* The steps that move between the parts of the protocol, or change the
\* sources.
Calm ==
    \/ Start \/ ReconcileDone \/ (\E i \in Ids : ReconcileRefused(i))
    \/ (\E i \in Ids : ReconcileErase(i)) \/ (\E i \in Ids : ReconcileReady(i))
    \/ (\E i \in Ids : ReconcileFinalized(i)) \/ WriteTemp \/ WriteSynced
    \/ FinalizeChanged \/ FinalizeBegin \/ RemoveChanged \/ RemoveCompared
    \/ RemoveAbsent \/ RemoveFailed \/ RemoveDone \/ Identify
    \/ OpenFresh \/ OpenUsable \/ OpenUnusable \/ QuarantineChanged \/ QuarantineFull
    \/ Revalidate \/ Changed \/ (\E i \in Ids : PurgeNext(i)) \/ PurgeDone \/ PurgeBegin
    \/ Exit \/ Decay \/ TakeSidecar
    \/ (\E f \in Files, usable \in BOOLEAN : Touch(f, usable))

LEMMA CalmSteps == Typed /\ Calm => SameIncidents
<1> SUFFICES ASSUME Typed, Calm PROVE SameIncidents
    OBVIOUS
<1> USE TypeFacts DEF SameIncidents, Typed, TypeOK, CallTyped, Writing, Goto, Local, Unchanged, FileSystems,
                      Incidents, Files
<1>1. CASE Start
  BY <1>1 DEF Start
<1>2. CASE ReconcileDone
  BY <1>2 DEF ReconcileDone
<1>3. ASSUME NEW i \in Ids, ReconcileRefused(i)
      PROVE  SameIncidents
  BY <1>3 DEF ReconcileRefused, Refused, Reconciling
<1>4. ASSUME NEW i \in Ids, ReconcileErase(i)
      PROVE  SameIncidents
  BY <1>4 DEF ReconcileErase, Reconciling
<1>5. ASSUME NEW i \in Ids, ReconcileReady(i)
      PROVE  SameIncidents
  BY <1>5 DEF ReconcileReady, Reconciling
<1>6. ASSUME NEW i \in Ids, ReconcileFinalized(i)
      PROVE  SameIncidents
  BY <1>6 DEF ReconcileFinalized, Reconciling
<1>7. CASE WriteTemp
  BY <1>7 DEF WriteTemp
<1>8. CASE WriteSynced
  BY <1>8 DEF WriteSynced
<1>9. CASE FinalizeChanged
  BY <1>9 DEF FinalizeChanged
<1>10. CASE FinalizeBegin
  BY <1>10 DEF FinalizeBegin
<1>11. CASE RemoveChanged \/ RemoveCompared \/ RemoveAbsent \/ RemoveFailed
  BY <1>11 DEF RemoveChanged, RemoveCompared, RemoveAbsent, RemoveFailed
<1>12. CASE RemoveDone
  BY <1>12 DEF RemoveDone, SyncSources
<1>13. CASE Identify
  BY <1>13 DEF Identify
<1>14. CASE OpenFresh
  BY <1>14 DEF OpenFresh
<1>15. CASE OpenUsable
  BY <1>15 DEF OpenUsable, SyncSources
<1>16. CASE OpenUnusable
  BY <1>16 DEF OpenUnusable
<1>17. CASE QuarantineChanged
  BY <1>17 DEF QuarantineChanged
<1>18. CASE QuarantineFull
  BY <1>18 DEF QuarantineFull
<1>19. CASE Revalidate
  BY <1>19 DEF Revalidate
<1>20. CASE Changed
  BY <1>20 DEF Changed
<1>21. ASSUME NEW i \in Ids, PurgeNext(i)
      PROVE  SameIncidents
  BY <1>21 DEF PurgeNext
<1>22. CASE PurgeDone
  BY <1>22 DEF PurgeDone
<1>23. CASE PurgeBegin
  BY <1>23 DEF PurgeBegin
<1>24. CASE Exit
  BY <1>24 DEF Exit
<1>25. CASE Decay
  BY <1>25 DEF Decay
<1>26. CASE TakeSidecar
  BY <1>26 DEF TakeSidecar
<1>27. ASSUME NEW f \in Files, NEW usable \in BOOLEAN, Touch(f, usable)
      PROVE  SameIncidents
  BY <1>27 DEF Touch
<1> QED
  BY SMTT(30), <1>1, <1>2, <1>3, <1>4, <1>5, <1>6, <1>7, <1>8, <1>9, <1>10, <1>11, <1>12, <1>13,
     <1>14, <1>15, <1>16, <1>17, <1>18, <1>19, <1>20, <1>21, <1>22, <1>23, <1>24, <1>25,
     <1>26, <1>27 DEF Calm

\* What is erased does not come to count.
LEMMA ErasedStates ==
    ASSUME NEW x \in Incidents, x.state \notin Keeping, NEW e \in Files \cup {"temp", "state"}
    PROVE  Overwritten(x, e).state \notin Keeping /\ Unlinked(x, e).state \notin Keeping
BY DEF Overwritten, Unlinked, Incidents, Files, Keeping

\* A sync of the quarantine directory tells the medium nothing new about an
\* incident that both know.
LEMMA RootSynced ==
    ASSUME Typed, SyncRoot, NEW j \in Ids, OnMedium(j)
    PROVE  disk'.incident[j] = disk.incident[j]
<1>1. disk.incident[j] \in Incidents /\ disk \in FileSystems
  BY TypeFacts
<1>2. disk'.incident[j] = [disk.incident[j] EXCEPT !.there = TRUE]
  BY <1>1 DEF SyncRoot, OnMedium, FileSystems
<1>3. disk.incident[j].there = TRUE
  BY <1>1 DEF OnMedium, Incidents
<1> QED
  BY <1>1, <1>2, <1>3 DEF Incidents

\* The steps that make or destroy copies.
Making ==
    \/ (\E i \in Ids : QuarantineMade(i)) \/ QuarantineListed \/ CopyCreate \/ CopyWrite
    \/ CopySync \/ CopiesSynced \/ EraseOverwrite \/ EraseState \/ EraseUnlink
    \/ EraseSynced \/ EraseDirectory \/ EraseDone

LEMMA MakingSteps == Typed /\ Safeguarded /\ Making => job'.inc \in Ids /\ AtWork(job'.inc)
<1> SUFFICES ASSUME Typed, Safeguarded, Making PROVE job'.inc \in Ids /\ AtWork(job'.inc)
    OBVIOUS
<1> USE TypeFacts DEF AtWork, Typed, TypeOK, CallTyped, Writing, Copying, Erasing, Goto, Local, Unchanged,
                      FileSystems, Incidents, Safeguarded, Protocol, KeepersDurable, OnMedium, Here, Keeping
<1>1. ASSUME NEW i \in Ids, QuarantineMade(i)
      PROVE  job'.inc \in Ids /\ AtWork(job'.inc)
  <2>1. i \in Ids
    BY <1>1 DEF QuarantineMade
  <2>2. AtWork(i)
    BY <1>1, <2>1 DEF QuarantineMade, NoIncident
  <2> QED
    BY <1>1, <2>1, <2>2 DEF QuarantineMade, Jobs
<1>2. ASSUME QuarantineListed
      PROVE  job'.inc \in Ids /\ AtWork(job'.inc)
  <2>1. job.inc \in Ids
    BY <1>2 DEF QuarantineListed
  <2>2. AtWork(job.inc)
    BY <1>2, <2>1, RootSynced DEF QuarantineListed
  <2>3. job'.inc = job.inc
    BY <1>2 DEF QuarantineListed, Jobs
  <2> QED
    BY <2>1, <2>2, <2>3
<1>3. ASSUME CopyCreate
      PROVE  job'.inc \in Ids /\ AtWork(job'.inc)
  <2>1. job.inc \in Ids
    BY <1>3 DEF CopyCreate
  <2>2. AtWork(job.inc)
    <3>1. live'.incident[job.inc].state = live.incident[job.inc].state
      <4>1. CASE live.source[NextCopied] = Absent
        BY <1>3, <4>1 DEF CopyCreate
      <4>2. CASE live.source[NextCopied] # Absent
        <5>1. live' = [live EXCEPT !.incident[job.inc].copy[NextCopied] = Partial]
          BY <1>3, <4>2 DEF CopyCreate
        <5> QED
          BY <2>1, <5>1
      <4> QED
        BY <4>1, <4>2
    <3>2. \A j \in Ids \ {job.inc} : live'.incident[j] = live.incident[j]
      BY <1>3, <2>1 DEF CopyCreate
    <3> QED
      BY <1>3, <2>1, <3>1, <3>2 DEF CopyCreate
  <2> QED
    BY <1>3, <2>1, <2>2 DEF CopyCreate, Jobs
<1>4. ASSUME CopyWrite
      PROVE  job'.inc \in Ids /\ AtWork(job'.inc)
  <2>1. job.inc \in Ids
    BY <1>4 DEF CopyWrite
  <2>2. AtWork(job.inc)
    BY <1>4, <2>1 DEF CopyWrite
  <2> QED
    BY <1>4, <2>1, <2>2 DEF CopyWrite, Jobs
<1>5. ASSUME CopySync
      PROVE  job'.inc \in Ids /\ AtWork(job'.inc)
  <2>1. job.inc \in Ids
    BY <1>5 DEF CopySync
  <2>2. AtWork(job.inc)
    BY <1>5, <2>1 DEF CopySync
  <2> QED
    BY <1>5, <2>1, <2>2 DEF CopySync, Jobs
<1>6. ASSUME CopiesSynced
      PROVE  job'.inc \in Ids /\ AtWork(job'.inc)
  <2>1. job.inc \in Ids
    BY <1>6 DEF CopiesSynced
  <2>2. AtWork(job.inc)
    BY <1>6, <2>1 DEF CopiesSynced, SyncIncident
  <2> QED
    BY <1>6, <2>1, <2>2 DEF CopiesSynced, Jobs
<1>7. ASSUME EraseOverwrite
      PROVE  job'.inc \in Ids /\ AtWork(job'.inc)
  <2>1. job.inc \in Ids
    BY <1>7 DEF EraseOverwrite
  <2>2. AtWork(job.inc)
    <3>1. live'.incident[job.inc].state \notin Keeping
      <4>1. live.incident[job.inc].state \notin Keeping
        BY <1>7 DEF EraseOverwrite
      <4>2. Overwritten(live.incident[job.inc], NextErased).state \notin Keeping
        BY <2>1, <4>1, ErasedStates, EraseTypes
      <4>3. live'.incident[job.inc] = Overwritten(live.incident[job.inc], NextErased)
        BY <1>7, <2>1 DEF EraseOverwrite
      <4> QED
        BY <4>2, <4>3
    <3>2. \A j \in Ids \ {job.inc} :
             live'.incident[j] = live.incident[j] /\ disk'.incident[j] = disk.incident[j]
      BY <1>7, <2>1 DEF EraseOverwrite
    <3> QED
      BY <1>7, <2>1, <3>1, <3>2 DEF EraseOverwrite
  <2> QED
    BY <1>7, <2>1, <2>2 DEF EraseOverwrite, Jobs
<1>8. ASSUME EraseState
      PROVE  job'.inc \in Ids /\ AtWork(job'.inc)
  <2>1. job.inc \in Ids
    BY <1>8 DEF EraseState
  <2>2. AtWork(job.inc)
    <3>1. live'.incident[job.inc].state \notin Keeping
      BY SMTT(30), <1>8, <2>1, ErasedStates, EraseTypes DEF EraseState
    <3>2. \A j \in Ids \ {job.inc} :
             live'.incident[j] = live.incident[j] /\ disk'.incident[j] = disk.incident[j]
      BY <1>8, <2>1 DEF EraseState
    <3> QED
      BY <1>8, <2>1, <3>1, <3>2 DEF EraseState
  <2> QED
    BY <1>8, <2>1, <2>2 DEF EraseState, Jobs
<1>9. ASSUME EraseUnlink
      PROVE  job'.inc \in Ids /\ AtWork(job'.inc)
  <2>1. job.inc \in Ids
    BY <1>9 DEF EraseUnlink
  <2>2. AtWork(job.inc)
    <3>1. live'.incident[job.inc].state \notin Keeping
      BY SMTT(60), <1>9, <2>1, ErasedStates, EraseTypes DEF EraseUnlink
    <3>2. \A j \in Ids \ {job.inc} :
             live'.incident[j] = live.incident[j] /\ disk'.incident[j] = disk.incident[j]
      BY <1>9, <2>1 DEF EraseUnlink
    <3> QED
      BY <1>9, <2>1, <3>1, <3>2 DEF EraseUnlink
  <2> QED
    BY <1>9, <2>1, <2>2 DEF EraseUnlink, Jobs
<1>10. ASSUME EraseSynced
      PROVE  job'.inc \in Ids /\ AtWork(job'.inc)
  <2>1. job.inc \in Ids
    BY <1>10 DEF EraseSynced
  <2>2. AtWork(job.inc)
    BY <1>10, <2>1 DEF EraseSynced, SyncIncident
  <2> QED
    BY <1>10, <2>1, <2>2 DEF EraseSynced, Jobs
<1>11. ASSUME EraseDirectory
      PROVE  job'.inc \in Ids /\ AtWork(job'.inc)
  <2>1. job.inc \in Ids
    BY <1>11 DEF EraseDirectory
  <2>2. AtWork(job.inc)
    BY <1>11, <2>1 DEF EraseDirectory, NoIncident
  <2> QED
    BY <1>11, <2>1, <2>2 DEF EraseDirectory, Jobs
<1>12. ASSUME EraseDone
      PROVE  job'.inc \in Ids /\ AtWork(job'.inc)
  <2>1. job.inc \in Ids
    BY <1>12 DEF EraseDone
  <2>2. AtWork(job.inc)
    BY <1>12, <2>1, RootSynced DEF EraseDone
  <2> QED
    BY <1>12, <2>1, <2>2 DEF EraseDone, Jobs
<1> QED
  BY <1>1, <1>2, <1>3, <1>4, <1>5, <1>6, <1>7, <1>8, <1>9, <1>10, <1>11, <1>12 DEF Making

LEMMA RenamedKeeps == Typed /\ Safeguarded /\ WriteRenamed => KeepersDurable' /\ OriginalsKept'
<1> SUFFICES ASSUME Typed, Safeguarded, WriteRenamed PROVE KeepersDurable' /\ OriginalsKept'
    OBVIOUS
<1> USE TypeFacts DEF WriteRenamed, Writing, WritingPhase, Goto, Local, Unchanged, FileSystems, Incidents
<1>1. /\ job.inc \in Ids /\ job.phase \in Phases /\ job' = job /\ history' = history
      /\ pc = "synced" /\ pc' = "renamed" /\ disk' = disk
  BY DEF Typed, CallTyped, Jobs
<1>o. Owed' = Owed
  BY <1>1 DEF Owed
<1>2. /\ \A i \in Ids \ {job.inc} : live'.incident[i] = live.incident[i]
      /\ live'.incident[job.inc].state = job.phase
      /\ live'.incident[job.inc].there = live.incident[job.inc].there
      /\ live'.incident[job.inc].copy = live.incident[job.inc].copy
  BY <1>1
<1>3. \A i \in Ids, f \in Files : <<i, f>> \notin unsynced /\ <<i, f>> \notin unsynced'
  BY <1>1 DEF Safeguarded, FewUnsynced, Files
<1>4. KeepersDurable'
  <2>1. ASSUME NEW i \in Ids \ {job.inc}, live'.incident[i].state \in Keeping
        PROVE  OnMedium(i)' /\ disk'.incident[i].state \in Keeping
    BY <1>1, <1>2, <2>1 DEF Safeguarded, KeepersDurable, OnMedium
  <2>2. CASE job.phase \notin Keeping
    BY <1>1, <1>2, <2>1, <2>2 DEF KeepersDurable
  <2>3. CASE job.phase \in Keeping
    <3>1. OnMedium(job.inc) /\ (job.phase = "Ready" \/ disk.incident[job.inc].state \in Keeping)
      BY <1>1, <2>3 DEF Safeguarded, Protocol, KeepersDurable, Here, Keeping
    <3>2. OnMedium(job.inc)'
      BY <1>1, <1>2, <3>1 DEF OnMedium
    <3> QED
      BY <1>1, <2>1, <3>1, <3>2 DEF KeepersDurable
  <2> QED
    BY <2>2, <2>3
<1>5. ASSUME NEW o \in Owed'
      PROVE  \E i \in Ids : KeepsForGood(i, o[1], o[2])'
  <2>1. o \in Owed /\ o = <<o[1], o[2]>> /\ o[1] \in Files
    BY <1>o, <1>5 DEF Typed, TypeOK, Owed
  <2>2. PICK i \in Ids : KeepsForGood(i, o[1], o[2])
    BY <2>1 DEF Safeguarded, OriginalsKept
  <2>3. i = job.inc => job.phase \in Keeping
    BY <1>1, <2>1, <2>2 DEF Safeguarded, Protocol, Here, Keeping, KeepsForGood, Phases
  <2>4. KeepsForGood(i, o[1], o[2])'
    <3>1. live'.incident[i].state \in Keeping /\ disk'.incident[i].state \in Keeping
      BY <1>1, <1>2, <2>2, <2>3 DEF KeepsForGood, Keeping
    <3>2. /\ live'.incident[i].there /\ live'.incident[i].copy[o[1]] = o[2]
          /\ disk'.incident[i].there /\ disk'.incident[i].copy[o[1]] = o[2]
      BY <1>1, <1>2, <2>2 DEF KeepsForGood
    <3> QED
      BY <1>3, <2>1, <3>1, <3>2 DEF KeepsForGood, Keeping
  <2> QED
    BY <2>4
<1> QED
  BY <1>4, <1>5 DEF OriginalsKept

LEMMA DoneKeeps == Typed /\ Safeguarded /\ WriteDone => KeepersDurable' /\ OriginalsKept'
<1> SUFFICES ASSUME Typed, Safeguarded, WriteDone PROVE KeepersDurable' /\ OriginalsKept'
    OBVIOUS
<1> USE TypeFacts DEF WriteDone, Writing, Goto, Local, Unchanged, FileSystems, Incidents
<1>1. /\ job.inc \in Ids /\ history' = history /\ unsynced' = unsynced
      /\ pc = "renamed" /\ live' = live
  BY DEF Typed, CallTyped
<1>o. Owed' = Owed
  BY DEF Owed
<1>2. /\ \A i \in Ids \ {job.inc} : disk'.incident[i] = disk.incident[i]
      /\ disk'.incident[job.inc].state = live.incident[job.inc].state
      /\ disk'.incident[job.inc].there = (live.incident[job.inc].there /\ disk.incident[job.inc].there)
      /\ disk'.incident[job.inc].copy = live.incident[job.inc].copy
  BY <1>1 DEF SyncIncident
<1>3. KeepersDurable'
  <2>1. ASSUME NEW i \in Ids, live'.incident[i].state \in Keeping
        PROVE  OnMedium(i)' /\ disk'.incident[i].state \in Keeping
    <3>1. OnMedium(i) /\ (i # job.inc => disk.incident[i].state \in Keeping)
      BY <1>1, <2>1 DEF Safeguarded, KeepersDurable
    <3>2. CASE i = job.inc
      BY <1>1, <1>2, <2>1, <3>1, <3>2 DEF OnMedium
    <3>3. CASE i # job.inc
      BY <1>1, <1>2, <2>1, <3>1, <3>3 DEF OnMedium
    <3> QED
      BY <3>2, <3>3
  <2> QED
    BY <2>1 DEF KeepersDurable
<1>4. ASSUME NEW o \in Owed'
      PROVE  \E i \in Ids : KeepsForGood(i, o[1], o[2])'
  <2>1. PICK i \in Ids : KeepsForGood(i, o[1], o[2])
    BY <1>o, <1>4 DEF Safeguarded, OriginalsKept
  <2>2. KeepsForGood(i, o[1], o[2])'
    BY SMTT(30), <1>1, <1>2, <2>1 DEF KeepsForGood
  <2> QED
    BY <2>2
<1> QED
  BY <1>3, <1>4 DEF OriginalsKept

LEMMA RemovalKeeps == Typed /\ Displaced /\ Safeguarded /\ RemoveOriginal => KeepersDurable' /\ OriginalsKept'
<1> SUFFICES ASSUME Typed, Displaced, Safeguarded, RemoveOriginal PROVE KeepersDurable' /\ OriginalsKept'
    OBVIOUS
<1> USE TypeFacts DEF RemoveOriginal, Goto, Local, Unchanged, FileSystems
<1>1. /\ job.inc \in Ids /\ unsynced' = unsynced /\ pc = "unlinking" /\ pc' = "remove" /\ disk' = disk
      /\ live'.incident = live.incident
  BY DEF Typed, CallTyped
<1>2. KeepersDurable'
  BY <1>1 DEF Safeguarded, KeepersDurable, OnMedium
<1>3. ASSUME NEW o \in Owed'
      PROVE  \E i \in Ids : KeepsForGood(i, o[1], o[2])
  <2>1. CASE o \in Owed
    BY <2>1 DEF Safeguarded, OriginalsKept
  <2>2. CASE o \notin Owed
    <3>1. live.source[NextRemoved] # Absent /\ o = <<NextRemoved, live.source[NextRemoved]>>
      <4>1. history' = [history EXCEPT !.owed = @ \cup {<<NextRemoved, live.source[NextRemoved]>>}]
        OBVIOUS
      <4>2. /\ history'.owed = history.owed \cup {<<NextRemoved, live.source[NextRemoved]>>}
            /\ history'.overtaken = history.overtaken
        BY <4>1 DEF Typed, TypeOK
      <4> QED
        BY <1>3, <2>2, <4>2 DEF Owed
    <3>2. NextRemoved \in job.left
      BY <1>1 DEF Displaced, Compared, NextRemoved, Jobs, Files
    <3>3. live.source[NextRemoved] = listed[job.inc][NextRemoved]
      BY <1>1, <1>3, <3>1 DEF Displaced, Compared, Owed
    <3>4. Here.copy[NextRemoved] = live.source[NextRemoved] /\ Here.state \in Keeping
      BY <1>1, <3>2, <3>3 DEF Safeguarded, Protocol
    <3>5. OnMedium(job.inc) /\ disk.incident[job.inc].state \in Keeping
      BY <1>1, <3>4 DEF Safeguarded, KeepersDurable, Here
    <3>6. <<job.inc, NextRemoved>> \notin unsynced
      BY <1>1 DEF Safeguarded, FewUnsynced
    <3>7. KeepsForGood(job.inc, NextRemoved, live.source[NextRemoved])
      BY <1>1, <3>4, <3>5, <3>6 DEF KeepsForGood, Here, OnMedium, Keeping
    <3> QED
      BY <1>1, <3>1, <3>7
  <2> QED
    BY <2>1, <2>2
<1>4. ASSUME NEW o \in Owed'
      PROVE  \E i \in Ids : KeepsForGood(i, o[1], o[2])'
  <2>1. PICK i \in Ids : KeepsForGood(i, o[1], o[2])
    BY <1>3, <1>4
  <2>2. KeepsForGood(i, o[1], o[2])'
    BY <1>1, <2>1 DEF KeepsForGood
  <2> QED
    BY <2>2
<1> QED
  BY <1>2, <1>4 DEF OriginalsKept

LEMMA FaultKeeps == Typed /\ Safeguarded /\ (Crash \/ PowerLoss) => KeepersDurable' /\ OriginalsKept'
<1> SUFFICES ASSUME Typed, Safeguarded, Crash \/ PowerLoss PROVE KeepersDurable' /\ OriginalsKept'
    OBVIOUS
<1>1. live' = disk' /\ unsynced' = {} /\ history' = history
  BY DEF Crash, PowerLoss
<1>o. Owed' = Owed
  BY <1>1 DEF Owed
<1>2. ASSUME NEW i \in Ids, live'.incident[i].state \in Keeping
      PROVE  live'.incident[i].there
  <2>1. CASE Crash
    BY <1>2, <2>1 DEF Crash, Safeguarded, KeepersDurable, OnMedium
  <2>2. CASE PowerLoss
    <3>1. PICK kept \in SUBSET Undecided, torn \in SUBSET unsynced : live' = Survives(kept, torn)
      BY <2>2 DEF PowerLoss
    <3>2. live'.incident[i].there \/ live'.incident[i] = NoIncident
      BY <3>1 DEF Survives
    <3> QED
      BY <1>2, <3>2 DEF NoIncident, Keeping
  <2> QED
    BY <2>1, <2>2
<1>3. KeepersDurable'
  BY <1>1, <1>2 DEF KeepersDurable, OnMedium
<1>4. ASSUME NEW o \in Owed'
      PROVE  \E i \in Ids : KeepsForGood(i, o[1], o[2])'
  <2>1. PICK i \in Ids : KeepsForGood(i, o[1], o[2])
    BY <1>o, <1>4 DEF Safeguarded, OriginalsKept
  <2>2. o[1] \in Files
    BY <1>o, <1>4 DEF Typed, TypeOK, Owed
  <2>3. CASE Crash
    BY <1>1, <2>1, <2>3 DEF Crash, KeepsForGood
  <2>4. CASE PowerLoss
    <3>1. PICK kept \in SUBSET Undecided, torn \in SUBSET unsynced : live' = Survives(kept, torn)
      BY <2>4 DEF PowerLoss
    <3>2. <<i, "state">> \notin torn /\ <<i, o[1]>> \notin torn
      BY <2>1, <3>1 DEF Safeguarded, FewUnsynced, KeepsForGood
    <3>3. /\ live'.incident[i].there
          /\ live'.incident[i].state \in {"Ready", "Finalized"}
          /\ live'.incident[i].copy[o[1]] = o[2]
      BY <2>1, <2>2, <3>1, <3>2 DEF Survives, KeepsForGood
    <3> QED
      BY <1>1, <3>3 DEF KeepsForGood
  <2> QED
    BY <2>3, <2>4
<1> QED
  BY <1>3, <1>4 DEF OriginalsKept

\* Where a call works on no incident.
Resting == {"down", "stuck", "running", "reconcile", "identify", "open", "changed", "quarantine",
            "purge"}

LEMMA RestingProtocol == pc' \in Resting => Protocol'
BY DEF Resting, Protocol, Copying, Writing, Erasing, WritingPhase

\* The steps after which no incident is worked on.
Leaving ==
    \/ Start \/ ReconcileDone \/ (\E i \in Ids : ReconcileRefused(i))
    \/ (\E i \in Ids : ReconcileFinalized(i)) \/ RemoveChanged \/ RemoveFailed
    \/ Identify \/ OpenFresh
    \/ OpenUsable \/ OpenUnusable \/ QuarantineChanged \/ QuarantineFull \/ Changed
    \/ PurgeBegin \/ PurgeDone \/ Exit \/ Crash \/ PowerLoss \/ Decay \/ EraseDone

LEMMA LeavingSteps == Typed /\ Leaving => pc' \in Resting
<1> SUFFICES ASSUME Typed, Leaving PROVE pc' \in Resting
    OBVIOUS
<1> USE DEF Resting, Goto, Typed
<1>1. CASE Start
  BY <1>1 DEF Start
<1>2. CASE ReconcileDone
  BY <1>2 DEF ReconcileDone
<1>3. ASSUME NEW i \in Ids, ReconcileRefused(i)
      PROVE  pc' \in Resting
  BY <1>3 DEF ReconcileRefused, Refused
<1>4. ASSUME NEW i \in Ids, ReconcileFinalized(i)
      PROVE  pc' \in Resting
  BY <1>4 DEF ReconcileFinalized, Reconciling
<1>5. CASE RemoveChanged \/ RemoveFailed
  BY <1>5 DEF RemoveChanged, RemoveFailed
<1>6. CASE Identify
  BY <1>6 DEF Identify
<1>7. CASE OpenFresh
  BY <1>7 DEF OpenFresh
<1>8. CASE OpenUsable
  BY <1>8 DEF OpenUsable
<1>9. CASE OpenUnusable
  BY <1>9 DEF OpenUnusable
<1>10. CASE QuarantineChanged
  BY <1>10 DEF QuarantineChanged
<1>11. CASE QuarantineFull
  BY <1>11 DEF QuarantineFull
<1>12. CASE Changed
  BY <1>12 DEF Changed
<1>13. CASE PurgeBegin
  BY <1>13 DEF PurgeBegin
<1>14. CASE PurgeDone
  BY <1>14 DEF PurgeDone
<1>15. CASE Exit
  BY <1>15 DEF Exit
<1>16. CASE Crash
  BY <1>16 DEF Crash
<1>17. CASE PowerLoss
  BY <1>17 DEF PowerLoss
<1>18. CASE Decay
  BY <1>18 DEF Decay
<1>19. CASE EraseDone
  BY <1>19 DEF EraseDone, TypeOK, Jobs
<1> QED
  BY <1>1, <1>2, <1>3, <1>4, <1>5, <1>6, <1>7, <1>8, <1>9, <1>10, <1>11, <1>12, <1>13,
     <1>14, <1>15, <1>16, <1>17, <1>18, <1>19 DEF Leaving

LEMMA ErasingProtocol ==
    ASSUME pc' \in Erasing, live'.incident[job'.inc].state \notin Keeping
    PROVE  Protocol'
BY DEF Protocol, Copying, Writing, Erasing, WritingPhase, Here

\* Erasing an incident, a start's or a purge's.
LEMMA ErasingSteps ==
    ASSUME Typed, Safeguarded,
           \/ EraseOverwrite \/ EraseState \/ EraseUnlink \/ EraseSynced \/ EraseDirectory
           \/ \E i \in Ids : ReconcileErase(i)
    PROVE  Protocol'
<1> USE TypeFacts DEF Goto, Local, Erasing, Keeping, Jobs
<1>1. CASE \E i \in Ids : ReconcileErase(i)
  <2>1. PICK i \in Ids : ReconcileErase(i)
    BY <1>1
  <2> QED
    BY <2>1, ErasingProtocol DEF ReconcileErase
<1>2. CASE EraseOverwrite \/ EraseState \/ EraseUnlink \/ EraseSynced \/ EraseDirectory
  <2>1. live'.incident[job'.inc].state \notin Keeping
    BY <1>2, MakingSteps DEF Making, AtWork
  <2>2. pc' \in Erasing
    BY <1>2 DEF EraseOverwrite, EraseState, EraseUnlink, EraseSynced, EraseDirectory
  <2> QED
    BY <2>1, <2>2, ErasingProtocol
<1> QED
  BY <1>1, <1>2

\* Writing an incident's state.
LEMMA WritingSteps == Typed /\ Safeguarded /\ Write => Protocol'
<1> SUFFICES ASSUME Typed, Safeguarded, Write PROVE Protocol'
    OBVIOUS
<1> USE DEF Goto, Local, Writing, Copying, Erasing, WritingPhase
<1>1. CASE WriteTemp \/ WriteSynced
  <2>1. SameIncidents /\ job.inc \in Ids
    BY <1>1, CalmSteps DEF Calm, WriteTemp, WriteSynced, Typed, CallTyped
  <2>2. /\ pc \in Writing \ {"renamed"} /\ pc' \in Writing \ {"renamed"}
        /\ job' = job /\ history' = history
    BY <1>1 DEF WriteTemp, WriteSynced, Unchanged
  <2>3. Owed' = Owed
    BY <2>2 DEF Owed
  <2> QED
    BY <2>1, <2>2, <2>3 DEF Protocol, Safeguarded, SameIncidents, Here, OnMedium
<1>2. CASE WriteRenamed
  <2>1. /\ job.inc \in Ids /\ job' = job /\ history' = history /\ disk' = disk
        /\ pc = "synced" /\ pc' = "renamed"
        /\ live'.incident[job.inc].state = job.phase
        /\ live'.incident[job.inc].there = live.incident[job.inc].there
        /\ live'.incident[job.inc].copy = live.incident[job.inc].copy
    BY <1>2, TypeFacts DEF WriteRenamed, Unchanged, Typed, CallTyped, FileSystems, Incidents
  <2>2. Owed' = Owed
    BY <2>1 DEF Owed
  <2> QED
    BY <2>1, <2>2 DEF Protocol, Safeguarded, Here, OnMedium, Keeping
<1>3. CASE WriteDone
  <2>1. /\ job.inc \in Ids /\ live' = live /\ pc = "renamed" /\ job.phase \in Phases
        /\ disk'.incident[job.inc].there
             = (live.incident[job.inc].there /\ disk.incident[job.inc].there)
    BY <1>3, TypeFacts
    DEF WriteDone, SyncIncident, Typed, CallTyped, FileSystems, Incidents, Jobs
  <2>2. CASE job.phase = "Finalized"
    <3>1. pc' \in {"reconcile", "open", "changed", "purge"}
      BY <1>3, <2>2, TypeFacts DEF WriteDone, AfterWrite, Jobs
    <3> QED
      BY <3>1, RestingProtocol DEF Resting
  <2>3. CASE job.phase # "Finalized"
    <3>1. job'.inc = job.inc /\ pc' = AfterWrite
      BY <1>3, <2>3, TypeFacts DEF WriteDone, Jobs
    <3>2. Here.state = job.phase
      BY <2>1 DEF Safeguarded, Protocol
    <3> QED
      BY <2>1, <2>3, <3>1, <3>2 DEF AfterWrite, Protocol, Safeguarded, Here, Keeping, Phases
  <2> QED
    BY <2>2, <2>3
<1> QED
  BY <1>1, <1>2, <1>3 DEF Write

LEMMA RemovingProtocol ==
    ASSUME pc' \in {"remove", "unlinking"}, Here'.state \in Keeping,
           \A g \in job'.left :
              /\ listed'[job'.inc][g] # Absent
              /\ live'.source[g] = listed'[job'.inc][g] => Here'.copy[g] = listed'[job'.inc][g]
    PROVE  Protocol'
BY DEF Protocol, Copying, Writing, Erasing, WritingPhase

\* Removing the originals of an incident.
LEMMA FinalizingSteps ==
    ASSUME Typed, Displaced, Safeguarded,
           \/ (\E i \in Ids : ReconcileReady(i)) \/ FinalizeChanged \/ FinalizeBegin
           \/ RemoveCompared \/ RemoveAbsent \/ RemoveOriginal \/ RemoveDone \/ TakeSidecar
           \/ (\E f \in Files, usable \in BOOLEAN : Touch(f, usable))
    PROVE  Protocol'
<1> USE TypeFacts DEF Protocol, Safeguarded, Typed, CallTyped, Goto, Local, Unchanged, FileSystems,
                      Incidents, Jobs, Here, OnMedium, Keeping, Copying, Writing, Erasing, WritingPhase
<1>1. ASSUME NEW i \in Ids, ReconcileReady(i)
      PROVE  Protocol'
  BY <1>1 DEF ReconcileReady, Reconciling
<1>2. CASE FinalizeChanged
  BY <1>2 DEF FinalizeChanged
<1>3. CASE FinalizeBegin
  BY <1>3 DEF FinalizeBegin, IncidentMatches, Family, FamilyMatches
<1>4. CASE RemoveOriginal
  BY <1>4 DEF RemoveOriginal
<1>8. CASE RemoveCompared \/ RemoveAbsent
  <2>1. /\ pc = "remove" /\ pc' \in {"remove", "unlinking"} /\ live' = live /\ disk' = disk
        /\ listed' = listed /\ history' = history
        /\ job' = job \/ job' = [job EXCEPT !.left = @ \ {NextRemoved}]
    BY <1>8 DEF RemoveCompared, RemoveAbsent, Unchanged
  <2>2. job'.inc = job.inc /\ job'.left \subseteq job.left
    BY <2>1
  <2>3. Here' = Here /\ Here.state \in Keeping
    BY <2>1, <2>2
  <2> QED
    BY ONLY <2>1, <2>2, <2>3, Protocol, RemovingProtocol DEF Protocol
<1>5. CASE RemoveDone
  BY <1>5 DEF RemoveDone, SyncSources
<1>6. CASE TakeSidecar
  BY SMTT(30), <1>6 DEF TakeSidecar, Files
<1>7. ASSUME NEW f \in Files, NEW usable \in BOOLEAN, Touch(f, usable)
      PROVE  Protocol'
  <2>1. /\ live'.incident = live.incident /\ disk'.incident = disk.incident /\ pc' = pc /\ job' = job
        /\ listed' = listed /\ Owed' \subseteq Owed
        /\ pc \in {"open", "quarantine", "made", "filling", "copied", "finalize", "remove", "unlinking"}
    BY <1>7, TouchKeepsOwed DEF Touch
  <2>2. ASSUME pc \in {"remove", "unlinking"}, NEW g \in job.left, live'.source[g] = listed[job.inc][g]
        PROVE  live.source[g] = listed[job.inc][g]
    <3>1. job.inc \in Ids /\ g \in Files
      BY <2>2
    <3>2. listed[job.inc][g] <= born /\ listed[job.inc][g] \in Versions \cup {Absent} /\ born \in Versions
      BY <3>1 DEF Displaced, Laid, VersionsBorn, TypeOK
    <3>3. listed[job.inc][g] # Fresh
      BY <3>2, RecoveryBounds DEF Fresh, Versions, Absent
    <3> QED
      BY <1>7, <2>2, <3>1, <3>3 DEF Touch
  <2>3. Here' = Here /\ OnMedium(job.inc)' = OnMedium(job.inc)
    BY <2>1
  <2>4. CASE pc \in {"remove", "unlinking"}
    <3>1. \A g \in job.left :
            /\ listed[job.inc][g] # Absent
            /\ live'.source[g] = listed[job.inc][g] => Here.copy[g] = listed[job.inc][g]
      BY <2>2, <2>4
    <3>2. Here'.state \in Keeping
      BY <2>3, <2>4
    <3>3. \A g \in job'.left :
            /\ listed'[job'.inc][g] # Absent
            /\ live'.source[g] = listed'[job'.inc][g] => Here'.copy[g] = listed'[job'.inc][g]
      BY <2>1, <2>3, <3>1
    <3> QED
      BY <2>1, <2>4, <3>2, <3>3, RemovingProtocol
  <2>5. CASE pc \notin {"remove", "unlinking"}
    BY <2>1, <2>3, <2>5
  <2> QED
    BY <2>4, <2>5
<1> QED
  BY SMTT(30), <1>1, <1>2, <1>3, <1>4, <1>5, <1>6, <1>7, <1>8

\* Making the copies of an incident.
LEMMA CopyingSteps ==
    ASSUME Typed, Safeguarded,
           \/ (\E i \in Ids : QuarantineMade(i)) \/ QuarantineListed
           \/ CopyCreate \/ CopyWrite \/ CopySync \/ CopiesSynced \/ Revalidate
    PROVE  Protocol'
<1> USE TypeFacts DEF Goto, Local, Unchanged, Writing, Copying, Erasing, WritingPhase, FileSystems, Incidents, Jobs
<1>1. ASSUME NEW i \in Ids, QuarantineMade(i)
      PROVE  Protocol'
  <2>1. /\ pc' = "made" /\ job'.inc = i
        /\ live'.incident[i].there /\ live'.incident[i].state = "none"
    BY <1>1 DEF QuarantineMade, NoIncident
  <2> QED
    BY <2>1 DEF Protocol, Here
<1>2. CASE QuarantineListed
  <2>1. pc = "made" /\ job.inc \in Ids /\ live' = live
    BY <1>2 DEF QuarantineListed, Typed, CallTyped
  <2>2. Here.there /\ Here.state = "none"
    BY <2>1 DEF Safeguarded, Protocol
  <2>3. disk'.incident[job.inc].there
    BY <1>2, <2>1, <2>2 DEF QuarantineListed, SyncRoot, Here
  <2>4. pc' = "down" \/ (pc' = "write" /\ job'.inc = job.inc /\ job'.phase = "Pending")
    BY <1>2 DEF QuarantineListed
  <2> QED
    BY <2>1, <2>2, <2>3, <2>4 DEF Protocol, Here, Keeping
<1>3. CASE CopyCreate \/ CopyWrite \/ CopySync \/ CopiesSynced
  <2>1. job.inc \in Ids /\ pc \in Copying \ {"copied"} /\ job'.inc = job.inc
    BY <1>3 DEF CopyCreate, CopyWrite, CopySync, CopiesSynced, Typed, CallTyped
  <2>2. live'.incident[job.inc].state \notin Keeping
    BY <1>3, <2>1, MakingSteps DEF Making, AtWork
  <2>3. pc' = "down" \/ pc' \in Copying
    BY <1>3 DEF CopyCreate, CopyWrite, CopySync, CopiesSynced
  <2>4. Here.there /\ disk.incident[job.inc].there
    BY <2>1 DEF Safeguarded, Protocol
  <2>5. CASE CopyCreate
    <3>1. CASE live.source[NextCopied] = Absent
      BY <2>5, <3>1 DEF CopyCreate, Protocol
    <3>2. CASE live.source[NextCopied] # Absent
      <4>1. live' = [live EXCEPT !.incident[job.inc].copy[NextCopied] = Partial]
        BY <2>5, <3>2 DEF CopyCreate
      <4>2. live'.incident[job.inc].there = live.incident[job.inc].there
        BY <2>1, <4>1
      <4>3. pc' = "filling" /\ disk' = disk
        BY <2>5, <3>2 DEF CopyCreate
      <4> QED
        BY <2>1, <2>2, <2>4, <4>2, <4>3 DEF Protocol, Here
    <3> QED
      BY <3>1, <3>2
  <2>6. CASE CopyWrite
    <3>1. live'.incident[job.inc].there = live.incident[job.inc].there /\ disk' = disk /\ pc' = "filled"
      BY <2>1, <2>6 DEF CopyWrite
    <3> QED
      BY <2>1, <2>2, <2>4, <3>1 DEF Protocol, Here
  <2>7. CASE CopySync
    <3>1. live' = live /\ disk' = disk /\ pc' = "copy"
      BY <2>7 DEF CopySync
    <3> QED
      BY <2>1, <2>2, <2>4, <3>1 DEF Protocol, Here
  <2>8. CASE CopiesSynced
    <3>1. /\ live' = live /\ pc' = "copied"
          /\ disk'.incident[job.inc].there /\ disk'.incident[job.inc].copy = Here.copy
      BY <2>1, <2>4, <2>8 DEF CopiesSynced, SyncIncident, Here
    <3> QED
      BY <2>1, <2>2, <2>4, <3>1 DEF Protocol, Here, OnMedium
  <2> QED
    BY <1>3, <2>5, <2>6, <2>7, <2>8
<1>4. CASE Revalidate
  <2>1. /\ pc = "copied" /\ live' = live /\ disk' = disk
        /\ \/ pc' \in {"down", "changed"}
           \/ (pc' = "write" /\ job'.inc = job.inc /\ job'.phase = "Ready")
    BY <1>4 DEF Revalidate
  <2> QED
    BY <2>1 DEF Safeguarded, Protocol, Here, OnMedium
<1> QED
  BY <1>1, <1>2, <1>3, <1>4

\* Marking an incident before it is erased.
LEMMA MarkingStep == Typed /\ (\E i \in Ids : PurgeNext(i)) => Protocol'
<1> SUFFICES ASSUME Typed, NEW i \in Ids, PurgeNext(i) PROVE Protocol'
    OBVIOUS
<1>1. /\ live' = live /\ job'.inc = i /\ job'.phase = "Purging" /\ i \in Ids
      /\ pc' = "write" \/ (pc' = "erase" /\ live.incident[i].state \notin Keeping)
      /\ history'.owed = history.owed \ {<<f, live.incident[i].copy[f]>> : f \in Files}
  BY TypeFacts DEF PurgeNext, PurgeMarked, Goto, Local, Jobs, Typed, TypeOK, Keeping
<1>2. \A f \in Files : <<f, live.incident[i].copy[f]>> \notin Owed'
  BY <1>1 DEF Owed
<1> QED
  BY <1>1, <1>2 DEF Protocol, Here, Copying, Writing, Erasing, WritingPhase, Keeping

LEMMA SafeguardedKept == Typed /\ Displaced /\ Safeguarded /\ [Next]_vars => Safeguarded'
<1> SUFFICES ASSUME Typed, Displaced, Safeguarded, [Next]_vars PROVE Safeguarded'
    OBVIOUS
<1>1. CASE UNCHANGED vars
  <2>1. FewUnsynced'
    BY <1>1 DEF vars, Safeguarded, FewUnsynced, NextCopied
  <2>2. KeepersDurable'
    BY <1>1 DEF vars, Safeguarded, KeepersDurable, OnMedium
  <2>3. Protocol'
    BY <1>1 DEF vars, Safeguarded, Protocol, OnMedium, WritingPhase, Here, Owed
  <2>4. OriginalsKept'
    BY <1>1 DEF vars, Safeguarded, OriginalsKept, KeepsForGood, Owed
  <2> QED
    BY <2>1, <2>2, <2>3, <2>4 DEF Safeguarded
<1>2. CASE Next
  <2>1. FewUnsynced'
    BY <1>2, FewUnsyncedKept DEF Safeguarded
  <2>2. Calm \/ Making \/ WriteRenamed \/ WriteDone \/ RemoveOriginal \/ Crash \/ PowerLoss
    BY <1>2 DEF Next, Work, Reconcile, Write, Finalize, Open, Quarantine, Erase, Others, Calm, Making
  <2>5. Owed \subseteq Files \X Versions
    BY DEF Owed, Typed, TypeOK
  <2>3. KeepersDurable' /\ OriginalsKept'
    <3>1. CASE RemoveOriginal
      BY <3>1, RemovalKeeps
    <3>2. CASE ~RemoveOriginal
      <4>1. Owed' \subseteq Owed
        BY <1>2, <3>2, OwedShrinks
      <4> QED
        BY <2>2, <2>5, <3>2, <4>1, CalmSteps, SameIncidentsKeep, MakingSteps, AtWorkKeeps,
           RenamedKeeps, DoneKeeps, FaultKeeps
    <3> QED
      BY <3>1, <3>2
  <2>4. Protocol'
    BY <1>2, LeavingSteps, RestingProtocol, ErasingSteps, WritingSteps, FinalizingSteps,
       CopyingSteps, MarkingStep DEF Next, Work, Reconcile, Write, Finalize, Open, Quarantine, Erase, Others, Leaving
  <2> QED
    BY <2>1, <2>3, <2>4 DEF Safeguarded
<1> QED
  BY <1>1, <1>2

LEMMA InitSafeguarded == Init => Safeguarded
BY DEF Init, Safeguarded, FewUnsynced, KeepersDurable, Protocol, OriginalsKept, Owed, NoIncident, Keeping,
       Copying, Writing, Erasing, WritingPhase

LEMMA AllSafeguarded == Spec => [](Typed /\ Displaced /\ Safeguarded)
<1>1. Init => Typed /\ Displaced /\ Safeguarded
  BY InitTyped, InitDisplaced, InitSafeguarded
<1>2. Typed /\ Displaced /\ Safeguarded /\ [Next]_vars => (Typed /\ Displaced /\ Safeguarded)'
  BY TypedKept, DisplacedKept, SafeguardedKept
<1> QED
  BY <1>1, <1>2, PTL DEF Spec

\* Whatever is killed or loses power, and whoever else writes the files: every
\* original that recovery unlinked, unless it was overtaken between its comparison
\* and its unlink, is kept byte for byte in an incident that is on
\* the medium and that no start erases, until the user has the quarantine purged.
THEOREM OriginalsAreKept == Spec => []OriginalsKept
<1>1. Typed /\ Displaced /\ Safeguarded => OriginalsKept
  BY DEF Safeguarded
<1> QED
  BY <1>1, AllSafeguarded, PTL

-----------------------------------------------------------------------------
(***************************************************************************)
(* What recovery and a purge promise together: what a purge reported       *)
(* destroyed is in no incident again, and, as long as nobody else writes   *)
(* the files, the protocol implements DatabaseVault.                       *)
(***************************************************************************)

\* The process and the medium know the same incident directories, except for the
\* one that is being made or removed; one that is not there holds nothing.
NamesKnown ==
    /\ \A i \in Ids :
          \/ live.incident[i].there = disk.incident[i].there
          \/ (pc \in {"made", "unnamed"} /\ i = job.inc)
    /\ \A i \in Ids, f \in Files :
          /\ ~live.incident[i].there => live.incident[i].copy[f] = Absent
          /\ ~disk.incident[i].there => disk.incident[i].copy[f] = Absent
    /\ pc = "unnamed" => ~Here.there

\* A purge has everything that is there before it, and nobody's files change.
PurgeMode ==
    /\ pc = "purge" => job.next = "purge"
    /\ job.next = "purge" => pc = "purge" \/ WritingPhase("Purging") \/ pc \in Erasing
    /\ job.next = "purge" =>
         \A i \in Ids : live.incident[i].there \/ disk.incident[i].there => i \in job.todo
    /\ pc = "running" \/ job.next = "purge" => disk.source = live.source

\* What was reported destroyed is neither in a copy nor where the next copy comes
\* from.
Unpurged ==
    /\ history.purged \subseteq Files \X (1..born)
    /\ \A i \in Ids, f \in Files :
          /\ <<f, live.incident[i].copy[f]>> \notin history.purged
          /\ <<f, disk.incident[i].copy[f]>> \notin history.purged
    /\ \A f \in Files :
          /\ <<f, live.source[f]>> \notin history.purged
          /\ <<f, disk.source[f]>> \notin history.purged
    /\ <<"db", job.cand>> \notin history.purged
    /\ pc \in Copying \/ WritingPhase("Pending") =>
         \A f \in Files : <<f, listed[job.inc][f]>> \notin history.purged

Purged == NamesKnown /\ PurgeMode /\ Unpurged

-----------------------------------------------------------------------------
(***************************************************************************)
(* Where copies come from, and where they go: the invariants of a purge,   *)
(* step by step.                                                           *)
(***************************************************************************)

\* Copies are made of what was listed for them.
Copied ==
    pc' \in Copying \/ WritingPhase("Pending")' =>
       \/ (/\ pc \in Copying \/ WritingPhase("Pending")
           /\ job'.inc = job.inc /\ listed' = listed)
       \/ QuarantineListed

LEMMA CopiedSteps == Typed /\ Next => Copied
<1> SUFFICES ASSUME Typed, Next PROVE Copied
    OBVIOUS
<1> USE DEF Copied, Copying, Writing, WritingPhase, Goto, Local, Unchanged, Typed, TypeOK, Jobs, Idle
<1>1. CASE Start
  BY <1>1 DEF Start
<1>2. CASE ReconcileDone
  BY <1>2 DEF ReconcileDone
<1>3. ASSUME NEW i \in Ids, ReconcileRefused(i)
      PROVE  Copied
  BY <1>3 DEF ReconcileRefused, Refused, Reconciling
<1>4. ASSUME NEW i \in Ids, ReconcileErase(i)
      PROVE  Copied
  BY <1>4 DEF ReconcileErase, Reconciling
<1>5. ASSUME NEW i \in Ids, ReconcileReady(i)
      PROVE  Copied
  BY <1>5 DEF ReconcileReady, Reconciling
<1>6. ASSUME NEW i \in Ids, ReconcileFinalized(i)
      PROVE  Copied
  BY <1>6 DEF ReconcileFinalized, Reconciling
<1>7. CASE WriteTemp
  BY <1>7 DEF WriteTemp
<1>8. CASE WriteSynced
  BY <1>8 DEF WriteSynced
<1>9. CASE WriteRenamed
  BY <1>9 DEF WriteRenamed
<1>10. CASE WriteDone
  BY <1>10 DEF WriteDone, AfterWrite, Phases
<1>11. CASE FinalizeChanged
  BY <1>11 DEF FinalizeChanged
<1>12. CASE FinalizeBegin
  BY <1>12 DEF FinalizeBegin
<1>13. CASE RemoveOriginal
  BY <1>13 DEF RemoveOriginal
<1>14. CASE RemoveChanged \/ RemoveCompared \/ RemoveAbsent \/ RemoveFailed
  BY <1>14 DEF RemoveChanged, RemoveCompared, RemoveAbsent, RemoveFailed
<1>15. CASE RemoveDone
  BY <1>15 DEF RemoveDone
<1>16. CASE Identify
  BY <1>16 DEF Identify
<1>17. CASE OpenFresh
  BY <1>17 DEF OpenFresh
<1>18. CASE OpenUsable
  BY <1>18 DEF OpenUsable
<1>19. CASE OpenUnusable
  BY <1>19 DEF OpenUnusable
<1>20. CASE QuarantineChanged
  BY <1>20 DEF QuarantineChanged
<1>21. ASSUME NEW i \in Ids, QuarantineMade(i)
      PROVE  Copied
  BY <1>21 DEF QuarantineMade
<1>22. CASE QuarantineFull
  BY <1>22 DEF QuarantineFull
<1>23. CASE QuarantineListed
  BY <1>23 DEF QuarantineListed
<1>24. CASE CopyCreate
  BY <1>24 DEF CopyCreate
<1>25. CASE CopyWrite
  BY <1>25 DEF CopyWrite
<1>26. CASE CopySync
  BY <1>26 DEF CopySync
<1>27. CASE CopiesSynced
  BY <1>27 DEF CopiesSynced
<1>28. CASE Revalidate
  BY <1>28 DEF Revalidate
<1>29. CASE Changed
  BY <1>29 DEF Changed
<1>30. CASE EraseOverwrite
  BY <1>30 DEF EraseOverwrite
<1>31. CASE EraseState
  BY <1>31 DEF EraseState
<1>32. CASE EraseUnlink
  BY <1>32 DEF EraseUnlink
<1>33. CASE EraseSynced
  BY <1>33 DEF EraseSynced
<1>34. CASE EraseDirectory
  BY <1>34 DEF EraseDirectory
<1>35. CASE EraseDone
  BY <1>35 DEF EraseDone
<1>36. ASSUME NEW i \in Ids, PurgeNext(i)
      PROVE  Copied
  BY <1>36 DEF PurgeNext
<1>37. CASE PurgeDone
  BY <1>37 DEF PurgeDone
<1>38. CASE PurgeBegin
  BY <1>38 DEF PurgeBegin
<1>39. CASE Exit
  BY <1>39 DEF Exit
<1>40. CASE Crash
  BY <1>40 DEF Crash
<1>41. CASE PowerLoss
  BY <1>41 DEF PowerLoss
<1>42. CASE Decay
  BY <1>42 DEF Decay
<1>43. CASE TakeSidecar
  BY <1>43 DEF TakeSidecar
<1>44. ASSUME NEW f \in Files, NEW usable \in BOOLEAN, Touch(f, usable)
      PROVE  Copied
  BY <1>44 DEF Touch
<1> QED
  BY <1>1, <1>2, <1>3, <1>4, <1>5, <1>6, <1>7, <1>8, <1>9, <1>10, <1>11, <1>12, <1>13,
     <1>14, <1>15, <1>16, <1>17, <1>18, <1>19, <1>20, <1>21, <1>22, <1>23, <1>24, <1>25,
     <1>26, <1>27, <1>28, <1>29, <1>30, <1>31, <1>32, <1>33, <1>34, <1>35, <1>36, <1>37,
     <1>38, <1>39, <1>40, <1>41, <1>42, <1>43, <1>44
     DEF Next, Work, Reconcile, Write, Finalize, Open, Quarantine, Erase, Others

\* Erasing an entry changes no name of a directory and makes no copy.
LEMMA ErasedNames ==
    ASSUME NEW x \in Incidents, NEW e \in Files \cup {"temp", "state"}
    PROVE  Overwritten(x, e).there = x.there /\ Unlinked(x, e).there = x.there
BY DEF Overwritten, Unlinked, Incidents, Files

LEMMA ErasedCopies ==
    ASSUME NEW x \in Incidents, NEW e \in Files \cup {"temp", "state"}, NEW f \in Files
    PROVE  /\ Overwritten(x, e).copy[f] \in {x.copy[f], Zeroed}
           /\ x.copy[f] = Absent => Overwritten(x, e).copy[f] = Absent
           /\ Unlinked(x, e).copy[f] \in {x.copy[f], Absent}
BY DEF Overwritten, Unlinked, Incidents, Files

LEMMA PurgeModeKept == Typed /\ NamesKnown /\ PurgeMode /\ Next => PurgeMode'
<1> SUFFICES ASSUME Typed, NamesKnown, PurgeMode, Next PROVE PurgeMode'
    OBVIOUS
<1> USE TypeFacts DEF PurgeMode, NamesKnown, Writing, Erasing, WritingPhase, Goto, Local, Unchanged, Typed, TypeOK,
                      Jobs, Idle, FileSystems
<1>1. CASE Start
  BY <1>1 DEF Start
<1>2. CASE ReconcileDone
  BY <1>2 DEF ReconcileDone
<1>3. ASSUME NEW i \in Ids, ReconcileRefused(i)
      PROVE  PurgeMode'
  BY <1>3 DEF ReconcileRefused, Refused, Reconciling
<1>4. ASSUME NEW i \in Ids, ReconcileErase(i)
      PROVE  PurgeMode'
  BY <1>4 DEF ReconcileErase, Reconciling
<1>5. ASSUME NEW i \in Ids, ReconcileReady(i)
      PROVE  PurgeMode'
  BY <1>5 DEF ReconcileReady, Reconciling
<1>6. ASSUME NEW i \in Ids, ReconcileFinalized(i)
      PROVE  PurgeMode'
  BY <1>6 DEF ReconcileFinalized, Reconciling
<1>7. CASE WriteTemp
  BY <1>7 DEF WriteTemp
<1>8. CASE WriteSynced
  BY <1>8 DEF WriteSynced
<1>9. CASE WriteRenamed
  BY <1>9 DEF WriteRenamed
<1>10. CASE WriteDone
  <2>1. /\ pc = "renamed" /\ job'.next = job.next /\ job.inc \in Ids /\ live' = live
        /\ disk'.source = disk.source
    BY <1>10 DEF WriteDone, SyncIncident, CallTyped
  <2>2. \A i \in Ids : disk'.incident[i].there => disk.incident[i].there
    BY <1>10, <2>1 DEF WriteDone, SyncIncident, Incidents
  <2>3. CASE job.phase = "Purging"
    <3>1. pc' = "erase" /\ job'.todo = job.todo
      BY <1>10, <2>3 DEF WriteDone, AfterWrite
    <3> QED
      BY <2>1, <2>2, <3>1
  <2>4. CASE job.phase # "Purging"
    <3>1. job.next # "purge"
      BY <2>1, <2>4
    <3>2. pc' \in {"copy", "finalize", "reconcile", "open", "changed"}
      BY <1>10, <2>4, <3>1 DEF WriteDone, AfterWrite, Phases
    <3> QED
      BY <2>1, <3>1, <3>2
  <2> QED
    BY <2>3, <2>4
<1>11. CASE FinalizeChanged
  BY <1>11 DEF FinalizeChanged
<1>12. CASE FinalizeBegin
  BY <1>12 DEF FinalizeBegin
<1>13. CASE RemoveOriginal
  BY <1>13 DEF RemoveOriginal
<1>14. CASE RemoveChanged \/ RemoveCompared \/ RemoveAbsent \/ RemoveFailed
  BY <1>14 DEF RemoveChanged, RemoveCompared, RemoveAbsent, RemoveFailed
<1>15. CASE RemoveDone
  BY <1>15 DEF RemoveDone, SyncSources
<1>16. CASE Identify
  BY <1>16 DEF Identify
<1>17. CASE OpenFresh
  BY <1>17 DEF OpenFresh
<1>18. CASE OpenUsable
  BY <1>18 DEF OpenUsable, SyncSources
<1>19. CASE OpenUnusable
  BY <1>19 DEF OpenUnusable
<1>20. CASE QuarantineChanged
  BY <1>20 DEF QuarantineChanged
<1>21. ASSUME NEW i \in Ids, QuarantineMade(i)
      PROVE  PurgeMode'
  BY <1>21 DEF QuarantineMade
<1>22. CASE QuarantineFull
  BY <1>22 DEF QuarantineFull
<1>23. CASE QuarantineListed
  BY <1>23 DEF QuarantineListed, SyncRoot
<1>24. CASE CopyCreate
  BY <1>24 DEF CopyCreate
<1>25. CASE CopyWrite
  BY <1>25 DEF CopyWrite
<1>26. CASE CopySync
  BY <1>26 DEF CopySync
<1>27. CASE CopiesSynced
  BY <1>27 DEF CopiesSynced, SyncIncident
<1>28. CASE Revalidate
  BY <1>28 DEF Revalidate
<1>29. CASE Changed
  <2>1. job'.next = "reconcile" /\ pc' \in {"identify", "down"}
    BY <1>29 DEF Changed
  <2> QED
    BY <2>1
<1>30. CASE EraseOverwrite
  <2>1. /\ job' = job /\ pc' \in Erasing /\ job.inc \in Ids
        /\ live'.source = live.source /\ disk'.source = disk.source
    BY <1>30 DEF EraseOverwrite, CallTyped
  <2>2. \A i \in Ids : /\ live'.incident[i].there = live.incident[i].there
                      /\ disk'.incident[i].there = disk.incident[i].there
    <3>1. live'.incident[job.inc].there = live.incident[job.inc].there
      <4>1. live'.incident[job.inc] = Overwritten(live.incident[job.inc], NextErased)
        BY <1>30, <2>1 DEF EraseOverwrite
      <4>2. live.incident[job.inc] \in Incidents /\ disk.incident[job.inc] \in Incidents
        BY <2>1
      <4> QED
        BY ONLY <4>1, <4>2, ErasedNames, EraseTypes
    <3>2. disk'.incident[job.inc].there = disk.incident[job.inc].there
      <4>1. disk'.incident[job.inc] = Overwritten(disk.incident[job.inc], NextErased)
        BY <1>30, <2>1 DEF EraseOverwrite
      <4>2. live.incident[job.inc] \in Incidents /\ disk.incident[job.inc] \in Incidents
        BY <2>1
      <4> QED
        BY ONLY <4>1, <4>2, ErasedNames, EraseTypes
    <3> QED
      BY <1>30, <2>1, <3>1, <3>2 DEF EraseOverwrite
  <2> QED
    BY <2>1, <2>2
<1>31. CASE EraseState
  <2>1. /\ job' = job /\ pc' \in Erasing /\ job.inc \in Ids
        /\ live'.source = live.source /\ disk'.source = disk.source
    BY <1>31 DEF EraseState, CallTyped
  <2>2. \A i \in Ids : /\ live'.incident[i].there = live.incident[i].there
                      /\ disk'.incident[i].there = disk.incident[i].there
    <3>1. live'.incident[job.inc].there = live.incident[job.inc].there
      <4>1. live'.incident[job.inc] = Unlinked(live.incident[job.inc], "state")
        BY <1>31, <2>1 DEF EraseState
      <4>2. live.incident[job.inc] \in Incidents /\ disk.incident[job.inc] \in Incidents
        BY <2>1
      <4> QED
        BY ONLY <4>1, <4>2, ErasedNames, EraseTypes
    <3>2. disk'.incident[job.inc].there = disk.incident[job.inc].there
      <4>1. disk'.incident[job.inc] = Unlinked(disk.incident[job.inc], "state")
        BY <1>31, <2>1 DEF EraseState
      <4>2. live.incident[job.inc] \in Incidents /\ disk.incident[job.inc] \in Incidents
        BY <2>1
      <4> QED
        BY ONLY <4>1, <4>2, ErasedNames, EraseTypes
    <3> QED
      BY <1>31, <2>1, <3>1, <3>2 DEF EraseState
  <2> QED
    BY <2>1, <2>2
<1>32. CASE EraseUnlink
  <2>1. /\ job' = job /\ pc' \in Erasing /\ job.inc \in Ids
        /\ live'.source = live.source /\ disk'.source = disk.source
    BY <1>32 DEF EraseUnlink, CallTyped
  <2>2. \A i \in Ids : /\ live'.incident[i].there = live.incident[i].there
                      /\ disk'.incident[i].there = disk.incident[i].there
    <3>1. live'.incident[job.inc].there = live.incident[job.inc].there
      <4>1. live'.incident[job.inc] = Unlinked(live.incident[job.inc], NextErased)
        BY <1>32, <2>1 DEF EraseUnlink
      <4>2. live.incident[job.inc] \in Incidents /\ disk.incident[job.inc] \in Incidents
        BY <2>1
      <4> QED
        BY ONLY <4>1, <4>2, ErasedNames, EraseTypes
    <3>2. disk'.incident[job.inc].there = disk.incident[job.inc].there
      <4>1. disk'.incident[job.inc] = disk.incident[job.inc]
        BY <1>32, <2>1 DEF EraseUnlink
      <4>2. live.incident[job.inc] \in Incidents /\ disk.incident[job.inc] \in Incidents
        BY <2>1
      <4> QED
        BY ONLY <4>1, <4>2, ErasedNames, EraseTypes
    <3> QED
      BY <1>32, <2>1, <3>1, <3>2 DEF EraseUnlink
  <2> QED
    BY <2>1, <2>2
<1>33. CASE EraseSynced
  <2>1. /\ pc = "erase" /\ pc' = "erased" /\ job' = job /\ job.inc \in Ids /\ live' = live
        /\ disk'.source = disk.source
    BY <1>33 DEF EraseSynced, SyncIncident, CallTyped
  <2>2. \A i \in Ids : disk'.incident[i].there => disk.incident[i].there
    BY <1>33, <2>1 DEF EraseSynced, SyncIncident, Incidents
  <2> QED
    BY <2>1, <2>2
<1>34. CASE EraseDirectory
  <2>1. /\ job' = job /\ pc' \in Erasing /\ job.inc \in Ids
        /\ live'.source = live.source /\ disk' = disk /\ live'.incident[job.inc] = NoIncident
        /\ \A i \in Ids \ {job.inc} : live'.incident[i] = live.incident[i]
    BY <1>34 DEF EraseDirectory, CallTyped
  <2> QED
    BY SMTT(60), <2>1 DEF NoIncident
<1>35. CASE EraseDone
  <2>1. /\ job'.next = job.next /\ pc' = job.next /\ job'.todo = job.todo \ {job.inc}
        /\ pc = "unnamed" /\ job.inc \in Ids /\ live' = live /\ disk'.source = disk.source
    BY <1>35 DEF EraseDone, SyncRoot, CallTyped
  <2>2. \A i \in Ids : disk'.incident[i].there => live.incident[i].there
    BY <1>35 DEF EraseDone, SyncRoot, NoIncident
  <2>3. ~live.incident[job.inc].there
    BY <2>1 DEF Here
  <2> QED
    BY <2>1, <2>2, <2>3
<1>36. ASSUME NEW i \in Ids, PurgeNext(i)
      PROVE  PurgeMode'
  BY <1>36 DEF PurgeNext
<1>37. CASE PurgeDone
  BY <1>37 DEF PurgeDone
<1>38. CASE PurgeBegin
  <2>1. live' = live /\ disk' = disk /\ pc = "running" /\ disk.source = live.source
    BY <1>38 DEF PurgeBegin
  <2>2. \A i \in Ids : disk.incident[i].there = live.incident[i].there
    BY <2>1
  <2>3. CASE job' = job /\ pc' = pc
    BY <2>1, <2>3
  <2>4. CASE job'.todo = Present(live) /\ job'.next = "purge" /\ pc' = "purge"
    BY <2>1, <2>2, <2>4 DEF Present
  <2> QED
    BY <1>38, <2>3, <2>4 DEF PurgeBegin
<1>39. CASE Exit
  BY <1>39 DEF Exit
<1>40. CASE Crash
  BY <1>40 DEF Crash
<1>41. CASE PowerLoss
  BY <1>41 DEF PowerLoss
<1>42. CASE Decay
  BY <1>42 DEF Decay
<1>43. CASE TakeSidecar
  BY <1>43 DEF TakeSidecar
<1>44. ASSUME NEW f \in Files, NEW usable \in BOOLEAN, Touch(f, usable)
      PROVE  PurgeMode'
  BY <1>44 DEF Touch
<1> QED
  BY <1>1, <1>2, <1>3, <1>4, <1>5, <1>6, <1>7, <1>8, <1>9, <1>10, <1>11, <1>12, <1>13,
     <1>14, <1>15, <1>16, <1>17, <1>18, <1>19, <1>20, <1>21, <1>22, <1>23, <1>24, <1>25,
     <1>26, <1>27, <1>28, <1>29, <1>30, <1>31, <1>32, <1>33, <1>34, <1>35, <1>36, <1>37,
     <1>38, <1>39, <1>40, <1>41, <1>42, <1>43, <1>44
     DEF Next, Work, Reconcile, Write, Finalize, Open, Quarantine, Erase, Others

\* A calm step neither makes nor removes a directory.
SamePlace ==
    \/ pc' = pc /\ job' = job
    \/ (pc \notin {"made", "unnamed"} /\ pc' \notin {"made", "unnamed"})

LEMMA CalmPlaces == Calm => SamePlace
<1> SUFFICES ASSUME Calm PROVE SamePlace
    OBVIOUS
<1> USE DEF SamePlace, Goto, Local
<1>1. CASE Start
  BY <1>1 DEF Start
<1>2. CASE ReconcileDone
  BY <1>2 DEF ReconcileDone
<1>3. ASSUME NEW i \in Ids, ReconcileRefused(i)
      PROVE  SamePlace
  BY <1>3 DEF ReconcileRefused, Refused, Reconciling
<1>4. ASSUME NEW i \in Ids, ReconcileErase(i)
      PROVE  SamePlace
  BY <1>4 DEF ReconcileErase, Reconciling
<1>5. ASSUME NEW i \in Ids, ReconcileReady(i)
      PROVE  SamePlace
  BY <1>5 DEF ReconcileReady, Reconciling
<1>6. ASSUME NEW i \in Ids, ReconcileFinalized(i)
      PROVE  SamePlace
  BY <1>6 DEF ReconcileFinalized, Reconciling
<1>7. CASE WriteTemp
  BY <1>7 DEF WriteTemp
<1>8. CASE WriteSynced
  BY <1>8 DEF WriteSynced
<1>9. CASE FinalizeChanged
  BY <1>9 DEF FinalizeChanged
<1>10. CASE FinalizeBegin
  BY <1>10 DEF FinalizeBegin
<1>11. CASE RemoveChanged \/ RemoveCompared \/ RemoveAbsent \/ RemoveFailed
  BY <1>11 DEF RemoveChanged, RemoveCompared, RemoveAbsent, RemoveFailed
<1>12. CASE RemoveDone
  BY <1>12 DEF RemoveDone
<1>13. CASE Identify
  BY <1>13 DEF Identify
<1>14. CASE OpenFresh
  BY <1>14 DEF OpenFresh
<1>15. CASE OpenUsable
  BY <1>15 DEF OpenUsable
<1>16. CASE OpenUnusable
  BY <1>16 DEF OpenUnusable
<1>17. CASE QuarantineChanged
  BY <1>17 DEF QuarantineChanged
<1>18. CASE QuarantineFull
  BY <1>18 DEF QuarantineFull
<1>19. CASE Revalidate
  BY <1>19 DEF Revalidate
<1>20. CASE Changed
  BY <1>20 DEF Changed
<1>21. ASSUME NEW i \in Ids, PurgeNext(i)
      PROVE  SamePlace
  BY <1>21 DEF PurgeNext
<1>22. CASE PurgeDone
  BY <1>22 DEF PurgeDone
<1>23. CASE PurgeBegin
  BY <1>23 DEF PurgeBegin
<1>24. CASE Exit
  BY <1>24 DEF Exit
<1>25. CASE Decay
  BY <1>25 DEF Decay
<1>26. CASE TakeSidecar
  BY <1>26 DEF TakeSidecar
<1>27. ASSUME NEW f \in Files, NEW usable \in BOOLEAN, Touch(f, usable)
      PROVE  SamePlace
  BY <1>27 DEF Touch
<1> QED
  BY <1>1, <1>2, <1>3, <1>4, <1>5, <1>6, <1>7, <1>8, <1>9, <1>10, <1>11, <1>12, <1>13,
     <1>14, <1>15, <1>16, <1>17, <1>18, <1>19, <1>20, <1>21, <1>22, <1>23, <1>24, <1>25,
     <1>26, <1>27
     DEF Calm

\* When no directory is being made or removed, the two must agree.
LEMMA AgreeKnown ==
    ASSUME pc' # "unnamed",
           \A i \in Ids : live'.incident[i].there = disk'.incident[i].there,
           \A i \in Ids, f \in Files :
              /\ ~live'.incident[i].there => live'.incident[i].copy[f] = Absent
              /\ ~disk'.incident[i].there => disk'.incident[i].copy[f] = Absent
    PROVE  NamesKnown'
BY DEF NamesKnown

\* Steps that keep the names, and put a copy only where there is a directory.
NamesSame ==
    \A i \in Ids :
       /\ live'.incident[i].there = live.incident[i].there
       /\ disk'.incident[i].there = disk.incident[i].there
       /\ \A f \in Files :
             /\ ~live.incident[i].there /\ live.incident[i].copy[f] = Absent
                  => live'.incident[i].copy[f] = Absent
             /\ ~disk.incident[i].there /\ disk.incident[i].copy[f] = Absent
                  => disk'.incident[i].copy[f] = Absent

LEMMA NamesSameKnown ==
    ASSUME Typed, NamesKnown, NamesSame, SamePlace
    PROVE  NamesKnown'
<1>1. \A i \in Ids, f \in Files :
         /\ ~live'.incident[i].there => live'.incident[i].copy[f] = Absent
         /\ ~disk'.incident[i].there => disk'.incident[i].copy[f] = Absent
  BY DEF NamesKnown, NamesSame
<1>2. \A i \in Ids : \/ live'.incident[i].there = disk'.incident[i].there
                    \/ (pc' \in {"made", "unnamed"} /\ i = job'.inc)
  BY DEF NamesKnown, NamesSame, SamePlace
<1>3. pc' = "unnamed" => pc' = pc /\ job' = job /\ job.inc \in Ids
  BY DEF SamePlace, Typed, CallTyped, Erasing
<1>4. ASSUME pc' = "unnamed" PROVE ~live'.incident[job'.inc].there
  BY <1>3, <1>4 DEF NamesKnown, NamesSame, Here
<1> QED
  BY <1>1, <1>2, <1>4 DEF NamesKnown, Here

LEMMA NamesKnownKept ==
    ASSUME Typed, Displaced, Safeguarded, NamesKnown, Next
    PROVE  NamesKnown'
<1>1. CASE Calm
  <2>1. SameIncidents
    BY <1>1, CalmSteps
  <2>2. NamesSame
    BY <2>1 DEF SameIncidents, NamesSame
  <2> QED
    BY <1>1, <2>2, CalmPlaces, NamesSameKnown
<1>2. CASE EraseOverwrite
  <2>1. /\ job.inc \in Ids /\ SamePlace
        /\ \A i \in Ids \ {job.inc} :
              live'.incident[i] = live.incident[i] /\ disk'.incident[i] = disk.incident[i]
    BY <1>2, TypeFacts DEF EraseOverwrite, SamePlace, Goto, Local, FileSystems, Typed, CallTyped, Erasing, Unchanged
  <2>2. /\ live'.incident[job.inc] = Overwritten(live.incident[job.inc], NextErased)
        /\ disk'.incident[job.inc] = Overwritten(disk.incident[job.inc], NextErased)
    BY <1>2, <2>1, TypeFacts DEF EraseOverwrite, FileSystems
  <2>3. /\ live.incident[job.inc] \in Incidents /\ disk.incident[job.inc] \in Incidents
        /\ NextErased \in Files \cup {"temp", "state"} /\ "state" \in Files \cup {"temp", "state"}
    BY <2>1, TypeFacts, EraseTypes
  <2>4. /\ live'.incident[job.inc].there = live.incident[job.inc].there
        /\ disk'.incident[job.inc].there = disk.incident[job.inc].there
        /\ \A f \in Files :
              /\ live.incident[job.inc].copy[f] = Absent => live'.incident[job.inc].copy[f] = Absent
              /\ disk.incident[job.inc].copy[f] = Absent => disk'.incident[job.inc].copy[f] = Absent
    <3>1. live'.incident[job.inc].there = live.incident[job.inc].there
      BY ONLY <2>2, <2>3, ErasedNames
    <3>2. disk'.incident[job.inc].there = disk.incident[job.inc].there
      BY ONLY <2>2, <2>3, ErasedNames
    <3>3. ASSUME NEW f \in Files, live.incident[job.inc].copy[f] = Absent
          PROVE  live'.incident[job.inc].copy[f] = Absent
      BY <2>2, <2>3, <3>3, ErasedCopies
    <3>4. ASSUME NEW f \in Files, disk.incident[job.inc].copy[f] = Absent
          PROVE  disk'.incident[job.inc].copy[f] = Absent
      BY <2>2, <2>3, <3>4, ErasedCopies
    <3> QED
      BY <3>1, <3>2, <3>3, <3>4
  <2>5. NamesSame
    BY <2>1, <2>4 DEF NamesSame
  <2> QED
    BY <2>1, <2>5, NamesSameKnown
<1>3. CASE EraseState
  <2>1. /\ job.inc \in Ids /\ SamePlace
        /\ \A i \in Ids \ {job.inc} :
              live'.incident[i] = live.incident[i] /\ disk'.incident[i] = disk.incident[i]
    BY <1>3, TypeFacts DEF EraseState, SamePlace, Goto, Local, FileSystems, Typed, CallTyped, Erasing, Unchanged
  <2>2. /\ live'.incident[job.inc] = Unlinked(live.incident[job.inc], "state")
        /\ disk'.incident[job.inc] = Unlinked(disk.incident[job.inc], "state")
    BY <1>3, <2>1, TypeFacts DEF EraseState, FileSystems
  <2>3. /\ live.incident[job.inc] \in Incidents /\ disk.incident[job.inc] \in Incidents
        /\ NextErased \in Files \cup {"temp", "state"} /\ "state" \in Files \cup {"temp", "state"}
    BY <2>1, TypeFacts, EraseTypes
  <2>4. /\ live'.incident[job.inc].there = live.incident[job.inc].there
        /\ disk'.incident[job.inc].there = disk.incident[job.inc].there
        /\ \A f \in Files :
              /\ live.incident[job.inc].copy[f] = Absent => live'.incident[job.inc].copy[f] = Absent
              /\ disk.incident[job.inc].copy[f] = Absent => disk'.incident[job.inc].copy[f] = Absent
    <3>1. live'.incident[job.inc].there = live.incident[job.inc].there
      BY ONLY <2>2, <2>3, ErasedNames
    <3>2. disk'.incident[job.inc].there = disk.incident[job.inc].there
      BY ONLY <2>2, <2>3, ErasedNames
    <3>3. ASSUME NEW f \in Files, live.incident[job.inc].copy[f] = Absent
          PROVE  live'.incident[job.inc].copy[f] = Absent
      BY <2>2, <2>3, <3>3, ErasedCopies
    <3>4. ASSUME NEW f \in Files, disk.incident[job.inc].copy[f] = Absent
          PROVE  disk'.incident[job.inc].copy[f] = Absent
      BY <2>2, <2>3, <3>4, ErasedCopies
    <3> QED
      BY <3>1, <3>2, <3>3, <3>4
  <2>5. NamesSame
    BY <2>1, <2>4 DEF NamesSame
  <2> QED
    BY <2>1, <2>5, NamesSameKnown
<1>4. CASE EraseUnlink
  <2>1. /\ job.inc \in Ids /\ SamePlace
        /\ \A i \in Ids \ {job.inc} :
              live'.incident[i] = live.incident[i] /\ disk'.incident[i] = disk.incident[i]
    BY <1>4, TypeFacts DEF EraseUnlink, SamePlace, Goto, Local, FileSystems, Typed, CallTyped, Erasing, Unchanged
  <2>2. /\ live'.incident[job.inc] = Unlinked(live.incident[job.inc], NextErased)
        /\ disk'.incident[job.inc] = disk.incident[job.inc]
    BY <1>4, <2>1, TypeFacts DEF EraseUnlink, FileSystems
  <2>3. /\ live.incident[job.inc] \in Incidents /\ disk.incident[job.inc] \in Incidents
        /\ NextErased \in Files \cup {"temp", "state"} /\ "state" \in Files \cup {"temp", "state"}
    BY <2>1, TypeFacts, EraseTypes
  <2>4. /\ live'.incident[job.inc].there = live.incident[job.inc].there
        /\ disk'.incident[job.inc].there = disk.incident[job.inc].there
        /\ \A f \in Files :
              /\ live.incident[job.inc].copy[f] = Absent => live'.incident[job.inc].copy[f] = Absent
              /\ disk.incident[job.inc].copy[f] = Absent => disk'.incident[job.inc].copy[f] = Absent
    <3>1. live'.incident[job.inc].there = live.incident[job.inc].there
      BY ONLY <2>2, <2>3, ErasedNames
    <3>2. disk'.incident[job.inc].there = disk.incident[job.inc].there
      BY ONLY <2>2, <2>3, ErasedNames
    <3>3. ASSUME NEW f \in Files, live.incident[job.inc].copy[f] = Absent
          PROVE  live'.incident[job.inc].copy[f] = Absent
      BY <2>2, <2>3, <3>3, ErasedCopies
    <3>4. ASSUME NEW f \in Files, disk.incident[job.inc].copy[f] = Absent
          PROVE  disk'.incident[job.inc].copy[f] = Absent
      BY <2>2, <2>3, <3>4, ErasedCopies
    <3> QED
      BY <3>1, <3>2, <3>3, <3>4
  <2>5. NamesSame
    BY <2>1, <2>4 DEF NamesSame
  <2> QED
    BY <2>1, <2>5, NamesSameKnown
<1>5. CASE EraseDirectory
  <2>1. /\ job.inc \in Ids /\ pc = "erased" /\ pc' = "unnamed" /\ job' = job /\ disk' = disk
        /\ live'.incident[job.inc] = NoIncident
        /\ \A i \in Ids \ {job.inc} : live'.incident[i] = live.incident[i]
    BY <1>5, TypeFacts DEF EraseDirectory, Goto, FileSystems, Typed, CallTyped, Erasing
  <2>2. ~NoIncident.there /\ \A f \in Files : NoIncident.copy[f] = Absent
    BY DEF NoIncident
  <2> QED
    BY <2>1, <2>2 DEF NamesKnown, Here
<1>6. CASE EraseSynced \/ CopiesSynced \/ WriteDone
  <2>1. /\ job.inc \in Ids /\ pc \notin {"made", "unnamed"} /\ pc' \notin {"made", "unnamed"}
        /\ live' = live /\ SyncIncident(job.inc)
    <3>1. CASE EraseSynced \/ CopiesSynced
      BY <3>1 DEF EraseSynced, CopiesSynced, Goto, Typed, CallTyped, Erasing, Copying
    <3>2. CASE WriteDone
      <4>1. job.phase \in Phases /\ job.next \in {"reconcile", "open", "changed", "purge"}
        BY TypeFacts DEF Jobs
      <4>2. AfterWrite \notin {"made", "unnamed"}
        BY <4>1 DEF AfterWrite, Phases
      <4> QED
        BY <3>2, <4>2 DEF WriteDone, Goto, Typed, CallTyped, Writing
    <3> QED
      BY <1>6, <3>1, <3>2
  <2>2. /\ \A i \in Ids \ {job.inc} : disk'.incident[i] = disk.incident[i]
        /\ disk'.incident[job.inc].there
             = (live.incident[job.inc].there /\ disk.incident[job.inc].there)
        /\ disk'.incident[job.inc].copy = live.incident[job.inc].copy
    BY <2>1, TypeFacts DEF SyncIncident, FileSystems, Incidents
  <2>3. \A i \in Ids : live.incident[i].there = disk.incident[i].there
    BY <2>1 DEF NamesKnown
  <2>4. ASSUME NEW i \in Ids
        PROVE  live'.incident[i].there = disk'.incident[i].there
    <3>1. CASE i = job.inc
      <4>1. live.incident[i].there \in BOOLEAN /\ live.incident[i].there = disk.incident[i].there
        BY <2>3, TypeFacts DEF Incidents
      <4>2. (live.incident[i].there /\ disk.incident[i].there) = live.incident[i].there
        BY <4>1
      <4> QED
        BY <2>1, <2>2, <3>1, <4>2
    <3>2. CASE i # job.inc
      BY <2>1, <2>2, <2>3, <3>2
    <3> QED
      BY <3>1, <3>2
  <2>5. ASSUME NEW i \in Ids, NEW f \in Files
        PROVE  /\ ~live'.incident[i].there => live'.incident[i].copy[f] = Absent
               /\ ~disk'.incident[i].there => disk'.incident[i].copy[f] = Absent
    <3>1. ~live.incident[i].there => live.incident[i].copy[f] = Absent
      BY DEF NamesKnown
    <3>2. ~disk.incident[i].there => disk.incident[i].copy[f] = Absent
      BY DEF NamesKnown
    <3>3. CASE i = job.inc
      BY <2>1, <2>2, <2>4, <3>1, <3>3
    <3>4. CASE i # job.inc
      BY <2>1, <2>2, <3>1, <3>2, <3>4
    <3> QED
      BY <3>3, <3>4
  <2> QED
    BY <2>1, <2>4, <2>5, AgreeKnown
<1>7. CASE EraseDone \/ QuarantineListed
  <2>1. live' = live /\ SyncRoot /\ pc' \notin {"made", "unnamed"}
    BY <1>7, TypeFacts DEF EraseDone, QuarantineListed, Goto, Jobs
  <2>2. ASSUME NEW i \in Ids
        PROVE  /\ live.incident[i].there => /\ disk'.incident[i].there
                                          /\ disk'.incident[i].copy = disk.incident[i].copy
               /\ ~live.incident[i].there => disk'.incident[i] = NoIncident
    BY <2>1, TypeFacts DEF SyncRoot, FileSystems, Incidents
  <2>3. ~NoIncident.there /\ \A f \in Files : NoIncident.copy[f] = Absent
    BY DEF NoIncident
  <2>4. ASSUME NEW i \in Ids
        PROVE  live'.incident[i].there = disk'.incident[i].there
    <3>1. live.incident[i].there \in BOOLEAN /\ disk'.incident[i].there \in BOOLEAN
      <4>1. Typed'
        BY TypedKept
      <4> QED
        BY <4>1, TypeFacts DEF Typed, TypeOK, FileSystems, Incidents
    <3> QED
      BY <2>1, <2>2, <2>3, <3>1
  <2>5. ASSUME NEW i \in Ids, NEW f \in Files
        PROVE  /\ ~live'.incident[i].there => live'.incident[i].copy[f] = Absent
               /\ ~disk'.incident[i].there => disk'.incident[i].copy[f] = Absent
    BY <2>1, <2>2, <2>3 DEF NamesKnown
  <2> QED
    BY <2>1, <2>4, <2>5, AgreeKnown
<1>8. ASSUME NEW i \in Ids, QuarantineMade(i)
      PROVE  NamesKnown'
  <2>1. /\ pc = "quarantine" /\ pc' = "made" /\ job'.inc = i /\ disk' = disk
        /\ ~disk.incident[i].there
        /\ live'.incident[i].there /\ live'.incident[i].copy = NoIncident.copy
        /\ \A j \in Ids \ {i} : live'.incident[j] = live.incident[j]
    BY <1>8, TypeFacts DEF QuarantineMade, Goto, Local, FileSystems, Jobs, NoIncident
  <2>2. \A f \in Files : NoIncident.copy[f] = Absent
    BY DEF NoIncident
  <2> QED
    BY <2>1, <2>2 DEF NamesKnown
<1>9. CASE CopyCreate \/ CopyWrite
  <2>1. /\ job.inc \in Ids /\ pc \in Copying
        /\ \A i \in Ids \ {job.inc} : live'.incident[i] = live.incident[i]
        /\ disk' = disk /\ SamePlace
    BY <1>9, TypeFacts DEF CopyCreate, CopyWrite, Typed, CallTyped, Copying, FileSystems, SamePlace, Goto
  <2>2. live'.incident[job.inc].there = live.incident[job.inc].there
    <3>1. CASE CopyCreate /\ live.source[NextCopied] = Absent
      BY <3>1 DEF CopyCreate
    <3>2. CASE CopyCreate /\ live.source[NextCopied] # Absent
      <4>1. live' = [live EXCEPT !.incident[job.inc].copy[NextCopied] = Partial]
        BY <3>2 DEF CopyCreate
      <4> QED
        BY <2>1, <4>1, TypeFacts DEF FileSystems, Incidents
    <3>3. CASE CopyWrite
      BY <2>1, <3>3, TypeFacts DEF CopyWrite, FileSystems, Incidents
    <3> QED
      BY <1>9, <3>1, <3>2, <3>3
  <2>3. live.incident[job.inc].there
    BY <2>1 DEF Safeguarded, Protocol, Here
  <2>4. NamesSame
    BY <2>1, <2>2, <2>3 DEF NamesSame
  <2> QED
    BY <2>1, <2>4, NamesSameKnown
<1>10. CASE CopySync
  BY <1>10, NamesSameKnown DEF CopySync, NamesSame, SamePlace, Goto
<1>11. CASE WriteRenamed \/ RemoveOriginal
  <2>1. NamesSame
    <3>1. CASE WriteRenamed
      BY <3>1, TypeFacts DEF WriteRenamed, NamesSame, Typed, CallTyped, Writing, FileSystems, Incidents
    <3>2. CASE RemoveOriginal
      BY <3>2, TypeFacts DEF RemoveOriginal, NamesSame, FileSystems
    <3> QED
      BY <1>11, <3>1, <3>2
  <2> QED
    BY <1>11, <2>1, NamesSameKnown DEF WriteRenamed, RemoveOriginal, SamePlace, Goto
<1>12. CASE Crash \/ PowerLoss
  <2>1. live' = disk' /\ pc' = "down"
    BY <1>12 DEF Crash, PowerLoss, Goto
  <2>2. ASSUME NEW i \in Ids, NEW f \in Files, ~live'.incident[i].there
        PROVE  live'.incident[i].copy[f] = Absent
    <3>1. CASE Crash
      BY <2>2, <3>1 DEF Crash, NamesKnown
    <3>2. CASE PowerLoss
      <4>1. PICK kept \in SUBSET Undecided, torn \in SUBSET unsynced : live' = Survives(kept, torn)
        BY <3>2 DEF PowerLoss
      <4>2. live'.incident[i].there \/ live'.incident[i] = NoIncident
        BY <4>1 DEF Survives
      <4> QED
        BY <2>2, <4>2 DEF NoIncident
    <3> QED
      BY <1>12, <3>1, <3>2
  <2> QED
    BY <2>1, <2>2, AgreeKnown
<1> QED
  BY <1>1, <1>2, <1>3, <1>4, <1>5, <1>6, <1>7, <1>8, <1>9, <1>10, <1>11, <1>12
     DEF Next, Work, Reconcile, Write, Finalize, Open, Quarantine, Erase, Others, Calm

-----------------------------------------------------------------------------
\* Only copying brings a version into an incident.
NoNewCopy ==
    \A i \in Ids, f \in Files :
       LET known == {live.incident[i].copy[f], disk.incident[i].copy[f], Absent, Partial, Zeroed}
       IN  live'.incident[i].copy[f] \in known /\ disk'.incident[i].copy[f] \in known

LEMMA CopiesCome == Typed /\ Next => NoNewCopy \/ CopyWrite
<1> SUFFICES ASSUME Typed, Next, ~CopyWrite PROVE NoNewCopy
    OBVIOUS
<1>1. CASE Calm
  BY <1>1, CalmSteps DEF SameIncidents, NoNewCopy
<1>2. CASE EraseOverwrite
  <2>1. /\ job.inc \in Ids
        /\ \A i \in Ids \ {job.inc} :
              live'.incident[i] = live.incident[i] /\ disk'.incident[i] = disk.incident[i]
    BY <1>2, TypeFacts DEF EraseOverwrite, FileSystems, Typed, CallTyped, Erasing
  <2>2. /\ live'.incident[job.inc] = Overwritten(live.incident[job.inc], NextErased)
        /\ disk'.incident[job.inc] = Overwritten(disk.incident[job.inc], NextErased)
    BY <1>2, <2>1, TypeFacts DEF EraseOverwrite, FileSystems
  <2>3. /\ live.incident[job.inc] \in Incidents /\ disk.incident[job.inc] \in Incidents
        /\ NextErased \in Files \cup {"temp", "state"} /\ "state" \in Files \cup {"temp", "state"}
    BY <2>1, TypeFacts, EraseTypes
  <2>4. ASSUME NEW f \in Files
        PROVE  /\ live'.incident[job.inc].copy[f] \in {live.incident[job.inc].copy[f], Absent, Zeroed}
               /\ disk'.incident[job.inc].copy[f] \in {disk.incident[job.inc].copy[f], Absent, Zeroed}
    BY <2>2, <2>3, ErasedCopies
  <2> QED
    BY <2>1, <2>4 DEF NoNewCopy
<1>3. CASE EraseState
  <2>1. /\ job.inc \in Ids
        /\ \A i \in Ids \ {job.inc} :
              live'.incident[i] = live.incident[i] /\ disk'.incident[i] = disk.incident[i]
    BY <1>3, TypeFacts DEF EraseState, FileSystems, Typed, CallTyped, Erasing
  <2>2. /\ live'.incident[job.inc] = Unlinked(live.incident[job.inc], "state")
        /\ disk'.incident[job.inc] = Unlinked(disk.incident[job.inc], "state")
    BY <1>3, <2>1, TypeFacts DEF EraseState, FileSystems
  <2>3. /\ live.incident[job.inc] \in Incidents /\ disk.incident[job.inc] \in Incidents
        /\ NextErased \in Files \cup {"temp", "state"} /\ "state" \in Files \cup {"temp", "state"}
    BY <2>1, TypeFacts, EraseTypes
  <2>4. ASSUME NEW f \in Files
        PROVE  /\ live'.incident[job.inc].copy[f] \in {live.incident[job.inc].copy[f], Absent, Zeroed}
               /\ disk'.incident[job.inc].copy[f] \in {disk.incident[job.inc].copy[f], Absent, Zeroed}
    BY <2>2, <2>3, ErasedCopies
  <2> QED
    BY <2>1, <2>4 DEF NoNewCopy
<1>4. CASE EraseUnlink
  <2>1. /\ job.inc \in Ids
        /\ \A i \in Ids \ {job.inc} :
              live'.incident[i] = live.incident[i] /\ disk'.incident[i] = disk.incident[i]
    BY <1>4, TypeFacts DEF EraseUnlink, FileSystems, Typed, CallTyped, Erasing
  <2>2. /\ live'.incident[job.inc] = Unlinked(live.incident[job.inc], NextErased)
        /\ disk'.incident[job.inc] = disk.incident[job.inc]
    BY <1>4, <2>1, TypeFacts DEF EraseUnlink, FileSystems
  <2>3. /\ live.incident[job.inc] \in Incidents /\ disk.incident[job.inc] \in Incidents
        /\ NextErased \in Files \cup {"temp", "state"} /\ "state" \in Files \cup {"temp", "state"}
    BY <2>1, TypeFacts, EraseTypes
  <2>4. ASSUME NEW f \in Files
        PROVE  /\ live'.incident[job.inc].copy[f] \in {live.incident[job.inc].copy[f], Absent, Zeroed}
               /\ disk'.incident[job.inc].copy[f] \in {disk.incident[job.inc].copy[f], Absent, Zeroed}
    BY <2>2, <2>3, ErasedCopies
  <2> QED
    BY <2>1, <2>4 DEF NoNewCopy
<1>5. CASE EraseDirectory
  <2>1. /\ job.inc \in Ids /\ disk' = disk /\ live'.incident[job.inc] = NoIncident
        /\ \A i \in Ids \ {job.inc} : live'.incident[i] = live.incident[i]
    BY <1>5, TypeFacts DEF EraseDirectory, FileSystems, Typed, CallTyped, Erasing
  <2>2. \A f \in Files : NoIncident.copy[f] = Absent
    BY DEF NoIncident
  <2> QED
    BY <2>1, <2>2 DEF NoNewCopy
<1>6. CASE EraseSynced \/ CopiesSynced \/ WriteDone
  <2>1. job.inc \in Ids /\ live' = live /\ SyncIncident(job.inc)
    BY <1>6 DEF EraseSynced, CopiesSynced, WriteDone, Typed, CallTyped, Erasing, Writing, Copying
  <2>2. /\ \A i \in Ids \ {job.inc} : disk'.incident[i] = disk.incident[i]
        /\ disk'.incident[job.inc].copy = live.incident[job.inc].copy
    BY <2>1, TypeFacts DEF SyncIncident, FileSystems, Incidents
  <2> QED
    BY <2>1, <2>2 DEF NoNewCopy
<1>7. CASE EraseDone \/ QuarantineListed
  <2>1. live' = live /\ SyncRoot
    BY <1>7 DEF EraseDone, QuarantineListed
  <2>2. ASSUME NEW i \in Ids
        PROVE  disk'.incident[i].copy = disk.incident[i].copy \/ disk'.incident[i] = NoIncident
    BY <2>1, TypeFacts DEF SyncRoot, FileSystems, Incidents
  <2>3. \A f \in Files : NoIncident.copy[f] = Absent
    BY DEF NoIncident
  <2> QED
    BY <2>1, <2>2, <2>3 DEF NoNewCopy
<1>8. ASSUME NEW i \in Ids, QuarantineMade(i)
      PROVE  NoNewCopy
  <2>1. /\ disk' = disk /\ live'.incident[i].copy = NoIncident.copy
        /\ \A j \in Ids \ {i} : live'.incident[j] = live.incident[j]
    BY <1>8, TypeFacts DEF QuarantineMade, FileSystems, NoIncident
  <2>2. \A f \in Files : NoIncident.copy[f] = Absent
    BY DEF NoIncident
  <2> QED
    BY <2>1, <2>2 DEF NoNewCopy
<1>9. CASE CopyCreate
  <2>1. CASE live.source[NextCopied] = Absent
    BY <1>9, <2>1 DEF CopyCreate, NoNewCopy
  <2>2. CASE live.source[NextCopied] # Absent
    <3>1. /\ live' = [live EXCEPT !.incident[job.inc].copy[NextCopied] = Partial]
          /\ disk' = disk /\ job.inc \in Ids
      BY <1>9, <2>2 DEF CopyCreate, Typed, CallTyped, Copying
    <3>2. ASSUME NEW i \in Ids, NEW f \in Files
          PROVE  live'.incident[i].copy[f] \in {live.incident[i].copy[f], Partial}
      BY <3>1, TypeFacts DEF FileSystems, Incidents
    <3> QED
      BY <3>1, <3>2 DEF NoNewCopy
  <2> QED
    BY <2>1, <2>2
<1>10. CASE CopySync
  BY <1>10 DEF CopySync, NoNewCopy
<1>11. CASE WriteRenamed \/ RemoveOriginal
  <2>1. disk' = disk /\ \A i \in Ids : live'.incident[i].copy = live.incident[i].copy
    <3>1. CASE WriteRenamed
      BY <3>1, TypeFacts DEF WriteRenamed, Typed, CallTyped, Writing, FileSystems, Incidents
    <3>2. CASE RemoveOriginal
      BY <3>2, TypeFacts DEF RemoveOriginal, FileSystems
    <3> QED
      BY <1>11, <3>1, <3>2
  <2> QED
    BY <2>1 DEF NoNewCopy
<1>12. CASE Crash
  BY <1>12 DEF Crash, NoNewCopy
<1>13. CASE PowerLoss
  <2>1. PICK kept \in SUBSET Undecided, torn \in SUBSET unsynced :
           live' = Survives(kept, torn) /\ disk' = live'
    BY <1>13 DEF PowerLoss
  <2>2. ASSUME NEW i \in Ids, NEW f \in Files
        PROVE  live'.incident[i].copy[f]
                 \in {live.incident[i].copy[f], disk.incident[i].copy[f], Absent, Partial}
    BY <2>1 DEF Survives, NoIncident
  <2> QED
    BY <2>1, <2>2 DEF NoNewCopy
<1> QED
  BY <1>1, <1>2, <1>3, <1>4, <1>5, <1>6, <1>7, <1>8, <1>9, <1>10, <1>11, <1>12, <1>13
     DEF Next, Work, Reconcile, Write, Finalize, Open, Quarantine, Erase, Others, Calm

\* Where the files, and what is taken for the database, come from.
NoOldSource ==
    /\ born' \in {born, Fresh}
    /\ \A f \in Files :
          LET known == {live.source[f], disk.source[f], Absent} \cup ({born'} \ {born})
          IN  live'.source[f] \in known /\ disk'.source[f] \in known
    /\ job'.cand \in {job.cand, live.source["db"], Absent}

LEMMA SourcesCome == Typed /\ Next => NoOldSource
<1> SUFFICES ASSUME Typed, Next PROVE NoOldSource
    OBVIOUS
<1>0. "db" \in Files /\ "wal" \in Files /\ born \in Nat
  BY RecoveryBounds DEF Files, Typed, TypeOK, Versions
<1>q. CASE Quiet
  BY <1>q DEF Quiet, NoOldSource
<1> USE <1>0, TypeFacts DEF NoOldSource, FileSystems, Goto, Local, Unchanged, Idle, Jobs, Fresh
<1>1. CASE RemoveOriginal
  BY <1>1 DEF RemoveOriginal
<1>2. CASE RemoveDone
  BY <1>2 DEF RemoveDone, SyncSources
<1>3. CASE Identify
  BY <1>3 DEF Identify
<1>4. CASE OpenFresh
  BY <1>4 DEF OpenFresh
<1>5. CASE OpenUsable
  BY <1>5 DEF OpenUsable, SyncSources
<1>6. CASE OpenUnusable
  BY <1>6 DEF OpenUnusable
<1>7. ASSUME NEW i \in Ids, QuarantineMade(i)
      PROVE  NoOldSource
  BY <1>7 DEF QuarantineMade
<1>8. CASE QuarantineListed
  BY <1>8 DEF QuarantineListed, SyncRoot
<1>9. CASE Crash
  BY <1>9 DEF Crash
<1>10. CASE PowerLoss
  BY <1>10 DEF PowerLoss, Survives
<1>11. CASE Decay
  BY <1>11 DEF Decay
<1>12. CASE TakeSidecar
  BY <1>12 DEF TakeSidecar
<1>13. ASSUME NEW f \in Files, NEW usable \in BOOLEAN, Touch(f, usable)
      PROVE  NoOldSource
  BY <1>13 DEF Touch
<1> QED
  BY <1>q, <1>1, <1>2, <1>3, <1>4, <1>5, <1>6, <1>7, <1>8, <1>9, <1>10, <1>11, <1>12, <1>13, QuietOrLoud
     DEF Loud, Open, Others

LEMMA PurgedOnlyReported == Typed /\ Next => history'.purged = history.purged \/ PurgeDone
<1> SUFFICES ASSUME Typed, Next, ~PurgeDone PROVE history'.purged = history.purged
    OBVIOUS
<1>1. CASE RemoveOriginal \/ \E i \in Ids : PurgeNext(i)
  BY <1>1 DEF RemoveOriginal, PurgeNext, Typed, TypeOK
<1>2. CASE Reconcile \/ Write \/ Erase
  BY <1>2 DEF Reconcile, Start, ReconcileDone, ReconcileRefused, ReconcileErase, ReconcileReady,
     ReconcileFinalized, Refused, Write, WriteTemp, WriteSynced, WriteRenamed, WriteDone, Erase,
     EraseOverwrite, EraseState, EraseUnlink, EraseSynced, EraseDirectory, EraseDone, Unchanged
<1>3. CASE FinalizeChanged \/ FinalizeBegin \/ RemoveChanged \/ RemoveCompared
    \/ RemoveAbsent \/ RemoveFailed \/ RemoveDone \/ Open \/ Quarantine
  BY <1>3 DEF FinalizeChanged, FinalizeBegin, RemoveChanged, RemoveCompared,
       RemoveAbsent, RemoveFailed, RemoveDone, Open, Identify, OpenFresh,
     OpenUsable, OpenUnusable, Quarantine, QuarantineChanged, QuarantineMade, QuarantineFull,
     QuarantineListed, CopyCreate, CopyWrite, CopySync, CopiesSynced, Revalidate, Changed, Unchanged
<1>4. CASE PurgeBegin \/ Exit \/ Crash \/ PowerLoss \/ Decay \/ TakeSidecar
  BY <1>4 DEF PurgeBegin, Exit, Crash, PowerLoss, Decay, TakeSidecar, Unchanged
<1>5. ASSUME NEW f \in Files, NEW usable \in BOOLEAN, Touch(f, usable)
      PROVE  history'.purged = history.purged
  BY <1>5 DEF Touch, Typed, TypeOK
<1> QED
  BY <1>1, <1>2, <1>3, <1>4, <1>5 DEF Next, Work, Finalize, Others

LEMMA UnpurgedKept == Typed /\ NamesKnown /\ PurgeMode /\ Unpurged /\ Next => Unpurged'
<1> SUFFICES ASSUME Typed, NamesKnown, PurgeMode, Unpurged, Next PROVE Unpurged'
    OBVIOUS
<1>1. /\ Typed' /\ born \in Nat /\ born' \in Nat /\ born <= born' /\ Fresh = born + 1
      /\ 1..born \subseteq 1..born'
  <2>1. Typed'
    BY TypedKept
  <2>2. born \in Nat /\ born' \in Nat
    BY <2>1, RecoveryBounds DEF Typed, TypeOK, Versions
  <2>3. born' \in {born, Fresh}
    BY SourcesCome DEF NoOldSource
  <2> QED
    BY <2>1, <2>2, <2>3 DEF Fresh
<1>2. \A f \in Files, v \in {Absent, Partial, Zeroed} : v \notin 1..born /\ v \notin 1..born'
  BY <1>1 DEF Absent, Partial, Zeroed
<1>3. CASE PurgeDone
  <2>1. /\ pc = "purge" /\ pc' = "running" /\ job.todo = {} /\ live' = live /\ disk' = disk
        /\ born' = born /\ job'.cand = Absent
        /\ history'.purged = {o \in Files \X (1..born) : live.source[o[1]] # o[2]}
    BY <1>3 DEF PurgeDone, Goto, Local, Idle, Typed, TypeOK
  <2>2. \A i \in Ids : ~live.incident[i].there /\ ~disk.incident[i].there
    BY <2>1 DEF PurgeMode
  <2>3. \A i \in Ids, f \in Files : live.incident[i].copy[f] = Absent /\ disk.incident[i].copy[f] = Absent
    BY <2>2 DEF NamesKnown
  <2>4. disk.source = live.source
    BY <2>1 DEF PurgeMode
  <2>5. /\ history'.purged \subseteq Files \X (1..born)
        /\ \A f \in Files : <<f, Absent>> \notin history'.purged
        /\ \A f \in Files : <<f, live.source[f]>> \notin history'.purged
        /\ <<"db", Absent>> \notin history'.purged
    BY <1>2, <2>1 DEF Files
  <2> QED
    BY <2>1, <2>3, <2>4, <2>5 DEF Unpurged, Copying, Writing, WritingPhase
<1>4. CASE ~PurgeDone
  <2>1. history'.purged = history.purged /\ history.purged \subseteq Files \X (1..born)
    BY <1>4, PurgedOnlyReported DEF Unpurged
  <2>2. /\ \A f \in Files, v \in {Absent, Partial, Zeroed} : <<f, v>> \notin history.purged
        /\ born' # born => \A f \in Files : <<f, born'>> \notin history.purged
    BY <1>1, <1>2, <2>1
  <2>3. history'.purged \subseteq Files \X (1..born')
    BY <1>1, <2>1
  <2>4. ASSUME NEW i \in Ids, NEW f \in Files
        PROVE  /\ <<f, live'.incident[i].copy[f]>> \notin history.purged
               /\ <<f, disk'.incident[i].copy[f]>> \notin history.purged
    <3>1. CASE NoNewCopy
      BY <2>2, <3>1 DEF NoNewCopy, Unpurged
    <3>2. CASE CopyWrite
      <4>1. /\ job.inc \in Ids /\ pc \in Copying /\ disk' = disk
            /\ NextCopied \in Files
        BY <3>2, TypeFacts DEF CopyWrite, Typed, CallTyped, Copying
      <4>2. live'.incident[i].copy[f]
              \in {live.incident[i].copy[f]} \cup
                  (IF f = NextCopied THEN {listed[job.inc][f], live.source[f]} ELSE {})
        BY <3>2, <4>1, TypeFacts DEF CopyWrite, FileSystems, Incidents
      <4>3. <<f, listed[job.inc][f]>> \notin history.purged
        BY <4>1 DEF Unpurged
      <4> QED
        BY <4>1, <4>2, <4>3 DEF Unpurged
    <3> QED
      BY <3>1, <3>2, CopiesCome
  <2>5. ASSUME NEW f \in Files
        PROVE  /\ <<f, live'.source[f]>> \notin history.purged
               /\ <<f, disk'.source[f]>> \notin history.purged
    BY <2>2, SourcesCome DEF NoOldSource, Unpurged
  <2>6. <<"db", job'.cand>> \notin history.purged
    BY <2>2, SourcesCome DEF NoOldSource, Unpurged, Files
  <2>7. ASSUME pc' \in Copying \/ WritingPhase("Pending")', NEW f \in Files
        PROVE  <<f, listed'[job'.inc][f]>> \notin history.purged
    <3>1. CASE QuarantineListed
      <4>1. job.inc \in Ids /\ live.source["db"] # Absent
        BY <2>7, <3>1
        DEF QuarantineListed, Goto, Typed, CallTyped, Copying, WritingPhase, Writing
      <4>2. listed'[job'.inc] = [live.source EXCEPT !["db"] = job.cand]
        BY <3>1, <4>1, TypeFacts DEF QuarantineListed, Local, Typed, TypeOK, Jobs
      <4>3. listed'[job'.inc][f] = IF f = "db" THEN job.cand ELSE live.source[f]
        BY <4>2, TypeFacts
      <4> QED
        BY <4>3 DEF Unpurged
    <3>2. CASE ~QuarantineListed
      BY <2>7, <3>2, CopiedSteps DEF Copied, Unpurged
    <3> QED
      BY <3>1, <3>2
  <2> QED
    BY <2>1, <2>3, <2>4, <2>5, <2>6, <2>7 DEF Unpurged
<1> QED
  BY <1>3, <1>4

LEMMA PurgedKept ==
    ASSUME Typed, Displaced, Safeguarded, Purged, [Next]_vars
    PROVE  Purged'
<1>1. CASE UNCHANGED vars
  <2>1. NamesKnown'
    BY <1>1 DEF vars, Purged, NamesKnown, Here
  <2>2. PurgeMode'
    BY <1>1 DEF vars, Purged, PurgeMode, WritingPhase
  <2>3. Unpurged'
    BY <1>1 DEF vars, Purged, Unpurged, WritingPhase
  <2> QED
    BY <2>1, <2>2, <2>3 DEF Purged
<1>2. CASE Next
  BY <1>2, NamesKnownKept, PurgeModeKept, UnpurgedKept DEF Purged
<1> QED
  BY <1>1, <1>2

LEMMA InitPurged == Init => Purged
BY DEF Init, Purged, NamesKnown, PurgeMode, Unpurged, NoIncident, Idle, Copying, Writing, Erasing,
       WritingPhase, Here

\* Once purge_quarantine_incidents has reported that it is done, no copy of a
\* version that was there before is in any incident, whatever is killed, loses
\* power or is written by somebody else afterwards.
THEOREM PurgeIsFinal == Spec => []PurgedStaysPurged
<1>1. Init => Purged
  BY InitPurged
<1>2. Typed /\ Displaced /\ Safeguarded /\ Purged /\ [Next]_vars => Purged'
  BY PurgedKept
<1>3. Purged => PurgedStaysPurged
  BY DEF Purged, Unpurged, PurgedStaysPurged
<1> QED
  BY <1>1, <1>2, <1>3, AllSafeguarded, PTL DEF Spec

\* The three promises of quarantine.rs together: the locals of a start or a purge are
\* what its code takes them for, every original that recovery took away is kept until the
\* user purges it, and a purge that reported success is final; with somebody else
\* writing the files and with a state.json whose removal can be torn.
THEOREM IncidentsAreSound == Spec => []IncidentsSound
BY RecoveryIsTyped, OriginalsAreKept, PurgeIsFinal, PTL DEF IncidentsSound

-----------------------------------------------------------------------------
(***************************************************************************)
(* The refinement of DatabaseVault: an incident whose copies count has     *)
(* them all, the database that recovery removes is one of them, and the    *)
(* one that is open was never called bad.                                  *)
(***************************************************************************)

\* An incident whose copies count on the medium counts for the process too, unless a
\* purge has just marked it.
KeepersLive ==
    \A i \in Ids : disk.incident[i].state \in Keeping =>
        /\ OnMedium(i)
        /\ \/ live.incident[i].state \in Keeping
           \/ (pc = "renamed" /\ job.inc = i /\ job.phase = "Purging")

\* Such an incident has the files it was made for, a database among them.
CopiesListed(i) ==
    /\ listed[i]["db"] # Absent
    /\ \A f \in Family(i) : live.incident[i].copy[f] = listed[i][f]

KeptListed ==
    /\ \A i \in Ids :
          live.incident[i].state \in Keeping \/ disk.incident[i].state \in Keeping => CopiesListed(i)
    /\ pc \in Copying \/ WritingPhase("Pending") => listed[job.inc]["db"] # Absent
    /\ WritingPhase("Ready") =>
          /\ CopiesListed(job.inc)
          /\ \A f \in Family(job.inc) : live.source[f] = listed[job.inc][f]

\* A database that was removed is in the vault, as long as the medium has it too.
RemovedKept == live.source["db"] # disk.source["db"] => disk.source["db"] \in Vaulted

\* The database that is open, or that a purge leaves alone, can be used.
OpenUsed ==
    /\ bad \subseteq 1..born
    /\ WritingPhase("Purging") => job.next = "purge"
    /\ pc = "running" \/ job.next = "purge" => live.source["db"] \notin bad \cup {Absent}

Vaulting == KeepersLive /\ KeptListed /\ RemovedKept /\ OpenUsed

-----------------------------------------------------------------------------
\* Where a phase is written from, and how a database comes to be open.
Entered ==
    /\ pc' \in Writing =>
          \/ WriteTemp \/ WriteSynced \/ WriteRenamed
          \/ job'.phase \in {"Pending", "Finalized"}
          \/ Revalidate
          \/ (\E i \in Ids : PurgeNext(i))
    /\ pc' = "running" \/ job'.next = "purge" =>
          \/ pc = "running" \/ job.next = "purge"
          \/ OpenFresh \/ OpenUsable

LEMMA EnteredSteps == Typed /\ PurgeMode /\ Next => Entered
<1> SUFFICES ASSUME Typed, PurgeMode, Next PROVE Entered
    OBVIOUS
<1> USE DEF Entered, Writing, Goto, Local, Unchanged, Typed, TypeOK, Jobs, Idle
<1>1. CASE Start
  BY <1>1 DEF Start
<1>2. CASE ReconcileDone
  BY <1>2 DEF ReconcileDone
<1>3. ASSUME NEW i \in Ids, ReconcileRefused(i)
      PROVE  Entered
  BY <1>3 DEF ReconcileRefused, Refused, Reconciling
<1>4. ASSUME NEW i \in Ids, ReconcileErase(i)
      PROVE  Entered
  BY <1>4 DEF ReconcileErase, Reconciling
<1>5. ASSUME NEW i \in Ids, ReconcileReady(i)
      PROVE  Entered
  BY <1>5 DEF ReconcileReady, Reconciling
<1>6. ASSUME NEW i \in Ids, ReconcileFinalized(i)
      PROVE  Entered
  BY <1>6 DEF ReconcileFinalized, Reconciling
<1>7. CASE WriteTemp
  BY <1>7 DEF WriteTemp
<1>8. CASE WriteSynced
  BY <1>8 DEF WriteSynced
<1>9. CASE WriteRenamed
  BY <1>9 DEF WriteRenamed
<1>10. CASE WriteDone
  BY <1>10 DEF WriteDone, AfterWrite, Phases
<1>11. CASE FinalizeChanged
  BY <1>11 DEF FinalizeChanged
<1>12. CASE FinalizeBegin
  BY <1>12 DEF FinalizeBegin
<1>13. CASE RemoveOriginal
  BY <1>13 DEF RemoveOriginal
<1>14. CASE RemoveChanged \/ RemoveCompared \/ RemoveAbsent \/ RemoveFailed
  BY <1>14 DEF RemoveChanged, RemoveCompared, RemoveAbsent, RemoveFailed
<1>15. CASE RemoveDone
  BY <1>15 DEF RemoveDone
<1>16. CASE Identify
  BY <1>16 DEF Identify
<1>17. CASE OpenFresh
  BY <1>17 DEF OpenFresh
<1>18. CASE OpenUsable
  BY <1>18 DEF OpenUsable
<1>19. CASE OpenUnusable
  BY <1>19 DEF OpenUnusable
<1>20. CASE QuarantineChanged
  BY <1>20 DEF QuarantineChanged
<1>21. ASSUME NEW i \in Ids, QuarantineMade(i)
      PROVE  Entered
  BY <1>21 DEF QuarantineMade
<1>22. CASE QuarantineFull
  BY <1>22 DEF QuarantineFull
<1>23. CASE QuarantineListed
  BY <1>23 DEF QuarantineListed
<1>24. CASE CopyCreate
  BY <1>24 DEF CopyCreate
<1>25. CASE CopyWrite
  BY <1>25 DEF CopyWrite
<1>26. CASE CopySync
  BY <1>26 DEF CopySync
<1>27. CASE CopiesSynced
  BY <1>27 DEF CopiesSynced
<1>28. CASE Revalidate
  BY <1>28 DEF Revalidate
<1>29. CASE Changed
  BY <1>29 DEF Changed
<1>30. CASE EraseOverwrite
  BY <1>30 DEF EraseOverwrite
<1>31. CASE EraseState
  BY <1>31 DEF EraseState
<1>32. CASE EraseUnlink
  BY <1>32 DEF EraseUnlink
<1>33. CASE EraseSynced
  BY <1>33 DEF EraseSynced
<1>34. CASE EraseDirectory
  BY <1>34 DEF EraseDirectory
<1>35. CASE EraseDone
  BY <1>35 DEF EraseDone
<1>36. ASSUME NEW i \in Ids, PurgeNext(i)
      PROVE  Entered
  BY <1>36 DEF PurgeNext
<1>37. CASE PurgeDone
  BY <1>37 DEF PurgeDone, PurgeMode
<1>38. CASE PurgeBegin
  BY <1>38 DEF PurgeBegin
<1>39. CASE Exit
  BY <1>39 DEF Exit
<1>40. CASE Crash
  BY <1>40 DEF Crash
<1>41. CASE PowerLoss
  BY <1>41 DEF PowerLoss
<1>42. CASE Decay
  BY <1>42 DEF Decay
<1>43. CASE TakeSidecar
  BY <1>43 DEF TakeSidecar
<1>44. ASSUME NEW f \in Files, NEW usable \in BOOLEAN, Touch(f, usable)
      PROVE  Entered
  BY <1>44 DEF Touch
<1> QED
  BY <1>1, <1>2, <1>3, <1>4, <1>5, <1>6, <1>7, <1>8, <1>9, <1>10, <1>11, <1>12, <1>13,
     <1>14, <1>15, <1>16, <1>17, <1>18, <1>19, <1>20, <1>21, <1>22, <1>23, <1>24, <1>25,
     <1>26, <1>27, <1>28, <1>29, <1>30, <1>31, <1>32, <1>33, <1>34, <1>35, <1>36, <1>37,
     <1>38, <1>39, <1>40, <1>41, <1>42, <1>43, <1>44
     DEF Next, Work, Reconcile, Write, Finalize, Open, Quarantine, Erase, Others

\* What making and destroying copies does to the states on the medium.
MediumStates ==
    /\ pc # "renamed" /\ pc' # "renamed"
    /\ \A i \in Ids : disk'.incident[i].state \in
                      {disk.incident[i].state, live.incident[i].state, "none", "damaged"}

LEMMA MakingStates == Typed /\ Making => MediumStates
<1> SUFFICES ASSUME Typed, Making PROVE MediumStates
    OBVIOUS
<1> USE TypeFacts DEF MediumStates, Goto, FileSystems, Incidents, NoIncident
<1>1. ASSUME NEW i \in Ids, QuarantineMade(i)
      PROVE  MediumStates
  BY <1>1 DEF QuarantineMade
<1>2. CASE QuarantineListed
  BY <1>2 DEF QuarantineListed, SyncRoot
<1>3. CASE CopyCreate
  BY <1>3 DEF CopyCreate
<1>4. CASE CopyWrite
  BY <1>4 DEF CopyWrite
<1>5. CASE CopySync
  BY <1>5 DEF CopySync
<1>6. CASE CopiesSynced
  BY <1>6 DEF CopiesSynced, SyncIncident
<1>7. CASE EraseOverwrite
  <2>1. /\ job.inc \in Ids /\ pc = "erase" /\ pc' = "unlink"
        /\ \A i \in Ids \ {job.inc} : disk'.incident[i] = disk.incident[i]
        /\ disk'.incident[job.inc] = Overwritten(disk.incident[job.inc], NextErased)
    BY <1>7 DEF EraseOverwrite, Typed, CallTyped, Erasing
  <2>2. NextErased \in Files \cup {"temp", "state"}
    BY EraseTypes
  <2>3. disk'.incident[job.inc].state \in {disk.incident[job.inc].state, "damaged"}
    BY <2>1, <2>2 DEF Overwritten, Files
  <2> QED
    BY <2>1, <2>3
<1>8. CASE EraseState
  <2>1. /\ job.inc \in Ids /\ pc = "erase" /\ pc' = "erase"
        /\ \A i \in Ids \ {job.inc} : disk'.incident[i] = disk.incident[i]
        /\ disk'.incident[job.inc] = Unlinked(disk.incident[job.inc], "state")
    BY <1>8 DEF EraseState, Typed, CallTyped, Erasing
  <2>2. disk'.incident[job.inc].state = "none"
    BY <2>1 DEF Unlinked, Files
  <2> QED
    BY <2>1, <2>2
<1>9. CASE EraseUnlink
  BY <1>9 DEF EraseUnlink
<1>10. CASE EraseSynced
  BY <1>10 DEF EraseSynced, SyncIncident
<1>11. CASE EraseDirectory
  BY <1>11 DEF EraseDirectory
<1>12. CASE EraseDone
  BY <1>12 DEF EraseDone, SyncRoot, Jobs, Typed, TypeOK
<1> QED
  BY <1>1, <1>2, <1>3, <1>4, <1>5, <1>6, <1>7, <1>8, <1>9, <1>10, <1>11, <1>12 DEF Making

LEMMA LiveKept ==
    ASSUME Typed, Safeguarded, KeepersLive, [Next]_vars
    PROVE  KeepersLive'
<1>1. CASE UNCHANGED vars
  BY <1>1 DEF vars, KeepersLive, OnMedium
<1>2. CASE Calm
  BY <1>2, CalmSteps DEF SameIncidents, KeepersLive, OnMedium
<1>3. CASE Making
  <2>1. job'.inc \in Ids /\ AtWork(job'.inc) /\ MediumStates
    BY <1>3, MakingSteps, MakingStates
  <2>2. ASSUME NEW i \in Ids, disk'.incident[i].state \in Keeping
        PROVE  OnMedium(i)' /\ live'.incident[i].state \in Keeping
    <3>1. live.incident[i].state \in Keeping \/ disk.incident[i].state \in Keeping
      BY <2>1, <2>2 DEF MediumStates, Keeping
    <3>2. OnMedium(i) /\ live.incident[i].state \in Keeping
      BY <2>1, <3>1 DEF KeepersLive, MediumStates, Safeguarded, KeepersDurable
    <3>3. i # job'.inc
      BY <2>1, <3>2 DEF AtWork
    <3> QED
      BY <2>1, <3>2, <3>3 DEF AtWork, OnMedium
  <2> QED
    BY <2>2 DEF KeepersLive
<1>4. CASE WriteRenamed
  <2>1. /\ job.inc \in Ids /\ job' = job /\ pc = "synced" /\ pc' = "renamed" /\ disk' = disk
        /\ job.phase \in Phases
    BY <1>4, TypeFacts DEF WriteRenamed, Goto, Typed, CallTyped, Writing, Jobs
  <2>2. /\ \A i \in Ids \ {job.inc} : live'.incident[i] = live.incident[i]
        /\ live'.incident[job.inc].state = job.phase
        /\ live'.incident[job.inc].there = live.incident[job.inc].there
        /\ live'.incident[job.inc].copy = live.incident[job.inc].copy
    BY <1>4, <2>1, TypeFacts DEF WriteRenamed, FileSystems, Incidents
  <2>3. disk.incident[job.inc].state \in Keeping => job.phase # "Pending"
    BY <2>1 DEF KeepersLive, Safeguarded, Protocol, WritingPhase, Writing, Here
  <2>4. ASSUME NEW i \in Ids, disk'.incident[i].state \in Keeping
        PROVE  /\ OnMedium(i)'
               /\ live'.incident[i].state \in Keeping \/ (i = job.inc /\ job.phase = "Purging")
    <3>1. OnMedium(i) /\ live.incident[i].state \in Keeping
      BY <2>1, <2>4 DEF KeepersLive
    <3> QED
      BY <2>1, <2>2, <2>3, <2>4, <3>1 DEF OnMedium, Keeping, Phases
  <2> QED
    BY <2>1, <2>4 DEF KeepersLive
<1>5. CASE WriteDone
  <2>1. job.inc \in Ids /\ pc = "renamed" /\ live' = live
    BY <1>5 DEF WriteDone, Typed, CallTyped, Writing
  <2>2. /\ \A i \in Ids \ {job.inc} : disk'.incident[i] = disk.incident[i]
        /\ disk'.incident[job.inc].state = live.incident[job.inc].state
        /\ disk'.incident[job.inc].there
              = (live.incident[job.inc].there /\ disk.incident[job.inc].there)
        /\ disk'.incident[job.inc].copy = live.incident[job.inc].copy
    BY <1>5, <2>1, TypeFacts DEF WriteDone, SyncIncident, FileSystems, Incidents
  <2>3. ASSUME NEW i \in Ids, disk'.incident[i].state \in Keeping
        PROVE  OnMedium(i)' /\ live'.incident[i].state \in Keeping
    <3>1. live.incident[i].state \in Keeping /\ OnMedium(i)
      BY <2>1, <2>2, <2>3 DEF KeepersLive, Safeguarded, KeepersDurable
    <3> QED
      BY <2>1, <2>2, <3>1 DEF OnMedium
  <2> QED
    BY <2>3 DEF KeepersLive
<1>6. CASE RemoveOriginal
  <2>1. pc = "unlinking" /\ disk' = disk /\ live'.incident = live.incident
    BY <1>6, TypeFacts DEF RemoveOriginal, FileSystems
  <2> QED
    BY <2>1 DEF KeepersLive, OnMedium
<1>7. CASE Crash \/ PowerLoss
  <2>1. live' = disk'
    BY <1>7 DEF Crash, PowerLoss
  <2>2. KeepersDurable'
    BY <1>7, FaultKeeps
  <2> QED
    BY <2>1, <2>2 DEF KeepersLive, KeepersDurable
<1> QED
  BY <1>1, <1>2, <1>3, <1>4, <1>5, <1>6, <1>7
     DEF Next, Work, Reconcile, Write, Finalize, Open, Quarantine, Erase, Others, Calm, Making

\* What comes to the medium when a state is synced, or when the process or the
\* power goes: an incident counts as it did for one of the two, with the copies
\* that both have.
Settling ==
    /\ \A i \in Ids :
          /\ disk'.incident[i].state \in Keeping =>
                /\ disk'.incident[i].there
                /\ live.incident[i].state \in Keeping \/ disk.incident[i].state \in Keeping
                /\ \A f \in Files : disk'.incident[i].copy[f] = live.incident[i].copy[f]
          /\ live.incident[i].state \in Keeping /\ disk.incident[i].state \in Keeping
                => disk'.incident[i].state \in Keeping
    /\ live' \in {live, disk'}
    /\ disk'.source["db"] \in {live.source["db"], disk.source["db"]}
    /\ UNCHANGED <<listed, born, bad>>

LEMMA SettlingSteps ==
    ASSUME Typed, Safeguarded, KeepersLive, WriteDone \/ Crash \/ PowerLoss
    PROVE  Settling
<1>0. "db" \in Files
  BY DEF Files
<1>1. CASE WriteDone
  <2>1. job.inc \in Ids /\ live' = live /\ disk'.source = disk.source
    BY <1>1, TypeFacts DEF WriteDone, SyncIncident, Typed, CallTyped, Writing, FileSystems
  <2>2. /\ \A i \in Ids \ {job.inc} : disk'.incident[i] = disk.incident[i]
        /\ disk'.incident[job.inc].state = live.incident[job.inc].state
        /\ disk'.incident[job.inc].there
              = (live.incident[job.inc].there /\ disk.incident[job.inc].there)
        /\ disk'.incident[job.inc].copy = live.incident[job.inc].copy
    BY <1>1, <2>1, TypeFacts DEF WriteDone, SyncIncident, FileSystems, Incidents
  <2>3. ASSUME NEW i \in Ids
        PROVE  live.incident[i].state \in Keeping \/ disk.incident[i].state \in Keeping => OnMedium(i)
    BY DEF KeepersLive, Safeguarded, KeepersDurable
  <2> QED
    BY <1>1, <2>1, <2>2, <2>3 DEF Settling, OnMedium, WriteDone, Unchanged
<1>2. CASE Crash
  <2>1. ASSUME NEW i \in Ids, live.incident[i].state \in Keeping
        PROVE  OnMedium(i)
    BY <2>1 DEF Safeguarded, KeepersDurable
  <2> QED
    BY <1>2, <2>1 DEF Settling, OnMedium, Crash
<1>3. CASE PowerLoss
  <2>1. PICK kept \in SUBSET Undecided, torn \in SUBSET unsynced :
           live' = Survives(kept, torn) /\ disk' = live'
    BY <1>3 DEF PowerLoss
  <2>2. ASSUME NEW i \in Ids,
               live.incident[i].state \in Keeping \/ disk.incident[i].state \in Keeping
        PROVE  /\ OnMedium(i) /\ <<i, "state">> \notin torn
               /\ \A f \in Files : <<i, f>> \notin torn
    <3>1. OnMedium(i)
      BY <2>2 DEF KeepersLive, Safeguarded, KeepersDurable
    <3>2. <<i, "state">> \notin torn
      BY <2>1 DEF Safeguarded, FewUnsynced
    <3>3. ASSUME NEW f \in Files, <<i, f>> \in torn PROVE FALSE
      <4>1. pc = "filled" /\ i = job.inc
        BY <1>0, <2>1, <3>3 DEF Safeguarded, FewUnsynced
      <4>2. live.incident[i].state \in Keeping
        BY <2>2, <4>1 DEF KeepersLive
      <4> QED
        BY <4>1, <4>2 DEF Safeguarded, Protocol, Copying, Here
    <3> QED
      BY <3>1, <3>2, <3>3
  <2>3. ASSUME NEW i \in Ids
        PROVE  LET now == live.incident[i]
                   was == disk.incident[i]
               IN  /\ disk'.incident[i].state \in {now.state, was.state, "none", "damaged"}
                   /\ disk'.incident[i].there \/ disk'.incident[i].state = "none"
    BY <2>1 DEF Survives, NoIncident
  <2>4. ASSUME NEW i \in Ids,
               live.incident[i].state \in Keeping \/ disk.incident[i].state \in Keeping
        PROVE  LET now == live.incident[i]
                   was == disk.incident[i]
               IN  /\ disk'.incident[i].there
                   /\ disk'.incident[i].state \in {now.state, was.state}
                   /\ \A f \in Files : disk'.incident[i].copy[f] = now.copy[f]
    <3>1. /\ OnMedium(i) /\ <<i, "state">> \notin torn
          /\ \A f \in Files : <<i, f>> \notin torn
      BY <2>2, <2>4
    <3> QED
      BY <1>0, <2>1, <3>1 DEF Survives, OnMedium
  <2>5. disk'.source["db"] \in {live.source["db"], disk.source["db"]}
    BY <1>0, <2>1 DEF Survives
  <2>6. ASSUME NEW i \in Ids, disk'.incident[i].state \in Keeping
        PROVE  /\ disk'.incident[i].there
               /\ live.incident[i].state \in Keeping \/ disk.incident[i].state \in Keeping
               /\ \A f \in Files : disk'.incident[i].copy[f] = live.incident[i].copy[f]
    BY <2>3, <2>4, <2>6 DEF Keeping
  <2>7. ASSUME NEW i \in Ids, live.incident[i].state \in Keeping, disk.incident[i].state \in Keeping
        PROVE  disk'.incident[i].state \in Keeping
    BY <2>4, <2>7
  <2> QED
    BY <1>3, <2>1, <2>5, <2>6, <2>7 DEF Settling, PowerLoss
<1> QED
  BY <1>1, <1>2, <1>3

LEMMA ListedSteps == Typed /\ Next => listed' = listed \/ QuarantineListed
BY QuietOrLoud
   DEF Quiet, Loud, RemoveOriginal, RemoveDone, Open, Identify, OpenFresh, OpenUsable, OpenUnusable,
       QuarantineMade, Crash, PowerLoss, Others, Decay, TakeSidecar, Touch, Unchanged

LEMMA KeepersListed ==
    ASSUME Typed, Safeguarded, KeepersLive, KeptListed, Next, NEW i \in Ids,
           live'.incident[i].state \in Keeping \/ disk'.incident[i].state \in Keeping
    PROVE  CopiesListed(i)'
<1>0. \A j \in Ids : live.incident[j].state \in Keeping \/ disk.incident[j].state \in Keeping
                       => CopiesListed(j)
  BY DEF KeptListed
<1>l. listed' = listed \/ QuarantineListed
  BY ListedSteps
<1>1. CASE Calm
  <2>1. SameIncidents
    BY <1>1, CalmSteps
  <2>2. ~QuarantineListed \/ listed' = listed
    BY <1>1 DEF Calm, QuarantineListed, Start, ReconcileDone, ReconcileRefused, ReconcileErase,
       ReconcileReady, ReconcileFinalized, Reconciling, Refused, WriteTemp, WriteSynced,
       FinalizeChanged, FinalizeBegin, RemoveChanged, RemoveCompared,
       RemoveAbsent, RemoveFailed, RemoveDone, Identify, OpenFresh, OpenUsable,
       OpenUnusable, QuarantineChanged, QuarantineFull, Revalidate, Changed, PurgeNext, PurgeDone,
       PurgeBegin, Exit, Decay, TakeSidecar, Touch, Unchanged
  <2> QED
    BY <1>0, <1>l, <2>1, <2>2 DEF SameIncidents, CopiesListed, Family
<1>2. CASE Making
  <2>1. job'.inc \in Ids /\ AtWork(job'.inc) /\ MediumStates /\ KeepersLive'
    BY <1>2, MakingSteps, MakingStates, LiveKept
  <2>2. live'.incident[i].state \in Keeping
    BY <2>1 DEF MediumStates, KeepersLive
  <2>3. i # job'.inc /\ live.incident[i].state \in Keeping
    BY <2>1, <2>2 DEF AtWork
  <2>4. OnMedium(i)
    BY <2>3 DEF Safeguarded, KeepersDurable
  <2>5. live'.incident[i] = live.incident[i]
    BY <2>1, <2>3, <2>4 DEF AtWork
  <2>6. QuarantineListed => listed'[i] = listed[i]
    <3>1. QuarantineListed => job'.inc = job.inc
      BY DEF QuarantineListed, Typed, TypeOK, Jobs, Local
    <3> QED
      BY <2>3, <3>1 DEF QuarantineListed, Typed, TypeOK
  <2> QED
    BY <1>0, <1>l, <2>3, <2>5, <2>6 DEF CopiesListed, Family
<1>3. CASE WriteRenamed
  <2>1. /\ job.inc \in Ids /\ pc = "synced" /\ disk' = disk /\ listed' = listed
        /\ job.phase \in Phases
    BY <1>3, TypeFacts DEF WriteRenamed, Typed, CallTyped, Writing, Unchanged, Jobs
  <2>2. /\ \A j \in Ids \ {job.inc} : live'.incident[j] = live.incident[j]
        /\ live'.incident[job.inc].state = job.phase
        /\ live'.incident[job.inc].copy = live.incident[job.inc].copy
    BY <1>3, <2>1, TypeFacts DEF WriteRenamed, FileSystems, Incidents
  <2>3. CASE i # job.inc \/ disk'.incident[i].state \in Keeping
    BY <1>0, <2>1, <2>2, <2>3 DEF CopiesListed, Family
  <2>4. CASE i = job.inc /\ disk'.incident[i].state \notin Keeping
    <3>1. job.phase \in Keeping
      BY <2>2, <2>4
    <3>2. CASE job.phase = "Ready"
      BY <2>1, <2>2, <2>4, <3>2 DEF KeptListed, CopiesListed, Family, WritingPhase, Writing, Here
    <3>3. CASE job.phase = "Finalized"
      <4>1. Here.state \in Keeping
        BY <2>1, <3>3 DEF Safeguarded, Protocol, WritingPhase, Writing
      <4> QED
        BY <1>0, <2>1, <2>2, <2>4, <4>1 DEF CopiesListed, Family, Here
    <3> QED
      BY <3>1, <3>2, <3>3 DEF Keeping
  <2> QED
    BY <2>3, <2>4
<1>4. CASE WriteDone \/ Crash \/ PowerLoss
  <2>1. Settling
    BY <1>4, SettlingSteps
  <2> QED
    BY <1>0, <2>1 DEF Settling, CopiesListed, Family
<1>5. CASE RemoveOriginal
  <2>1. disk' = disk /\ live'.incident = live.incident /\ listed' = listed
    BY <1>5, TypeFacts DEF RemoveOriginal, FileSystems
  <2> QED
    BY <1>0, <2>1 DEF CopiesListed, Family
<1> QED
  BY <1>1, <1>2, <1>3, <1>4, <1>5
     DEF Next, Work, Reconcile, Write, Finalize, Open, Quarantine, Erase, Others, Calm, Making

LEMMA KeptListedKept ==
    ASSUME Typed, Displaced, Safeguarded, Purged, Vaulting, Next
    PROVE  KeptListed'
<1>1. \A i \in Ids : live'.incident[i].state \in Keeping \/ disk'.incident[i].state \in Keeping
                       => CopiesListed(i)'
  BY KeepersListed DEF Vaulting
<1>2. ASSUME (pc \in Copying \/ WritingPhase("Pending"))'
      PROVE  listed'[job'.inc]["db"] # Absent
  <2>1. CASE QuarantineListed
    <3>1. job.inc \in Ids /\ pc = "made"
      BY <2>1 DEF QuarantineListed, Typed, CallTyped
    <3>2. job.cand # Absent
      BY <3>1 DEF Displaced, Laid, ListedUnusable, Vaulting, OpenUsed, Absent
    <3>3. live.source["db"] # Absent
      BY <1>2, <2>1 DEF QuarantineListed, Goto, WritingPhase, Writing, Copying
    <3>4. job'.inc = job.inc /\ listed'[job.inc]["db"] = job.cand
      BY <2>1, <3>1, <3>3, TypeFacts
         DEF QuarantineListed, Local, Jobs, FileSystems, Files, Typed, TypeOK
    <3> QED
      BY <3>2, <3>4
  <2>2. CASE ~QuarantineListed
    BY <1>2, <2>2, CopiedSteps DEF Copied, Vaulting, KeptListed
  <2> QED
    BY <2>1, <2>2
<1>3. ASSUME WritingPhase("Ready")'
      PROVE  /\ CopiesListed(job.inc)'
             /\ \A f \in Family(job.inc)' : live'.source[f] = listed'[job'.inc][f]
  <2>1. WriteTemp \/ WriteSynced \/ WriteRenamed \/ Revalidate
    <3>1. PurgeMode
      BY DEF Purged
    <3>2. \A i \in Ids : ~PurgeNext(i)
      BY <1>3, TypeFacts DEF PurgeNext, Local, WritingPhase, Jobs
    <3> QED
      BY <1>3, <3>1, <3>2, EnteredSteps DEF Entered, WritingPhase
  <2>2. CASE Revalidate
    <3>1. /\ pc = "copied" /\ live' = live /\ listed' = listed /\ job.inc \in Ids
          /\ job'.inc = job.inc
      BY <2>2, TypeFacts DEF Revalidate, Unchanged, Typed, CallTyped, Copying, Local, Jobs
    <3>2. /\ ~(\E f \in Family(job.inc) : live.source[f] = Absent /\ FamilyMatches(job.inc))
          /\ IncidentMatches(job.inc)
      BY <1>3, <2>2 DEF Revalidate, Goto, WritingPhase, Writing
    <3>3. listed[job.inc]["db"] # Absent /\ Family(job.inc) \subseteq Files
      BY <3>1 DEF Vaulting, KeptListed, Copying, Family
    <3>4. \A f \in Family(job.inc) : live.source[f] # Absent
      BY <3>2, <3>3 DEF IncidentMatches
    <3>5. \A f \in Family(job.inc) : /\ live.source[f] = listed[job.inc][f]
                                   /\ live.source[f] = Here.copy[f]
      BY <3>2, <3>3, <3>4 DEF IncidentMatches, FamilyMatches, Here
    <3> QED
      BY <3>1, <3>3, <3>5 DEF Here, CopiesListed, Family
  <2>3. CASE WriteTemp \/ WriteSynced \/ WriteRenamed
    <3>1. /\ pc \in Writing /\ job' = job /\ listed' = listed /\ job.inc \in Ids
      BY <2>3 DEF WriteTemp, WriteSynced, WriteRenamed, Typed, CallTyped, Writing, Unchanged
    <3>2. /\ live'.source = live.source
          /\ live'.incident[job.inc].copy = live.incident[job.inc].copy
      <4>1. CASE WriteTemp
        BY <3>1, <4>1, TypeFacts DEF WriteTemp, FileSystems, Incidents
      <4>2. CASE WriteSynced
        BY <4>2 DEF WriteSynced
      <4>3. CASE WriteRenamed
        BY <3>1, <4>3, TypeFacts DEF WriteRenamed, FileSystems, Incidents
      <4> QED
        BY <2>3, <4>1, <4>2, <4>3
    <3>3. WritingPhase("Ready")
      BY <1>3, <3>1 DEF WritingPhase
    <3> QED
      BY <3>1, <3>2, <3>3 DEF Vaulting, KeptListed, CopiesListed, Family
  <2> QED
    BY <2>1, <2>2, <2>3
<1> QED
  BY <1>1, <1>2, <1>3 DEF KeptListed

-----------------------------------------------------------------------------
\* The incidents that the medium keeps: the vault holds what they list.
Kept == {i \in Ids : disk.incident[i].state \in Keeping}

LEMMA VaultedListed ==
    KeepersLive /\ KeptListed => Vaulted = {listed[i]["db"] : i \in Kept}
<1> SUFFICES ASSUME KeepersLive, KeptListed PROVE Vaulted = {listed[i]["db"] : i \in Kept}
    OBVIOUS
<1>1. Kept = {j \in Ids : disk.incident[j].there /\ disk.incident[j].state \in {"Ready", "Finalized"}}
  BY DEF Kept, Keeping, KeepersLive, OnMedium
<1>2. \A i \in Kept : disk.incident[i].copy["db"] = listed[i]["db"]
  BY DEF Kept, KeepersLive, KeptListed, CopiesListed, Family, Files, OnMedium
<1> QED
  BY <1>1, <1>2 DEF Vaulted

\* Which incidents count changes only where a state becomes durable.
KeptSame == Kept' = Kept /\ \A i \in Kept : listed'[i] = listed[i]

KeptChanged ==
    /\ pc = "renamed" /\ job.inc \in Ids /\ listed' = listed
    /\ \/ job.phase = "Ready" /\ Kept' = Kept \cup {job.inc}
       \/ job.phase = "Purging" /\ Kept' = Kept \ {job.inc}

LEMMA KeptSteps ==
    ASSUME Typed, Safeguarded, KeepersLive, Next
    PROVE  KeptSame \/ KeptChanged
<1>l. listed' = listed \/ QuarantineListed
  BY ListedSteps
<1>1. CASE Calm
  <2>1. SameIncidents
    BY <1>1, CalmSteps
  <2>2. Kept' = Kept
    BY <2>1 DEF SameIncidents, Kept
  <2>3. listed' = listed
    BY <1>1 DEF Calm, Start, ReconcileDone, ReconcileRefused, ReconcileErase,
       ReconcileReady, ReconcileFinalized, Reconciling, Refused, WriteTemp, WriteSynced,
       FinalizeChanged, FinalizeBegin, RemoveChanged, RemoveCompared,
       RemoveAbsent, RemoveFailed, RemoveDone, Identify, OpenFresh, OpenUsable,
       OpenUnusable, QuarantineChanged, QuarantineFull, Revalidate, Changed, PurgeNext, PurgeDone,
       PurgeBegin, Exit, Decay, TakeSidecar, Touch, Unchanged
  <2> QED
    BY <2>2, <2>3 DEF KeptSame
<1>2. CASE Making
  <2>1. job'.inc \in Ids /\ AtWork(job'.inc) /\ MediumStates /\ KeepersLive'
    BY <1>2, MakingSteps, MakingStates, LiveKept
  <2>2. ASSUME NEW i \in Kept
        PROVE  i \in Kept' /\ i # job'.inc
    <3>1. OnMedium(i) /\ live.incident[i].state \in Keeping /\ i \in Ids
      BY <2>1 DEF KeepersLive, MediumStates, Kept
    <3>2. i # job'.inc
      BY <2>1, <3>1 DEF AtWork
    <3> QED
      BY <2>1, <3>1, <3>2 DEF AtWork, Kept
  <2>3. ASSUME NEW i \in Kept'
        PROVE  i \in Kept
    <3>1. i \in Ids /\ live'.incident[i].state \in Keeping
      BY <2>1 DEF KeepersLive, MediumStates, Kept
    <3>2. i # job'.inc /\ live.incident[i].state \in Keeping
      BY <2>1, <3>1 DEF AtWork
    <3> QED
      BY <2>1, <3>1, <3>2 DEF Safeguarded, KeepersDurable, MediumStates, Kept
  <2>4. \A i \in Kept : listed'[i] = listed[i]
    <3>1. QuarantineListed => job'.inc = job.inc
      BY DEF QuarantineListed, Typed, TypeOK, Jobs, Local
    <3>2. QuarantineListed => \A i \in Ids \ {job.inc} : listed'[i] = listed[i]
      BY DEF QuarantineListed, Typed, TypeOK
    <3> QED
      BY <1>l, <2>2, <3>1, <3>2 DEF Kept
  <2> QED
    BY <2>2, <2>3, <2>4 DEF KeptSame
<1>3. CASE WriteRenamed \/ RemoveOriginal
  BY <1>3 DEF WriteRenamed, RemoveOriginal, Unchanged, KeptSame, Kept
<1>4. CASE WriteDone \/ Crash \/ PowerLoss
  <2>1. Settling
    BY <1>4, SettlingSteps
  <2>2. \A i \in Ids : \/ live.incident[i].state \in Keeping <=> disk.incident[i].state \in Keeping
                      \/ (pc = "renamed" /\ i = job.inc)
    BY DEF KeepersLive, Safeguarded, KeepersDurable
  <2>3. CASE pc # "renamed"
    BY <2>1, <2>2, <2>3 DEF Settling, KeptSame, Kept
  <2>4. CASE pc = "renamed"
    <3>1. /\ job.inc \in Ids /\ job.phase \in Phases /\ Here.state = job.phase /\ listed' = listed
      BY <2>1, <2>4 DEF Settling, Safeguarded, Protocol, Typed, TypeOK, CallTyped, Writing, Jobs
    <3>2. Kept' \ {job.inc} = Kept \ {job.inc}
      BY <2>1, <2>2, <2>4 DEF Settling, Kept
    <3>3. CASE job.phase \in {"Pending", "Finalized"}
      <4>1. live.incident[job.inc].state \in Keeping <=> disk.incident[job.inc].state \in Keeping
        BY <2>4, <3>1, <3>3 DEF KeepersLive, Safeguarded, KeepersDurable, Here, Keeping
      <4> QED
        BY <2>1, <3>1, <3>2, <4>1 DEF Settling, Kept, KeptSame
    <3>4. CASE job.phase = "Ready"
      <4>1. Kept' \in {Kept, Kept \cup {job.inc}}
        BY <2>1, <3>1, <3>2, <3>4 DEF Settling, Kept, Here, Keeping
      <4> QED
        BY <2>4, <3>1, <3>4, <4>1 DEF KeptSame, KeptChanged
    <3>5. CASE job.phase = "Purging"
      <4>1. Kept' \in {Kept, Kept \ {job.inc}}
        BY <2>1, <3>1, <3>2, <3>5 DEF Settling, Kept, Here, Keeping
      <4> QED
        BY <2>4, <3>1, <3>5, <4>1 DEF KeptSame, KeptChanged
    <3> QED
      BY <3>1, <3>3, <3>4, <3>5 DEF Phases
  <2> QED
    BY <2>3, <2>4
<1> QED
  BY <1>1, <1>2, <1>3, <1>4
     DEF Next, Work, Reconcile, Write, Finalize, Open, Quarantine, Erase, Others, Calm, Making

\* What that means for the vault: nothing, one version more, or one less.
Displacing ==
    /\ pc = "renamed" /\ job.phase = "Ready" /\ job.inc \in Ids
    /\ Vaulted' = Vaulted \cup {listed[job.inc]["db"]}

Purging ==
    /\ pc = "renamed" /\ job.phase = "Purging"
    /\ \E v \in Vaulted : Vaulted' = Vaulted \ {v}

LEMMA VaultedSteps ==
    ASSUME Typed, Displaced, Safeguarded, Purged, Vaulting, Next
    PROVE  Vaulted' = Vaulted \/ Displacing \/ Purging
<1>1. Vaulted = {listed[i]["db"] : i \in Kept}
  BY VaultedListed DEF Vaulting
<1>2. KeepersLive' /\ KeptListed'
  BY LiveKept, KeptListedKept DEF Vaulting
<1>3. (KeepersLive /\ KeptListed => Vaulted = {listed[i]["db"] : i \in Kept})'
  BY VaultedListed, PTL
<1>4. Vaulted' = {listed'[i]["db"] : i \in Kept'}
  BY <1>2, <1>3
<1>5. CASE KeptSame
  BY <1>1, <1>4, <1>5 DEF KeptSame
<1>6. CASE KeptChanged
  <2>1. /\ pc = "renamed" /\ job.inc \in Ids
        /\ Vaulted' = {listed[i]["db"] : i \in Kept'}
    BY <1>4, <1>6 DEF KeptChanged
  <2>2. CASE job.phase = "Ready" /\ Kept' = Kept \cup {job.inc}
    <3>1. Vaulted' = Vaulted \cup {listed[job.inc]["db"]}
      BY <1>1, <2>1, <2>2
    <3> QED
      BY <2>1, <2>2, <3>1 DEF Displacing
  <2>3. CASE job.phase = "Purging" /\ Kept' = Kept \ {job.inc}
    <3>1. CASE job.inc \notin Kept \/ \E i \in Kept' : listed[i]["db"] = listed[job.inc]["db"]
      BY <1>1, <2>1, <2>3, <3>1
    <3>2. CASE job.inc \in Kept /\ \A i \in Kept' : listed[i]["db"] # listed[job.inc]["db"]
      <4>1. Vaulted' = Vaulted \ {listed[job.inc]["db"]} /\ listed[job.inc]["db"] \in Vaulted
        BY <1>1, <2>1, <2>3, <3>2
      <4> QED
        BY <2>1, <2>3, <4>1 DEF Purging
    <3> QED
      BY <3>1, <3>2
  <2> QED
    BY <1>6, <2>2, <2>3 DEF KeptChanged
<1> QED
  BY <1>5, <1>6, KeptSteps DEF Vaulting

-----------------------------------------------------------------------------
\* What happens to the database's own file.
DatabaseSame ==
    /\ bad' = bad
    /\ live'.source["db"] = live.source["db"] /\ disk'.source["db"] = disk.source["db"]

\* The process and the medium come to agree on it.
DatabaseSettled ==
    /\ bad' = bad
    /\ live'.source["db"] = disk'.source["db"]
    /\ disk'.source["db"] \in {live.source["db"], disk.source["db"]}

LEMMA DatabaseSteps ==
    ASSUME Typed, ~Contested, Next
    PROVE  DatabaseSame \/ DatabaseSettled \/ RemoveOriginal \/ OpenFresh \/ Decay
<1>0. "db" \in Files
  BY DEF Files
<1> USE <1>0, TypeFacts DEF FileSystems, DatabaseSame, DatabaseSettled
<1>1. CASE Quiet
  BY <1>1 DEF Quiet
<1>2. CASE RemoveDone \/ OpenUsable
  BY <1>2 DEF RemoveDone, OpenUsable, SyncSources, Unchanged
<1>3. CASE Identify \/ OpenUnusable
  BY <1>3 DEF Identify, OpenUnusable, Unchanged
<1>4. ASSUME NEW i \in Ids, QuarantineMade(i)
      PROVE  DatabaseSame
  BY <1>4 DEF QuarantineMade, Unchanged
<1>5. CASE QuarantineListed
  BY <1>5 DEF QuarantineListed, SyncRoot
<1>6. CASE Crash
  BY <1>6 DEF Crash
<1>7. CASE PowerLoss
  BY <1>7 DEF PowerLoss, Survives
<1>8. ~TakeSidecar /\ \A f \in Files, usable \in BOOLEAN : ~Touch(f, usable)
  BY DEF TakeSidecar, Touch
<1> QED
  BY <1>1, <1>2, <1>3, <1>4, <1>5, <1>6, <1>7, <1>8, QuietOrLoud DEF Loud, Open, Others

LEMMA RemovedKeptKept ==
    ASSUME Typed, Displaced, Safeguarded, Purged, Vaulting, ~Contested, Next
    PROVE  RemovedKept'
<1>1. CASE DatabaseSame
  <2>1. SUFFICES ASSUME live.source["db"] # disk.source["db"]
                 PROVE  disk.source["db"] \in Vaulted'
    BY <1>1 DEF DatabaseSame, RemovedKept
  <2>2. disk.source["db"] \in Vaulted
    BY <2>1 DEF Vaulting, RemovedKept
  <2>3. ~Purging
    <3>1. Purging => job.next = "purge"
      BY DEF Purging, Vaulting, OpenUsed, WritingPhase, Writing
    <3> QED
      BY <2>1, <3>1 DEF Purged, PurgeMode
  <2> QED
    BY <2>2, <2>3, VaultedSteps DEF Displacing
<1>2. CASE DatabaseSettled
  BY <1>2 DEF DatabaseSettled, RemovedKept
<1>3. CASE RemoveOriginal
  <2>1. /\ disk' = disk /\ pc = "unlinking" /\ job.inc \in Ids /\ NextRemoved \in Files
        /\ live'.source = [live.source EXCEPT ![NextRemoved] = Absent] /\ "db" \in Files
        /\ live.source \in [Files -> Versions \cup {Absent}]
    BY <1>3, TypeFacts DEF RemoveOriginal, Typed, CallTyped, FileSystems, Files
  <2>2. Vaulted' = Vaulted
    BY <2>1 DEF Vaulted
  <2>3. CASE live.source["db"] # disk.source["db"]
    BY <2>1, <2>2, <2>3 DEF Vaulting, RemovedKept
  <2>4. CASE live.source["db"] = disk.source["db"] /\ NextRemoved # "db"
    BY <2>1, <2>4 DEF RemovedKept
  <2>5. CASE live.source["db"] = disk.source["db"] /\ NextRemoved = "db"
    <3>1. CASE live.source["db"] = Absent
      BY <2>1, <2>5, <3>1 DEF RemovedKept
    <3>2. CASE live.source["db"] # Absent
      <4>1. live.source["db"] = listed[job.inc]["db"] /\ Here.state \in Keeping
        BY <1>3, <2>1, <2>5, <3>2 DEF RemoveOriginal, Safeguarded, Protocol, Displaced, Compared, Alone
      <4>2. job.inc \in Kept
        BY <2>1, <4>1 DEF Safeguarded, KeepersDurable, Kept, Here
      <4>3. disk.source["db"] \in Vaulted
        BY <2>5, <4>1, <4>2, VaultedListed DEF Vaulting
      <4> QED
        BY <2>1, <2>2, <4>3 DEF RemovedKept
    <3> QED
      BY <3>1, <3>2
  <2> QED
    BY <2>3, <2>4, <2>5
<1>4. CASE OpenFresh \/ Decay
  <2>1. live'.source["db"] = disk'.source["db"]
    BY <1>4, TypeFacts DEF OpenFresh, Decay, FileSystems, Files
  <2> QED
    BY <2>1 DEF RemovedKept
<1> QED
  BY <1>1, <1>2, <1>3, <1>4, DatabaseSteps

LEMMA OpenUsedKept ==
    ASSUME Typed, Displaced, Purged, Vaulting, ~Contested, Next
    PROVE  OpenUsed'
<1>0. born \in Nat /\ bad \subseteq 1..born /\ "db" \in Files
  BY RecoveryBounds DEF Typed, TypeOK, Versions, Vaulting, OpenUsed, Files
<1>1. ~TakeSidecar /\ \A f \in Files, usable \in BOOLEAN : ~Touch(f, usable)
  BY DEF TakeSidecar, Touch
<1>2. bad' \subseteq 1..born'
  <2>1. CASE Quiet
    BY <1>0, <2>1 DEF Quiet
  <2>2. CASE OpenFresh \/ Decay
    BY <1>0, <2>2 DEF OpenFresh, Decay, Fresh
  <2>3. CASE ~Quiet /\ ~OpenFresh /\ ~Decay
    <3>1. bad' = bad /\ born' = born
      BY <1>1, <2>3, QuietOrLoud
         DEF Loud, RemoveOriginal, RemoveDone, Open, Identify, OpenUsable, OpenUnusable,
             QuarantineMade, QuarantineListed, Crash, PowerLoss, Others, Unchanged
    <3> QED
      BY <1>0, <3>1
  <2> QED
    BY <2>1, <2>2, <2>3
<1>3. PurgeMode /\ Entered
  BY EnteredSteps DEF Purged
<1>4. ASSUME WritingPhase("Purging")' PROVE job'.next = "purge"
  <2>1. CASE WriteTemp \/ WriteSynced \/ WriteRenamed
    <3>1. pc \in Writing /\ job' = job
      BY <2>1 DEF WriteTemp, WriteSynced, WriteRenamed, Writing
    <3> QED
      BY <1>4, <3>1 DEF WritingPhase, Vaulting, OpenUsed
  <2>2. ASSUME NEW i \in Ids, PurgeNext(i) PROVE job'.next = "purge"
    BY <1>3, <2>2, TypeFacts DEF PurgeNext, PurgeMode, Local, Jobs
  <2>3. ~Revalidate
    BY <1>4, TypeFacts DEF Revalidate, WritingPhase, Writing, Local, Goto, Jobs
  <2> QED
    BY <1>3, <1>4, <2>1, <2>2, <2>3 DEF Entered, WritingPhase
<1>5. ASSUME pc' = "running" \/ job'.next = "purge"
      PROVE  live'.source["db"] \notin bad' \cup {Absent}
  <2>1. CASE OpenFresh
    BY <1>0, <2>1, TypeFacts DEF OpenFresh, Fresh, Absent, FileSystems, Files
  <2>2. CASE OpenUsable
    BY <2>2 DEF OpenUsable, Unchanged
  <2>3. CASE (pc = "running" \/ job.next = "purge") /\ ~OpenFresh /\ ~OpenUsable
    <3>1. live.source["db"] \notin bad \cup {Absent}
      BY <2>3 DEF Vaulting, OpenUsed
    <3>2. pc \in {"running", "purge"} \cup Writing \cup Erasing
      BY <1>3, <2>3 DEF PurgeMode, WritingPhase
    <3>3. ~Crash /\ ~PowerLoss
      BY <1>5 DEF Crash, PowerLoss, Goto, Local, Idle
    <3>4. Quiet
      BY <1>1, <3>2, <3>3, QuietOrLoud
         DEF Loud, RemoveOriginal, RemoveDone, Open, Identify, OpenFresh, OpenUsable, OpenUnusable,
             QuarantineMade, QuarantineListed, Others, Decay, Writing, Erasing
    <3> QED
      BY <3>1, <3>4 DEF Quiet
  <2> QED
    BY <1>3, <1>5, <2>1, <2>2, <2>3 DEF Entered
<1> QED
  BY <1>2, <1>4, <1>5 DEF OpenUsed

LEMMA VaultingKept ==
    ASSUME Typed, Displaced, Safeguarded, Purged, Vaulting, ~Contested, [Next]_vars
    PROVE  Vaulting'
<1>1. CASE UNCHANGED vars
  <2>1. KeepersLive' /\ KeptListed'
    BY <1>1 DEF vars, Vaulting, KeepersLive, KeptListed, CopiesListed, Family, OnMedium, WritingPhase, Here
  <2>2. Vaulted' = Vaulted
    BY <1>1 DEF vars, Vaulted
  <2>3. RemovedKept' /\ OpenUsed'
    BY <1>1, <2>2 DEF vars, Vaulting, RemovedKept, OpenUsed, WritingPhase
  <2> QED
    BY <2>1, <2>3 DEF Vaulting
<1>2. CASE Next
  BY <1>2, LiveKept, KeptListedKept, RemovedKeptKept, OpenUsedKept DEF Vaulting
<1> QED
  BY <1>1, <1>2

LEMMA InitVaulting == Init => Vaulting
BY DEF Init, Vaulting, KeepersLive, KeptListed, RemovedKept, OpenUsed, NoIncident, Idle, Keeping,
       Copying, Writing, WritingPhase, Files

-----------------------------------------------------------------------------
\* The vault holds versions that cannot be used, and none that is yet to be made.
LEMMA VaultedUnusable ==
    ASSUME Typed, Displaced, Vaulting
    PROVE  /\ Vaulted \subseteq bad /\ Absent \notin Vaulted
           /\ born \in Nat /\ bad \subseteq 1..born /\ Fresh \notin bad /\ Fresh # Absent
<1>1. born \in Nat
  BY RecoveryBounds DEF Typed, TypeOK, Versions
<1>2. bad \subseteq 1..born
  BY DEF Vaulting, OpenUsed
<1>3. \A i \in Kept : listed[i]["db"] \in bad
  BY DEF Kept, Vaulting, KeptListed, CopiesListed, Displaced, Laid, ListedUnusable
<1>4. Vaulted \subseteq bad
  BY <1>3, VaultedListed DEF Vaulting
<1> QED
  BY <1>1, <1>2, <1>4 DEF Fresh, Absent

\* One step of recovery is one step of the vault, or none.
LEMMA VaultStep ==
    ASSUME Typed, Displaced, Safeguarded, Purged, Vaulting, ~Contested, Next
    PROVE  [Vault!Next]_(Vault!vars)
<1> DEFINE here == disk.source["db"]
           cur == IF here \in Vaulted THEN Absent ELSE here
           use == here \notin bad \cup Vaulted \cup {Absent}
<1>0. /\ Vaulted \subseteq bad /\ Absent \notin Vaulted
      /\ born \in Nat /\ bad \subseteq 1..born /\ Fresh \notin bad /\ Fresh # Absent
  BY VaultedUnusable
<1>t. /\ live.source \in [Files -> Versions \cup {Absent}]
      /\ disk.source \in [Files -> Versions \cup {Absent}]
      /\ "db" \in Files
  BY TypeFacts DEF Files
<1>o. live.source["db"] \in {Absent, here}
  BY <1>t DEF Displaced, Laid, OnlyRemoved
<1>r. live.source["db"] # here => here \in Vaulted
  BY DEF Vaulting, RemovedKept
<1>v. Vaulted' = Vaulted \/ Displacing \/ Purging
  BY VaultedSteps
<1>stutter. ASSUME cur' = cur, use' = use, Vaulted' = Vaulted PROVE UNCHANGED Vault!vars
  BY <1>stutter DEF Vault!vars
<1>1. CASE OpenFresh
  <2>1. /\ disk'.source["db"] = Fresh /\ bad' = bad /\ pc # "renamed" /\ live.source["db"] = Absent
        /\ Fresh \in Versions
    BY <1>1, <1>t, TypeFacts, RecoveryBounds, <1>0 DEF OpenFresh, FileSystems, Files, Versions, Fresh
  <2>2. Vaulted' = Vaulted
    BY <1>v, <2>1 DEF Displacing, Purging
  <2>3. cur = Absent
    BY <1>r, <2>1
  <2>4. cur' = Fresh /\ use' = TRUE
    BY <1>0, <2>1, <2>2
  <2>5. Vault!Create
    BY <1>0, <2>1, <2>2, <2>3, <2>4 DEF Vault!Create
  <2> QED
    BY <2>5 DEF Vault!Next
<1>2. CASE Decay
  <2>1. /\ disk'.source["db"] = Fresh /\ bad' = bad \cup {Fresh} /\ pc # "renamed"
        /\ live.source["db"] \notin bad \cup {Absent} /\ Fresh \in Versions
    BY <1>2, <1>t, TypeFacts, RecoveryBounds, <1>0 DEF Decay, FileSystems, Versions, Fresh
  <2>2. Vaulted' = Vaulted
    BY <1>v, <2>1 DEF Displacing, Purging
  <2>3. cur # Absent
    BY <1>0, <1>o, <2>1
  <2>4. cur' = Fresh /\ use' = FALSE
    BY <1>0, <2>1, <2>2
  <2>5. Vault!Decay
    BY <1>0, <2>1, <2>2, <2>3, <2>4 DEF Vault!Decay
  <2> QED
    BY <2>5 DEF Vault!Next
<1>3. CASE ~OpenFresh /\ ~Decay
  <2>1. bad' = bad /\ disk'.source["db"] \in {live.source["db"], here}
    <3>1. CASE RemoveOriginal
      BY <3>1 DEF RemoveOriginal
    <3> QED
      BY <1>3, <3>1, DatabaseSteps DEF DatabaseSame, DatabaseSettled
  <2>2. CASE Vaulted' = Vaulted
    <3>1. disk'.source["db"] \in {here, Absent} /\ (disk'.source["db"] # here => here \in Vaulted)
      BY <1>o, <1>r, <2>1
    <3>2. cur' = cur /\ use' = use
      BY <1>0, <2>1, <2>2, <3>1
    <3> QED
      BY <1>stutter, <2>2, <3>2
  <2>3. CASE Displacing /\ Vaulted' # Vaulted
    <3>1. live.source["db"] = listed[job.inc]["db"] /\ listed[job.inc]["db"] # Absent
      BY <2>3 DEF Displacing, Vaulting, KeptListed, CopiesListed, Family, Files, WritingPhase, Writing
    <3>2. here = listed[job.inc]["db"] /\ disk'.source["db"] = here
      BY <1>o, <2>1, <3>1
    <3>3. here \in bad /\ Vaulted' = Vaulted \cup {here} /\ here \notin Vaulted
      BY <2>3, <3>1, <3>2 DEF Displacing, Displaced, Laid, ListedUnusable
    <3>4. cur = here /\ cur # Absent /\ use = FALSE /\ cur' = Absent /\ use' = FALSE
      BY <2>1, <3>1, <3>2, <3>3
    <3>5. Vault!Displace
      BY <3>3, <3>4 DEF Vault!Displace
    <3> QED
      BY <3>5 DEF Vault!Next
  <2>4. CASE Purging
    <3>1. job.next = "purge"
      BY <2>4 DEF Purging, Vaulting, OpenUsed, WritingPhase, Writing
    <3>2. here = live.source["db"] /\ here \notin bad \cup {Absent}
      BY <3>1 DEF Purged, PurgeMode, Vaulting, OpenUsed
    <3>3. PICK v \in Vaulted : Vaulted' = Vaulted \ {v}
      BY <2>4 DEF Purging
    <3>4. cur = here /\ cur' = here /\ use = TRUE /\ use' = TRUE
      BY <1>0, <2>1, <3>2, <3>3
    <3>5. Vault!Purge
      BY <3>2, <3>3, <3>4 DEF Vault!Purge
    <3> QED
      BY <3>5 DEF Vault!Next
  <2> QED
    BY <1>v, <2>2, <2>3, <2>4
<1> QED
  BY <1>1, <1>2, <1>3

\* Kills and power losses do not show: as the medium has it, an unusable database
\* moves into the vault in one step, stays there until the user purges it, and a
\* version that was vaulted is never the database again.
THEOREM RecoveryImplementsVault ==
    ASSUME ~Contested
    PROVE  Spec => MovesAtOnce
<1>1. Init => Vaulting
  BY InitVaulting
<1>2. Init => Vault!Init
  <2> SUFFICES ASSUME Init PROVE Vault!Init
    OBVIOUS
  <2>1. disk.source["db"] = 1 /\ bad = {1} /\ 1 \in Versions /\ Absent # 1
    BY RecoveryBounds DEF Init, Files, Versions, Absent
  <2>2. Vaulted = {}
    BY DEF Init, Vaulted, NoIncident
  <2> QED
    BY <2>1, <2>2 DEF Vault!Init
<1>3. Typed /\ Displaced /\ Safeguarded /\ Purged /\ [Next]_vars => Purged'
  BY PurgedKept
<1>4. Typed /\ Displaced /\ Safeguarded /\ Purged /\ Vaulting /\ [Next]_vars => Vaulting'
  BY VaultingKept
<1>5. Typed /\ Displaced /\ Safeguarded /\ Purged /\ Vaulting /\ [Next]_vars
         => [Vault!Next]_(Vault!vars)
  <2>1. ASSUME UNCHANGED vars PROVE UNCHANGED Vault!vars
    BY <2>1 DEF vars, Vault!vars, Vaulted
  <2> QED
    BY <2>1, VaultStep
<1> QED
  BY <1>1, <1>2, <1>3, <1>4, <1>5, InitPurged, AllSafeguarded, PTL DEF Spec, MovesAtOnce, Vault!Spec
-----------------------------------------------------------------------------
(***************************************************************************)
(* What a start finds: as long as nobody else writes the files, and the    *)
(* removal of a state.json is atomic, a start never meets a quarantine it  *)
(* refuses, and never opens a fresh database beside the sidecar of another *)
(* one. The runs `leftover` and `torn` violate the first where one or the  *)
(* other does not hold.                                                    *)
(***************************************************************************)
\* The two agree on the states, except where one was just renamed; a directory that
\* is not there has none.
StatesAgree ==
    /\ \A i \in Ids :
          /\ live.incident[i].state # "damaged" /\ disk.incident[i].state # "damaged"
          /\ ~live.incident[i].there => live.incident[i].state = "none"
          /\ ~disk.incident[i].there => disk.incident[i].state = "none"
          /\ \/ live.incident[i].state = disk.incident[i].state
             \/ (pc = "renamed" /\ i = job.inc)
    /\ pc \in {"erased", "unnamed"} => Here.state = "none"
    /\ pc = "unlink" => NextErased # "state"
    /\ pc # "renamed" /\ WritingPhase("Purging") => Here.state \in Keeping

There(i) == live.incident[i].there \/ disk.incident[i].there

\* Nothing comes to be there, and what is not there has no state.
Named(i) ==
    /\ There(i)' => There(i)
    /\ ~live'.incident[i].there => live'.incident[i].state = "none"
    /\ ~disk'.incident[i].there => disk'.incident[i].state = "none"

\* Steps that leave the states as they are.
Steady ==
    /\ pc # "renamed"
    /\ \A i \in Ids :
          /\ live'.incident[i].state = live.incident[i].state
          /\ disk'.incident[i].state = disk.incident[i].state
          /\ Named(i)

\* Steps after which the two have one of the states they had.
Settled ==
    /\ pc' # "renamed"
    /\ \A i \in Ids :
          /\ live'.incident[i].state = disk'.incident[i].state
          /\ disk'.incident[i].state \in {live.incident[i].state, disk.incident[i].state, "none"}
          /\ live.incident[i].state \in Keeping /\ disk.incident[i].state \in Keeping
                => disk'.incident[i].state \in {live.incident[i].state, disk.incident[i].state}
          /\ Named(i)

\* Steps that give one incident another state.
Renaming ==
    /\ WriteRenamed
    /\ \A i \in Ids :
          /\ live'.incident[i].state = IF i = job.inc THEN job.phase ELSE live.incident[i].state
          /\ disk'.incident[i].state = disk.incident[i].state
          /\ Named(i)

Founding(i) ==
    /\ QuarantineMade(i)
    /\ ~There(i)
    /\ live'.incident[i].state = "none" /\ disk'.incident[i].state = "none"
    /\ \A j \in Ids \ {i} :
          /\ live'.incident[j].state = live.incident[j].state
          /\ disk'.incident[j].state = disk.incident[j].state
          /\ Named(j)

Clearing ==
    /\ EraseState
    /\ \A i \in Ids :
          /\ live'.incident[i].state = IF i = job.inc THEN "none" ELSE live.incident[i].state
          /\ disk'.incident[i].state = IF i = job.inc THEN "none" ELSE disk.incident[i].state
          /\ Named(i)

\* A state is only written into a directory that is there.
LEMMA WrittenThere ==
    ASSUME Typed, Safeguarded, StatesAgree, pc \in Writing
    PROVE  Here.there
<1>0. job.inc \in Ids /\ job.phase \in Phases
  BY TypeFacts DEF Typed, CallTyped, Jobs
<1>1. CASE job.phase = "Pending"
  BY <1>1 DEF Safeguarded, Protocol, WritingPhase
<1>2. CASE job.phase = "Ready"
  BY <1>0, <1>2 DEF Safeguarded, Protocol, WritingPhase, OnMedium, Here
<1>3. CASE job.phase = "Finalized"
  BY <1>0, <1>3 DEF Safeguarded, Protocol, WritingPhase, KeepersDurable, OnMedium, Here
<1>4. CASE job.phase = "Purging"
  <2>1. Here.state # "none"
    BY <1>4 DEF StatesAgree, Safeguarded, Protocol, WritingPhase, Keeping
  <2> QED
    BY <1>0, <2>1 DEF StatesAgree, Here
<1> QED
  BY <1>0, <1>1, <1>2, <1>3, <1>4 DEF Phases

\* What a sync of an incident's directory, or of all names, does to the states.
LEMMA SyncedStates ==
    ASSUME Typed, NamesKnown, StatesAgree, pc \notin {"made", "unnamed"},
           NEW i \in Ids, SyncIncident(i), live' = live
    PROVE  \A j \in Ids :
              /\ disk'.incident[j].state = IF j = i THEN live.incident[j].state
                                                   ELSE disk.incident[j].state
              /\ Named(j)
<1> SUFFICES ASSUME NEW j \in Ids
             PROVE  /\ disk'.incident[j].state = IF j = i THEN live.incident[j].state
                                                        ELSE disk.incident[j].state
                    /\ Named(j)
    OBVIOUS
<1>1. live.incident[j].there = disk.incident[j].there
  BY DEF NamesKnown
<1>2. CASE i = j
  <2>1. /\ disk'.incident[j].state = live.incident[j].state
        /\ disk'.incident[j].there = (live.incident[j].there /\ disk.incident[j].there)
    BY <1>2, TypeFacts DEF SyncIncident, FileSystems, Incidents
  <2> QED
    BY <1>1, <1>2, <2>1 DEF Named, There, StatesAgree
<1>3. CASE i # j
  <2>1. disk'.incident[j] = disk.incident[j]
    BY <1>3, TypeFacts DEF SyncIncident, FileSystems
  <2> QED
    BY <1>3, <2>1 DEF Named, There, StatesAgree
<1> QED
  BY <1>2, <1>3

LEMMA RootStates ==
    ASSUME Typed, StatesAgree, pc # "renamed", SyncRoot, live' = live
    PROVE  \A j \in Ids :
              /\ disk'.incident[j].state = disk.incident[j].state
              /\ Named(j)
<1> SUFFICES ASSUME NEW j \in Ids
             PROVE  /\ disk'.incident[j].state = disk.incident[j].state
                    /\ Named(j)
    OBVIOUS
<1>1. CASE live.incident[j].there
  BY <1>1, TypeFacts DEF SyncRoot, There, Named, FileSystems, Incidents, StatesAgree
<1>2. CASE ~live.incident[j].there
  <2>1. disk'.incident[j] = NoIncident /\ disk.incident[j].state = "none"
    BY <1>2, TypeFacts DEF SyncRoot, FileSystems, StatesAgree
  <2> QED
    BY <1>2, <2>1 DEF There, Named, NoIncident, StatesAgree
<1> QED
  BY <1>1, <1>2

\* Only the removal of a state.json itself changes an incident's state.
LEMMA ErasedKeepState ==
    ASSUME NEW x \in Incidents, NEW e \in Files \cup {"temp"}
    PROVE  /\ Overwritten(x, e).state = x.state /\ Unlinked(x, e).state = x.state
           /\ Overwritten(x, e).there = x.there /\ Unlinked(x, e).there = x.there
BY DEF Overwritten, Unlinked, Incidents, Files

LEMMA StateSteps ==
    ASSUME Typed, Safeguarded, NamesKnown, StatesAgree, ~TornState, Next
    PROVE  Steady \/ Settled \/ Renaming \/ (\E i \in Ids : Founding(i)) \/ Clearing
<1>1. CASE Calm
  BY <1>1, CalmSteps DEF SameIncidents, Steady, There, Named, StatesAgree
<1>2. CASE RemoveOriginal \/ CopySync
  BY <1>2, TypeFacts DEF RemoveOriginal, CopySync, Steady, There, Named, StatesAgree, FileSystems
<1>3. CASE CopyCreate \/ CopyWrite
  <2>1. pc # "renamed" /\ disk' = disk /\ job.inc \in Ids
    BY <1>3 DEF CopyCreate, CopyWrite, Typed, CallTyped, Copying
  <2>2. ASSUME NEW i \in Ids
        PROVE  /\ live'.incident[i].state = live.incident[i].state
               /\ live'.incident[i].there = live.incident[i].there
    <3>1. CASE live' = live
      BY <3>1
    <3>2. CASE \E v : live' = [live EXCEPT !.incident[job.inc].copy[NextCopied] = v]
      BY <2>1, <3>2, TypeFacts DEF FileSystems, Incidents
    <3> QED
      BY <1>3, <3>1, <3>2 DEF CopyCreate, CopyWrite
  <2> QED
    BY <2>1, <2>2 DEF Steady, There, Named, StatesAgree
<1>4. CASE EraseOverwrite
  <2>1. /\ job.inc \in Ids /\ pc = "erase" /\ NextErased \in Files \cup {"temp"}
        /\ \A i \in Ids \ {job.inc} :
              live'.incident[i] = live.incident[i] /\ disk'.incident[i] = disk.incident[i]
    <3>1. NextErased \in Files \cup {"temp", "state"}
      BY EraseTypes
    <3> QED
      BY <1>4, <3>1, TypeFacts DEF EraseOverwrite, FileSystems, Typed, CallTyped, Erasing
  <2>2. /\ live'.incident[job.inc] = Overwritten(live.incident[job.inc], NextErased)
        /\ disk'.incident[job.inc] = Overwritten(disk.incident[job.inc], NextErased)
    BY <1>4, <2>1, TypeFacts DEF EraseOverwrite, FileSystems
  <2>3. /\ live'.incident[job.inc].state = live.incident[job.inc].state
        /\ disk'.incident[job.inc].state = disk.incident[job.inc].state
        /\ live'.incident[job.inc].there = live.incident[job.inc].there
        /\ disk'.incident[job.inc].there = disk.incident[job.inc].there
    BY <2>1, <2>2, ErasedKeepState, TypeFacts
  <2> QED
    BY <2>1, <2>3 DEF Steady, There, Named, StatesAgree
<1>5. CASE EraseUnlink
  <2>1. /\ job.inc \in Ids /\ pc = "unlink" /\ NextErased \in Files \cup {"temp"}
        /\ disk' = disk
        /\ \A i \in Ids \ {job.inc} : live'.incident[i] = live.incident[i]
    <3>1. NextErased \in Files \cup {"temp", "state"}
      BY EraseTypes
    <3> QED
      BY <1>5, <3>1, TypeFacts DEF EraseUnlink, FileSystems, Typed, CallTyped, Erasing, StatesAgree
  <2>2. live'.incident[job.inc] = Unlinked(live.incident[job.inc], NextErased)
    BY <1>5, <2>1, TypeFacts DEF EraseUnlink, FileSystems
  <2>3. /\ live'.incident[job.inc].state = live.incident[job.inc].state
        /\ live'.incident[job.inc].there = live.incident[job.inc].there
    BY <2>1, <2>2, ErasedKeepState, TypeFacts
  <2> QED
    BY <2>1, <2>3 DEF Steady, There, Named, StatesAgree
<1>6. CASE CopiesSynced \/ EraseSynced
  <2>1. /\ job.inc \in Ids /\ pc \notin {"renamed", "made", "unnamed"}
        /\ SyncIncident(job.inc) /\ live' = live
    BY <1>6 DEF CopiesSynced, EraseSynced, Typed, CallTyped, Copying, Erasing
  <2> QED
    BY <2>1, SyncedStates DEF StatesAgree, Steady
<1>7. CASE EraseDone \/ QuarantineListed
  BY <1>7, RootStates DEF EraseDone, QuarantineListed, Steady
<1>8. CASE EraseDirectory
  <2>1. /\ job.inc \in Ids /\ pc = "erased" /\ disk' = disk
        /\ live'.incident[job.inc] = NoIncident
        /\ \A i \in Ids \ {job.inc} : live'.incident[i] = live.incident[i]
    BY <1>8, TypeFacts DEF EraseDirectory, FileSystems, Typed, CallTyped, Erasing
  <2> QED
    BY <2>1 DEF Steady, There, Named, StatesAgree, NoIncident, Here
<1>9. CASE WriteRenamed
  <2>1. job.inc \in Ids /\ disk' = disk
    BY <1>9 DEF WriteRenamed, Typed, CallTyped, Writing
  <2>2. ASSUME NEW i \in Ids
        PROVE  /\ live'.incident[i].state = IF i = job.inc THEN job.phase ELSE live.incident[i].state
               /\ live'.incident[i].there = live.incident[i].there
    BY <1>9, <2>1, TypeFacts DEF WriteRenamed, FileSystems, Incidents
  <2> QED
    BY <1>9, <2>1, <2>2, WrittenThere DEF Renaming, There, Named, StatesAgree, WriteRenamed, Writing, Here
<1>10. CASE WriteDone
  <2>1. /\ job.inc \in Ids /\ pc = "renamed" /\ SyncIncident(job.inc) /\ live' = live
        /\ pc' = AfterWrite
    BY <1>10 DEF WriteDone, Typed, CallTyped, Writing, Goto
  <2>2. AfterWrite # "renamed"
    BY TypeFacts DEF AfterWrite, Jobs, Phases
  <2> QED
    BY <2>1, <2>2, SyncedStates DEF StatesAgree, Settled
<1>11. CASE Crash
  BY <1>11 DEF Crash, Settled, There, Named, StatesAgree, Goto
<1>12. CASE PowerLoss
  <2>1. PICK kept \in SUBSET Undecided, torn \in SUBSET unsynced : live' = Survives(kept, torn)
    BY <1>12 DEF PowerLoss
  <2>2. disk' = live' /\ pc' = "down"
    BY <1>12 DEF PowerLoss, Goto
  <2>3. ASSUME NEW i \in Ids
        PROVE  /\ live'.incident[i].state
                     \in {live.incident[i].state, disk.incident[i].state, "none"}
               /\ live.incident[i].there /\ disk.incident[i].there
                     => live'.incident[i].state \in {live.incident[i].state, disk.incident[i].state}
               /\ live'.incident[i].there => There(i)
               /\ ~live'.incident[i].there => live'.incident[i].state = "none"
    <3>1. <<i, "state">> \notin torn
      BY <2>1 DEF Safeguarded, FewUnsynced
    <3> QED
      BY <2>1, <3>1 DEF Survives, NoIncident, There
  <2>4. ASSUME NEW i \in Ids, live.incident[i].state \in Keeping
        PROVE  live.incident[i].there /\ disk.incident[i].there
    BY <2>4 DEF Safeguarded, KeepersDurable, OnMedium
  <2> QED
    BY <2>2, <2>3, <2>4 DEF Settled, There, Named
<1>13. ASSUME NEW i \in Ids, QuarantineMade(i)
       PROVE  Founding(i)
  <2>1. /\ disk' = disk /\ ~There(i) /\ live'.incident[i].state = "none"
        /\ \A j \in Ids \ {i} : live'.incident[j] = live.incident[j]
    BY <1>13, TypeFacts DEF QuarantineMade, FileSystems, NoIncident, There
  <2> QED
    BY <1>13, <2>1 DEF Founding, There, Named, StatesAgree
<1>14. CASE EraseState
  <2>1. /\ job.inc \in Ids
        /\ \A i \in Ids \ {job.inc} :
              live'.incident[i] = live.incident[i] /\ disk'.incident[i] = disk.incident[i]
        /\ live'.incident[job.inc] = Unlinked(live.incident[job.inc], "state")
        /\ disk'.incident[job.inc] = Unlinked(disk.incident[job.inc], "state")
    BY <1>14, TypeFacts DEF EraseState, FileSystems, Typed, CallTyped, Erasing
  <2>2. \A x \in Incidents : Unlinked(x, "state").state = "none" /\ Unlinked(x, "state").there = x.there
    BY DEF Unlinked, Files, Incidents
  <2>3. /\ live'.incident[job.inc].state = "none" /\ disk'.incident[job.inc].state = "none"
        /\ live'.incident[job.inc].there = live.incident[job.inc].there
        /\ disk'.incident[job.inc].there = disk.incident[job.inc].there
    BY <2>1, <2>2, TypeFacts
  <2> QED
    BY <1>14, <2>1, <2>3 DEF Clearing, There, Named, StatesAgree
<1> QED
  BY <1>1, <1>2, <1>3, <1>4, <1>5, <1>6, <1>7, <1>8, <1>9, <1>10, <1>11, <1>12, <1>13, <1>14
     DEF Next, Work, Reconcile, Write, Finalize, Open, Quarantine, Erase, Others, Calm

\* How an incident comes to be erased.
Arriving ==
    /\ pc' = "unlink" => EraseOverwrite
    /\ pc' = "erased" => EraseSynced
    /\ pc' = "unnamed" => EraseDirectory

LEMMA ArrivingSteps == Typed /\ Next => Arriving
<1> SUFFICES ASSUME Typed, Next PROVE Arriving
    OBVIOUS
<1> USE DEF Arriving, Goto, Typed, TypeOK, Jobs
<1>1. CASE Start
  BY <1>1 DEF Start
<1>2. CASE ReconcileDone
  BY <1>2 DEF ReconcileDone
<1>3. ASSUME NEW i \in Ids, ReconcileRefused(i)
      PROVE  Arriving
  BY <1>3 DEF ReconcileRefused, Refused, Reconciling
<1>4. ASSUME NEW i \in Ids, ReconcileErase(i)
      PROVE  Arriving
  BY <1>4 DEF ReconcileErase, Reconciling
<1>5. ASSUME NEW i \in Ids, ReconcileReady(i)
      PROVE  Arriving
  BY <1>5 DEF ReconcileReady, Reconciling
<1>6. ASSUME NEW i \in Ids, ReconcileFinalized(i)
      PROVE  Arriving
  BY <1>6 DEF ReconcileFinalized, Reconciling
<1>7. CASE WriteTemp
  BY <1>7 DEF WriteTemp
<1>8. CASE WriteSynced
  BY <1>8 DEF WriteSynced
<1>9. CASE WriteRenamed
  BY <1>9 DEF WriteRenamed
<1>10. CASE WriteDone
  BY <1>10 DEF WriteDone, AfterWrite, Phases
<1>11. CASE FinalizeChanged
  BY <1>11 DEF FinalizeChanged
<1>12. CASE FinalizeBegin
  BY <1>12 DEF FinalizeBegin
<1>13. CASE RemoveOriginal
  BY <1>13 DEF RemoveOriginal
<1>14. CASE RemoveChanged \/ RemoveCompared \/ RemoveAbsent \/ RemoveFailed
  BY <1>14 DEF RemoveChanged, RemoveCompared, RemoveAbsent, RemoveFailed
<1>15. CASE RemoveDone
  BY <1>15 DEF RemoveDone
<1>16. CASE Identify
  BY <1>16 DEF Identify
<1>17. CASE OpenFresh
  BY <1>17 DEF OpenFresh
<1>18. CASE OpenUsable
  BY <1>18 DEF OpenUsable
<1>19. CASE OpenUnusable
  BY <1>19 DEF OpenUnusable
<1>20. CASE QuarantineChanged
  BY <1>20 DEF QuarantineChanged
<1>21. ASSUME NEW i \in Ids, QuarantineMade(i)
      PROVE  Arriving
  BY <1>21 DEF QuarantineMade
<1>22. CASE QuarantineFull
  BY <1>22 DEF QuarantineFull
<1>23. CASE QuarantineListed
  BY <1>23 DEF QuarantineListed
<1>24. CASE CopyCreate
  BY <1>24 DEF CopyCreate
<1>25. CASE CopyWrite
  BY <1>25 DEF CopyWrite
<1>26. CASE CopySync
  BY <1>26 DEF CopySync
<1>27. CASE CopiesSynced
  BY <1>27 DEF CopiesSynced
<1>28. CASE Revalidate
  BY <1>28 DEF Revalidate
<1>29. CASE Changed
  BY <1>29 DEF Changed
<1>30. CASE EraseOverwrite
  BY <1>30 DEF EraseOverwrite
<1>31. CASE EraseState
  BY <1>31 DEF EraseState
<1>32. CASE EraseUnlink
  BY <1>32 DEF EraseUnlink
<1>33. CASE EraseSynced
  BY <1>33 DEF EraseSynced
<1>34. CASE EraseDirectory
  BY <1>34 DEF EraseDirectory
<1>35. CASE EraseDone
  BY <1>35 DEF EraseDone
<1>36. ASSUME NEW i \in Ids, PurgeNext(i)
      PROVE  Arriving
  BY <1>36 DEF PurgeNext
<1>37. CASE PurgeDone
  BY <1>37 DEF PurgeDone
<1>38. CASE PurgeBegin
  BY <1>38 DEF PurgeBegin
<1>39. CASE Exit
  BY <1>39 DEF Exit
<1>40. CASE Crash
  BY <1>40 DEF Crash
<1>41. CASE PowerLoss
  BY <1>41 DEF PowerLoss
<1>42. CASE Decay
  BY <1>42 DEF Decay
<1>43. CASE TakeSidecar
  BY <1>43 DEF TakeSidecar
<1>44. ASSUME NEW f \in Files, NEW usable \in BOOLEAN, Touch(f, usable)
      PROVE  Arriving
  BY <1>44 DEF Touch
<1> QED
  BY <1>1, <1>2, <1>3, <1>4, <1>5, <1>6, <1>7, <1>8, <1>9, <1>10, <1>11, <1>12, <1>13,
     <1>14, <1>15, <1>16, <1>17, <1>18, <1>19, <1>20, <1>21, <1>22, <1>23, <1>24, <1>25,
     <1>26, <1>27, <1>28, <1>29, <1>30, <1>31, <1>32, <1>33, <1>34, <1>35, <1>36, <1>37,
     <1>38, <1>39, <1>40, <1>41, <1>42, <1>43, <1>44
     DEF Next, Work, Reconcile, Write, Finalize, Open, Quarantine, Erase, Others

\* What was overwritten is still the next entry.
LEMMA OverwrittenNext ==
    ASSUME Typed, ~TornState, EraseOverwrite
    PROVE  NextErased' # "state"
<1>1. /\ job.inc \in Ids /\ job' = job /\ NextErased \in Files \cup {"temp"}
      /\ live'.incident[job.inc] = Overwritten(Here, NextErased) /\ Here \in Incidents
  <2>1. NextErased \in Files \cup {"temp", "state"}
    BY EraseTypes
  <2> QED
    BY <2>1, TypeFacts DEF EraseOverwrite, FileSystems, Typed, CallTyped, Erasing, Here
<1>2. \/ Here.temp \/ Here.copy["db"] # Absent \/ Here.copy["wal"] # Absent
  BY <1>1 DEF NextErased, Incidents, Files
<1>3. ASSUME NEW x \in Incidents, NEW e \in Files \cup {"temp"},
             x.temp \/ x.copy["db"] # Absent \/ x.copy["wal"] # Absent
      PROVE  LET y == Overwritten(x, e)
             IN  y.temp \/ y.copy["db"] # Absent \/ y.copy["wal"] # Absent
  BY <1>3 DEF Overwritten, Incidents, Files, Absent, Zeroed
<1>4. LET y == live'.incident[job'.inc]
      IN  y.temp \/ y.copy["db"] # Absent \/ y.copy["wal"] # Absent
  BY <1>1, <1>2, <1>3
<1>5. live'.incident[job'.inc] \in Incidents
  BY <1>1, EraseTypes
<1> QED
  BY <1>4, <1>5 DEF NextErased, Here, Incidents, Files

LEMMA StatesKept ==
    ASSUME Typed, Safeguarded, NamesKnown, PurgeMode, StatesAgree, ~TornState, Next
    PROVE  StatesAgree'
<1>1. ASSUME NEW i \in Ids
      PROVE  /\ live'.incident[i].state # "damaged" /\ disk'.incident[i].state # "damaged"
             /\ ~live'.incident[i].there => live'.incident[i].state = "none"
             /\ ~disk'.incident[i].there => disk'.incident[i].state = "none"
             /\ \/ live'.incident[i].state = disk'.incident[i].state
                \/ (pc' = "renamed" /\ i = job'.inc)
  <2>1. CASE Steady
    BY <2>1 DEF Steady, Named, StatesAgree
  <2>2. CASE Settled
    BY <2>2 DEF Settled, Named, StatesAgree
  <2>3. CASE Renaming
    <3>1. pc = "synced" /\ pc' = "renamed" /\ job' = job /\ job.phase # "damaged"
      BY <2>3, TypeFacts DEF Renaming, WriteRenamed, Goto, Jobs, Phases
    <3> QED
      BY <2>3, <3>1 DEF Renaming, Named, StatesAgree
  <2>4. ASSUME NEW j \in Ids, Founding(j)
        PROVE  /\ live'.incident[i].state # "damaged" /\ disk'.incident[i].state # "damaged"
               /\ ~live'.incident[i].there => live'.incident[i].state = "none"
               /\ ~disk'.incident[i].there => disk'.incident[i].state = "none"
               /\ live'.incident[i].state = disk'.incident[i].state
    BY <2>4 DEF Founding, Named, StatesAgree, QuarantineMade
  <2>5. CASE Clearing
    BY <2>5 DEF Clearing, Named, StatesAgree, EraseState
  <2> QED
    BY <2>1, <2>2, <2>3, <2>4, <2>5, StateSteps
<1>2. ASSUME pc' \in {"erased", "unnamed"} PROVE Here'.state = "none"
  <2>1. CASE EraseSynced
    BY <2>1 DEF EraseSynced, Left, Here
  <2>2. CASE EraseDirectory
    BY <2>2, TypeFacts DEF EraseDirectory, Here, NoIncident, FileSystems, Typed, CallTyped, Erasing
  <2> QED
    BY <1>2, <2>1, <2>2, ArrivingSteps DEF Arriving
<1>3. ASSUME pc' = "unlink" PROVE NextErased' # "state"
  BY <1>3, OverwrittenNext, ArrivingSteps DEF Arriving
<1>4. ASSUME pc' # "renamed", WritingPhase("Purging")'
      PROVE  Here'.state \in Keeping
  <2>1. CASE WriteTemp
    <3>1. job.inc \in Ids /\ job' = job /\ pc = "write" /\ Here.state \in Keeping
      BY <1>4, <2>1 DEF WriteTemp, StatesAgree, WritingPhase, Writing, Typed, CallTyped
    <3> QED
      BY <2>1, <3>1, TypeFacts DEF WriteTemp, Here, FileSystems, Incidents
  <2>2. CASE WriteSynced
    BY <1>4, <2>2 DEF WriteSynced, StatesAgree, WritingPhase, Writing, Here
  <2>3. CASE WriteRenamed
    BY <1>4, <2>3 DEF WriteRenamed, Goto
  <2>4. CASE Revalidate
    BY <1>4, <2>4, TypeFacts DEF Revalidate, Goto, Local, WritingPhase, Writing, Jobs
  <2>5. ASSUME NEW i \in Ids, PurgeNext(i) PROVE Here'.state \in Keeping
    BY <1>4, <2>5, TypeFacts DEF PurgeNext, PurgeMarked, Goto, Local, Here, Keeping, WritingPhase, Writing, Jobs
  <2>6. CASE job'.phase \in {"Pending", "Finalized"}
    BY <1>4, <2>6 DEF WritingPhase
  <2> QED
    BY <1>4, <2>1, <2>2, <2>3, <2>4, <2>5, <2>6, EnteredSteps DEF Entered, WritingPhase
<1> QED
  BY <1>1, <1>2, <1>3, <1>4 DEF StatesAgree

-----------------------------------------------------------------------------
\* Only a removal is ahead of the medium.
SourcesAgree == pc \notin {"remove", "unlinking"} => live.source = disk.source

\* What a start has to finish.
Unfinished ==
    {i \in Ids : There(i) /\ (live.incident[i].state # "Finalized" \/ disk.incident[i].state # "Finalized")}

\* There is at most one such incident, and the call works on it, or will.
OneUnfinished ==
    /\ \A i, j \in Unfinished : i = j
    /\ pc \in {"identify", "open", "quarantine", "running", "changed", "purge"} => Unfinished = {}
    /\ pc = "reconcile" => Unfinished \subseteq job.todo
    /\ pc \in {"made", "finalize", "remove", "unlinking"} \cup Writing \cup Copying \cup Erasing
         => Unfinished \subseteq {job.inc}

\* What a call still has to do is there.
TodoThere == \A i \in job.todo : live.incident[i].there \/ (pc = "unnamed" /\ i = job.inc)

\* How far the originals of an incident are removed.
RemovalStage ==
    /\ pc \in {"finalize", "remove", "unlinking"} => Here.state = "Ready"
    /\ WritingPhase("Finalized") => \A f \in Files : live.source[f] = Absent
    /\ pc \in {"remove", "unlinking"} => \A f \in Files \ job.left : live.source[f] = Absent
    /\ pc = "unlinking" => live.source[NextRemoved] # Absent

\* How far the copies of an incident are made.
CopyingStage ==
    /\ pc = "made" => live.source["db"] = job.cand
    /\ pc \in Copying \/ WritingPhase("Pending") => \A f \in Files : live.source[f] = listed[job.inc][f]
    /\ WritingPhase("Ready") => FamilyMatches(job.inc)
    /\ pc \in Copying => /\ job.left \subseteq Family(job.inc)
                         /\ \A f \in Family(job.inc) \ job.left : Here.copy[f] = listed[job.inc][f]
    /\ pc \in {"filling", "filled"} => job.left # {}
    /\ pc = "filled" => Here.copy[NextCopied] = listed[job.inc][NextCopied]
    /\ pc = "copied" => job.left = {}

Stages == RemovalStage /\ CopyingStage

\* Without a database, every incident keeps its copies.
DatabaseGone ==
    live.source["db"] = Absent =>
       \A i \in Ids : There(i) => live.incident[i].state \in Keeping /\ disk.incident[i].state \in Keeping

\* The files of an incident that is to be finished are those it was made for.
ReadyMatches ==
    \A i \in Ids : live.incident[i].state = "Ready" \/ disk.incident[i].state = "Ready" =>
       \A f \in Files : disk.source[f] \in {Absent, listed[i][f]}

\* A sidecar belongs to the database that can be used, or, without a database, to
\* an incident that is to be finished.
SidecarKnown ==
    /\ disk.source["db"] \notin bad \cup {Absent} => disk.source["wal"] \in {Absent, disk.source["db"]}
    /\ live.source["db"] = Absent /\ disk.source["wal"] # Absent =>
         \E i \in Ids : live.incident[i].state = "Ready" /\ disk.incident[i].state = "Ready"

Matched == DatabaseGone /\ ReadyMatches /\ SidecarKnown

Orderly == StatesAgree /\ SourcesAgree /\ OneUnfinished /\ TodoThere /\ Stages /\ Matched

\* What the earlier proofs have established.
Established == Typed /\ Displaced /\ Safeguarded /\ Purged /\ Vaulting

-----------------------------------------------------------------------------
\* Nobody is seen to have changed a file while a call works on its incident.
LEMMA Undisturbed ==
    ASSUME Established, Orderly, Next
    PROVE  /\ ~FinalizeChanged /\ ~RemoveChanged
           /\ Revalidate => pc' # "changed"
<1>0. job.phase \in Phases /\ live.source \in [Files -> Versions \cup {Absent}] /\ NextRemoved \in Files
  BY TypeFacts DEF Established, Jobs
<1>1. ASSUME pc \in {"finalize", "remove", "unlinking"}
      PROVE  IncidentMatches(job.inc)
  <2>1. job.inc \in Ids /\ live.incident[job.inc].state = "Ready"
    BY <1>1 DEF Established, Typed, CallTyped, Orderly, Stages, RemovalStage, Here
  <2>2. \A f \in Files : live.source[f] \in {Absent, listed[job.inc][f]}
    BY <2>1 DEF Orderly, Matched, ReadyMatches, Established, Displaced, Laid, OnlyRemoved
  <2>3. \A f \in Family(job.inc) : live.incident[job.inc].copy[f] = listed[job.inc][f]
    BY <2>1 DEF Established, Vaulting, KeptListed, CopiesListed, Keeping
  <2>4. Family(job.inc) \subseteq Files
    BY DEF Family
  <2> QED
    BY <2>2, <2>3, <2>4 DEF IncidentMatches, FamilyMatches
<1>2. ~FinalizeChanged
  BY <1>1 DEF FinalizeChanged
<1>3. ~RemoveChanged
  BY <1>0, <1>1 DEF RemoveChanged, IncidentMatches, FamilyMatches
<1>4. ASSUME Revalidate PROVE pc' # "changed"
  <2>1. /\ \A f \in Files : live.source[f] = listed[job.inc][f]
        /\ \A f \in Family(job.inc) : live.incident[job.inc].copy[f] = listed[job.inc][f]
    BY <1>4 DEF Revalidate, Orderly, Stages, CopyingStage, Copying, Here
  <2>2. IncidentMatches(job.inc)
    BY <2>1 DEF IncidentMatches, FamilyMatches, Family
  <2> QED
    BY <1>4, <2>2 DEF Revalidate, Goto
<1> QED
  BY <1>2, <1>3, <1>4

\* Where a removal leads.
LEMMA RemovalLeads ==
    ASSUME Typed, pc \in {"remove", "unlinking"}, ~Contested, Next
    PROVE  Finalize \/ Crash \/ PowerLoss
<1> USE DEF Typed
<1>1. CASE Start
  BY <1>1 DEF Start
<1>2. CASE ReconcileDone
  BY <1>2 DEF ReconcileDone
<1>3. ASSUME NEW i \in Ids, ReconcileRefused(i)
      PROVE  Finalize \/ Crash \/ PowerLoss
  BY <1>3 DEF ReconcileRefused, Refused, Reconciling
<1>4. ASSUME NEW i \in Ids, ReconcileErase(i)
      PROVE  Finalize \/ Crash \/ PowerLoss
  BY <1>4 DEF ReconcileErase, Reconciling
<1>5. ASSUME NEW i \in Ids, ReconcileReady(i)
      PROVE  Finalize \/ Crash \/ PowerLoss
  BY <1>5 DEF ReconcileReady, Reconciling
<1>6. ASSUME NEW i \in Ids, ReconcileFinalized(i)
      PROVE  Finalize \/ Crash \/ PowerLoss
  BY <1>6 DEF ReconcileFinalized, Reconciling
<1>7. CASE WriteTemp
  BY <1>7 DEF WriteTemp
<1>8. CASE WriteSynced
  BY <1>8 DEF WriteSynced
<1>9. CASE WriteRenamed
  BY <1>9 DEF WriteRenamed
<1>10. CASE WriteDone
  BY <1>10 DEF WriteDone
<1>11. CASE FinalizeChanged
  BY <1>11 DEF FinalizeChanged
<1>12. CASE FinalizeBegin
  BY <1>12 DEF FinalizeBegin
<1>13. CASE RemoveOriginal
  BY <1>13 DEF Finalize
<1>14. CASE RemoveChanged \/ RemoveCompared \/ RemoveAbsent \/ RemoveFailed
  BY <1>14 DEF Finalize
<1>15. CASE RemoveDone
  BY <1>15 DEF Finalize
<1>16. CASE Identify
  BY <1>16 DEF Identify
<1>17. CASE OpenFresh
  BY <1>17 DEF OpenFresh
<1>18. CASE OpenUsable
  BY <1>18 DEF OpenUsable
<1>19. CASE OpenUnusable
  BY <1>19 DEF OpenUnusable
<1>20. CASE QuarantineChanged
  BY <1>20 DEF QuarantineChanged
<1>21. ASSUME NEW i \in Ids, QuarantineMade(i)
      PROVE  Finalize \/ Crash \/ PowerLoss
  BY <1>21 DEF QuarantineMade
<1>22. CASE QuarantineFull
  BY <1>22 DEF QuarantineFull
<1>23. CASE QuarantineListed
  BY <1>23 DEF QuarantineListed
<1>24. CASE CopyCreate
  BY <1>24 DEF CopyCreate
<1>25. CASE CopyWrite
  BY <1>25 DEF CopyWrite
<1>26. CASE CopySync
  BY <1>26 DEF CopySync
<1>27. CASE CopiesSynced
  BY <1>27 DEF CopiesSynced
<1>28. CASE Revalidate
  BY <1>28 DEF Revalidate
<1>29. CASE Changed
  BY <1>29 DEF Changed
<1>30. CASE EraseOverwrite
  BY <1>30 DEF EraseOverwrite
<1>31. CASE EraseState
  BY <1>31 DEF EraseState
<1>32. CASE EraseUnlink
  BY <1>32 DEF EraseUnlink
<1>33. CASE EraseSynced
  BY <1>33 DEF EraseSynced
<1>34. CASE EraseDirectory
  BY <1>34 DEF EraseDirectory
<1>35. CASE EraseDone
  BY <1>35 DEF EraseDone
<1>36. ASSUME NEW i \in Ids, PurgeNext(i)
      PROVE  Finalize \/ Crash \/ PowerLoss
  BY <1>36 DEF PurgeNext
<1>37. CASE PurgeDone
  BY <1>37 DEF PurgeDone
<1>38. CASE PurgeBegin
  BY <1>38 DEF PurgeBegin
<1>39. CASE Exit
  BY <1>39 DEF Exit
<1>40. CASE Crash
  BY <1>40 DEF Crash
<1>41. CASE PowerLoss
  BY <1>41 DEF PowerLoss
<1>42. CASE Decay
  BY <1>42 DEF Decay
<1>43. CASE TakeSidecar
  BY <1>43 DEF TakeSidecar
<1>44. ASSUME NEW f \in Files, NEW usable \in BOOLEAN, Touch(f, usable)
      PROVE  Finalize \/ Crash \/ PowerLoss
  BY <1>44 DEF Touch
<1> QED
  BY <1>1, <1>2, <1>3, <1>4, <1>5, <1>6, <1>7, <1>8, <1>9, <1>10, <1>11, <1>12, <1>13,
     <1>14, <1>15, <1>16, <1>17, <1>18, <1>19, <1>20, <1>21, <1>22, <1>23, <1>24, <1>25,
     <1>26, <1>27, <1>28, <1>29, <1>30, <1>31, <1>32, <1>33, <1>34, <1>35, <1>36, <1>37,
     <1>38, <1>39, <1>40, <1>41, <1>42, <1>43, <1>44
     DEF Next, Work, Reconcile, Write, Finalize, Open, Quarantine, Erase, Others

LEMMA SourcesKept ==
    ASSUME Established, Orderly, ~Contested, Next
    PROVE  SourcesAgree'
<1> USE DEF Established
<1>1. CASE pc \in {"remove", "unlinking"}
  <2>1. Finalize \/ Crash \/ PowerLoss
    BY <1>1, RemovalLeads
  <2>2. CASE Crash \/ PowerLoss
    BY <2>2 DEF Crash, PowerLoss, SourcesAgree
  <2>3. CASE RemoveDone
    BY <2>3, TypeFacts DEF RemoveDone, SyncSources, SourcesAgree, FileSystems
  <2>4. CASE RemoveCompared \/ RemoveAbsent \/ RemoveOriginal
    BY <1>1, <2>4 DEF RemoveCompared, RemoveAbsent, RemoveOriginal, SourcesAgree, Goto
  <2>5. ~RemoveFailed /\ ~FinalizeBegin
    BY <1>1 DEF RemoveFailed, FinalizeBegin, Orderly, Stages, RemovalStage
  <2> QED
    BY <2>1, <2>2, <2>3, <2>4, <2>5, Undisturbed DEF Finalize
<1>2. CASE pc \notin {"remove", "unlinking"}
  <2>1. live.source = disk.source
    BY <1>2 DEF Orderly, SourcesAgree
  <2>2. CASE Quiet
    BY <2>1, <2>2 DEF Quiet, SourcesAgree
  <2>3. CASE Loud
    <3>1. CASE RemoveOriginal \/ RemoveDone
      BY <1>2, <3>1 DEF RemoveOriginal, RemoveDone
    <3>2. CASE Open
      BY <2>1, <3>2, TypeFacts DEF Open, Identify, OpenFresh, OpenUsable, OpenUnusable, SyncSources,
                                SourcesAgree, FileSystems
    <3>3. CASE \E i \in Ids : QuarantineMade(i)
      BY <2>1, <3>3, TypeFacts DEF QuarantineMade, SourcesAgree, FileSystems
    <3>4. CASE QuarantineListed
      BY <2>1, <3>4, TypeFacts DEF QuarantineListed, SyncRoot, SourcesAgree, FileSystems
    <3>5. CASE Crash \/ PowerLoss
      BY <3>5 DEF Crash, PowerLoss, SourcesAgree
    <3>6. CASE Others
      BY <2>1, <3>6, TypeFacts DEF Others, Decay, TakeSidecar, Touch, SourcesAgree, FileSystems
    <3> QED
      BY <2>3, <3>1, <3>2, <3>3, <3>4, <3>5, <3>6 DEF Loud
  <2> QED
    BY <2>2, <2>3, QuietOrLoud
<1> QED
  BY <1>1, <1>2

-----------------------------------------------------------------------------
LEMMA RestingStages == pc' \in Resting \cup Erasing => Stages'
BY DEF Resting, Erasing, Stages, RemovalStage, CopyingStage, Writing, Copying, WritingPhase

LEMMA RemovingStages ==
    ASSUME Established, Orderly,
           \/ (\E i \in Ids : ReconcileReady(i)) \/ FinalizeBegin \/ RemoveCompared
           \/ RemoveAbsent \/ RemoveOriginal \/ RemoveDone
    PROVE  Stages'
<1> USE TypeFacts DEF Established, Orderly, Stages, RemovalStage, CopyingStage, Writing, Copying, WritingPhase,
                      Goto, Local, Unchanged, Jobs, FileSystems, Here
<1>1. ASSUME NEW i \in Ids, ReconcileReady(i)
      PROVE  Stages'
  BY <1>1 DEF ReconcileReady, Reconciling
<1>2. CASE FinalizeBegin
  BY <1>2 DEF FinalizeBegin, IncidentMatches, FamilyMatches, Family
<1>3. CASE RemoveOriginal
  BY <1>3 DEF RemoveOriginal
<1>4. CASE RemoveDone
  BY <1>4 DEF RemoveDone
<1>5. CASE RemoveCompared
  BY <1>5 DEF RemoveCompared, NextRemoved
<1>6. CASE RemoveAbsent
  BY <1>6 DEF RemoveAbsent
<1> QED
  BY <1>1, <1>2, <1>3, <1>4, <1>5, <1>6

\* While copies are made, the sources and the list stay.
LEMMA CopyingStages ==
    ASSUME Established, Orderly, pc \in Copying, pc' \in Copying,
           job'.inc = job.inc, listed' = listed, live'.source = live.source,
           job'.left \subseteq job.left,
           \A f \in Family(job.inc) \ job'.left :
              live'.incident[job.inc].copy[f] = listed[job.inc][f],
           pc' \in {"filling", "filled"} => job'.left # {},
           pc' = "filled" => live'.incident[job.inc].copy[NextCopied'] = listed[job.inc][NextCopied'],
           pc' = "copied" => job'.left = {}
    PROVE  Stages'
<1>1. /\ \A f \in Files : live'.source[f] = listed'[job'.inc][f]
      /\ job'.left \subseteq Family(job.inc) /\ Family(job.inc) = Family(job.inc)'
  BY DEF Orderly, Stages, CopyingStage, Family
<1>2. \A f \in (Family(job.inc) \ job.left)' : Here'.copy[f] = listed'[job'.inc][f]
  BY DEF Here, Family
<1> QED
  BY <1>1, <1>2 DEF Stages, RemovalStage, CopyingStage, Writing, Copying, WritingPhase, Here, Family

LEMMA CopyStages ==
    ASSUME Established, Orderly, Next,
           \/ (\E i \in Ids : QuarantineMade(i)) \/ QuarantineListed
           \/ CopyCreate \/ CopyWrite \/ CopySync \/ CopiesSynced \/ Revalidate
    PROVE  Stages'
<1>0. job \in Jobs /\ NextCopied \in Files
  BY TypeFacts DEF Established
<1>1. ASSUME NEW i \in Ids, QuarantineMade(i)
      PROVE  Stages'
  <2>1. pc' = "made" /\ job'.cand = job.cand /\ live.source["db"] = job.cand /\ live'.source = live.source
    BY <1>1, TypeFacts DEF QuarantineMade, Goto, Local, Established, Jobs, FileSystems
  <2> QED
    BY <2>1 DEF Stages, RemovalStage, CopyingStage, Writing, Copying, WritingPhase
<1>2. CASE QuarantineListed
  <2>1. CASE live.source["db"] = Absent
    BY <1>2, <2>1, RestingStages DEF QuarantineListed, Goto, Resting
  <2>2. CASE live.source["db"] # Absent
    <3>1. /\ pc = "made" /\ pc' = "write" /\ job' = [job EXCEPT !.phase = "Pending"] /\ live' = live
          /\ listed' = [listed EXCEPT ![job.inc] = [live.source EXCEPT !["db"] = job.cand]]
      BY <1>2, <2>2 DEF QuarantineListed, Goto, Local
    <3>2. job'.inc = job.inc /\ job'.phase = "Pending" /\ job.inc \in Ids /\ live.source["db"] = job.cand
      BY <1>0, <3>1 DEF Jobs, Established, Typed, CallTyped, Orderly, Stages, CopyingStage
    <3>3. \A f \in Files : listed'[job.inc][f] = live.source[f]
      BY <3>1, <3>2, TypeFacts DEF Established, Typed, TypeOK
    <3> QED
      BY <3>1, <3>2, <3>3 DEF Stages, RemovalStage, CopyingStage, Writing, Copying, WritingPhase
  <2> QED
    BY <2>1, <2>2
<1>3. CASE CopyCreate \/ CopyWrite \/ CopySync \/ CopiesSynced
  <2>0. /\ pc \in Copying /\ job.inc \in Ids
        /\ \A f \in Files : live.source[f] = listed[job.inc][f]
        /\ job.left \subseteq Family(job.inc)
        /\ \A f \in Family(job.inc) \ job.left : Here.copy[f] = listed[job.inc][f]
        /\ pc \in {"filling", "filled"} => job.left # {}
        /\ pc = "filled" => Here.copy[NextCopied] = listed[job.inc][NextCopied]
    BY <1>3 DEF CopyCreate, CopyWrite, CopySync, CopiesSynced, Copying, Established, Typed, CallTyped,
                Orderly, Stages, CopyingStage
  <2>1. job.left # {} => NextCopied \in job.left
    BY <1>0 DEF NextCopied, Jobs, Files
  <2>2. ASSUME NEW v, live' = [live EXCEPT !.incident[job.inc].copy[NextCopied] = v]
        PROVE  /\ live'.source = live.source
               /\ live'.incident[job.inc].copy[NextCopied] = v
               /\ \A f \in Files \ {NextCopied} : live'.incident[job.inc].copy[f] = Here.copy[f]
    BY <1>0, <2>0, <2>2, TypeFacts DEF FileSystems, Incidents, Established, Here
  <2>3. CASE CopyCreate
    <3>1. CASE live.source[NextCopied] = Absent
      BY <2>3, <3>1, RestingStages DEF CopyCreate, Goto, Resting
    <3>2. CASE live.source[NextCopied] # Absent
      <4>1. /\ live' = [live EXCEPT !.incident[job.inc].copy[NextCopied] = Partial]
            /\ job' = job /\ listed' = listed /\ pc' = "filling" /\ job.left # {}
        BY <2>3, <3>2 DEF CopyCreate, Goto, Unchanged
      <4>2. live'.source = live.source /\ \A f \in Files \ {NextCopied} : live'.incident[job.inc].copy[f] = Here.copy[f]
        BY <2>2, <4>1
      <4> QED
        BY <2>0, <2>1, <4>1, <4>2, CopyingStages DEF Copying, Family
    <3> QED
      BY <3>1, <3>2
  <2>4. CASE CopyWrite
    <3>1. /\ live' = [live EXCEPT !.incident[job.inc].copy[NextCopied] = listed[job.inc][NextCopied]]
          /\ job' = job /\ listed' = listed /\ pc' = "filled" /\ job.left # {} /\ NextCopied' = NextCopied
      BY <1>0, <2>0, <2>4 DEF CopyWrite, Goto, Unchanged, NextCopied
    <3>2. /\ live'.source = live.source
          /\ live'.incident[job.inc].copy[NextCopied] = listed[job.inc][NextCopied]
          /\ \A f \in Files \ {NextCopied} : live'.incident[job.inc].copy[f] = Here.copy[f]
      BY <2>2, <3>1
    <3> QED
      BY <2>0, <2>1, <3>1, <3>2, CopyingStages DEF Copying, Family
  <2>5. CASE CopySync
    <3>1. /\ live' = live /\ listed' = listed /\ pc' = "copy" /\ job'.inc = job.inc
          /\ job'.left = job.left \ {NextCopied} /\ pc = "filled"
      BY <1>0, <2>5 DEF CopySync, Goto, Local, Unchanged, Jobs
    <3> QED
      BY <2>0, <3>1, CopyingStages DEF Copying, Here
  <2>6. CASE CopiesSynced
    <3>1. live' = live /\ listed' = listed /\ pc' = "copied" /\ job' = job /\ job.left = {}
      BY <2>6 DEF CopiesSynced, Goto, Unchanged
    <3> QED
      BY <2>0, <3>1, CopyingStages DEF Copying, Here
  <2> QED
    BY <1>3, <2>3, <2>4, <2>5, <2>6
<1>4. CASE Revalidate
  <2>1. CASE pc' \in Resting
    BY <2>1, RestingStages
  <2>2. CASE pc' \notin Resting
    <3>1. IncidentMatches(job.inc) /\ pc' = "write" /\ job' = [job EXCEPT !.phase = "Ready"] /\ live' = live /\ listed' = listed
      BY <1>4, <2>2 DEF Revalidate, Goto, Local, Unchanged, Resting
    <3>2. job'.inc = job.inc /\ job'.phase = "Ready" /\ FamilyMatches(job.inc)
      BY <1>0, <3>1 DEF Jobs, IncidentMatches
    <3> QED
      BY <3>1, <3>2 DEF Stages, RemovalStage, CopyingStage, Writing, Copying, WritingPhase, FamilyMatches
  <2> QED
    BY <2>1, <2>2
<1> QED
  BY <1>1, <1>2, <1>3, <1>4

LEMMA WriteStages ==
    ASSUME Established, Orderly, Write \/ (\E i \in Ids : PurgeNext(i))
    PROVE  Stages'
<1> USE TypeFacts DEF Established, Orderly, Stages, RemovalStage, CopyingStage, Writing, Copying, WritingPhase,
                      Goto, Local, Unchanged, Jobs, FileSystems, Here, FamilyMatches
<1>1. CASE WriteTemp
  BY <1>1 DEF WriteTemp
<1>2. CASE WriteSynced
  BY <1>2 DEF WriteSynced
<1>3. CASE WriteRenamed
  BY <1>3 DEF WriteRenamed
<1>4. CASE WriteDone
  <2>1. /\ pc = "renamed" /\ pc' = AfterWrite /\ live' = live /\ listed' = listed
        /\ job.phase \in Phases /\ Here.state = job.phase
    BY <1>4 DEF WriteDone, Safeguarded, Protocol
  <2>2. CASE job.phase = "Pending"
    BY <1>4, <2>1, <2>2 DEF WriteDone, AfterWrite, Family
  <2>3. CASE job.phase = "Ready"
    BY <1>4, <2>1, <2>3 DEF WriteDone, AfterWrite
  <2>4. CASE job.phase = "Purging"
    BY <2>1, <2>4, RestingStages DEF AfterWrite, Erasing
  <2>5. CASE job.phase = "Finalized"
    BY <2>1, <2>5, RestingStages DEF AfterWrite, Resting
  <2> QED
    BY <2>1, <2>2, <2>3, <2>4, <2>5 DEF Phases
<1>5. ASSUME NEW i \in Ids, PurgeNext(i)
      PROVE  Stages'
  BY <1>5 DEF PurgeNext
<1> QED
  BY <1>1, <1>2, <1>3, <1>4, <1>5 DEF Write

LEMMA StagesKept ==
    ASSUME Established, Orderly, ~Contested, Next
    PROVE  Stages'
<1>1. CASE Leaving
  BY <1>1, LeavingSteps, RestingStages DEF Established
<1>2. CASE EraseOverwrite \/ EraseState \/ EraseUnlink \/ EraseSynced \/ EraseDirectory
           \/ (\E i \in Ids : ReconcileErase(i))
  BY <1>2, RestingStages
     DEF EraseOverwrite, EraseState, EraseUnlink, EraseSynced, EraseDirectory, ReconcileErase, Erasing, Goto
<1>3. ~FinalizeChanged /\ ~TakeSidecar /\ ~\E f \in Files, usable \in BOOLEAN : Touch(f, usable)
  BY Undisturbed DEF TakeSidecar, Touch
<1> QED
  BY <1>1, <1>2, <1>3, RemovingStages, CopyStages, WriteStages
     DEF Next, Work, Reconcile, Write, Finalize, Open, Quarantine, Erase, Others, Leaving

-----------------------------------------------------------------------------
\* Only a call can leave something to be finished.
LEMMA UnfinishedSteps ==
    ASSUME Established, Orderly, ~TornState, Next
    PROVE  \/ Unfinished' \subseteq Unfinished
           \/ Renaming /\ Unfinished' \subseteq Unfinished \cup {job.inc}
           \/ \E i \in Ids : Founding(i) /\ Unfinished' \subseteq Unfinished \cup {i}
<1> USE DEF Established, Unfinished, Named, Keeping
<1>0. Steady \/ Settled \/ Renaming \/ (\E i \in Ids : Founding(i)) \/ Clearing
  BY StateSteps DEF Orderly, Purged
<1>1. CASE Steady
  BY <1>1 DEF Steady
<1>2. CASE Settled
  BY <1>2 DEF Settled
<1>3. CASE Renaming
  BY <1>3 DEF Renaming
<1>4. ASSUME NEW i \in Ids, Founding(i)
      PROVE  Unfinished' \subseteq Unfinished \cup {i}
  BY <1>4 DEF Founding
<1>5. CASE Clearing
  <2>1. job.inc \in Ids /\ live.incident[job.inc].state # "Finalized"
    BY <1>5 DEF Clearing, EraseState, Safeguarded, Protocol, Typed, CallTyped, Erasing, Here
  <2> QED
    BY <1>5, <2>1 DEF Clearing
<1> QED
  BY <1>0, <1>1, <1>2, <1>3, <1>4, <1>5

LEMMA SingleKept ==
    ASSUME Established, Orderly, ~TornState, Next
    PROVE  \A i, j \in Unfinished' : i = j
<1>1. CASE Unfinished' \subseteq Unfinished
  BY <1>1 DEF Orderly, OneUnfinished
<1>2. CASE Renaming /\ Unfinished' \subseteq Unfinished \cup {job.inc}
  BY <1>2 DEF Renaming, WriteRenamed, Orderly, OneUnfinished, Writing
<1>3. ASSUME NEW i \in Ids, Founding(i), Unfinished' \subseteq Unfinished \cup {i}
      PROVE  \A j, k \in Unfinished' : j = k
  BY <1>3 DEF Founding, QuarantineMade, Orderly, OneUnfinished
<1> QED
  BY <1>1, <1>2, <1>3, UnfinishedSteps

\* Where what is unfinished is to be found.
Placed ==
    /\ pc \in {"identify", "open", "quarantine", "running", "changed", "purge"} => Unfinished = {}
    /\ pc = "reconcile" => Unfinished \subseteq job.todo
    /\ pc \in {"made", "finalize", "remove", "unlinking"} \cup Writing \cup Copying \cup Erasing
         => Unfinished \subseteq {job.inc}

\* What no step but these three adds to.
Adding == WriteRenamed \/ (\E i \in Ids : QuarantineMade(i))

LEMMA NothingAdded ==
    ASSUME Established, Orderly, ~TornState, Next, ~Adding
    PROVE  Unfinished' \subseteq Unfinished
BY UnfinishedSteps DEF Adding, Renaming, Founding

\* There is a first among the incidents that are left to do.
LEMMA TodoFirst == ASSUME Typed, NEW i \in Ids, Reconciling(i) PROVE i \in job.todo
<1>1. job.todo \subseteq Nat /\ job.todo # {}
  BY IdsKnown DEF Typed, TypeOK, Jobs, Reconciling
<1>2. PICK x \in job.todo : \A y \in job.todo : ~(<<y, x>> \in OpToRel(<, Nat))
  BY <1>1, WFMin, NatLessThanWellFounded
<1>3. ASSUME NEW y \in job.todo PROVE x =< y
  <2>1. x \in Nat /\ y \in Nat
    BY <1>1
  <2>2. ~(y < x)
    BY <1>2, <2>1, Zenon DEF OpToRel
  <2> QED
    BY ONLY <2>1, <2>2
<1> QED
  BY <1>3 DEF Reconciling, Min

\* An incident that a start takes up is there.
LEMMA StillUnfinished ==
    ASSUME Orderly, pc # "unnamed", NEW i \in Ids, i \in job.todo,
           live.incident[i].state # "Finalized"
    PROVE  i \in Unfinished
BY DEF Unfinished, Orderly, TodoThere, There

LEMMA PlacedMoves ==
    ASSUME Established, Orderly, ~TornState, ~Contested, Next
    PROVE  Placed'
<1> USE DEF Placed, Goto, Local, Writing, Copying, Erasing
<1>0. /\ Placed /\ job \in Jobs /\ ~FinalizeChanged /\ ~RemoveChanged /\ (Revalidate => pc' # "changed")
      /\ ~Adding => Unfinished' \subseteq Unfinished
  BY NothingAdded, Undisturbed, TypeFacts DEF Orderly, OneUnfinished, Established
<1>a. \A i \in Unfinished : i \in Ids /\ There(i)
  BY DEF Unfinished
<1>1. CASE Start
  <2>1. /\ pc = "down" /\ pc' = "reconcile" /\ job'.todo = Present(live) /\ Unfinished' \subseteq Unfinished
    BY <1>1, <1>0, TypeFacts DEF Start, Adding, WriteRenamed, QuarantineMade, Established, Jobs
  <2>2. \A i \in Unfinished : i \in Present(live)
    BY <1>a, <2>1 DEF There, Present, Established, Purged, NamesKnown
  <2> QED
    BY <2>1, <2>2
<1>2. CASE ReconcileDone
  BY <1>2, <1>0 DEF ReconcileDone, Adding, WriteRenamed, QuarantineMade, Jobs, Reconciling
<1>3. ASSUME NEW i \in Ids, ReconcileRefused(i)
      PROVE  Placed'
  BY <1>3, <1>0 DEF ReconcileRefused, Adding, WriteRenamed, QuarantineMade, Jobs, Reconciling, Refused
<1>4. ASSUME NEW i \in Ids, ReconcileErase(i)
      PROVE  Placed'
  <2>1. /\ pc = "reconcile" /\ pc' = "erase" /\ job'.inc = i /\ i \in job.todo
        /\ Unfinished' \subseteq Unfinished
    BY <1>4, <1>0, TodoFirst DEF ReconcileErase, Reconciling, Established, Adding, WriteRenamed, QuarantineMade, Jobs
  <2>2. i \in Unfinished
    BY <1>4, <2>1, StillUnfinished DEF ReconcileErase, Reconciling, Keeping
  <2> QED
    BY <1>0, <2>1, <2>2 DEF Orderly, OneUnfinished
<1>5. ASSUME NEW i \in Ids, ReconcileReady(i)
      PROVE  Placed'
  <2>1. /\ pc = "reconcile" /\ pc' = "finalize" /\ job'.inc = i /\ i \in job.todo
        /\ Unfinished' \subseteq Unfinished
    BY <1>5, <1>0, TodoFirst DEF ReconcileReady, Reconciling, Established, Adding, WriteRenamed, QuarantineMade, Jobs
  <2>2. i \in Unfinished
    BY <1>5, <2>1, StillUnfinished DEF ReconcileReady, Reconciling, Keeping
  <2> QED
    BY <1>0, <2>1, <2>2 DEF Orderly, OneUnfinished
<1>6. ASSUME NEW i \in Ids, ReconcileFinalized(i)
      PROVE  Placed'
  <2>1. /\ pc = "reconcile" /\ pc' = "reconcile" /\ job'.todo = job.todo \ {i}
        /\ Unfinished' \subseteq Unfinished
    BY <1>6, <1>0 DEF ReconcileFinalized, Reconciling, Adding, WriteRenamed, QuarantineMade, Jobs
  <2>2. i \notin Unfinished
    BY <1>6, <2>1 DEF ReconcileFinalized, Unfinished, Orderly, StatesAgree
  <2> QED
    BY <1>0, <2>1, <2>2
<1>7. CASE WriteTemp
  BY <1>7, <1>0 DEF WriteTemp, Adding, WriteRenamed, QuarantineMade, Jobs
<1>8. CASE WriteSynced
  BY <1>8, <1>0 DEF WriteSynced, Adding, WriteRenamed, QuarantineMade, Jobs
<1>9. CASE WriteRenamed
  <2>1. pc = "synced" /\ pc' = "renamed" /\ job' = job /\ Unfinished' \subseteq Unfinished \cup {job.inc}
    BY <1>9, UnfinishedSteps DEF WriteRenamed, Founding, QuarantineMade
  <2> QED
    BY <1>0, <2>1
<1>10. CASE WriteDone
  <2>1. /\ pc = "renamed" /\ pc' = AfterWrite /\ job'.inc = job.inc /\ Unfinished' \subseteq Unfinished
        /\ job.phase \in Phases /\ job.inc \in Ids /\ Unfinished \subseteq {job.inc}
    BY <1>10, <1>0 DEF WriteDone, Adding, WriteRenamed, QuarantineMade, Jobs, Established, Typed, CallTyped
  <2>2. CASE job.phase = "Finalized"
    <3>1. live'.incident[job.inc].state = "Finalized" /\ disk'.incident[job.inc].state = "Finalized"
      <4>1. Here.state = "Finalized" /\ live' = live
        BY <1>10, <2>1, <2>2 DEF WriteDone, Established, Safeguarded, Protocol
      <4>2. StatesAgree' /\ pc' # "renamed"
        BY <1>0, <2>1, <2>2, StatesKept DEF AfterWrite, Established, Purged, Orderly, Jobs
      <4> QED
        BY <2>1, <4>1, <4>2 DEF StatesAgree, Here
    <3>2. Unfinished' = {}
      BY <2>1, <3>1 DEF Unfinished
    <3> QED
      BY <3>2
  <2>3. CASE job.phase # "Finalized"
    <3>1. pc' \in {"copy", "finalize", "erase"}
      BY <2>1, <2>3 DEF AfterWrite, Phases
    <3> QED
      BY <2>1, <3>1
  <2> QED
    BY <2>2, <2>3
<1>11. CASE FinalizeChanged
  BY <1>11, <1>0
<1>12. CASE FinalizeBegin
  BY <1>12, <1>0 DEF FinalizeBegin, Adding, WriteRenamed, QuarantineMade, Jobs
<1>13. CASE RemoveOriginal
  BY <1>13, <1>0 DEF RemoveOriginal, Adding, WriteRenamed, QuarantineMade, Jobs
<1>14. CASE RemoveChanged \/ RemoveCompared \/ RemoveAbsent \/ RemoveFailed
  BY <1>14, <1>0 DEF RemoveChanged, RemoveCompared, RemoveAbsent, RemoveFailed, Adding,
     WriteRenamed, QuarantineMade, Unchanged, Jobs
<1>15. CASE RemoveDone
  BY <1>15, <1>0 DEF RemoveDone, Adding, WriteRenamed, QuarantineMade, Jobs
<1>16. CASE Identify
  BY <1>16, <1>0 DEF Identify, Adding, WriteRenamed, QuarantineMade, Jobs
<1>17. CASE OpenFresh
  BY <1>17, <1>0 DEF OpenFresh, Adding, WriteRenamed, QuarantineMade, Jobs
<1>18. CASE OpenUsable
  BY <1>18, <1>0 DEF OpenUsable, Adding, WriteRenamed, QuarantineMade, Jobs
<1>19. CASE OpenUnusable
  BY <1>19, <1>0 DEF OpenUnusable, Adding, WriteRenamed, QuarantineMade, Jobs
<1>20. CASE QuarantineChanged
  BY <1>20, <1>0 DEF QuarantineChanged, Adding, WriteRenamed, QuarantineMade, Jobs
<1>21. ASSUME NEW i \in Ids, QuarantineMade(i)
      PROVE  Placed'
  <2>1. /\ pc = "quarantine" /\ pc' = "made" /\ job'.inc = i
        /\ \A j \in Ids : Founding(j) => j = i
    BY <1>21, <1>0 DEF QuarantineMade, Founding, Jobs
  <2>2. Unfinished' \subseteq Unfinished \cup {i}
    BY <2>1, UnfinishedSteps DEF Renaming, WriteRenamed
  <2> QED
    BY <1>0, <2>1, <2>2
<1>22. CASE QuarantineFull
  BY <1>22, <1>0 DEF QuarantineFull, Adding, WriteRenamed, QuarantineMade, Jobs
<1>23. CASE QuarantineListed
  BY <1>23, <1>0 DEF QuarantineListed, Adding, WriteRenamed, QuarantineMade, Jobs
<1>24. CASE CopyCreate
  BY <1>24, <1>0 DEF CopyCreate, Adding, WriteRenamed, QuarantineMade, Jobs
<1>25. CASE CopyWrite
  BY <1>25, <1>0 DEF CopyWrite, Adding, WriteRenamed, QuarantineMade, Jobs
<1>26. CASE CopySync
  BY <1>26, <1>0 DEF CopySync, Adding, WriteRenamed, QuarantineMade, Jobs
<1>27. CASE CopiesSynced
  BY <1>27, <1>0 DEF CopiesSynced, Adding, WriteRenamed, QuarantineMade, Jobs
<1>28. CASE Revalidate
  BY <1>28, <1>0 DEF Revalidate, Adding, WriteRenamed, QuarantineMade, Jobs
<1>29. CASE Changed
  BY <1>29, <1>0 DEF Changed, Adding, WriteRenamed, QuarantineMade, Jobs
<1>30. CASE EraseOverwrite
  BY <1>30, <1>0 DEF EraseOverwrite, Adding, WriteRenamed, QuarantineMade, Jobs
<1>31. CASE EraseState
  BY <1>31, <1>0 DEF EraseState, Adding, WriteRenamed, QuarantineMade, Jobs
<1>32. CASE EraseUnlink
  BY <1>32, <1>0 DEF EraseUnlink, Adding, WriteRenamed, QuarantineMade, Jobs
<1>33. CASE EraseSynced
  BY <1>33, <1>0 DEF EraseSynced, Adding, WriteRenamed, QuarantineMade, Jobs
<1>34. CASE EraseDirectory
  BY <1>34, <1>0 DEF EraseDirectory, Adding, WriteRenamed, QuarantineMade, Jobs
<1>35. CASE EraseDone
  <2>1. /\ pc = "unnamed" /\ pc' = job.next /\ Unfinished' \subseteq {job.inc} /\ job.inc \in Ids
        /\ live' = live /\ SyncRoot /\ job.next \in {"reconcile", "open", "changed", "purge"}
    BY <1>35, <1>0 DEF EraseDone, Adding, WriteRenamed, QuarantineMade, Jobs, Established, Typed, CallTyped
  <2>2. ~live.incident[job.inc].there
    BY <2>1 DEF Established, Purged, NamesKnown, Here
  <2>3. disk'.incident[job.inc] = NoIncident
    BY <2>1, <2>2, TypeFacts DEF SyncRoot, Established, FileSystems
  <2>4. Unfinished' = {}
    BY <2>1, <2>2, <2>3 DEF Unfinished, There, NoIncident
  <2> QED
    BY <2>1, <2>4
<1>36. ASSUME NEW i \in Ids, PurgeNext(i)
      PROVE  Placed'
  BY <1>36, <1>0 DEF PurgeNext, Adding, WriteRenamed, QuarantineMade, Jobs
<1>37. CASE PurgeDone
  BY <1>37, <1>0 DEF PurgeDone, Adding, WriteRenamed, QuarantineMade, Jobs
<1>38. CASE PurgeBegin
  BY <1>38, <1>0 DEF PurgeBegin, Adding, WriteRenamed, QuarantineMade, Jobs
<1>39. CASE Exit
  BY <1>39, <1>0 DEF Exit, Adding, WriteRenamed, QuarantineMade, Jobs
<1>40. CASE Crash
  BY <1>40, <1>0 DEF Crash, Adding, WriteRenamed, QuarantineMade, Jobs
<1>41. CASE PowerLoss
  BY <1>41, <1>0 DEF PowerLoss, Adding, WriteRenamed, QuarantineMade, Jobs
<1>42. CASE Decay
  BY <1>42, <1>0 DEF Decay, Adding, WriteRenamed, QuarantineMade, Jobs
<1>43. CASE TakeSidecar
  BY <1>43 DEF TakeSidecar
<1>44. ASSUME NEW f \in Files, NEW usable \in BOOLEAN, Touch(f, usable)
      PROVE  Placed'
  BY <1>44 DEF Touch
<1> QED
  BY <1>1, <1>2, <1>3, <1>4, <1>5, <1>6, <1>7, <1>8, <1>9, <1>10, <1>11, <1>12, <1>13,
     <1>14, <1>15, <1>16, <1>17, <1>18, <1>19, <1>20, <1>21, <1>22, <1>23, <1>24, <1>25,
     <1>26, <1>27, <1>28, <1>29, <1>30, <1>31, <1>32, <1>33, <1>34, <1>35, <1>36, <1>37,
     <1>38, <1>39, <1>40, <1>41, <1>42, <1>43, <1>44
     DEF Next, Work, Reconcile, Write, Finalize, Open, Quarantine, Erase, Others

-----------------------------------------------------------------------------
\* What is left to do only shrinks, except where a call begins.
Dwindling == job'.todo \subseteq job.todo \/ (job'.todo = Present(live) /\ live' = live)

LEMMA TodoSteps == Typed /\ Next => Dwindling
<1> SUFFICES ASSUME Typed, Next PROVE Dwindling
    OBVIOUS
<1> USE TypeFacts DEF Dwindling, Goto, Local, Jobs, Idle
<1>1. CASE Start
  BY <1>1 DEF Start
<1>2. CASE ReconcileDone
  BY <1>2 DEF ReconcileDone
<1>3. ASSUME NEW i \in Ids, ReconcileRefused(i)
      PROVE  Dwindling
  BY <1>3 DEF ReconcileRefused, Refused, Reconciling
<1>4. ASSUME NEW i \in Ids, ReconcileErase(i)
      PROVE  Dwindling
  BY <1>4 DEF ReconcileErase, Reconciling
<1>5. ASSUME NEW i \in Ids, ReconcileReady(i)
      PROVE  Dwindling
  BY <1>5 DEF ReconcileReady, Reconciling
<1>6. ASSUME NEW i \in Ids, ReconcileFinalized(i)
      PROVE  Dwindling
  BY <1>6 DEF ReconcileFinalized, Reconciling
<1>7. CASE WriteTemp
  BY <1>7 DEF WriteTemp
<1>8. CASE WriteSynced
  BY <1>8 DEF WriteSynced
<1>9. CASE WriteRenamed
  BY <1>9 DEF WriteRenamed
<1>10. CASE WriteDone
  BY <1>10 DEF WriteDone
<1>11. CASE FinalizeChanged
  BY <1>11 DEF FinalizeChanged
<1>12. CASE FinalizeBegin
  BY <1>12 DEF FinalizeBegin
<1>13. CASE RemoveOriginal
  BY <1>13 DEF RemoveOriginal
<1>14. CASE RemoveChanged \/ RemoveCompared \/ RemoveAbsent \/ RemoveFailed
  BY <1>14 DEF RemoveChanged, RemoveCompared, RemoveAbsent, RemoveFailed
<1>15. CASE RemoveDone
  BY <1>15 DEF RemoveDone
<1>16. CASE Identify
  BY <1>16 DEF Identify
<1>17. CASE OpenFresh
  BY <1>17 DEF OpenFresh
<1>18. CASE OpenUsable
  BY <1>18 DEF OpenUsable
<1>19. CASE OpenUnusable
  BY <1>19 DEF OpenUnusable
<1>20. CASE QuarantineChanged
  BY <1>20 DEF QuarantineChanged
<1>21. ASSUME NEW i \in Ids, QuarantineMade(i)
      PROVE  Dwindling
  BY <1>21 DEF QuarantineMade
<1>22. CASE QuarantineFull
  BY <1>22 DEF QuarantineFull
<1>23. CASE QuarantineListed
  BY <1>23 DEF QuarantineListed
<1>24. CASE CopyCreate
  BY <1>24 DEF CopyCreate
<1>25. CASE CopyWrite
  BY <1>25 DEF CopyWrite
<1>26. CASE CopySync
  BY <1>26 DEF CopySync
<1>27. CASE CopiesSynced
  BY <1>27 DEF CopiesSynced
<1>28. CASE Revalidate
  BY <1>28 DEF Revalidate
<1>29. CASE Changed
  BY <1>29 DEF Changed
<1>30. CASE EraseOverwrite
  BY <1>30 DEF EraseOverwrite
<1>31. CASE EraseState
  BY <1>31 DEF EraseState
<1>32. CASE EraseUnlink
  BY <1>32 DEF EraseUnlink
<1>33. CASE EraseSynced
  BY <1>33 DEF EraseSynced
<1>34. CASE EraseDirectory
  BY <1>34 DEF EraseDirectory
<1>35. CASE EraseDone
  BY <1>35 DEF EraseDone
<1>36. ASSUME NEW i \in Ids, PurgeNext(i)
      PROVE  Dwindling
  BY <1>36 DEF PurgeNext
<1>37. CASE PurgeDone
  BY <1>37 DEF PurgeDone
<1>38. CASE PurgeBegin
  BY <1>38 DEF PurgeBegin
<1>39. CASE Exit
  BY <1>39 DEF Exit
<1>40. CASE Crash
  BY <1>40 DEF Crash
<1>41. CASE PowerLoss
  BY <1>41 DEF PowerLoss
<1>42. CASE Decay
  BY <1>42 DEF Decay
<1>43. CASE TakeSidecar
  BY <1>43 DEF TakeSidecar
<1>44. ASSUME NEW f \in Files, NEW usable \in BOOLEAN, Touch(f, usable)
      PROVE  Dwindling
  BY <1>44 DEF Touch
<1> QED
  BY <1>1, <1>2, <1>3, <1>4, <1>5, <1>6, <1>7, <1>8, <1>9, <1>10, <1>11, <1>12, <1>13,
     <1>14, <1>15, <1>16, <1>17, <1>18, <1>19, <1>20, <1>21, <1>22, <1>23, <1>24, <1>25,
     <1>26, <1>27, <1>28, <1>29, <1>30, <1>31, <1>32, <1>33, <1>34, <1>35, <1>36, <1>37,
     <1>38, <1>39, <1>40, <1>41, <1>42, <1>43, <1>44
     DEF Next, Work, Reconcile, Write, Finalize, Open, Quarantine, Erase, Others

\* Only the removal of a directory takes its name away.
LEMMA NamesStay ==
    ASSUME Established, Next
    PROVE  \/ \A i \in Ids : live.incident[i].there => live'.incident[i].there
           \/ EraseDirectory \/ job'.todo = {}
<1> DEFINE Stay == \A i \in Ids : live.incident[i].there => live'.incident[i].there
<1>0. Typed
  BY DEF Established
<1>1. CASE Calm
  BY <1>0, <1>1, CalmSteps DEF SameIncidents
<1>2. CASE Crash \/ PowerLoss
  BY <1>2 DEF Crash, PowerLoss, Local, Idle
<1>3. CASE WriteRenamed
  BY <1>0, <1>3, TypeFacts DEF WriteRenamed, FileSystems, Incidents, Typed, CallTyped, Writing
<1>4. CASE WriteDone \/ RemoveOriginal \/ QuarantineListed \/ CopySync \/ CopiesSynced \/ EraseSynced \/ EraseDone
  BY <1>0, <1>4, TypeFacts DEF WriteDone, RemoveOriginal, QuarantineListed, CopySync, CopiesSynced, EraseSynced,
                               EraseDone, FileSystems
<1>5. CASE CopyCreate \/ CopyWrite
  <2>1. CASE live' = live
    BY <2>1
  <2>2. CASE \E v : live' = [live EXCEPT !.incident[job.inc].copy[NextCopied] = v]
    BY <1>0, <1>5, <2>2, TypeFacts DEF FileSystems, Incidents, CopyCreate, CopyWrite, Typed, CallTyped, Copying
  <2> QED
    BY <1>5, <2>1, <2>2 DEF CopyCreate, CopyWrite
<1>6. ASSUME NEW i \in Ids, QuarantineMade(i)
      PROVE  Stay
  BY <1>0, <1>6, TypeFacts DEF QuarantineMade, FileSystems, NoIncident
<1>7. CASE EraseOverwrite \/ EraseState \/ EraseUnlink
  <2>1. job.inc \in Ids /\ NextErased \in Files \cup {"temp", "state"}
    BY <1>0, <1>7, EraseTypes DEF EraseOverwrite, EraseState, EraseUnlink, Typed, CallTyped, Erasing
  <2>2. /\ \A i \in Ids \ {job.inc} : live'.incident[i] = live.incident[i]
        /\ \E e \in Files \cup {"temp", "state"} :
              live'.incident[job.inc] \in {Overwritten(live.incident[job.inc], e), Unlinked(live.incident[job.inc], e)}
    BY <1>0, <1>7, <2>1, TypeFacts DEF EraseOverwrite, EraseState, EraseUnlink, FileSystems
  <2>3. live'.incident[job.inc].there = live.incident[job.inc].there
    BY <1>0, <2>1, <2>2, ErasedNames, TypeFacts
  <2> QED
    BY <2>2, <2>3
<1> QED
  BY <1>1, <1>2, <1>3, <1>4, <1>5, <1>6, <1>7
     DEF Next, Work, Reconcile, Write, Finalize, Open, Quarantine, Erase, Others, Calm

LEMMA UnnamedLeads ==
    ASSUME Typed, pc = "unnamed", Next
    PROVE  EraseDone \/ job'.todo = {}
<1> USE DEF Typed
<1>1. CASE Start
  BY <1>1 DEF Start
<1>2. CASE ReconcileDone
  BY <1>2 DEF ReconcileDone
<1>3. ASSUME NEW i \in Ids, ReconcileRefused(i)
      PROVE  EraseDone \/ job'.todo = {}
  BY <1>3 DEF ReconcileRefused, Refused, Reconciling
<1>4. ASSUME NEW i \in Ids, ReconcileErase(i)
      PROVE  EraseDone \/ job'.todo = {}
  BY <1>4 DEF ReconcileErase, Reconciling
<1>5. ASSUME NEW i \in Ids, ReconcileReady(i)
      PROVE  EraseDone \/ job'.todo = {}
  BY <1>5 DEF ReconcileReady, Reconciling
<1>6. ASSUME NEW i \in Ids, ReconcileFinalized(i)
      PROVE  EraseDone \/ job'.todo = {}
  BY <1>6 DEF ReconcileFinalized, Reconciling
<1>7. CASE WriteTemp
  BY <1>7 DEF WriteTemp
<1>8. CASE WriteSynced
  BY <1>8 DEF WriteSynced
<1>9. CASE WriteRenamed
  BY <1>9 DEF WriteRenamed
<1>10. CASE WriteDone
  BY <1>10 DEF WriteDone
<1>11. CASE FinalizeChanged
  BY <1>11 DEF FinalizeChanged
<1>12. CASE FinalizeBegin
  BY <1>12 DEF FinalizeBegin
<1>13. CASE RemoveOriginal
  BY <1>13 DEF RemoveOriginal
<1>14. CASE RemoveChanged \/ RemoveCompared \/ RemoveAbsent \/ RemoveFailed
  BY <1>14 DEF RemoveChanged, RemoveCompared, RemoveAbsent, RemoveFailed
<1>15. CASE RemoveDone
  BY <1>15 DEF RemoveDone
<1>16. CASE Identify
  BY <1>16 DEF Identify
<1>17. CASE OpenFresh
  BY <1>17 DEF OpenFresh
<1>18. CASE OpenUsable
  BY <1>18 DEF OpenUsable
<1>19. CASE OpenUnusable
  BY <1>19 DEF OpenUnusable
<1>20. CASE QuarantineChanged
  BY <1>20 DEF QuarantineChanged
<1>21. ASSUME NEW i \in Ids, QuarantineMade(i)
      PROVE  EraseDone \/ job'.todo = {}
  BY <1>21 DEF QuarantineMade
<1>22. CASE QuarantineFull
  BY <1>22 DEF QuarantineFull
<1>23. CASE QuarantineListed
  BY <1>23 DEF QuarantineListed
<1>24. CASE CopyCreate
  BY <1>24 DEF CopyCreate
<1>25. CASE CopyWrite
  BY <1>25 DEF CopyWrite
<1>26. CASE CopySync
  BY <1>26 DEF CopySync
<1>27. CASE CopiesSynced
  BY <1>27 DEF CopiesSynced
<1>28. CASE Revalidate
  BY <1>28 DEF Revalidate
<1>29. CASE Changed
  BY <1>29 DEF Changed
<1>30. CASE EraseOverwrite
  BY <1>30 DEF EraseOverwrite
<1>31. CASE EraseState
  BY <1>31 DEF EraseState
<1>32. CASE EraseUnlink
  BY <1>32 DEF EraseUnlink
<1>33. CASE EraseSynced
  BY <1>33 DEF EraseSynced
<1>34. CASE EraseDirectory
  BY <1>34 DEF EraseDirectory
<1>35. CASE EraseDone
  BY <1>35 DEF EraseDone
<1>36. ASSUME NEW i \in Ids, PurgeNext(i)
      PROVE  EraseDone \/ job'.todo = {}
  BY <1>36 DEF PurgeNext
<1>37. CASE PurgeDone
  BY <1>37 DEF PurgeDone
<1>38. CASE PurgeBegin
  BY <1>38 DEF PurgeBegin
<1>39. CASE Exit
  BY <1>39 DEF Exit
<1>40. CASE Crash
  BY <1>40 DEF Crash, Local, Idle
<1>41. CASE PowerLoss
  BY <1>41 DEF PowerLoss, Local, Idle
<1>42. CASE Decay
  BY <1>42 DEF Decay
<1>43. CASE TakeSidecar
  BY <1>43 DEF TakeSidecar
<1>44. ASSUME NEW f \in Files, NEW usable \in BOOLEAN, Touch(f, usable)
      PROVE  EraseDone \/ job'.todo = {}
  BY <1>44 DEF Touch
<1> QED
  BY <1>1, <1>2, <1>3, <1>4, <1>5, <1>6, <1>7, <1>8, <1>9, <1>10, <1>11, <1>12, <1>13,
     <1>14, <1>15, <1>16, <1>17, <1>18, <1>19, <1>20, <1>21, <1>22, <1>23, <1>24, <1>25,
     <1>26, <1>27, <1>28, <1>29, <1>30, <1>31, <1>32, <1>33, <1>34, <1>35, <1>36, <1>37,
     <1>38, <1>39, <1>40, <1>41, <1>42, <1>43, <1>44
     DEF Next, Work, Reconcile, Write, Finalize, Open, Quarantine, Erase, Others


LEMMA TodoKept ==
    ASSUME Established, Orderly, Next
    PROVE  TodoThere'
<1>0. job \in Jobs
  BY TypeFacts DEF Established
<1>1. CASE job'.todo = {}
  BY <1>1 DEF TodoThere
<1>2. CASE job'.todo = Present(live) /\ live' = live
  BY <1>2 DEF TodoThere, Present
<1>3. CASE job'.todo \subseteq job.todo /\ job'.todo # {}
  <2>1. CASE EraseDirectory
    BY <1>0, <1>3, <2>1, TypeFacts DEF EraseDirectory, Goto, TodoThere, Orderly, Established, FileSystems, Jobs
  <2>2. CASE EraseDone
    BY <1>0, <2>2 DEF EraseDone, Local, TodoThere, Orderly, Jobs
  <2>3. CASE ~EraseDirectory /\ ~EraseDone
    <3>1. pc # "unnamed"
      BY <1>3, <2>3, UnnamedLeads DEF Established
    <3> QED
      BY <1>0, <1>3, <2>3, <3>1, NamesStay DEF TodoThere, Orderly, Jobs
  <2> QED
    BY <2>1, <2>2, <2>3
<1> QED
  BY <1>1, <1>2, <1>3, TodoSteps DEF Established, Dwindling

-----------------------------------------------------------------------------
\* Where a database goes, and where the medium's files come from.
LEMMA DatabaseGoes ==
    ASSUME Typed, Displaced, Next, live'.source["db"] = Absent
    PROVE  live.source["db"] = Absent \/ RemoveOriginal
<1> USE TypeFacts DEF Files, Typed, TypeOK, Absent, Versions
<1>1. CASE Quiet
  BY <1>1 DEF Quiet
<1>2. CASE RemoveDone \/ Identify \/ OpenUsable \/ OpenUnusable \/ QuarantineListed \/ Crash
  BY <1>2 DEF RemoveDone, Identify, OpenUsable, OpenUnusable, QuarantineListed, Crash
<1>3. CASE OpenFresh
  BY <1>3 DEF OpenFresh
<1>4. CASE \E i \in Ids : QuarantineMade(i)
  BY <1>4 DEF QuarantineMade, FileSystems
<1>5. CASE PowerLoss
  <2>1. PICK kept \in SUBSET Undecided, torn \in SUBSET unsynced : live' = Survives(kept, torn)
    BY <1>5 DEF PowerLoss
  <2>2. live'.source["db"] \in {live.source["db"], disk.source["db"]}
    BY <2>1 DEF Survives
  <2>3. live.source["db"] \in {Absent, disk.source["db"]}
    BY DEF Displaced, Laid, OnlyRemoved
  <2> QED
    BY <2>2, <2>3
<1>6. CASE Others
  <2>1. live'.source["db"] \in {live.source["db"], Fresh}
    BY <1>6 DEF Others, Decay, TakeSidecar, Touch, FileSystems
  <2>2. Fresh # Absent
    BY DEF Fresh
  <2> QED
    BY <2>1, <2>2
<1> QED
  BY <1>1, <1>2, <1>3, <1>4, <1>5, <1>6, QuietOrLoud DEF Loud, Open

LEMMA MediumSources ==
    ASSUME Typed, Displaced, ~Contested, Next
    PROVE  \/ bad' = bad /\ \A f \in Files : disk'.source[f] \in {Absent, disk.source[f]}
           \/ OpenFresh \/ Decay
<1> USE TypeFacts DEF Displaced, Laid, OnlyRemoved, FileSystems
<1>1. CASE Quiet
  BY <1>1 DEF Quiet
<1>2. CASE RemoveOriginal \/ RemoveDone \/ Identify \/ OpenUsable \/ OpenUnusable \/ Crash
  BY <1>2 DEF RemoveOriginal, RemoveDone, Identify, OpenUsable, OpenUnusable, Crash, SyncSources, Unchanged
<1>3. CASE QuarantineListed \/ \E i \in Ids : QuarantineMade(i)
  BY <1>3 DEF QuarantineListed, QuarantineMade, SyncRoot, Unchanged
<1>4. CASE PowerLoss
  BY <1>4 DEF PowerLoss, Survives
<1>5. CASE Others
  BY <1>5 DEF Others, TakeSidecar, Touch
<1> QED
  BY <1>1, <1>2, <1>3, <1>4, <1>5, QuietOrLoud DEF Loud, Open

-----------------------------------------------------------------------------
\* A phase that is not the keeping of copies is not written while there is no database.
LEMMA WrittenWithDatabase ==
    ASSUME Established, Orderly, pc \in Writing, live.source["db"] = Absent
    PROVE  job.phase \in Keeping
<1>1. job.phase \in Phases
  BY TypeFacts DEF Established, Jobs
<1>2. job.phase # "Pending"
  BY DEF Orderly, Stages, CopyingStage, WritingPhase, Established, Vaulting, KeptListed, Files
<1>3. job.phase # "Purging"
  BY DEF Established, Vaulting, OpenUsed, WritingPhase, Writing
<1> QED
  BY <1>1, <1>2, <1>3 DEF Phases, Keeping

LEMMA GoneKept ==
    ASSUME Established, Orderly, ~TornState, Next
    PROVE  DatabaseGone'
<1> SUFFICES ASSUME live'.source["db"] = Absent, NEW i \in Ids, There(i)'
             PROVE  live'.incident[i].state \in Keeping /\ disk'.incident[i].state \in Keeping
    BY DEF DatabaseGone
<1>1. CASE live.source["db"] = Absent
  <2>1. There(i) => live.incident[i].state \in Keeping /\ disk.incident[i].state \in Keeping
    BY <1>1 DEF Orderly, Matched, DatabaseGone
  <2>2. CASE Steady
    BY <2>1, <2>2 DEF Steady, Named
  <2>3. CASE Settled
    BY <2>1, <2>3 DEF Settled, Named
  <2>4. CASE Renaming
    <3>1. job.phase \in Keeping
      BY <1>1, <2>4, WrittenWithDatabase DEF Renaming, WriteRenamed, Writing
    <3> QED
      BY <2>1, <2>4, <3>1 DEF Renaming, Named
  <2>5. ASSUME NEW j \in Ids, Founding(j)
        PROVE  live'.incident[i].state \in Keeping /\ disk'.incident[i].state \in Keeping
    <3>1. live.source["db"] \in bad
      BY <2>5 DEF Founding, QuarantineMade, Established, Displaced, Laid, ListedUnusable
    <3> QED
      BY <1>1, <3>1 DEF Established, Typed, TypeOK, Versions, Absent
  <2>6. CASE Clearing
    <3>1. live.incident[job.inc].state \notin Keeping
      BY <2>6 DEF Clearing, EraseState, Established, Safeguarded, Protocol, Erasing, Here
    <3> QED
      BY <2>1, <2>6, <3>1 DEF Clearing, Named
  <2> QED
    BY <2>2, <2>3, <2>4, <2>5, <2>6, StateSteps DEF Established, Orderly, Purged
<1>2. CASE RemoveOriginal
  <2>1. /\ pc = "unlinking" /\ job.inc \in Ids /\ live.incident[job.inc].state = "Ready"
        /\ Unfinished \subseteq {job.inc}
    BY <1>2 DEF RemoveOriginal, Orderly, Stages, RemovalStage, OneUnfinished, Here, Established, Typed, CallTyped
  <2>2. live'.incident = live.incident /\ disk' = disk
    BY <1>2, TypeFacts DEF RemoveOriginal, Established, FileSystems
  <2>3. live.incident[i].state = disk.incident[i].state /\ There(i)
    BY <2>1, <2>2 DEF Orderly, StatesAgree, There
  <2> QED
    BY <2>1, <2>2, <2>3 DEF Unfinished, Keeping
<1> QED
  BY <1>1, <1>2, DatabaseGoes DEF Established

\* What comes to be Ready.
LEMMA ReadyComes ==
    ASSUME Established, Orderly, ~TornState, Next, NEW i \in Ids,
           live'.incident[i].state = "Ready" \/ disk'.incident[i].state = "Ready"
    PROVE  \/ live.incident[i].state = "Ready" \/ disk.incident[i].state = "Ready"
           \/ WriteRenamed /\ i = job.inc /\ job.phase = "Ready"
<1>1. Steady \/ Settled \/ Renaming \/ (\E j \in Ids : Founding(j)) \/ Clearing
  BY StateSteps DEF Established, Orderly, Purged
<1> QED
  BY <1>1 DEF Steady, Settled, Renaming, Founding, Clearing

LEMMA MatchesKept ==
    ASSUME Established, Orderly, ~Contested, ~TornState, Next
    PROVE  ReadyMatches'
<1> SUFFICES ASSUME NEW i \in Ids, live'.incident[i].state = "Ready" \/ disk'.incident[i].state = "Ready",
                    NEW f \in Files
             PROVE  disk'.source[f] \in {Absent, listed'[i][f]}
    BY DEF ReadyMatches
<1>1. CASE live.incident[i].state = "Ready" \/ disk.incident[i].state = "Ready"
  <2>1. disk.source[f] \in {Absent, listed[i][f]} /\ disk.source["db"] \in {Absent, listed[i]["db"]}
    BY <1>1 DEF Orderly, Matched, ReadyMatches, Files
  <2>2. i \in Unfinished
    BY <1>1 DEF Orderly, StatesAgree, Unfinished, There
  <2>3. ~OpenFresh
    BY <2>2 DEF OpenFresh, Orderly, OneUnfinished
  <2>4. ~Decay
    BY <2>1 DEF Decay, Orderly, SourcesAgree, Established, Displaced, Laid, ListedUnusable
  <2>5. listed'[i] = listed[i]
    <3>1. CASE QuarantineListed
      <4>1. i # job.inc
        BY <1>1, <3>1 DEF QuarantineListed, Established, Safeguarded, Protocol, Orderly, StatesAgree, Here
      <4> QED
        BY <3>1, <4>1 DEF QuarantineListed, Established, Typed, TypeOK
    <3> QED
      BY <3>1, ListedSteps DEF Established
  <2> QED
    BY <2>1, <2>3, <2>4, <2>5, MediumSources DEF Established
<1>2. CASE WriteRenamed /\ i = job.inc /\ job.phase = "Ready"
  <2>1. live.source[f] \in {Absent, listed[i][f]}
    BY <1>2 DEF WriteRenamed, Orderly, Stages, CopyingStage, WritingPhase, Writing, FamilyMatches
  <2> QED
    BY <1>2, <2>1 DEF WriteRenamed, Unchanged, Orderly, SourcesAgree
<1> QED
  BY <1>1, <1>2, ReadyComes

\* An incident that is to be finished is finished before its sidecar is forgotten.
LEMMA ReadyStays ==
    ASSUME Established, Orderly, ~TornState, Next, live.source["db"] = Absent,
           disk.source["wal"] # Absent,
           NEW i \in Ids, live.incident[i].state = "Ready", disk.incident[i].state = "Ready"
    PROVE  live'.incident[i].state = "Ready" /\ disk'.incident[i].state = "Ready"
<1>1. CASE Steady \/ Settled
  BY <1>1 DEF Steady, Settled, Keeping
<1>2. CASE Renaming
  <2>1. pc = "synced" /\ job.phase \in Keeping
    BY <1>2, WrittenWithDatabase DEF Renaming, WriteRenamed, Writing
  <2>2. job.phase # "Finalized"
    BY <2>1 DEF Orderly, Stages, RemovalStage, SourcesAgree, WritingPhase, Writing, Files
  <2> QED
    BY <1>2, <2>1, <2>2 DEF Renaming, Keeping
<1>3. ASSUME NEW j \in Ids, Founding(j)
      PROVE  live'.incident[i].state = "Ready" /\ disk'.incident[i].state = "Ready"
  <2>1. i # j
    BY <1>3 DEF Founding, There, Orderly, StatesAgree
  <2> QED
    BY <1>3, <2>1 DEF Founding
<1>4. CASE Clearing
  <2>1. i # job.inc
    BY <1>4 DEF Clearing, EraseState, Established, Safeguarded, Protocol, Erasing, Here, Keeping
  <2> QED
    BY <1>4, <2>1 DEF Clearing
<1> QED
  BY <1>1, <1>2, <1>3, <1>4, StateSteps DEF Established, Orderly, Purged

LEMMA SidecarKept ==
    ASSUME Established, Orderly, ~Contested, ~TornState, Next
    PROVE  SidecarKnown'
<1>0. Fresh # Absent
  BY DEF Established, Typed, TypeOK, Versions, Absent, Fresh
<1>1. CASE OpenFresh
  <2>1. live.source = disk.source /\ Unfinished = {} /\ live.source["db"] = Absent
    BY <1>1 DEF OpenFresh, Orderly, SourcesAgree, OneUnfinished
  <2>2. disk.source["wal"] = Absent
    BY <2>1 DEF Orderly, Matched, SidecarKnown, StatesAgree, Unfinished, There
  <2>3. /\ live'.source["db"] = Fresh /\ disk'.source = live'.source
        /\ live'.source["wal"] \in {Absent, Fresh}
    BY <1>1, <2>1, <2>2, TypeFacts DEF OpenFresh, Established, FileSystems, Files
  <2> QED
    BY <1>0, <2>3 DEF SidecarKnown
<1>2. CASE Decay
  <2>1. live'.source["db"] = Fresh /\ disk'.source["db"] = Fresh /\ Fresh \in bad'
    BY <1>2, TypeFacts DEF Decay, Established, FileSystems, Files
  <2> QED
    BY <1>0, <2>1 DEF SidecarKnown
<1>3. CASE bad' = bad /\ \A f \in Files : disk'.source[f] \in {Absent, disk.source[f]}
  <2>1. /\ disk'.source["db"] \in {Absent, disk.source["db"]}
        /\ disk'.source["wal"] \in {Absent, disk.source["wal"]}
    BY <1>3 DEF Files
  <2>2. ASSUME live'.source["db"] = Absent, disk'.source["wal"] # Absent
        PROVE  \E i \in Ids : live'.incident[i].state = "Ready" /\ disk'.incident[i].state = "Ready"
    <3>1. CASE live.source["db"] = Absent
      <4>1. PICK i \in Ids : live.incident[i].state = "Ready" /\ disk.incident[i].state = "Ready"
        BY <2>1, <2>2, <3>1 DEF Orderly, Matched, SidecarKnown
      <4> QED
        BY <2>1, <2>2, <3>1, <4>1, ReadyStays
    <3>2. CASE RemoveOriginal
      <4>1. /\ job.inc \in Ids /\ live.incident[job.inc].state = "Ready" /\ disk' = disk
            /\ disk.incident[job.inc].state = "Ready" /\ live'.incident = live.incident
        BY <3>2, TypeFacts DEF RemoveOriginal, Orderly, Stages, RemovalStage, StatesAgree, Here, Established,
                               Typed, CallTyped, FileSystems
      <4> QED
        BY <4>1
    <3> QED
      BY <2>2, <3>1, <3>2, DatabaseGoes DEF Established
  <2> QED
    BY <1>3, <2>1, <2>2 DEF SidecarKnown, Orderly, Matched
<1> QED
  BY <1>1, <1>2, <1>3, MediumSources DEF Established

-----------------------------------------------------------------------------
LEMMA OrderlyKept ==
    ASSUME Established, Orderly, ~Contested, ~TornState, [Next]_vars
    PROVE  Orderly'
<1>1. CASE Next
  <2>1. StatesAgree' /\ SourcesAgree' /\ TodoThere' /\ Stages'
    BY <1>1, StatesKept, SourcesKept, TodoKept, StagesKept DEF Established, Orderly, Purged
  <2>2. OneUnfinished'
    BY <1>1, SingleKept, PlacedMoves DEF OneUnfinished, Placed
  <2>3. Matched'
    BY <1>1, GoneKept, MatchesKept, SidecarKept DEF Matched
  <2> QED
    BY <2>1, <2>2, <2>3 DEF Orderly
<1>2. CASE UNCHANGED vars
  BY <1>2 DEF vars, Orderly, StatesAgree, SourcesAgree, OneUnfinished, Unfinished, There, TodoThere, Stages,
              RemovalStage, CopyingStage, Matched, DatabaseGone, ReadyMatches, SidecarKnown, Here, NextErased,
              NextCopied, NextRemoved, WritingPhase, Family, FamilyMatches
<1> QED
  BY <1>1, <1>2

LEMMA InitOrderly == Init => Orderly
BY DEF Init, Orderly, StatesAgree, SourcesAgree, OneUnfinished, Unfinished, There, TodoThere, Stages,
       RemovalStage, CopyingStage, Matched, DatabaseGone, ReadyMatches, SidecarKnown, WritingPhase,
       NoIncident, Idle, Keeping, Writing, Copying, Erasing, Files, Absent

\* A start takes up what is there, and there is nothing among it that it refuses.
LEMMA NothingRefused ==
    ASSUME Established, Orderly, Next
    PROVE  pc' # "stuck"
<1> USE DEF Goto, Established, Typed, TypeOK, Jobs
<1>1. CASE Start
  BY <1>1 DEF Start
<1>2. CASE ReconcileDone
  BY <1>2 DEF ReconcileDone
<1>3. ASSUME NEW i \in Ids, ReconcileRefused(i)
      PROVE  pc' # "stuck"
  <2>1. i \in job.todo /\ pc = "reconcile"
    BY <1>3, TodoFirst DEF ReconcileRefused, Reconciling, Established
  <2>2. live.incident[i].there /\ live.incident[i].state = disk.incident[i].state
        /\ live.incident[i].state # "damaged"
    BY <2>1 DEF Orderly, TodoThere, StatesAgree
  <2>3. live.source["db"] = Absent => live.incident[i].state \in Keeping
    BY <2>2 DEF Orderly, Matched, DatabaseGone, There
  <2>4. live.incident[i].state \in Keeping => CopiesValid(i)
    <3> SUFFICES ASSUME live.incident[i].state \in Keeping, NEW f \in Family(i)
                 PROVE  live.incident[i].copy[f] \in Versions
        BY DEF CopiesValid
    <3>1. f \in Files /\ listed[i][f] # Absent /\ live.incident[i].copy[f] = listed[i][f]
      BY DEF Family, Established, Vaulting, KeptListed, CopiesListed
    <3> QED
      BY <3>1 DEF Established, Typed, TypeOK
  <2> QED
    BY <1>3, <2>2, <2>3, <2>4 DEF ReconcileRefused, Keeping
<1>4. ASSUME NEW i \in Ids, ReconcileErase(i)
      PROVE  pc' # "stuck"
  BY <1>4 DEF ReconcileErase
<1>5. ASSUME NEW i \in Ids, ReconcileReady(i)
      PROVE  pc' # "stuck"
  BY <1>5 DEF ReconcileReady
<1>6. ASSUME NEW i \in Ids, ReconcileFinalized(i)
      PROVE  pc' # "stuck"
  BY <1>6 DEF ReconcileFinalized, Reconciling
<1>7. CASE WriteTemp
  BY <1>7 DEF WriteTemp
<1>8. CASE WriteSynced
  BY <1>8 DEF WriteSynced
<1>9. CASE WriteRenamed
  BY <1>9 DEF WriteRenamed
<1>10. CASE WriteDone
  BY <1>10 DEF WriteDone, AfterWrite, Phases
<1>11. CASE FinalizeChanged
  BY <1>11 DEF FinalizeChanged
<1>12. CASE FinalizeBegin
  BY <1>12 DEF FinalizeBegin
<1>13. CASE RemoveOriginal
  BY <1>13 DEF RemoveOriginal
<1>14. CASE RemoveChanged \/ RemoveCompared \/ RemoveAbsent \/ RemoveFailed
  BY <1>14 DEF RemoveChanged, RemoveCompared, RemoveAbsent, RemoveFailed
<1>15. CASE RemoveDone
  BY <1>15 DEF RemoveDone
<1>16. CASE Identify
  BY <1>16 DEF Identify
<1>17. CASE OpenFresh
  BY <1>17 DEF OpenFresh
<1>18. CASE OpenUsable
  BY <1>18 DEF OpenUsable
<1>19. CASE OpenUnusable
  BY <1>19 DEF OpenUnusable
<1>20. CASE QuarantineChanged
  BY <1>20 DEF QuarantineChanged
<1>21. ASSUME NEW i \in Ids, QuarantineMade(i)
      PROVE  pc' # "stuck"
  BY <1>21 DEF QuarantineMade
<1>22. CASE QuarantineFull
  BY <1>22 DEF QuarantineFull
<1>23. CASE QuarantineListed
  BY <1>23 DEF QuarantineListed
<1>24. CASE CopyCreate
  BY <1>24 DEF CopyCreate
<1>25. CASE CopyWrite
  BY <1>25 DEF CopyWrite
<1>26. CASE CopySync
  BY <1>26 DEF CopySync
<1>27. CASE CopiesSynced
  BY <1>27 DEF CopiesSynced
<1>28. CASE Revalidate
  BY <1>28 DEF Revalidate
<1>29. CASE Changed
  BY <1>29 DEF Changed
<1>30. CASE EraseOverwrite
  BY <1>30 DEF EraseOverwrite
<1>31. CASE EraseState
  BY <1>31 DEF EraseState
<1>32. CASE EraseUnlink
  BY <1>32 DEF EraseUnlink
<1>33. CASE EraseSynced
  BY <1>33 DEF EraseSynced
<1>34. CASE EraseDirectory
  BY <1>34 DEF EraseDirectory
<1>35. CASE EraseDone
  BY <1>35 DEF EraseDone
<1>36. ASSUME NEW i \in Ids, PurgeNext(i)
      PROVE  pc' # "stuck"
  BY <1>36 DEF PurgeNext
<1>37. CASE PurgeDone
  BY <1>37 DEF PurgeDone
<1>38. CASE PurgeBegin
  BY <1>38 DEF PurgeBegin
<1>39. CASE Exit
  BY <1>39 DEF Exit
<1>40. CASE Crash
  BY <1>40 DEF Crash
<1>41. CASE PowerLoss
  BY <1>41 DEF PowerLoss
<1>42. CASE Decay
  BY <1>42 DEF Decay
<1>43. CASE TakeSidecar
  BY <1>43 DEF TakeSidecar
<1>44. ASSUME NEW f \in Files, NEW usable \in BOOLEAN, Touch(f, usable)
      PROVE  pc' # "stuck"
  BY <1>44 DEF Touch
<1> QED
  BY <1>1, <1>2, <1>3, <1>4, <1>5, <1>6, <1>7, <1>8, <1>9, <1>10, <1>11, <1>12, <1>13,
     <1>14, <1>15, <1>16, <1>17, <1>18, <1>19, <1>20, <1>21, <1>22, <1>23, <1>24, <1>25,
     <1>26, <1>27, <1>28, <1>29, <1>30, <1>31, <1>32, <1>33, <1>34, <1>35, <1>36, <1>37,
     <1>38, <1>39, <1>40, <1>41, <1>42, <1>43, <1>44
     DEF Next, Work, Reconcile, Write, Finalize, Open, Quarantine, Erase, Others

LEMMA OrderlyClean == Established /\ Orderly => FreshIsClean
BY DEF Established, Vaulting, OpenUsed, Orderly, SourcesAgree, Matched, SidecarKnown, FreshIsClean

\* Wherever a start was killed or lost power, the next one finds a quarantine that
\* it accepts; no original that recovery removed is lost; and an open database has
\* no sidecar that was another's.  That nobody else writes the files, and that a
\* state.json is removed at once, are needed: see the runs `leftover` and `torn`.
THEOREM StartsAreSound ==
    ASSUME ~Contested, ~TornState
    PROVE  Spec => []StorageSound
<1>1. Init => Orderly /\ NeverStuck
  BY InitOrderly DEF Init, NeverStuck
<1>2. Typed /\ Displaced /\ Safeguarded /\ Purged /\ [Next]_vars => Purged'
  BY PurgedKept
<1>3. Typed /\ Displaced /\ Safeguarded /\ Purged /\ Vaulting /\ [Next]_vars => Vaulting'
  BY VaultingKept
<1>4. Typed /\ Displaced /\ Safeguarded /\ Purged /\ Vaulting /\ Orderly /\ NeverStuck /\ [Next]_vars
         => Orderly' /\ NeverStuck'
  BY OrderlyKept, NothingRefused DEF Established, NeverStuck, vars
<1>5. Typed /\ Displaced /\ Safeguarded /\ Purged /\ Vaulting /\ Orderly /\ NeverStuck => StorageSound
  BY OrderlyClean DEF Established, StorageSound, Safeguarded
<1> QED
  BY <1>1, <1>2, <1>3, <1>4, <1>5, InitPurged, InitVaulting, AllSafeguarded, PTL DEF Spec
=============================================================================
