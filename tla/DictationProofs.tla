---------------------------- MODULE DictationProofs ----------------------------
(***************************************************************************)
(* What a dictation promises, for any number of recordings, sessions and   *)
(* failures.  Two mutexes are taken one after the other, so the invariant  *)
(* says for every moment between two of them which thread is still going   *)
(* to end what another one has left: the recording, its microphone, the    *)
(* hold and the session.                                                   *)
(***************************************************************************)
EXTENDS Dictation, TLAPS

DictationBounds == MaxRecordings \in Nat /\ MaxSessions \in Nat /\ MaxEvents \in Nat

RecordTypes ==
    [target : {"Inline", "Companion"}, modifier : BOOLEAN, phase : Phases,
     mic : {"none", "open", "stopped"}, token : BOOLEAN, task : Tasks,
     home : 0..MaxSessions, into : 0..MaxSessions, left : BOOLEAN, wiped : BOOLEAN, ends : Nat]
FlowTypes ==
    [at : Steps, rec : 0..MaxRecordings, home : 0..MaxSessions, rewrite : BOOLEAN,
     whole : BOOLEAN]
SessionTypes == [id : 0..MaxSessions, kind : {"none", "dictation", "rewrite"}]

Types ==
    /\ recs \in Seq(RecordTypes) /\ Len(recs) <= MaxRecordings
    /\ active \in 0..Len(recs) /\ owner \in 0..Len(recs)
    /\ held \in BOOLEAN /\ down \in BOOLEAN
    /\ session \in SessionTypes /\ sessions \in 0..MaxSessions
    /\ actor \in [Actors -> FlowTypes] /\ events \in 0..MaxEvents

\* The coordinator has the recordings whose outcome is still open.
Live == {"none", "start", "opened", "run", "stalled", "overflow"}

\* A recording that is the active one has no end yet unless it is being cancelled, and one
\* that no task works for yet is the one the hold is about to attach.
RecordSound(i, r) ==
    /\ active = i <=> r.task \in Live
    /\ r.ends = IF r.phase = "Cancelling" \/ r.task \notin Live THEN 1 ELSE 0
    /\ r.task \in {"text", "blank", "bad"} => r.phase # "Cancelling"
    /\ r.task = "none" => At("keys", "attach") /\ Rec("keys") = i
    /\ r.task = "overflow" => r.token /\ r.phase = "Cancelling"
    /\ r.target = "Inline" <=> r.modifier /\ r.home # 0

\* Its text went home or its hold was cancelled; as long as its text may come, the hold is
\* its own.
RecordHome(i, r) ==
    /\ r.into = 0 \/ r.task = "done"
    /\ r.into \in {0, r.home} \/ r.left \/ r.wiped
    /\ r.target = "Inline" /\ r.task \notin {"none", "wipe", "done"}
       /\ r.phase # "Cancelling" => owner = i \/ r.left \/ r.wiped

\* Somebody is about to stop its microphone: the thread that cancelled it, or, when the key
\* was let go, the one that ends the hold.
Watched(i, r) ==
    /\ r.task \in {"run", "stalled"} /\ r.mic = "open" /\ ~r.token /\ r.phase = "Cancelling" =>
          \E a \in Actors : actor[a].at \in {"emit", "effect"} /\ Rec(a) = i
    /\ r.task \in {"run", "stalled"} /\ r.phase = "Finalizing" => r.mic # "open"
    /\ r.modifier /\ ~r.wiped /\ r.task \in Live \ {"none"}
       /\ r.phase \in {"Opening", "Listening"} =>
          \/ down /\ held /\ owner = i
          \/ At("keys", "finalize") /\ Rec("keys") = i
          \/ \E a \in Actors : At(a, "cancel") /\ Rec(a) = i

RecordsSound ==
    \A i \in DOMAIN recs :
        RecordSound(i, recs[i]) /\ RecordHome(i, recs[i]) /\ Watched(i, recs[i])

\* What each thread knows between two steps: a hold is not attached while it is begun, and
\* a recording that a thread cancels is there.
FlowsSound ==
    /\ actor["windows"].at \in {"idle", "cancel", "emit", "effect", "wipe"}
    /\ actor["windows"].home = 0 /\ ~actor["windows"].rewrite
    /\ actor["keys"].at \in {"idle", "aim"} => actor["keys"].home = 0
    /\ actor["keys"].at \in {"aim", "take", "reserve", "attach", "abort"} => owner = 0 /\ down
    /\ At("keys", "attach") =>
          /\ Rec("keys") \in DOMAIN recs
          /\ recs[Rec("keys")].task = "none" /\ recs[Rec("keys")].modifier
          /\ recs[Rec("keys")].home = actor["keys"].home
    /\ actor["keys"].at \in {"reserve", "attach"} /\ session.kind = "dictation" =>
          session.id = actor["keys"].home
    /\ At("keys", "finalize") => Rec("keys") \in DOMAIN recs
    /\ \A a \in Actors :
          /\ actor[a].at \in {"cancel", "emit", "effect"} => Rec(a) \in DOMAIN recs
          /\ actor[a].at \in {"emit", "effect"} => recs[Rec(a)].phase = "Cancelling"

\* Who ends the session of a hold: its recording, or a thread that is on its way to it.
Good(r) == r.task \in {"overflow", "wipe"} \/ (r.phase # "Cancelling" /\ r.task # "done")
Ending ==
    \E a \in Actors :
        \/ actor[a].at \in {"take", "abort", "emit", "wipe"}
        \/ actor[a].at \in {"cancel", "effect"} /\ actor[a].whole

HoldsSound ==
    /\ session.kind = "dictation" => session.id # 0
    /\ owner # 0 =>
          /\ recs[owner].modifier /\ recs[owner].task # "none"
          /\ session.kind = "dictation" => session.id = recs[owner].home
          /\ recs[owner].target = "Inline" =>
                recs[owner].wiped \/ Good(recs[owner]) \/ \E a \in Actors : At(a, "emit")
    /\ session.kind = "dictation" =>
          \/ Ending \/ At("keys", "reserve")
          \/ At("keys", "attach") /\ recs[Rec("keys")].phase # "Cancelling"
          \/ owner # 0 /\ Good(recs[owner])

DictationInv == Types /\ FlowsSound /\ HoldsSound /\ RecordsSound

-----------------------------------------------------------------------------
(***************************************************************************)
(* Sequences, records and threads.                                         *)
(***************************************************************************)
\* One entry of a sequence is replaced.
LEMMA Mapped ==
    ASSUME NEW S, NEW s \in Seq(S), NEW t, t = [i \in DOMAIN s |-> t[i]],
           \A i \in DOMAIN s : t[i] \in S
    PROVE  t \in Seq(S) /\ Len(t) = Len(s) /\ DOMAIN t = DOMAIN s
OBVIOUS

\* A recording of which nothing but being passed over has changed.
Alike(r, s) ==
    /\ s.target = r.target /\ s.modifier = r.modifier /\ s.phase = r.phase /\ s.mic = r.mic
    /\ s.token = r.token /\ s.task = r.task /\ s.home = r.home /\ s.into = r.into
    /\ s.left = r.left /\ s.ends = r.ends /\ (r.wiped => s.wiped)
Left(r, s) ==
    /\ s.target = r.target /\ s.modifier = r.modifier /\ s.phase = r.phase /\ s.mic = r.mic
    /\ s.token = r.token /\ s.task = r.task /\ s.home = r.home /\ s.into = r.into
    /\ s.wiped = r.wiped /\ s.ends = r.ends /\ (r.left => s.left)
Passed(r, s) == Alike(r, s) /\ (r.phase # "Cancelling" /\ r.task # "done" => s.wiped)

\* What a cancellation passes over is marked, and nothing else.
LEMMA WipedRecords ==
    ASSUME NEW rs \in Seq(RecordTypes)
    PROVE  /\ Wiped(rs) \in Seq(RecordTypes) /\ Len(Wiped(rs)) = Len(rs)
           /\ DOMAIN Wiped(rs) = DOMAIN rs
           /\ \A i \in DOMAIN rs : Passed(rs[i], Wiped(rs)[i])
<1>1. \A i \in DOMAIN rs : rs[i] \in RecordTypes
  OBVIOUS
<1>2. \A i \in DOMAIN rs : Wiped(rs)[i] =
        [rs[i] EXCEPT !.wiped = rs[i].wiped
                \/ (rs[i].phase # "Cancelling" /\ rs[i].task # "done")]
  BY DEF Wiped
<1>3. ASSUME NEW i \in DOMAIN rs
      PROVE  Wiped(rs)[i] \in RecordTypes /\ Passed(rs[i], Wiped(rs)[i])
  <2>1. ASSUME NEW b \in BOOLEAN, rs[i].wiped => b
        PROVE  /\ [rs[i] EXCEPT !.wiped = b] \in RecordTypes
               /\ Alike(rs[i], [rs[i] EXCEPT !.wiped = b])
               /\ [rs[i] EXCEPT !.wiped = b].wiped = b
    BY <1>1, <2>1 DEF RecordTypes, Alike
  <2>2. PICK b \in BOOLEAN :
                b = (rs[i].wiped \/ (rs[i].phase # "Cancelling" /\ rs[i].task # "done"))
    BY <1>1 DEF RecordTypes
  <2>3. Wiped(rs)[i] = [rs[i] EXCEPT !.wiped = b]
    BY <1>2, <2>2
  <2> QED
    BY <2>1, <2>2, <2>3 DEF Passed
<1>4. Wiped(rs) = [i \in DOMAIN rs |-> Wiped(rs)[i]]
  BY DEF Wiped
<1> HIDE DEF Wiped
<1> QED
  BY <1>3, <1>4, Mapped

LEMMA ReplacedRecord ==
    ASSUME NEW rs \in Seq(RecordTypes), NEW k \in DOMAIN rs, NEW r \in RecordTypes
    PROVE  /\ [rs EXCEPT ![k] = r] \in Seq(RecordTypes) /\ Len([rs EXCEPT ![k] = r]) = Len(rs)
           /\ DOMAIN [rs EXCEPT ![k] = r] = DOMAIN rs
           /\ \A i \in DOMAIN rs : [rs EXCEPT ![k] = r][i] = IF i = k THEN r ELSE rs[i]
OBVIOUS

\* One thread goes on, or returns.
LEMMA Goes ==
    ASSUME actor \in [Actors -> FlowTypes], NEW a \in Actors, NEW step \in Steps,
           actor' = [actor EXCEPT ![a].at = step]
    PROVE  /\ actor' \in [Actors -> FlowTypes] /\ actor'[a].at = step
           /\ actor'[a].rec = actor[a].rec /\ actor'[a].home = actor[a].home
           /\ actor'[a].whole = actor[a].whole /\ actor'[a].rewrite = actor[a].rewrite
           /\ \A b \in Actors : b # a => actor'[b] = actor[b]
<1>1. actor[a] \in FlowTypes
  OBVIOUS
<1>2. actor'[a] = [actor[a] EXCEPT !.at = step]
  OBVIOUS
<1>3. actor'[a] \in FlowTypes
  BY <1>1, <1>2 DEF FlowTypes
<1>4. actor' = [actor EXCEPT ![a] = actor'[a]]
  OBVIOUS
<1>5. actor' \in [Actors -> FlowTypes]
  BY <1>3, <1>4
<1> QED
  BY <1>1, <1>2, <1>5 DEF FlowTypes

\* A thread has nothing left to do.
LEMMA Returns ==
    ASSUME DictationBounds, actor \in [Actors -> FlowTypes], NEW a \in Actors, Return(a)
    PROVE  /\ actor' \in [Actors -> FlowTypes] /\ actor'[a].at = "idle"
           /\ actor'[a].home = 0 /\ actor'[a].rewrite = FALSE
           /\ \A b \in Actors : b # a => actor'[b] = actor[b]
<1>1. Idle \in FlowTypes /\ Idle.at = "idle" /\ Idle.home = 0 /\ Idle.rewrite = FALSE
  BY DEF Idle, FlowTypes, DictationBounds, Steps
<1> QED
  BY <1>1 DEF Return

\* A thread sets out on the recording it is given.
LEMMA FlowSet ==
    ASSUME actor \in [Actors -> FlowTypes], NEW a \in Actors, NEW step \in Steps,
           NEW k \in 0..MaxRecordings, actor' = [actor EXCEPT ![a].at = step, ![a].rec = k]
    PROVE  /\ actor' \in [Actors -> FlowTypes] /\ actor'[a].at = step
           /\ actor'[a].rec = k /\ actor'[a].home = actor[a].home
           /\ actor'[a].whole = actor[a].whole /\ actor'[a].rewrite = actor[a].rewrite
           /\ \A b \in Actors : b # a => actor'[b] = actor[b]
<1>1. actor[a] \in FlowTypes
  OBVIOUS
<1>2. actor'[a] = [actor[a] EXCEPT !.at = step, !.rec = k]
  OBVIOUS
<1>3. actor'[a] \in FlowTypes
  BY <1>1, <1>2 DEF FlowTypes
<1>4. actor' = [actor EXCEPT ![a] = actor'[a]]
  OBVIOUS
<1>5. actor' \in [Actors -> FlowTypes]
  BY <1>3, <1>4
<1> QED
  BY <1>1, <1>2, <1>5 DEF FlowTypes

\* No session is one of the sessions.
LEMMA NoSessionType ==
    ASSUME DictationBounds
    PROVE  NoSession \in SessionTypes /\ NoSession.kind = "none"
BY DEF NoSession, SessionTypes, DictationBounds

\* What becomes of a recording.
LEMMA FinalizedType ==
    ASSUME NEW r \in RecordTypes
    PROVE  /\ Finalized(r) \in RecordTypes
           /\ Finalized(r).target = r.target /\ Finalized(r).modifier = r.modifier
           /\ Finalized(r).phase = (IF r.phase \in {"Opening", "Listening"}
                                    THEN "Finalizing" ELSE r.phase)
           /\ Finalized(r).mic = (IF r.phase \in {"Opening", "Listening"} /\ r.mic = "open"
                                  THEN "stopped" ELSE r.mic)
           /\ Finalized(r).token = r.token /\ Finalized(r).task = r.task
           /\ Finalized(r).home = r.home /\ Finalized(r).into = r.into
           /\ Finalized(r).left = r.left
           /\ Finalized(r).wiped = r.wiped /\ Finalized(r).ends = r.ends
<1>1. CASE r.phase \in {"Opening", "Listening"} /\ r.mic = "open"
  BY <1>1 DEF Finalized, RecordTypes, Phases
<1>2. CASE r.phase \in {"Opening", "Listening"} /\ r.mic # "open"
  BY <1>2 DEF Finalized, RecordTypes, Phases
<1>3. CASE ~(r.phase \in {"Opening", "Listening"})
  BY <1>3 DEF Finalized
<1> QED
  BY <1>1, <1>2, <1>3

\* request_cancel and overflow_active end it once.
LEMMA CancelledType ==
    ASSUME NEW r \in RecordTypes
    PROVE  /\ CancelledRec(r) \in RecordTypes
           /\ CancelledRec(r).target = r.target /\ CancelledRec(r).modifier = r.modifier
           /\ CancelledRec(r).phase = "Cancelling" /\ CancelledRec(r).mic = r.mic
           /\ CancelledRec(r).token = r.token /\ CancelledRec(r).task = r.task
           /\ CancelledRec(r).home = r.home /\ CancelledRec(r).into = r.into
           /\ CancelledRec(r).left = r.left /\ CancelledRec(r).wiped = r.wiped
           /\ CancelledRec(r).ends = r.ends + 1
<1>1. r.ends \in Nat /\ r.ends + 1 \in Nat
  BY DEF RecordTypes
<1> QED
  BY <1>1 DEF CancelledRec, RecordTypes, Phases

\* complete and fail end it unless its end was told.
LEMMA EndedType ==
    ASSUME NEW r \in RecordTypes, NEW what \in Tasks
    PROVE  /\ Ended(r, what) \in RecordTypes
           /\ Ended(r, what).target = r.target /\ Ended(r, what).modifier = r.modifier
           /\ Ended(r, what).phase = r.phase /\ Ended(r, what).mic = r.mic
           /\ Ended(r, what).token = TRUE
           /\ Ended(r, what).task = (IF r.phase = "Cancelling" THEN "done" ELSE what)
           /\ Ended(r, what).home = r.home /\ Ended(r, what).into = r.into
           /\ Ended(r, what).left = r.left /\ Ended(r, what).wiped = r.wiped
           /\ Ended(r, what).ends = (IF r.phase = "Cancelling" THEN r.ends ELSE r.ends + 1)
<1>1. CASE r.phase = "Cancelling"
  BY <1>1 DEF Ended, RecordTypes, Tasks
<1>2. CASE r.phase # "Cancelling"
  <2>1. r.ends \in Nat /\ r.ends + 1 \in Nat
    BY DEF RecordTypes
  <2> QED
    BY <1>2, <2>1 DEF Ended, RecordTypes, Tasks
<1> QED
  BY <1>1, <1>2

\* A hold is taken back.
LEMMA Takes ==
    ASSUME DictationBounds, Types, NEW a \in Actors, NEW rewrite \in BOOLEAN, Take(a, rewrite)
    PROVE  /\ held' = FALSE /\ owner' = 0
           /\ actor' \in [Actors -> FlowTypes] /\ actor'[a].home = actor[a].home
           /\ actor'[a].rec = owner /\ actor'[a].whole /\ actor'[a].rewrite = rewrite
           /\ actor'[a].at = IF owner = 0 THEN "wipe" ELSE "cancel"
           /\ \A b \in Actors : b # a => actor'[b] = actor[b]
           /\ recs' \in Seq(RecordTypes) /\ Len(recs') = Len(recs) /\ DOMAIN recs' = DOMAIN recs
           /\ owner # 0 => owner \in DOMAIN recs
           /\ \A i \in DOMAIN recs : Left(recs[i], recs'[i]) /\ (i = owner => recs'[i].left)
<1>t. /\ actor[a] \in FlowTypes /\ owner \in 0..Len(recs) /\ Len(recs) \in Nat
      /\ DOMAIN recs = 1..Len(recs)
      /\ owner \in 0..MaxRecordings /\ actor \in [Actors -> FlowTypes]
      /\ recs \in Seq(RecordTypes) /\ \A i \in DOMAIN recs : recs[i] \in RecordTypes
  BY DEF Types, DictationBounds
<1>1. PICK step \in {"wipe", "cancel"} : step = IF owner = 0 THEN "wipe" ELSE "cancel"
  OBVIOUS
<1>2. actor' = [actor EXCEPT ![a] = [actor[a] EXCEPT !.at = step, !.rec = owner,
      !.rewrite = rewrite, !.whole = TRUE]]
  BY <1>1 DEF Take
<1>3. [actor[a] EXCEPT !.at = step, !.rec = owner, !.rewrite = rewrite, !.whole = TRUE] \in
              FlowTypes
  BY <1>t DEF FlowTypes, Steps
<1>4. /\ actor' \in [Actors -> FlowTypes] /\ actor'[a].home = actor[a].home
      /\ actor'[a].rec = owner /\ actor'[a].whole /\ actor'[a].rewrite = rewrite
      /\ actor'[a].at = step /\ \A b \in Actors : b # a => actor'[b] = actor[b]
  BY <1>2, <1>3, <1>t DEF FlowTypes
<1>5. CASE owner = 0
  <2>1. recs' = recs
    BY <1>5 DEF Take
  <2>2. \A i \in DOMAIN recs : Left(recs[i], recs[i])
    BY DEF Left
  <2> QED
    BY <1>1, <1>4, <1>5, <1>t, <2>1, <2>2 DEF Take
<1>6. CASE owner # 0
  <2>0. owner \in DOMAIN recs
    BY <1>6, <1>t
  <2>1. recs' = [recs EXCEPT ![owner] = [recs[owner] EXCEPT !.left = TRUE]]
    BY <1>6 DEF Take
  <2>2. [recs[owner] EXCEPT !.left = TRUE] \in RecordTypes
    BY <2>0, <1>t DEF RecordTypes
  <2>3. /\ recs' \in Seq(RecordTypes) /\ Len(recs') = Len(recs) /\ DOMAIN recs' = DOMAIN recs
        /\ \A i \in DOMAIN recs :
                recs'[i] = IF i = owner THEN [recs[owner] EXCEPT !.left = TRUE] ELSE recs[i]
    BY <2>0, <2>1, <2>2, <1>t, ReplacedRecord
  <2>4. LET r == recs[owner] IN Left(r, [r EXCEPT !.left = TRUE]) /\ [r EXCEPT !.left = TRUE].left
    BY <2>0, <1>t DEF RecordTypes, Left
  <2>5. ASSUME NEW i \in DOMAIN recs
        PROVE  Left(recs[i], recs'[i]) /\ (i = owner => recs'[i].left)
    <3>1. CASE i = owner
      BY <3>1, <2>3, <2>4
    <3>2. CASE i # owner
      <4>1. recs'[i] = recs[i]
        BY <2>3, <3>2
      <4> QED
        BY <4>1, <3>2 DEF Left
    <3> QED
      BY <3>1, <3>2
  <2> QED
    BY <1>1, <1>4, <1>6, <2>0, <2>3, <2>5 DEF Take
<1> QED
  BY <1>5, <1>6

\* A recording is replaced, and a cancellation passes over the others.
LEMMA Put ==
    ASSUME recs \in Seq(RecordTypes), NEW k \in DOMAIN recs, NEW r \in RecordTypes,
           recs' = [recs EXCEPT ![k] = r]
    PROVE  /\ recs' \in Seq(RecordTypes) /\ Len(recs') = Len(recs) /\ DOMAIN recs' = DOMAIN recs
           /\ recs'[k] = r /\ \A i \in DOMAIN recs : i # k => recs'[i] = recs[i]
OBVIOUS

\* The same, where a cancellation passes over the others.
LEMMA PutWiped ==
    ASSUME recs \in Seq(RecordTypes), NEW k \in DOMAIN recs, NEW r \in RecordTypes,
           recs' = Wiped([recs EXCEPT ![k] = r])
    PROVE  /\ recs' \in Seq(RecordTypes) /\ Len(recs') = Len(recs) /\ DOMAIN recs' = DOMAIN recs
           /\ Passed(r, recs'[k]) /\ \A i \in DOMAIN recs : i # k => Passed(recs[i], recs'[i])
<1> DEFINE rs == [recs EXCEPT ![k] = r]
<1>1. rs \in Seq(RecordTypes) /\ Len(rs) = Len(recs) /\ DOMAIN rs = DOMAIN recs
      /\ \A i \in DOMAIN recs : rs[i] = IF i = k THEN r ELSE recs[i]
  BY ReplacedRecord
<1>2. recs' = Wiped(rs)
  OBVIOUS
<1> HIDE DEF rs
<1>3. /\ Len(Wiped(rs)) = Len(rs) /\ Wiped(rs) \in Seq(RecordTypes)
      /\ DOMAIN Wiped(rs) = DOMAIN rs
      /\ \A i \in DOMAIN rs : Passed(rs[i], Wiped(rs)[i])
  BY <1>1, WipedRecords
<1> QED
  BY <1>1, <1>2, <1>3

-----------------------------------------------------------------------------
(***************************************************************************)
(* The thread of the keys.                                                 *)
(***************************************************************************)
\* A hold starts.
LEMMA HoldStartedKeeps == ASSUME DictationBounds, DictationInv, HoldStarted PROVE DictationInv'
<1>1. /\ actor["keys"].at = "idle" /\ ~down /\ down' = TRUE
      /\ \/ held' = held /\ actor' = actor
         \/ owner = 0 /\ held' = TRUE /\ Goto("keys", "aim")
      /\ UNCHANGED <<active, recs, owner, session, sessions, events>>
  BY DEF HoldStarted, At
<1>n. /\ Len(recs) \in Nat /\ DOMAIN recs = 1..Len(recs)
      /\ \A i \in DOMAIN recs : recs[i] \in RecordTypes
      /\ active \in 0..Len(recs) /\ owner \in 0..Len(recs)
      /\ 0..Len(recs) \subseteq 0..MaxRecordings
      /\ actor \in [Actors -> FlowTypes] /\ \A b \in Actors : actor[b] \in FlowTypes
  BY DEF DictationInv, Types, Actors, DictationBounds
<1>2. /\ actor' \in [Actors -> FlowTypes] /\ actor'["keys"].rec = actor["keys"].rec
      /\ actor'["keys"].home = actor["keys"].home /\ actor'["keys"].whole = actor["keys"].whole
      /\ actor'["keys"].rewrite = actor["keys"].rewrite
      /\ \A b \in Actors : b # "keys" => actor'[b] = actor[b]
      /\ \/ actor'["keys"].at = "idle" /\ held' = held
         \/ actor'["keys"].at = "aim" /\ held' = TRUE /\ owner = 0
  BY <1>1, <1>n, Goes DEF Actors, Goto, Steps
<1>r. recs' = recs
  BY <1>1
<1>3. Types'
  BY <1>1, <1>2, <1>r, <1>n, NoSessionType DEF Types, DictationInv
<1>4. FlowsSound'
  BY <1>1, <1>2, <1>r, <1>n, NoSessionType DEF FlowsSound, At, Rec, Actors, DictationInv, Passed,
     Alike, Left
<1>5. HoldsSound'
  BY <1>1, <1>2, <1>r, <1>n, NoSessionType DEF HoldsSound, FlowsSound, At, Rec, Actors, Ending,
     DictationInv, Good, Passed, Alike, Left
<1>6. ASSUME NEW j \in DOMAIN recs
      PROVE  (RecordSound(j, recs[j]) /\ RecordHome(j, recs[j]) /\ Watched(j, recs[j]))'
  <2>1. RecordSound(j, recs[j]) /\ RecordHome(j, recs[j]) /\ Watched(j, recs[j])
    BY DEF DictationInv, RecordsSound
  <2>2. RecordSound(j, recs[j])'
    BY <1>1, <1>2, <1>r, <1>n, <2>1 DEF RecordSound, At, Rec, Passed, Alike, Left, Live, Actors
  <2>3. RecordHome(j, recs[j])'
    BY <1>1, <1>2, <1>r, <1>n, <2>1 DEF RecordHome, RecordSound, At, Rec, Passed, Alike, Left,
       Actors
  <2>4. Watched(j, recs[j])'
    BY <1>1, <1>2, <1>r, <1>n, <2>1 DEF Watched, RecordSound, At, Rec, Passed, Alike, Left,
       Actors, Live
  <2> QED
    BY <2>2, <2>3, <2>4
<1> QED
  BY <1>r, <1>3, <1>4, <1>5, <1>6 DEF DictationInv, RecordsSound

\* A hold begins its session, or is for the companion.
LEMMA AimKeeps == ASSUME DictationBounds, DictationInv, Aim PROVE DictationInv'
<1>1. /\ actor["keys"].at = "aim"
      /\ UNCHANGED <<active, recs, held, owner, down, events>>
  BY DEF Aim, At
<1>n. /\ Len(recs) \in Nat /\ DOMAIN recs = 1..Len(recs)
      /\ \A i \in DOMAIN recs : recs[i] \in RecordTypes
      /\ active \in 0..Len(recs) /\ owner \in 0..Len(recs)
      /\ 0..Len(recs) \subseteq 0..MaxRecordings
      /\ actor \in [Actors -> FlowTypes] /\ \A b \in Actors : actor[b] \in FlowTypes
      /\ owner = 0 /\ down /\ actor["keys"].home = 0
  BY <1>1 DEF DictationInv, Types, Actors, DictationBounds, FlowsSound, At, Rec
<1>2. /\ actor' \in [Actors -> FlowTypes] /\ \A b \in Actors : b # "keys" => actor'[b] = actor[b]
      /\ session' \in SessionTypes /\ sessions' \in 0..MaxSessions
      /\ \/ /\ actor'["keys"].at = "reserve" /\ session'.kind = "dictation" /\ session'.id # 0
            /\ actor'["keys"].home = session'.id
         \/ /\ session'.kind = "none" /\ actor'["keys"].home = 0 /\ actor'["keys"].at \in
                 {"reserve", "take"}
  <2>1. CASE /\ Begin("dictation")
             /\ actor' = [actor EXCEPT !["keys"].at = "reserve", !["keys"].home = sessions + 1]
    <3>1. /\ session' = [id |-> sessions + 1, kind |-> "dictation"] /\ sessions' = sessions + 1
          /\ sessions \in Nat /\ sessions + 1 \in 0..MaxSessions /\ sessions + 1 # 0
      BY <2>1 DEF Begin, DictationInv, Types, DictationBounds
    <3>2. actor' = [actor EXCEPT !["keys"] = [actor["keys"] EXCEPT !.at = "reserve",
          !.home = sessions + 1]]
      BY <2>1, <1>n
    <3>3. /\ "keys" \in Actors
          /\ [actor["keys"] EXCEPT !.at = "reserve", !.home = sessions + 1] \in FlowTypes
      BY <3>1, <1>n DEF Actors, FlowTypes, Steps
    <3>4. actor' \in [Actors -> FlowTypes] /\ \A b \in Actors : b # "keys" => actor'[b] = actor[b]
      BY <3>2, <3>3, <1>n
    <3>5. actor'["keys"].at = "reserve" /\ actor'["keys"].home = sessions + 1
      BY <3>2, <3>3, <1>n DEF FlowTypes
    <3>6. session'.kind = "dictation" /\ session'.id = sessions + 1 /\ session' \in SessionTypes
      BY <3>1 DEF SessionTypes
    <3> QED
      BY <3>1, <3>4, <3>5, <3>6
  <2>2. ASSUME Dropped, NEW step \in {"reserve", "take"}, Goto("keys", step)
        PROVE  /\ session' = NoSession /\ sessions' = sessions
               /\ actor' \in [Actors -> FlowTypes]
               /\ \A b \in Actors : b # "keys" => actor'[b] = actor[b]
               /\ actor'["keys"].at = step /\ actor'["keys"].home = 0
    <3>1. "keys" \in Actors /\ step \in Steps
      BY DEF Actors, Steps
    <3> QED
      BY <2>2, <3>1, <1>n, Goes DEF Dropped, Goto
  <2> QED
    BY <2>1, <2>2, NoSessionType DEF Aim, DictationInv, Types
<1>r. recs' = recs
  BY <1>1
<1>3. Types'
  BY <1>1, <1>2, <1>r, <1>n, NoSessionType DEF Types, DictationInv
<1>4. FlowsSound'
  BY <1>1, <1>2, <1>r, <1>n, NoSessionType DEF FlowsSound, At, Rec, Actors, DictationInv, Passed,
     Alike, Left
<1>5. HoldsSound'
  BY <1>1, <1>2, <1>r, <1>n, NoSessionType DEF HoldsSound, FlowsSound, At, Rec, Actors, Ending,
     DictationInv, Good, Passed, Alike, Left
<1>6. ASSUME NEW j \in DOMAIN recs
      PROVE  (RecordSound(j, recs[j]) /\ RecordHome(j, recs[j]) /\ Watched(j, recs[j]))'
  <2>1. RecordSound(j, recs[j]) /\ RecordHome(j, recs[j]) /\ Watched(j, recs[j])
    BY DEF DictationInv, RecordsSound
  <2>2. RecordSound(j, recs[j])'
    BY <1>1, <1>2, <1>r, <1>n, <2>1 DEF RecordSound, At, Rec, Passed, Alike, Left, Live, Actors
  <2>3. RecordHome(j, recs[j])'
    BY <1>1, <1>2, <1>r, <1>n, <2>1 DEF RecordHome, RecordSound, At, Rec, Passed, Alike, Left,
       Actors
  <2>4. Watched(j, recs[j])'
    BY <1>1, <1>2, <1>r, <1>n, <2>1 DEF Watched, RecordSound, At, Rec, Passed, Alike, Left,
       Actors, Live
  <2> QED
    BY <2>2, <2>3, <2>4
<1> QED
  BY <1>r, <1>3, <1>4, <1>5, <1>6 DEF DictationInv, RecordsSound

\* A hold reserves its recording, or finds another.
LEMMA ReserveKeeps ==
    ASSUME DictationBounds, DictationInv, Reserve, active = 0
    PROVE  DictationInv'
<1>1. /\ actor["keys"].at = "reserve" /\ active = 0 /\ Len(recs) < MaxRecordings
      /\ recs' = Append(recs, Recording((IF actor["keys"].home = 0 THEN "modifier_chat"
                                         ELSE "modifier_inline"), actor["keys"].home))
      /\ active' = Len(recs) + 1
      /\ actor' = [actor EXCEPT !["keys"].at = "attach", !["keys"].rec = Len(recs) + 1]
      /\ UNCHANGED <<held, owner, session, sessions, down, events>>
  BY DEF Reserve, Reserved, At, inline
<1>n. /\ Len(recs) \in Nat /\ DOMAIN recs = 1..Len(recs)
      /\ \A i \in DOMAIN recs : recs[i] \in RecordTypes
      /\ active \in 0..Len(recs) /\ owner \in 0..Len(recs) /\ recs \in Seq(RecordTypes)
      /\ Len(recs) + 1 \in 1..MaxRecordings
      /\ actor \in [Actors -> FlowTypes] /\ \A b \in Actors : actor[b] \in FlowTypes
      /\ owner = 0 /\ down
      /\ Len(recs) + 1 \in 0..MaxRecordings
  BY <1>1 DEF DictationInv, Types, Actors, DictationBounds, FlowsSound, At
<1>2. /\ actor' \in [Actors -> FlowTypes] /\ actor'["keys"].at = "attach"
      /\ actor'["keys"].rec = Len(recs) + 1
      /\ actor'["keys"].home = actor["keys"].home
      /\ actor'["windows"] = actor["windows"]
  BY <1>1, <1>n, FlowSet DEF Actors, Steps
<1> DEFINE new == Recording((IF actor["keys"].home = 0 THEN "modifier_chat"
                             ELSE "modifier_inline"), actor["keys"].home)
           k == Len(recs) + 1
<1>3. /\ new \in RecordTypes /\ new.modifier
      /\ new.target = (IF actor["keys"].home = 0 THEN "Companion" ELSE "Inline")
      /\ new.home = actor["keys"].home
      /\ new.phase = "Opening" /\ new.mic = "none" /\ ~new.token /\ new.task = "none"
      /\ new.into = 0 /\ ~new.left /\ ~new.wiped /\ new.ends = 0
  <2>1. 0 \in 0..MaxSessions /\ actor["keys"].home \in 0..MaxSessions
    BY <1>n DEF DictationBounds, FlowTypes, Actors
  <2>2. PICK t \in {"manual", "modifier_chat", "modifier_inline"} :
                t = (IF actor["keys"].home = 0 THEN "modifier_chat" ELSE "modifier_inline")
    OBVIOUS
  <2>3. new = Recording(t, actor["keys"].home)
    BY <2>2
  <2> HIDE DEF new
  <2>4. new \in RecordTypes
    BY <2>1, <2>3 DEF Recording, RecordTypes, Phases, Tasks
  <2> QED
    BY <2>1, <2>2, <2>3, <2>4 DEF Recording
<1>u. recs' = Append(recs, new) /\ active' = k
  BY <1>1
<1> HIDE DEF new
<1>r. /\ recs' \in Seq(RecordTypes) /\ Len(recs') = k /\ DOMAIN recs' = 1..k
      /\ \A i \in DOMAIN recs : recs'[i] = recs[i] /\ i \in DOMAIN recs' /\ i # k
      /\ recs'[k] = new /\ k \in DOMAIN recs' /\ k # 0 /\ k \notin DOMAIN recs
      /\ \A i \in DOMAIN recs' : i = k \/ i \in DOMAIN recs
      /\ owner \in 0..k /\ k \in 0..k /\ active' = k
  BY <1>u, <1>3, <1>n
<1>4. Types'
  BY <1>1, <1>2, <1>n, <1>r DEF Types, DictationInv
<1> HIDE DEF k
<1>5. FlowsSound'
  BY <1>1, <1>2, <1>3, <1>n, <1>r DEF FlowsSound, At, Rec, Actors, DictationInv
<1>6. HoldsSound'
  <2>1. owner # 0 => owner \in DOMAIN recs
    BY <1>n
  <2> QED
    BY <1>1, <1>2, <1>3, <1>n, <1>r, <2>1 DEF HoldsSound, FlowsSound, At, Rec, Actors, Ending,
       DictationInv, Good
<1>7. ASSUME NEW j \in DOMAIN recs'
      PROVE  (RecordSound(j, recs[j]) /\ RecordHome(j, recs[j]) /\ Watched(j, recs[j]))'
  <2>1. CASE j = k
    <3>1. RecordSound(j, recs[j])'
      BY <1>1, <1>2, <1>3, <1>r, <2>1 DEF RecordSound, Live, At, Rec
    <3>2. RecordHome(j, recs[j])'
      BY <1>1, <1>2, <1>3, <1>r, <2>1 DEF RecordHome
    <3>3. Watched(j, recs[j])'
      BY <1>1, <1>2, <1>3, <1>r, <2>1 DEF Watched, Live
    <3> QED
      BY <3>1, <3>2, <3>3
  <2>2. CASE j # k
    <3>0. j \in DOMAIN recs /\ recs'[j] = recs[j]
      BY <1>r, <2>2
    <3>1. RecordSound(j, recs[j]) /\ RecordHome(j, recs[j]) /\ Watched(j, recs[j])
      BY <3>0 DEF DictationInv, RecordsSound
    <3>2. RecordSound(j, recs[j])'
      BY <1>1, <1>2, <1>n, <1>r, <2>2, <3>0, <3>1 DEF RecordSound, Live, At, Rec, Actors
    <3>3. RecordHome(j, recs[j])'
      BY <1>1, <3>0, <3>1 DEF RecordHome
    <3>4. Watched(j, recs[j])'
      BY <1>1, <1>2, <1>n, <2>2, <3>0, <3>1 DEF Watched, RecordSound, At, Rec, Actors, Live
    <3> QED
      BY <3>2, <3>3, <3>4
  <2> QED
    BY <2>1, <2>2
<1> QED
  BY <1>4, <1>5, <1>6, <1>7 DEF DictationInv, RecordsSound

LEMMA ReserveAbortKeeps ==
    ASSUME DictationBounds, DictationInv, Reserve, active # 0
    PROVE  DictationInv'
<1>1. /\ actor["keys"].at = "reserve" /\ Goto("keys", "abort")
      /\ UNCHANGED <<active, recs, held, owner, session, sessions, down, events>>
  BY DEF Reserve, At, inline
<1>n. /\ Len(recs) \in Nat /\ DOMAIN recs = 1..Len(recs)
      /\ \A i \in DOMAIN recs : recs[i] \in RecordTypes
      /\ active \in 0..Len(recs) /\ owner \in 0..Len(recs)
      /\ 0..Len(recs) \subseteq 0..MaxRecordings
      /\ actor \in [Actors -> FlowTypes] /\ \A b \in Actors : actor[b] \in FlowTypes
  BY DEF DictationInv, Types, Actors, DictationBounds
<1>2. /\ actor' \in [Actors -> FlowTypes] /\ actor'["keys"].rec = actor["keys"].rec
      /\ actor'["keys"].home = actor["keys"].home /\ actor'["keys"].whole = actor["keys"].whole
      /\ actor'["keys"].rewrite = actor["keys"].rewrite
      /\ \A b \in Actors : b # "keys" => actor'[b] = actor[b]
      /\ actor'["keys"].at = "abort"
  BY <1>1, <1>n, Goes DEF Actors, Goto, Steps
<1>r. recs' = recs
  BY <1>1
<1>3. Types'
  BY <1>1, <1>2, <1>r, <1>n, NoSessionType DEF Types, DictationInv
<1>4. FlowsSound'
  BY <1>1, <1>2, <1>r, <1>n, NoSessionType DEF FlowsSound, At, Rec, Actors, DictationInv, Passed,
     Alike, Left
<1>5. HoldsSound'
  BY <1>1, <1>2, <1>r, <1>n, NoSessionType DEF HoldsSound, FlowsSound, At, Rec, Actors, Ending,
     DictationInv, Good, Passed, Alike, Left
<1>6. ASSUME NEW j \in DOMAIN recs
      PROVE  (RecordSound(j, recs[j]) /\ RecordHome(j, recs[j]) /\ Watched(j, recs[j]))'
  <2>1. RecordSound(j, recs[j]) /\ RecordHome(j, recs[j]) /\ Watched(j, recs[j])
    BY DEF DictationInv, RecordsSound
  <2>2. RecordSound(j, recs[j])'
    BY <1>1, <1>2, <1>r, <1>n, <2>1 DEF RecordSound, At, Rec, Passed, Alike, Left, Live, Actors
  <2>3. RecordHome(j, recs[j])'
    BY <1>1, <1>2, <1>r, <1>n, <2>1 DEF RecordHome, RecordSound, At, Rec, Passed, Alike, Left,
       Actors
  <2>4. Watched(j, recs[j])'
    BY <1>1, <1>2, <1>r, <1>n, <2>1 DEF Watched, RecordSound, At, Rec, Passed, Alike, Left,
       Actors, Live
  <2> QED
    BY <2>2, <2>3, <2>4
<1> QED
  BY <1>r, <1>3, <1>4, <1>5, <1>6 DEF DictationInv, RecordsSound

\* The hold gets its recording; a cancellation that came before is remembered.
LEMMA AttachKeeps == ASSUME DictationBounds, DictationInv, Attach PROVE DictationInv'
<1>1. /\ actor["keys"].at = "attach" /\ Return("keys") /\ owner' = actor["keys"].rec
      /\ UNCHANGED <<active, held, session, sessions, down, events>>
  BY DEF Attach, At, Rec
<1>n. /\ Len(recs) \in Nat /\ DOMAIN recs = 1..Len(recs)
      /\ \A i \in DOMAIN recs : recs[i] \in RecordTypes
      /\ active \in 0..Len(recs) /\ owner \in 0..Len(recs)
      /\ 0..Len(recs) \subseteq 0..MaxRecordings
      /\ actor \in [Actors -> FlowTypes] /\ \A b \in Actors : actor[b] \in FlowTypes
      /\ actor["keys"].rec \in DOMAIN recs /\ actor["keys"].rec # 0
      /\ RecordSound(actor["keys"].rec, recs[actor["keys"].rec])
      /\ owner = 0 /\ down /\ recs[actor["keys"].rec].task = "none"
      /\ recs[actor["keys"].rec].modifier
  BY <1>1 DEF DictationInv, Types, Actors, DictationBounds, FlowsSound, RecordsSound, At, Rec
<1>d. /\ recs \in Seq(RecordTypes) /\ actor["keys"].rec \in DOMAIN recs
      /\ recs[actor["keys"].rec] \in RecordTypes
  BY <1>1, <1>n DEF DictationInv, Types, FlowsSound, Actors, At, Rec
<1> DEFINE r == [recs[actor["keys"].rec] EXCEPT !.task = "start", !.wiped = ~held
        \/ recs[actor["keys"].rec].phase = "Cancelling"]
<1>p. /\ r \in RecordTypes
      /\ r.target = recs[actor["keys"].rec].target
      /\ r.modifier = recs[actor["keys"].rec].modifier
      /\ r.phase = recs[actor["keys"].rec].phase
      /\ r.mic = recs[actor["keys"].rec].mic
      /\ r.token = recs[actor["keys"].rec].token
      /\ r.task = "start"
      /\ r.home = recs[actor["keys"].rec].home
      /\ r.into = recs[actor["keys"].rec].into
      /\ r.left = recs[actor["keys"].rec].left
      /\ (r.wiped => (~held \/ recs[actor["keys"].rec].phase = "Cancelling"))
      /\ ((~held \/ recs[actor["keys"].rec].phase = "Cancelling") => r.wiped)
      /\ r.ends = recs[actor["keys"].rec].ends
  <2>1. PICK late \in BOOLEAN : late = (~held \/ recs[actor["keys"].rec].phase = "Cancelling")
    OBVIOUS
  <2>2. r = [recs[actor["keys"].rec] EXCEPT !.task = "start", !.wiped = late]
    BY <2>1
  <2> HIDE DEF r
  <2> QED
    BY <2>1, <2>2, <1>d DEF RecordTypes, Tasks
<1>u. recs' = [recs EXCEPT ![actor["keys"].rec] = r]
  BY DEF Attach, At, Rec
<1> HIDE DEF r
<1>2. /\ actor' \in [Actors -> FlowTypes] /\ actor'["keys"].at = "idle" /\ actor'["keys"].home = 0
      /\ ~actor'["keys"].rewrite
      /\ \A b \in Actors : b # "keys" => actor'[b] = actor[b]
  BY <1>1, <1>n, Returns DEF Actors
<1>r. /\ recs' \in Seq(RecordTypes) /\ Len(recs') = Len(recs) /\ DOMAIN recs' = DOMAIN recs
      /\ recs'[actor["keys"].rec] = r
      /\ \A i \in DOMAIN recs : i # actor["keys"].rec => recs'[i] = recs[i]
  BY <1>d, <1>p, <1>u, Put
<1>3. Types'
  BY <1>1, <1>2, <1>r, <1>n, NoSessionType DEF Types, DictationInv
<1>4. FlowsSound'
  BY <1>1, <1>2, <1>p, <1>r, <1>n, NoSessionType DEF FlowsSound, At, Rec, Actors, DictationInv,
     Passed, Alike, Left, RecordSound
<1>g. /\ r.modifier /\ r.task # "none" /\ (r.wiped \/ Good(r))
      /\ (recs[actor["keys"].rec].phase # "Cancelling" => Good(r))
      /\ (session.kind = "dictation" => session.id # 0 /\ session.id = r.home)
  BY <1>1, <1>p, <1>n DEF Good, DictationInv, FlowsSound, HoldsSound, At, Rec
<1>5. HoldsSound'
  BY <1>1, <1>2, <1>g, <1>r, <1>n DEF HoldsSound, FlowsSound, At, Rec, Actors, Ending,
     DictationInv
<1>6. ASSUME NEW j \in DOMAIN recs
      PROVE  (RecordSound(j, recs[j]) /\ RecordHome(j, recs[j]) /\ Watched(j, recs[j]))'
  <2>1. RecordSound(j, recs[j]) /\ RecordHome(j, recs[j]) /\ Watched(j, recs[j])
    BY DEF DictationInv, RecordsSound
  <2>8. CASE j = actor["keys"].rec
    <3>2. RecordSound(j, recs[j])'
      BY <1>1, <1>n, <2>8, <1>p, <1>r DEF RecordSound, Live
    <3>3. RecordHome(j, recs[j])'
      BY <1>1, <1>2, <1>n, <2>1, <2>8, <1>p, <1>r DEF RecordHome, RecordSound, At, Rec, Passed,
         Alike, Left, Actors
    <3>4. Watched(j, recs[j])'
      BY <1>1, <1>2, <1>n, <2>1, <2>8, <1>p, <1>r DEF Watched, RecordSound, At, Rec, Passed,
         Alike, Left, Actors, Live
    <3> QED
      BY <3>2, <3>3, <3>4
  <2>9. CASE j # actor["keys"].rec
    <3>1. recs'[j] = recs[j]
      BY <2>9, <1>r
    <3>2. RecordSound(j, recs[j])'
      BY <1>1, <1>2, <1>n, <2>1, <2>9, <3>1 DEF RecordSound, At, Rec, Passed, Alike, Left, Live,
         Actors
    <3>3. RecordHome(j, recs[j])'
      BY <1>1, <1>2, <1>n, <2>1, <2>9, <3>1 DEF RecordHome, RecordSound, At, Rec, Passed, Alike,
         Left, Actors
    <3>4. Watched(j, recs[j])'
      BY <1>1, <1>2, <1>n, <2>1, <2>9, <3>1 DEF Watched, RecordSound, At, Rec, Passed, Alike,
         Left, Actors, Live
    <3> QED
      BY <3>2, <3>3, <3>4
  <2> QED
    BY <2>8, <2>9
<1> QED
  BY <1>r, <1>3, <1>4, <1>5, <1>6 DEF DictationInv, RecordsSound

\* There was a recording already.
LEMMA AbortKeeps == ASSUME DictationBounds, DictationInv, Abort PROVE DictationInv'
<1>1. /\ actor["keys"].at = "abort" /\ Return("keys") /\ held' = FALSE /\ owner' = 0
      /\ recs' = Wiped(recs)
      /\ session' = NoSession
      /\ UNCHANGED <<active, sessions, down, events>>
  BY DEF Abort, At, CancelAll
<1>n. /\ Len(recs) \in Nat /\ DOMAIN recs = 1..Len(recs)
      /\ \A i \in DOMAIN recs : recs[i] \in RecordTypes
      /\ active \in 0..Len(recs) /\ owner \in 0..Len(recs)
      /\ 0..Len(recs) \subseteq 0..MaxRecordings
      /\ actor \in [Actors -> FlowTypes] /\ \A b \in Actors : actor[b] \in FlowTypes
  BY DEF DictationInv, Types, Actors, DictationBounds
<1>2. /\ actor' \in [Actors -> FlowTypes] /\ actor'["keys"].at = "idle" /\ actor'["keys"].home = 0
      /\ ~actor'["keys"].rewrite
      /\ \A b \in Actors : b # "keys" => actor'[b] = actor[b]
  BY <1>1, <1>n, Returns DEF Actors
<1>r. /\ recs' \in Seq(RecordTypes) /\ Len(recs') = Len(recs) /\ DOMAIN recs' = DOMAIN recs
      /\ \A i \in DOMAIN recs : Passed(recs[i], recs'[i])
  BY <1>1, <1>n, WipedRecords DEF DictationInv, Types
<1>3. Types'
  <2>1. /\ recs' \in Seq(RecordTypes) /\ Len(recs') <= MaxRecordings /\ active' \in 0..Len(recs')
        /\ owner' \in 0..Len(recs')
    BY <1>1, <1>2, <1>r, <1>n DEF Types, DictationInv
  <2>2. held' \in BOOLEAN /\ down' \in BOOLEAN /\ session' \in SessionTypes
    BY <1>1, <1>2, NoSessionType DEF Types, DictationInv
  <2>3. /\ sessions' \in 0..MaxSessions /\ events' \in 0..MaxEvents
        /\ actor' \in [Actors -> FlowTypes]
    BY <1>1, <1>2, <1>n DEF Types, DictationInv
  <2> QED
    BY <2>1, <2>2, <2>3 DEF Types
<1>4. FlowsSound'
  BY <1>1, <1>2, <1>r, <1>n, NoSessionType DEF FlowsSound, At, Rec, Actors, DictationInv, Passed,
     Alike, Left
<1>5. HoldsSound'
  BY <1>1, <1>2, <1>r, <1>n, NoSessionType DEF HoldsSound, FlowsSound, At, Rec, Actors, Ending,
     DictationInv, Good, Passed, Alike, Left
<1>6. ASSUME NEW j \in DOMAIN recs
      PROVE  (RecordSound(j, recs[j]) /\ RecordHome(j, recs[j]) /\ Watched(j, recs[j]))'
  <2>1. RecordSound(j, recs[j]) /\ RecordHome(j, recs[j]) /\ Watched(j, recs[j])
    BY DEF DictationInv, RecordsSound
  <2>2. RecordSound(j, recs[j])'
    BY <1>1, <1>2, <1>r, <1>n, <2>1 DEF RecordSound, At, Rec, Passed, Alike, Left, Live, Actors
  <2>3. RecordHome(j, recs[j])'
    BY <1>1, <1>2, <1>r, <1>n, <2>1 DEF RecordHome, RecordSound, At, Rec, Passed, Alike, Left,
       Actors
  <2>4. Watched(j, recs[j])'
    BY <1>1, <1>2, <1>r, <1>n, <2>1 DEF Watched, RecordSound, At, Rec, Passed, Alike, Left,
       Actors, Live
  <2> QED
    BY <2>2, <2>3, <2>4
<1> QED
  BY <1>r, <1>3, <1>4, <1>5, <1>6 DEF DictationInv, RecordsSound

\* The key is let go.
LEMMA HoldReleasedKeeps == ASSUME DictationBounds, DictationInv, HoldReleased PROVE DictationInv'
<1>1. /\ actor["keys"].at = "idle" /\ down /\ down' = FALSE /\ held' = FALSE
      /\ \/ held /\ owner # 0
              /\ actor' = [actor EXCEPT !["keys"].at = "finalize", !["keys"].rec = owner]
         \/ ~(held /\ owner # 0) /\ actor' = actor
      /\ UNCHANGED <<active, recs, owner, session, sessions, events>>
  BY DEF HoldReleased, At
<1>n. /\ Len(recs) \in Nat /\ DOMAIN recs = 1..Len(recs)
      /\ \A i \in DOMAIN recs : recs[i] \in RecordTypes
      /\ active \in 0..Len(recs) /\ owner \in 0..Len(recs)
      /\ 0..Len(recs) \subseteq 0..MaxRecordings
      /\ actor \in [Actors -> FlowTypes] /\ \A b \in Actors : actor[b] \in FlowTypes
  BY DEF DictationInv, Types, Actors, DictationBounds
<1>2. /\ actor' \in [Actors -> FlowTypes] /\ actor'["windows"] = actor["windows"]
      /\ actor'["keys"].home = actor["keys"].home
      /\ \/ held /\ owner # 0 /\ actor'["keys"].at = "finalize" /\ actor'["keys"].rec = owner
              /\ owner \in DOMAIN recs
         \/ ~(held /\ owner # 0) /\ actor' = actor
  <2>1. CASE /\ held /\ owner # 0
             /\ actor' = [actor EXCEPT !["keys"].at = "finalize", !["keys"].rec = owner]
    <3>1. /\ "keys" \in Actors /\ "finalize" \in Steps /\ owner \in 0..MaxRecordings
          /\ owner \in DOMAIN recs
      BY <2>1, <1>n DEF Actors, Steps
    <3>2. /\ actor' \in [Actors -> FlowTypes] /\ actor'["keys"].at = "finalize"
          /\ actor'["keys"].rec = owner
          /\ actor'["keys"].home = actor["keys"].home
          /\ \A b \in Actors : b # "keys" => actor'[b] = actor[b]
      <4>1. /\ actor' = [actor EXCEPT !["keys"].at = "finalize", !["keys"].rec = owner]
            /\ actor \in [Actors -> FlowTypes]
        BY <2>1, <1>n
      <4> QED
        BY <3>1, <4>1, FlowSet DEF Actors, Steps
    <3> QED
      BY <2>1, <3>1, <3>2 DEF Actors
  <2>2. CASE ~(held /\ owner # 0) /\ actor' = actor
    BY <2>2, <1>n
  <2> QED
    BY <1>1, <2>1, <2>2
<1>r. recs' = recs
  BY <1>1
<1>3. Types'
  BY <1>1, <1>2, <1>r, <1>n, NoSessionType DEF Types, DictationInv
<1>4. FlowsSound'
  BY <1>1, <1>2, <1>r, <1>n, NoSessionType DEF FlowsSound, At, Rec, Actors, DictationInv, Passed,
     Alike, Left
<1>5. HoldsSound'
  BY <1>1, <1>2, <1>r, <1>n, NoSessionType DEF HoldsSound, FlowsSound, At, Rec, Actors, Ending,
     DictationInv, Good, Passed, Alike, Left
<1>6. ASSUME NEW j \in DOMAIN recs
      PROVE  (RecordSound(j, recs[j]) /\ RecordHome(j, recs[j]) /\ Watched(j, recs[j]))'
  <2>1. RecordSound(j, recs[j]) /\ RecordHome(j, recs[j]) /\ Watched(j, recs[j])
    BY DEF DictationInv, RecordsSound
  <2>2. RecordSound(j, recs[j])'
    BY <1>1, <1>2, <1>r, <1>n, <2>1 DEF RecordSound, At, Rec, Passed, Alike, Left, Live, Actors
  <2>3. RecordHome(j, recs[j])'
    BY <1>1, <1>2, <1>r, <1>n, <2>1 DEF RecordHome, RecordSound, At, Rec, Passed, Alike, Left,
       Actors
  <2>4. Watched(j, recs[j])'
    BY <1>1, <1>2, <1>r, <1>n, <2>1 DEF Watched, RecordSound, At, Rec, Passed, Alike, Left,
       Actors, Live
  <2> QED
    BY <2>2, <2>3, <2>4
<1> QED
  BY <1>r, <1>3, <1>4, <1>5, <1>6 DEF DictationInv, RecordsSound

\* The key is let go: the microphone is stopped.
LEMMA FinalizeKeeps == ASSUME DictationBounds, DictationInv, Finalize PROVE DictationInv'
<1>1. /\ actor["keys"].at = "finalize" /\ Return("keys")
      /\ UNCHANGED <<active, held, owner, session, sessions, down, events>>
  BY DEF Finalize, At, Rec, inline, DictationInv, FlowsSound, Types
<1>n. /\ Len(recs) \in Nat /\ DOMAIN recs = 1..Len(recs)
      /\ \A i \in DOMAIN recs : recs[i] \in RecordTypes
      /\ active \in 0..Len(recs) /\ owner \in 0..Len(recs)
      /\ 0..Len(recs) \subseteq 0..MaxRecordings
      /\ actor \in [Actors -> FlowTypes] /\ \A b \in Actors : actor[b] \in FlowTypes
      /\ actor["keys"].rec \in DOMAIN recs
      /\ RecordSound(actor["keys"].rec, recs[actor["keys"].rec])
  BY <1>1 DEF DictationInv, Types, Actors, DictationBounds, FlowsSound, RecordsSound, At, Rec
<1>d. /\ recs \in Seq(RecordTypes) /\ actor["keys"].rec \in DOMAIN recs
      /\ recs[actor["keys"].rec] \in RecordTypes
  BY <1>1, <1>n DEF DictationInv, Types, FlowsSound, Actors, At, Rec
<1> DEFINE r == IF active = actor["keys"].rec THEN Finalized(recs[actor["keys"].rec])
                ELSE recs[actor["keys"].rec]
<1>p. /\ r \in RecordTypes
      /\ r.target = recs[actor["keys"].rec].target
      /\ r.modifier = recs[actor["keys"].rec].modifier
      /\ r.phase = (IF active = actor["keys"].rec
                    THEN (IF recs[actor["keys"].rec].phase \in {"Opening", "Listening"}
                          THEN "Finalizing" ELSE recs[actor["keys"].rec].phase)
                    ELSE recs[actor["keys"].rec].phase)
      /\ r.mic = (IF active = actor["keys"].rec
                  THEN (IF recs[actor["keys"].rec].phase \in {"Opening", "Listening"}
                           /\ recs[actor["keys"].rec].mic = "open"
                        THEN "stopped" ELSE recs[actor["keys"].rec].mic)
                  ELSE recs[actor["keys"].rec].mic)
      /\ r.token = recs[actor["keys"].rec].token
      /\ r.task = recs[actor["keys"].rec].task
      /\ r.home = recs[actor["keys"].rec].home
      /\ r.into = recs[actor["keys"].rec].into
      /\ r.left = recs[actor["keys"].rec].left
      /\ r.wiped = recs[actor["keys"].rec].wiped
      /\ r.ends = recs[actor["keys"].rec].ends
  <2>1. CASE (active = actor["keys"].rec)
    BY <2>1, <1>d, FinalizedType
  <2>2. CASE ~(active = actor["keys"].rec)
    BY <2>2, <1>d, FinalizedType
  <2> QED
    BY <2>1, <2>2
<1>u. recs' = [recs EXCEPT ![actor["keys"].rec] = r]
  <2>2. CASE active = actor["keys"].rec
    BY <2>2 DEF Finalize, Rec
  <2>3. CASE active # actor["keys"].rec
    <3>1. recs' = recs
      BY <2>3 DEF Finalize, Rec
    <3> QED
      BY <1>d, <2>3, <3>1
  <2> QED
    BY <2>2, <2>3
<1> HIDE DEF r
<1>2. /\ actor' \in [Actors -> FlowTypes] /\ actor'["keys"].at = "idle" /\ actor'["keys"].home = 0
      /\ ~actor'["keys"].rewrite
      /\ \A b \in Actors : b # "keys" => actor'[b] = actor[b]
  BY <1>1, <1>n, Returns DEF Actors
<1>r. /\ recs' \in Seq(RecordTypes) /\ Len(recs') = Len(recs) /\ DOMAIN recs' = DOMAIN recs
      /\ recs'[actor["keys"].rec] = r
      /\ \A i \in DOMAIN recs : i # actor["keys"].rec => recs'[i] = recs[i]
  BY <1>d, <1>p, <1>u, Put
<1>3. Types'
  BY <1>1, <1>2, <1>r, <1>n, NoSessionType DEF Types, DictationInv
<1>4. FlowsSound'
  BY <1>1, <1>2, <1>p, <1>r, <1>n, NoSessionType DEF FlowsSound, At, Rec, Actors, DictationInv,
     Passed, Alike, Left, RecordSound
<1>5. HoldsSound'
  BY <1>1, <1>2, <1>p, <1>r, <1>n, NoSessionType DEF HoldsSound, FlowsSound, At, Rec, Actors,
     Ending, DictationInv, Good, Passed, Alike, Left, RecordSound
<1>6. ASSUME NEW j \in DOMAIN recs
      PROVE  (RecordSound(j, recs[j]) /\ RecordHome(j, recs[j]) /\ Watched(j, recs[j]))'
  <2>1. RecordSound(j, recs[j]) /\ RecordHome(j, recs[j]) /\ Watched(j, recs[j])
    BY DEF DictationInv, RecordsSound
  <2>2. RecordSound(j, recs[j])'
    BY <1>1, <1>2, <1>p, <1>r, <1>n, <2>1 DEF RecordSound, At, Rec, Passed, Alike, Left, Live,
       Actors
  <2>3. RecordHome(j, recs[j])'
    BY <1>1, <1>2, <1>p, <1>r, <1>n, <2>1 DEF RecordHome, RecordSound, At, Rec, Passed, Alike,
       Left, Actors
  <2>4. Watched(j, recs[j])'
    BY <1>1, <1>2, <1>p, <1>r, <1>n, <2>1 DEF Watched, RecordSound, At, Rec, Passed, Alike, Left,
       Actors, Live
  <2> QED
    BY <2>2, <2>3, <2>4
<1> QED
  BY <1>r, <1>3, <1>4, <1>5, <1>6 DEF DictationInv, RecordsSound

\* A gesture takes the hold back.
LEMMA GestureCancelsKeeps ==
    ASSUME DictationBounds, DictationInv, GestureCancels
    PROVE  DictationInv'
<1>1. /\ actor["keys"].at = "idle" /\ down' = FALSE
      /\ \E rewrite \in BOOLEAN : Take("keys", rewrite)
      /\ UNCHANGED <<active, session, sessions, events>>
  BY DEF GestureCancels, At
<1>n. /\ Len(recs) \in Nat /\ DOMAIN recs = 1..Len(recs)
      /\ \A i \in DOMAIN recs : recs[i] \in RecordTypes
      /\ active \in 0..Len(recs) /\ owner \in 0..Len(recs)
      /\ 0..Len(recs) \subseteq 0..MaxRecordings
      /\ actor \in [Actors -> FlowTypes] /\ \A b \in Actors : actor[b] \in FlowTypes
      /\ Types /\ "keys" \in Actors
  BY DEF DictationInv, Types, Actors, DictationBounds
<1>2. /\ held' = FALSE /\ owner' = 0
      /\ actor' \in [Actors -> FlowTypes] /\ actor'["keys"].home = actor["keys"].home
      /\ actor'["keys"].rec = owner /\ actor'["keys"].whole
      /\ actor'["keys"].at = (IF owner = 0 THEN "wipe" ELSE "cancel")
      /\ \A b \in Actors : b # "keys" => actor'[b] = actor[b]
      /\ (owner # 0 => owner \in DOMAIN recs)
  BY <1>1, <1>n, Takes
<1>r. /\ recs' \in Seq(RecordTypes) /\ Len(recs') = Len(recs) /\ DOMAIN recs' = DOMAIN recs
      /\ \A i \in DOMAIN recs : Left(recs[i], recs'[i]) /\ (i = owner => recs'[i].left)
  BY <1>1, <1>n, Takes
<1>3. Types'
  <2>1. /\ recs' \in Seq(RecordTypes) /\ Len(recs') <= MaxRecordings /\ active' \in 0..Len(recs')
        /\ owner' \in 0..Len(recs')
    BY <1>1, <1>2, <1>r, <1>n DEF Types, DictationInv
  <2>2. held' \in BOOLEAN /\ down' \in BOOLEAN /\ session' \in SessionTypes
    BY <1>1, <1>2, NoSessionType DEF Types, DictationInv
  <2>3. /\ sessions' \in 0..MaxSessions /\ events' \in 0..MaxEvents
        /\ actor' \in [Actors -> FlowTypes]
    BY <1>1, <1>2, <1>n DEF Types, DictationInv
  <2> QED
    BY <2>1, <2>2, <2>3 DEF Types
<1>4. FlowsSound'
  BY <1>1, <1>2, <1>r, <1>n, NoSessionType DEF FlowsSound, At, Rec, Actors, DictationInv, Passed,
     Alike, Left
<1>5. HoldsSound'
  BY <1>1, <1>2, <1>r, <1>n, NoSessionType DEF HoldsSound, FlowsSound, At, Rec, Actors, Ending,
     DictationInv, Good, Passed, Alike, Left
<1>6. ASSUME NEW j \in DOMAIN recs
      PROVE  (RecordSound(j, recs[j]) /\ RecordHome(j, recs[j]) /\ Watched(j, recs[j]))'
  <2>1. RecordSound(j, recs[j]) /\ RecordHome(j, recs[j]) /\ Watched(j, recs[j])
    BY DEF DictationInv, RecordsSound
  <2>2. RecordSound(j, recs[j])'
    BY <1>1, <1>2, <1>r, <1>n, <2>1 DEF RecordSound, At, Rec, Passed, Alike, Left, Live, Actors
  <2>3. RecordHome(j, recs[j])'
    BY <1>1, <1>2, <1>r, <1>n, <2>1 DEF RecordHome, RecordSound, At, Rec, Passed, Alike, Left,
       Actors
  <2>4. Watched(j, recs[j])'
    BY <1>1, <1>2, <1>r, <1>n, <2>1 DEF Watched, RecordSound, At, Rec, Passed, Alike, Left,
       Actors, Live
  <2> QED
    BY <2>2, <2>3, <2>4
<1> QED
  BY <1>r, <1>3, <1>4, <1>5, <1>6 DEF DictationInv, RecordsSound

\* So does an error at its start.
LEMMA TakenKeeps == ASSUME DictationBounds, DictationInv, Taken PROVE DictationInv'
<1>1. /\ actor["keys"].at = "take" /\ Take("keys", FALSE)
      /\ UNCHANGED <<active, session, sessions, down, events>>
  BY DEF Taken, At
<1>n. /\ Len(recs) \in Nat /\ DOMAIN recs = 1..Len(recs)
      /\ \A i \in DOMAIN recs : recs[i] \in RecordTypes
      /\ active \in 0..Len(recs) /\ owner \in 0..Len(recs)
      /\ 0..Len(recs) \subseteq 0..MaxRecordings
      /\ actor \in [Actors -> FlowTypes] /\ \A b \in Actors : actor[b] \in FlowTypes
      /\ Types /\ "keys" \in Actors
  BY DEF DictationInv, Types, Actors, DictationBounds
<1>2. /\ held' = FALSE /\ owner' = 0
      /\ actor' \in [Actors -> FlowTypes] /\ actor'["keys"].home = actor["keys"].home
      /\ actor'["keys"].rec = owner /\ actor'["keys"].whole
      /\ actor'["keys"].at = (IF owner = 0 THEN "wipe" ELSE "cancel")
      /\ \A b \in Actors : b # "keys" => actor'[b] = actor[b]
      /\ (owner # 0 => owner \in DOMAIN recs)
  BY <1>1, <1>n, Takes
<1>r. /\ recs' \in Seq(RecordTypes) /\ Len(recs') = Len(recs) /\ DOMAIN recs' = DOMAIN recs
      /\ \A i \in DOMAIN recs : Left(recs[i], recs'[i]) /\ (i = owner => recs'[i].left)
  BY <1>1, <1>n, Takes
<1>3. Types'
  <2>1. /\ recs' \in Seq(RecordTypes) /\ Len(recs') <= MaxRecordings /\ active' \in 0..Len(recs')
        /\ owner' \in 0..Len(recs')
    BY <1>1, <1>2, <1>r, <1>n DEF Types, DictationInv
  <2>2. held' \in BOOLEAN /\ down' \in BOOLEAN /\ session' \in SessionTypes
    BY <1>1, <1>2, NoSessionType DEF Types, DictationInv
  <2>3. /\ sessions' \in 0..MaxSessions /\ events' \in 0..MaxEvents
        /\ actor' \in [Actors -> FlowTypes]
    BY <1>1, <1>2, <1>n DEF Types, DictationInv
  <2> QED
    BY <2>1, <2>2, <2>3 DEF Types
<1>4. FlowsSound'
  BY <1>1, <1>2, <1>r, <1>n, NoSessionType DEF FlowsSound, At, Rec, Actors, DictationInv, Passed,
     Alike, Left
<1>5. HoldsSound'
  BY <1>1, <1>2, <1>r, <1>n, NoSessionType DEF HoldsSound, FlowsSound, At, Rec, Actors, Ending,
     DictationInv, Good, Passed, Alike, Left
<1>6. ASSUME NEW j \in DOMAIN recs
      PROVE  (RecordSound(j, recs[j]) /\ RecordHome(j, recs[j]) /\ Watched(j, recs[j]))'
  <2>1. RecordSound(j, recs[j]) /\ RecordHome(j, recs[j]) /\ Watched(j, recs[j])
    BY DEF DictationInv, RecordsSound
  <2>2. RecordSound(j, recs[j])'
    BY <1>1, <1>2, <1>r, <1>n, <2>1 DEF RecordSound, At, Rec, Passed, Alike, Left, Live, Actors
  <2>3. RecordHome(j, recs[j])'
    BY <1>1, <1>2, <1>r, <1>n, <2>1 DEF RecordHome, RecordSound, At, Rec, Passed, Alike, Left,
       Actors
  <2>4. Watched(j, recs[j])'
    BY <1>1, <1>2, <1>r, <1>n, <2>1 DEF Watched, RecordSound, At, Rec, Passed, Alike, Left,
       Actors, Live
  <2> QED
    BY <2>2, <2>3, <2>4
<1> QED
  BY <1>r, <1>3, <1>4, <1>5, <1>6 DEF DictationInv, RecordsSound

\* A rewrite after a double tap begins once nothing is dictated.
LEMMA RewriteKeeps == ASSUME DictationBounds, DictationInv, Rewrite PROVE DictationInv'
<1>1. /\ actor["keys"].at = "rewrite" /\ Return("keys") 
      /\ \/ Begin("rewrite")
         \/ Dropped
      /\ UNCHANGED <<active, recs, held, owner, down, events>>
  BY DEF Rewrite, At
<1>n. /\ Len(recs) \in Nat /\ DOMAIN recs = 1..Len(recs)
      /\ \A i \in DOMAIN recs : recs[i] \in RecordTypes
      /\ active \in 0..Len(recs) /\ owner \in 0..Len(recs)
      /\ 0..Len(recs) \subseteq 0..MaxRecordings
      /\ actor \in [Actors -> FlowTypes] /\ \A b \in Actors : actor[b] \in FlowTypes
      /\ session' \in SessionTypes /\ session'.kind # "dictation" /\ sessions' \in 0..MaxSessions
  BY <1>1, NoSessionType DEF DictationInv, Types, Actors, DictationBounds, Begin, Dropped,
     SessionTypes
<1>2. /\ actor' \in [Actors -> FlowTypes] /\ actor'["keys"].at = "idle" /\ actor'["keys"].home = 0
      /\ ~actor'["keys"].rewrite
      /\ \A b \in Actors : b # "keys" => actor'[b] = actor[b]
  BY <1>1, <1>n, Returns DEF Actors
<1>r. recs' = recs
  BY <1>1
<1>3. Types'
  BY <1>1, <1>2, <1>r, <1>n, NoSessionType DEF Types, DictationInv
<1>4. FlowsSound'
  BY <1>1, <1>2, <1>r, <1>n, NoSessionType DEF FlowsSound, At, Rec, Actors, DictationInv, Passed,
     Alike, Left
<1>5. HoldsSound'
  BY <1>1, <1>2, <1>r, <1>n, NoSessionType DEF HoldsSound, FlowsSound, At, Rec, Actors, Ending,
     DictationInv, Good, Passed, Alike, Left
<1>6. ASSUME NEW j \in DOMAIN recs
      PROVE  (RecordSound(j, recs[j]) /\ RecordHome(j, recs[j]) /\ Watched(j, recs[j]))'
  <2>1. RecordSound(j, recs[j]) /\ RecordHome(j, recs[j]) /\ Watched(j, recs[j])
    BY DEF DictationInv, RecordsSound
  <2>2. RecordSound(j, recs[j])'
    BY <1>1, <1>2, <1>r, <1>n, <2>1 DEF RecordSound, At, Rec, Passed, Alike, Left, Live, Actors
  <2>3. RecordHome(j, recs[j])'
    BY <1>1, <1>2, <1>r, <1>n, <2>1 DEF RecordHome, RecordSound, At, Rec, Passed, Alike, Left,
       Actors
  <2>4. Watched(j, recs[j])'
    BY <1>1, <1>2, <1>r, <1>n, <2>1 DEF Watched, RecordSound, At, Rec, Passed, Alike, Left,
       Actors, Live
  <2> QED
    BY <2>2, <2>3, <2>4
<1> QED
  BY <1>r, <1>3, <1>4, <1>5, <1>6 DEF DictationInv, RecordsSound

-----------------------------------------------------------------------------
(***************************************************************************)
(* A hold that is cancelled, by either thread.                             *)
(***************************************************************************)
\* The recording of a hold that was taken back is cancelled, unless it has ended.
LEMMA CancelRecKeeps ==
    ASSUME DictationBounds, DictationInv, NEW a \in Actors, CancelRec(a)
    PROVE  DictationInv'
<1> DEFINE won == active = actor[a].rec /\ recs[actor[a].rec].phase # "Cancelling"
<1>1. /\ actor[a].at = "cancel"
      /\ won => Goto(a, IF recs[actor[a].rec].target = "Inline" THEN "emit" ELSE "effect")
      /\ ~won /\ actor[a].whole => Goto(a, "wipe")
      /\ ~won /\ ~actor[a].whole => Return(a)
      /\ UNCHANGED <<active, held, owner, session, sessions, down, events>>
  BY DEF CancelRec, At, Rec, inline, DictationInv, FlowsSound, Types
<1>n. /\ Len(recs) \in Nat /\ DOMAIN recs = 1..Len(recs)
      /\ \A i \in DOMAIN recs : recs[i] \in RecordTypes
      /\ active \in 0..Len(recs) /\ owner \in 0..Len(recs)
      /\ 0..Len(recs) \subseteq 0..MaxRecordings
      /\ actor \in [Actors -> FlowTypes] /\ \A b \in Actors : actor[b] \in FlowTypes
      /\ actor[a].rec \in DOMAIN recs /\ RecordSound(actor[a].rec, recs[actor[a].rec])
  BY <1>1 DEF DictationInv, Types, Actors, DictationBounds, FlowsSound, RecordsSound, At, Rec
<1>d. /\ recs \in Seq(RecordTypes) /\ actor[a].rec \in DOMAIN recs
      /\ recs[actor[a].rec] \in RecordTypes
  BY <1>1, <1>n DEF DictationInv, Types, FlowsSound, Actors, At, Rec
<1> DEFINE r == IF won THEN CancelledRec(recs[actor[a].rec]) ELSE recs[actor[a].rec]
<1>p. /\ r \in RecordTypes
      /\ r.target = recs[actor[a].rec].target
      /\ r.modifier = recs[actor[a].rec].modifier
      /\ r.phase = (IF won THEN "Cancelling" ELSE recs[actor[a].rec].phase)
      /\ r.mic = recs[actor[a].rec].mic
      /\ r.token = recs[actor[a].rec].token
      /\ r.task = recs[actor[a].rec].task
      /\ r.home = recs[actor[a].rec].home
      /\ r.into = recs[actor[a].rec].into
      /\ r.left = recs[actor[a].rec].left
      /\ r.wiped = recs[actor[a].rec].wiped
      /\ r.ends = (IF won THEN recs[actor[a].rec].ends + 1 ELSE recs[actor[a].rec].ends)
  <2>1. CASE won
    BY <2>1, <1>d, CancelledType
  <2>2. CASE ~won
    BY <2>2, <1>d, CancelledType
  <2> QED
    BY <2>1, <2>2
<1>u. recs' = [recs EXCEPT ![actor[a].rec] = r]
  BY DEF CancelRec, At, Rec, inline, DictationInv, FlowsSound, Types
<1> HIDE DEF r
<1>2. /\ actor' \in [Actors -> FlowTypes] /\ \A b \in Actors : b # a => actor'[b] = actor[b]
      /\ ~actor[a].rewrite => ~actor'[a].rewrite
      /\ actor[a].home = 0 => actor'[a].home = 0
      /\ won =>
              /\ actor'[a].at =
                    (IF recs[actor[a].rec].target = "Inline" THEN "emit" ELSE "effect")
                 /\ actor'[a].rec = actor[a].rec /\ actor'[a].whole = actor[a].whole
      /\ ~won /\ actor[a].whole => actor'[a].at = "wipe"
      /\ ~won /\ ~actor[a].whole => actor'[a].at = "idle" /\ actor'[a].home = 0
  BY <1>1, <1>n, Goes, Returns DEF Actors, Goto, Steps
<1>r. /\ recs' \in Seq(RecordTypes) /\ Len(recs') = Len(recs) /\ DOMAIN recs' = DOMAIN recs
      /\ recs'[actor[a].rec] = r /\ \A i \in DOMAIN recs : i # actor[a].rec => recs'[i] = recs[i]
  BY <1>d, <1>p, <1>u, Put
<1>3. Types'
  BY <1>1, <1>2, <1>r, <1>n, NoSessionType DEF Types, DictationInv
<1>k. \A j \in DOMAIN recs :
        /\ recs'[j].modifier = recs[j].modifier /\ recs'[j].home = recs[j].home
        /\ recs[j].phase = "Cancelling" => recs'[j].phase = "Cancelling"
        /\ recs[j].task = "none" => recs'[j].task = "none"
  BY <1>1, <1>p, <1>r, <1>n DEF Passed, Alike
<1>c. won => recs'[actor[a].rec].phase = "Cancelling"
  BY <1>p, <1>r
<1>4. FlowsSound'
  BY <1>1, <1>2, <1>c, <1>r, <1>k, NoSessionType DEF FlowsSound, At, Rec, Actors, DictationInv
<1>g. \A j \in DOMAIN recs :
        /\ recs'[j].modifier = recs[j].modifier /\ recs'[j].home = recs[j].home
        /\ recs'[j].target = recs[j].target /\ recs'[j].wiped = recs[j].wiped
        /\ recs[j].task # "none" => recs'[j].task # "none"
        /\ j # actor[a].rec \/ ~won => (Good(recs[j]) =>
                Good(recs'[j])) /\ (recs[j].phase # "Cancelling" => recs'[j].phase # "Cancelling")
  BY <1>1, <1>p, <1>r, <1>n DEF Good
<1>5. HoldsSound'
  BY <1>1, <1>2, <1>g, <1>n, NoSessionType DEF HoldsSound, FlowsSound, At, Rec, Actors, Ending,
     DictationInv, RecordsSound, RecordSound
<1>6. ASSUME NEW j \in DOMAIN recs
      PROVE  (RecordSound(j, recs[j]) /\ RecordHome(j, recs[j]) /\ Watched(j, recs[j]))'
  <2>1. RecordSound(j, recs[j]) /\ RecordHome(j, recs[j]) /\ Watched(j, recs[j])
    BY DEF DictationInv, RecordsSound
  <2>2. RecordSound(j, recs[j])'
    BY <1>1, <1>2, <1>p, <1>r, <1>n, <2>1 DEF RecordSound, At, Rec, Passed, Alike, Left, Live,
       Actors
  <2>3. RecordHome(j, recs[j])'
    BY <1>1, <1>2, <1>p, <1>r, <1>n, <2>1 DEF RecordHome, RecordSound, At, Rec, Passed, Alike,
       Left, Actors
  <2>4. Watched(j, recs[j])'
    BY <1>1, <1>2, <1>p, <1>r, <1>n, <2>1 DEF Watched, RecordSound, At, Rec, Passed, Alike, Left,
       Actors, Live
  <2> QED
    BY <2>2, <2>3, <2>4
<1> QED
  BY <1>r, <1>3, <1>4, <1>5, <1>6 DEF DictationInv, RecordsSound

\* The cancellation is told to the field.
LEMMA EmitKeeps ==
    ASSUME DictationBounds, DictationInv, NEW a \in Actors, Emit(a)
    PROVE  DictationInv'
<1>1. /\ actor[a].at = "emit" /\ Goto(a, "effect") /\ held' = FALSE /\ owner' = 0
      /\ recs' = Wiped(recs)
      /\ session' = (IF session.kind = "dictation" THEN NoSession ELSE session)
      /\ UNCHANGED <<active, sessions, down, events>>
  BY DEF Emit, At, CancelDictation
<1>n. /\ Len(recs) \in Nat /\ DOMAIN recs = 1..Len(recs)
      /\ \A i \in DOMAIN recs : recs[i] \in RecordTypes
      /\ active \in 0..Len(recs) /\ owner \in 0..Len(recs)
      /\ 0..Len(recs) \subseteq 0..MaxRecordings
      /\ actor \in [Actors -> FlowTypes] /\ \A b \in Actors : actor[b] \in FlowTypes
  BY DEF DictationInv, Types, Actors, DictationBounds
<1>2. /\ actor' \in [Actors -> FlowTypes] /\ actor'[a].rec = actor[a].rec
      /\ actor'[a].home = actor[a].home /\ actor'[a].whole = actor[a].whole
      /\ actor'[a].rewrite = actor[a].rewrite
      /\ \A b \in Actors : b # a => actor'[b] = actor[b]
      /\ actor'[a].at = "effect"
  BY <1>1, <1>n, Goes DEF Goto, Steps
<1>r. /\ recs' \in Seq(RecordTypes) /\ Len(recs') = Len(recs) /\ DOMAIN recs' = DOMAIN recs
      /\ \A i \in DOMAIN recs : Passed(recs[i], recs'[i])
  BY <1>1, <1>n, WipedRecords DEF DictationInv, Types
<1>3. Types'
  <2>1. /\ recs' \in Seq(RecordTypes) /\ Len(recs') <= MaxRecordings /\ active' \in 0..Len(recs')
        /\ owner' \in 0..Len(recs')
    BY <1>1, <1>2, <1>r, <1>n DEF Types, DictationInv
  <2>2. held' \in BOOLEAN /\ down' \in BOOLEAN /\ session' \in SessionTypes
    BY <1>1, <1>2, NoSessionType DEF Types, DictationInv
  <2>3. /\ sessions' \in 0..MaxSessions /\ events' \in 0..MaxEvents
        /\ actor' \in [Actors -> FlowTypes]
    BY <1>1, <1>2, <1>n DEF Types, DictationInv
  <2> QED
    BY <2>1, <2>2, <2>3 DEF Types
<1>4. FlowsSound'
  BY <1>1, <1>2, <1>r, <1>n, NoSessionType DEF FlowsSound, At, Rec, Actors, DictationInv, Passed,
     Alike, Left
<1>5. HoldsSound'
  BY <1>1, <1>2, <1>r, <1>n, NoSessionType DEF HoldsSound, FlowsSound, At, Rec, Actors, Ending,
     DictationInv, Good, Passed, Alike, Left
<1>6. ASSUME NEW j \in DOMAIN recs
      PROVE  (RecordSound(j, recs[j]) /\ RecordHome(j, recs[j]) /\ Watched(j, recs[j]))'
  <2>1. RecordSound(j, recs[j]) /\ RecordHome(j, recs[j]) /\ Watched(j, recs[j])
    BY DEF DictationInv, RecordsSound
  <2>2. RecordSound(j, recs[j])'
    BY <1>1, <1>2, <1>r, <1>n, <2>1 DEF RecordSound, At, Rec, Passed, Alike, Left, Live, Actors
  <2>3. RecordHome(j, recs[j])'
    BY <1>1, <1>2, <1>r, <1>n, <2>1 DEF RecordHome, RecordSound, At, Rec, Passed, Alike, Left,
       Actors
  <2>4. Watched(j, recs[j])'
    BY <1>1, <1>2, <1>r, <1>n, <2>1 DEF Watched, RecordSound, At, Rec, Passed, Alike, Left,
       Actors, Live
  <2> QED
    BY <2>2, <2>3, <2>4
<1> QED
  BY <1>r, <1>3, <1>4, <1>5, <1>6 DEF DictationInv, RecordsSound

\* The cancellation stops the microphone.
LEMMA EffectKeeps ==
    ASSUME DictationBounds, DictationInv, NEW a \in Actors, Effect(a)
    PROVE  DictationInv'
<1>1. /\ actor[a].at = "effect"
      /\ actor[a].whole => Goto(a, "wipe")
      /\ ~actor[a].whole => Return(a)
      /\ UNCHANGED <<active, held, owner, session, sessions, down, events>>
  BY DEF Effect, At, Rec, inline
<1>n. /\ Len(recs) \in Nat /\ DOMAIN recs = 1..Len(recs)
      /\ \A i \in DOMAIN recs : recs[i] \in RecordTypes
      /\ active \in 0..Len(recs) /\ owner \in 0..Len(recs)
      /\ 0..Len(recs) \subseteq 0..MaxRecordings
      /\ actor \in [Actors -> FlowTypes] /\ \A b \in Actors : actor[b] \in FlowTypes
      /\ actor[a].rec \in DOMAIN recs
  BY <1>1 DEF DictationInv, Types, Actors, DictationBounds, FlowsSound, At, Rec
<1>d. /\ recs \in Seq(RecordTypes) /\ actor[a].rec \in DOMAIN recs
      /\ recs[actor[a].rec] \in RecordTypes
  BY <1>1, <1>n DEF DictationInv, Types, FlowsSound, Actors, At, Rec
<1> DEFINE r == [recs[actor[a].rec] EXCEPT !.token = TRUE, !.mic =
        IF @ = "open" THEN "stopped" ELSE @]
<1>p. /\ r \in RecordTypes
      /\ r.target = recs[actor[a].rec].target
      /\ r.modifier = recs[actor[a].rec].modifier
      /\ r.phase = recs[actor[a].rec].phase
      /\ r.mic = (IF recs[actor[a].rec].mic = "open" THEN "stopped" ELSE recs[actor[a].rec].mic)
      /\ r.token = TRUE
      /\ r.task = recs[actor[a].rec].task
      /\ r.home = recs[actor[a].rec].home
      /\ r.into = recs[actor[a].rec].into
      /\ r.left = recs[actor[a].rec].left
      /\ r.wiped = recs[actor[a].rec].wiped
      /\ r.ends = recs[actor[a].rec].ends
  <2>1. CASE recs[actor[a].rec].mic = "open"
    BY <2>1, <1>d DEF RecordTypes
  <2>2. CASE recs[actor[a].rec].mic # "open"
    BY <2>2, <1>d DEF RecordTypes
  <2> QED
    BY <2>1, <2>2
<1>u. recs' = [recs EXCEPT ![actor[a].rec] = r]
  BY DEF Effect, At, Rec, inline
<1> HIDE DEF r
<1>2. /\ actor' \in [Actors -> FlowTypes] /\ \A b \in Actors : b # a => actor'[b] = actor[b]
      /\ ~actor[a].rewrite => ~actor'[a].rewrite
      /\ actor[a].home = 0 => actor'[a].home = 0
      /\ actor[a].whole => actor'[a].at = "wipe"
      /\ ~actor[a].whole => actor'[a].at = "idle" /\ actor'[a].home = 0
  BY <1>1, <1>n, Goes, Returns DEF Actors, Goto, Steps
<1>r. /\ recs' \in Seq(RecordTypes) /\ Len(recs') = Len(recs) /\ DOMAIN recs' = DOMAIN recs
      /\ recs'[actor[a].rec] = r /\ \A i \in DOMAIN recs : i # actor[a].rec => recs'[i] = recs[i]
  BY <1>d, <1>p, <1>u, Put
<1>3. Types'
  BY <1>1, <1>2, <1>r, <1>n, NoSessionType DEF Types, DictationInv
<1>k. \A j \in DOMAIN recs :
        /\ recs'[j].modifier = recs[j].modifier /\ recs'[j].home = recs[j].home
        /\ recs[j].phase = "Cancelling" => recs'[j].phase = "Cancelling"
        /\ recs[j].task = "none" => recs'[j].task = "none"
  BY <1>1, <1>p, <1>r, <1>n DEF Passed, Alike
<1>4. FlowsSound'
  BY <1>1, <1>2, <1>r, <1>k, NoSessionType DEF FlowsSound, At, Rec, Actors, DictationInv
<1>g. \A j \in DOMAIN recs :
        /\ recs'[j].modifier = recs[j].modifier /\ recs'[j].home = recs[j].home
        /\ recs'[j].target = recs[j].target /\ recs'[j].wiped = recs[j].wiped
        /\ recs[j].task # "none" => recs'[j].task # "none"
        /\ (Good(recs[j]) => Good(recs'[j]))
        /\ (recs[j].phase # "Cancelling" => recs'[j].phase # "Cancelling")
  BY <1>1, <1>p, <1>r, <1>n DEF Good
<1>5. HoldsSound'
  BY <1>1, <1>2, <1>g, <1>n, NoSessionType DEF HoldsSound, FlowsSound, At, Rec, Actors, Ending,
     DictationInv, RecordsSound, RecordSound
<1>6. ASSUME NEW j \in DOMAIN recs
      PROVE  (RecordSound(j, recs[j]) /\ RecordHome(j, recs[j]) /\ Watched(j, recs[j]))'
  <2>1. RecordSound(j, recs[j]) /\ RecordHome(j, recs[j]) /\ Watched(j, recs[j])
    BY DEF DictationInv, RecordsSound
  <2>2. RecordSound(j, recs[j])'
    BY <1>1, <1>2, <1>p, <1>r, <1>n, <2>1 DEF RecordSound, At, Rec, Passed, Alike, Left, Live,
       Actors
  <2>3. RecordHome(j, recs[j])'
    BY <1>1, <1>2, <1>p, <1>r, <1>n, <2>1 DEF RecordHome, RecordSound, At, Rec, Passed, Alike,
       Left, Actors
  <2>4. Watched(j, recs[j])'
    BY <1>1, <1>2, <1>p, <1>r, <1>n, <2>1 DEF Watched, RecordSound, At, Rec, Passed, Alike, Left,
       Actors, Live
  <2> QED
    BY <2>2, <2>3, <2>4
<1> QED
  BY <1>r, <1>3, <1>4, <1>5, <1>6 DEF DictationInv, RecordsSound

\* A cancellation passes over everything.
LEMMA WipeKeeps ==
    ASSUME DictationBounds, DictationInv, NEW a \in Actors, Wipe(a)
    PROVE  DictationInv'
<1>1. /\ actor[a].at = "wipe" /\ held' = FALSE /\ owner' = 0 /\ recs' = Wiped(recs)
      /\ \/ actor[a].rewrite /\ Goto(a, "rewrite")
         \/ ~actor[a].rewrite /\ Return(a)
      /\ session' = NoSession
      /\ UNCHANGED <<active, sessions, down, events>>
  BY DEF Wipe, At, CancelAll
<1>n. /\ Len(recs) \in Nat /\ DOMAIN recs = 1..Len(recs)
      /\ \A i \in DOMAIN recs : recs[i] \in RecordTypes
      /\ active \in 0..Len(recs) /\ owner \in 0..Len(recs)
      /\ 0..Len(recs) \subseteq 0..MaxRecordings
      /\ actor \in [Actors -> FlowTypes] /\ \A b \in Actors : actor[b] \in FlowTypes
  BY DEF DictationInv, Types, Actors, DictationBounds
<1>2. /\ actor' \in [Actors -> FlowTypes] /\ actor'[a].at \in {"rewrite", "idle"}
      /\ actor'[a].at = "rewrite" => actor[a].rewrite
      /\ actor'[a].at = "idle" => actor'[a].home = 0 /\ ~actor'[a].rewrite
      /\ \A b \in Actors : b # a => actor'[b] = actor[b]
  BY <1>1, <1>n, Goes, Returns DEF Goto, Steps
<1>r. /\ recs' \in Seq(RecordTypes) /\ Len(recs') = Len(recs) /\ DOMAIN recs' = DOMAIN recs
      /\ \A i \in DOMAIN recs : Passed(recs[i], recs'[i])
  BY <1>1, <1>n, WipedRecords DEF DictationInv, Types
<1>3. Types'
  <2>1. /\ recs' \in Seq(RecordTypes) /\ Len(recs') <= MaxRecordings /\ active' \in 0..Len(recs')
        /\ owner' \in 0..Len(recs')
    BY <1>1, <1>2, <1>r, <1>n DEF Types, DictationInv
  <2>2. held' \in BOOLEAN /\ down' \in BOOLEAN /\ session' \in SessionTypes
    BY <1>1, <1>2, NoSessionType DEF Types, DictationInv
  <2>3. /\ sessions' \in 0..MaxSessions /\ events' \in 0..MaxEvents
        /\ actor' \in [Actors -> FlowTypes]
    BY <1>1, <1>2, <1>n DEF Types, DictationInv
  <2> QED
    BY <2>1, <2>2, <2>3 DEF Types
<1>4. FlowsSound'
  BY <1>1, <1>2, <1>r, <1>n, NoSessionType DEF FlowsSound, At, Rec, Actors, DictationInv, Passed,
     Alike, Left
<1>5. HoldsSound'
  BY <1>1, <1>2, <1>r, <1>n, NoSessionType DEF HoldsSound, FlowsSound, At, Rec, Actors, Ending,
     DictationInv, Good, Passed, Alike, Left
<1>6. ASSUME NEW j \in DOMAIN recs
      PROVE  (RecordSound(j, recs[j]) /\ RecordHome(j, recs[j]) /\ Watched(j, recs[j]))'
  <2>1. RecordSound(j, recs[j]) /\ RecordHome(j, recs[j]) /\ Watched(j, recs[j])
    BY DEF DictationInv, RecordsSound
  <2>2. RecordSound(j, recs[j])'
    BY <1>1, <1>2, <1>r, <1>n, <2>1 DEF RecordSound, At, Rec, Passed, Alike, Left, Live, Actors
  <2>3. RecordHome(j, recs[j])'
    BY <1>1, <1>2, <1>r, <1>n, <2>1 DEF RecordHome, RecordSound, At, Rec, Passed, Alike, Left,
       Actors
  <2>4. Watched(j, recs[j])'
    BY <1>1, <1>2, <1>r, <1>n, <2>1 DEF Watched, RecordSound, At, Rec, Passed, Alike, Left,
       Actors, Live
  <2> QED
    BY <2>2, <2>3, <2>4
<1> QED
  BY <1>r, <1>3, <1>4, <1>5, <1>6 DEF DictationInv, RecordsSound

-----------------------------------------------------------------------------
(***************************************************************************)
(* The commands of the windows.                                            *)
(***************************************************************************)
\* The windows start a recording.
LEMMA StartKeeps == ASSUME DictationBounds, DictationInv, Start PROVE DictationInv'
<1>1. /\ actor["windows"].at = "idle" /\ active = 0 /\ Len(recs) < MaxRecordings
      /\ events' \in 0..MaxEvents
      /\ recs' = Append(recs, [Recording("manual", 0) EXCEPT !.task = "start"])
      /\ active' = Len(recs) + 1
      /\ UNCHANGED <<held, owner, session, sessions, down, actor>>
  BY DEF Start, Command, Event, At, inline, DictationInv, Types, DictationBounds
<1>n. /\ Len(recs) \in Nat /\ DOMAIN recs = 1..Len(recs)
      /\ \A i \in DOMAIN recs : recs[i] \in RecordTypes
      /\ active \in 0..Len(recs) /\ owner \in 0..Len(recs) /\ recs \in Seq(RecordTypes)
      /\ Len(recs) + 1 \in 1..MaxRecordings
      /\ actor \in [Actors -> FlowTypes] /\ \A b \in Actors : actor[b] \in FlowTypes
  BY <1>1 DEF DictationInv, Types, Actors, DictationBounds
<1>2. actor' = actor
  BY <1>1, <1>n, <1>1
<1> DEFINE new == [Recording("manual", 0) EXCEPT !.task = "start"]
           k == Len(recs) + 1
<1>3. /\ new \in RecordTypes /\ ~new.modifier /\ new.target = "Companion" /\ new.home = 0
      /\ new.phase = "Opening" /\ new.mic = "none" /\ ~new.token /\ new.task = "start"
      /\ new.into = 0 /\ ~new.left /\ ~new.wiped /\ new.ends = 0
  <2>1. 0 \in 0..MaxSessions /\ 0 \in 0..MaxSessions
    BY <1>n DEF DictationBounds, FlowTypes, Actors
  <2>2. PICK t \in {"manual", "modifier_chat", "modifier_inline"} : t = "manual"
    OBVIOUS
  <2>3. new = [Recording(t, 0) EXCEPT !.task = "start"]
    BY <2>2
  <2> HIDE DEF new
  <2>4. new \in RecordTypes
    BY <2>1, <2>3 DEF Recording, RecordTypes, Phases, Tasks
  <2> QED
    BY <2>1, <2>2, <2>3, <2>4 DEF Recording
<1>u. recs' = Append(recs, new) /\ active' = k
  BY <1>1
<1> HIDE DEF new
<1>r. /\ recs' \in Seq(RecordTypes) /\ Len(recs') = k /\ DOMAIN recs' = 1..k
      /\ \A i \in DOMAIN recs : recs'[i] = recs[i] /\ i \in DOMAIN recs' /\ i # k
      /\ recs'[k] = new /\ k \in DOMAIN recs' /\ k # 0 /\ k \notin DOMAIN recs
      /\ \A i \in DOMAIN recs' : i = k \/ i \in DOMAIN recs
      /\ owner \in 0..k /\ k \in 0..k /\ active' = k
  BY <1>u, <1>3, <1>n
<1>4. Types'
  BY <1>1, <1>2, <1>n, <1>r DEF Types, DictationInv
<1> HIDE DEF k
<1>5. FlowsSound'
  BY <1>1, <1>2, <1>3, <1>n, <1>r DEF FlowsSound, At, Rec, Actors, DictationInv
<1>6. HoldsSound'
  <2>1. owner # 0 => owner \in DOMAIN recs
    BY <1>n
  <2> QED
    BY <1>1, <1>2, <1>3, <1>n, <1>r, <2>1 DEF HoldsSound, FlowsSound, At, Rec, Actors, Ending,
       DictationInv, Good
<1>7. ASSUME NEW j \in DOMAIN recs'
      PROVE  (RecordSound(j, recs[j]) /\ RecordHome(j, recs[j]) /\ Watched(j, recs[j]))'
  <2>1. CASE j = k
    <3>1. RecordSound(j, recs[j])'
      BY <1>1, <1>2, <1>3, <1>r, <2>1 DEF RecordSound, Live, At, Rec
    <3>2. RecordHome(j, recs[j])'
      BY <1>1, <1>2, <1>3, <1>r, <2>1 DEF RecordHome
    <3>3. Watched(j, recs[j])'
      BY <1>1, <1>2, <1>3, <1>r, <2>1 DEF Watched, Live
    <3> QED
      BY <3>1, <3>2, <3>3
  <2>2. CASE j # k
    <3>0. j \in DOMAIN recs /\ recs'[j] = recs[j]
      BY <1>r, <2>2
    <3>1. RecordSound(j, recs[j]) /\ RecordHome(j, recs[j]) /\ Watched(j, recs[j])
      BY <3>0 DEF DictationInv, RecordsSound
    <3>2. RecordSound(j, recs[j])'
      BY <1>1, <1>2, <1>n, <1>r, <2>2, <3>0, <3>1 DEF RecordSound, Live, At, Rec, Actors
    <3>3. RecordHome(j, recs[j])'
      BY <1>1, <3>0, <3>1 DEF RecordHome
    <3>4. Watched(j, recs[j])'
      BY <1>1, <1>2, <1>n, <2>2, <3>0, <3>1 DEF Watched, RecordSound, At, Rec, Actors, Live
    <3> QED
      BY <3>2, <3>3, <3>4
  <2> QED
    BY <2>1, <2>2
<1> QED
  BY <1>4, <1>5, <1>6, <1>7 DEF DictationInv, RecordsSound

\* The windows finalize.
LEMMA FinalizeActiveKeeps ==
    ASSUME DictationBounds, DictationInv, FinalizeActive
    PROVE  DictationInv'
<1>1. /\ active # 0 /\ events' \in 0..MaxEvents
      /\ UNCHANGED <<active, held, owner, session, sessions, down, actor>>
  BY DEF FinalizeActive, Command, Event, At, Rec, inline, DictationInv, Types, DictationBounds
<1>n. /\ Len(recs) \in Nat /\ DOMAIN recs = 1..Len(recs)
      /\ \A i \in DOMAIN recs : recs[i] \in RecordTypes
      /\ active \in 0..Len(recs) /\ owner \in 0..Len(recs)
      /\ 0..Len(recs) \subseteq 0..MaxRecordings
      /\ actor \in [Actors -> FlowTypes] /\ \A b \in Actors : actor[b] \in FlowTypes
      /\ active \in DOMAIN recs
  BY <1>1 DEF DictationInv, Types, Actors, DictationBounds
<1>d. recs \in Seq(RecordTypes) /\ active \in DOMAIN recs /\ recs[active] \in RecordTypes
  BY <1>1, <1>n DEF DictationInv, Types, FlowsSound, Actors, At, Rec
<1> DEFINE r == Finalized(recs[active])
<1>p. /\ r \in RecordTypes
      /\ r.target = recs[active].target
      /\ r.modifier = recs[active].modifier
      /\ r.phase = (IF recs[active].phase \in
              {"Opening", "Listening"} THEN "Finalizing" ELSE recs[active].phase)
      /\ r.mic = (IF recs[active].phase \in
              {"Opening", "Listening"}
                      /\ recs[active].mic = "open" THEN "stopped" ELSE recs[active].mic)
      /\ r.token = recs[active].token
      /\ r.task = recs[active].task
      /\ r.home = recs[active].home
      /\ r.into = recs[active].into
      /\ r.left = recs[active].left
      /\ r.wiped = recs[active].wiped
      /\ r.ends = recs[active].ends
  BY <1>d, FinalizedType
<1>u. recs' = [recs EXCEPT ![active] = r]
  BY DEF FinalizeActive, Command, Event, At, Rec, inline, DictationInv, Types, DictationBounds
<1> HIDE DEF r
<1>2. actor' = actor
  BY <1>1, <1>n
<1>r. /\ recs' \in Seq(RecordTypes) /\ Len(recs') = Len(recs) /\ DOMAIN recs' = DOMAIN recs
      /\ recs'[active] = r /\ \A i \in DOMAIN recs : i # active => recs'[i] = recs[i]
  BY <1>d, <1>p, <1>u, Put
<1>3. Types'
  BY <1>1, <1>2, <1>r, <1>n, NoSessionType DEF Types, DictationInv
<1>k. \A j \in DOMAIN recs :
        /\ recs'[j].modifier = recs[j].modifier /\ recs'[j].home = recs[j].home
        /\ recs[j].phase = "Cancelling" => recs'[j].phase = "Cancelling"
        /\ recs[j].task = "none" => recs'[j].task = "none"
  BY <1>1, <1>p, <1>r, <1>n DEF Passed, Alike
<1>4. FlowsSound'
  BY <1>1, <1>2, <1>r, <1>k, NoSessionType DEF FlowsSound, At, Rec, Actors, DictationInv
<1>5. HoldsSound'
  BY <1>1, <1>2, <1>p, <1>r, <1>n, NoSessionType DEF HoldsSound, FlowsSound, At, Rec, Actors,
     Ending, DictationInv, Good, Passed, Alike, Left, RecordSound
<1>6. ASSUME NEW j \in DOMAIN recs
      PROVE  (RecordSound(j, recs[j]) /\ RecordHome(j, recs[j]) /\ Watched(j, recs[j]))'
  <2>1. RecordSound(j, recs[j]) /\ RecordHome(j, recs[j]) /\ Watched(j, recs[j])
    BY DEF DictationInv, RecordsSound
  <2>2. RecordSound(j, recs[j])'
    BY <1>1, <1>2, <1>p, <1>r, <1>n, <2>1 DEF RecordSound, At, Rec, Passed, Alike, Left, Live,
       Actors
  <2>3. RecordHome(j, recs[j])'
    BY <1>1, <1>2, <1>p, <1>r, <1>n, <2>1 DEF RecordHome, RecordSound, At, Rec, Passed, Alike,
       Left, Actors
  <2>4. Watched(j, recs[j])'
    BY <1>1, <1>2, <1>p, <1>r, <1>n, <2>1 DEF Watched, RecordSound, At, Rec, Passed, Alike, Left,
       Actors, Live
  <2> QED
    BY <2>2, <2>3, <2>4
<1> QED
  BY <1>r, <1>3, <1>4, <1>5, <1>6 DEF DictationInv, RecordsSound

\* The windows set out to cancel a recording.
LEMMA CancelActiveKeeps == ASSUME DictationBounds, DictationInv, CancelActive PROVE DictationInv'
<1>1. /\ actor["windows"].at = "idle" /\ active # 0 /\ events' \in 0..MaxEvents
      /\ actor' = [actor EXCEPT !["windows"].at = "cancel", !["windows"].rec = active]
      /\ UNCHANGED <<active, recs, held, owner, session, sessions, down>>
  BY DEF CancelActive, Command, Event, At, inline, DictationInv, Types, DictationBounds
<1>n. /\ Len(recs) \in Nat /\ DOMAIN recs = 1..Len(recs)
      /\ \A i \in DOMAIN recs : recs[i] \in RecordTypes
      /\ active \in 0..Len(recs) /\ owner \in 0..Len(recs)
      /\ 0..Len(recs) \subseteq 0..MaxRecordings
      /\ actor \in [Actors -> FlowTypes] /\ \A b \in Actors : actor[b] \in FlowTypes
      /\ active \in DOMAIN recs /\ active \in 0..MaxRecordings
  BY <1>1 DEF DictationInv, Types, Actors, DictationBounds
<1>2. /\ actor' \in [Actors -> FlowTypes] /\ actor'["keys"] = actor["keys"]
      /\ actor'["windows"].home = actor["windows"].home
      /\ actor'["windows"].rewrite = actor["windows"].rewrite
      /\ actor'["windows"].at = "cancel" /\ actor'["windows"].rec = active
      /\ active \in DOMAIN recs
  BY <1>1, <1>n, FlowSet DEF Actors, Steps
<1>r. recs' = recs
  BY <1>1
<1>3. Types'
  BY <1>1, <1>2, <1>r, <1>n, NoSessionType DEF Types, DictationInv
<1>4. FlowsSound'
  BY <1>1, <1>2, <1>r, <1>n, NoSessionType DEF FlowsSound, At, Rec, Actors, DictationInv, Passed,
     Alike, Left
<1>5. HoldsSound'
  BY <1>1, <1>2, <1>r, <1>n, NoSessionType DEF HoldsSound, FlowsSound, At, Rec, Actors, Ending,
     DictationInv, Good, Passed, Alike, Left
<1>6. ASSUME NEW j \in DOMAIN recs
      PROVE  (RecordSound(j, recs[j]) /\ RecordHome(j, recs[j]) /\ Watched(j, recs[j]))'
  <2>1. RecordSound(j, recs[j]) /\ RecordHome(j, recs[j]) /\ Watched(j, recs[j])
    BY DEF DictationInv, RecordsSound
  <2>2. RecordSound(j, recs[j])'
    BY <1>1, <1>2, <1>r, <1>n, <2>1 DEF RecordSound, At, Rec, Passed, Alike, Left, Live, Actors
  <2>3. RecordHome(j, recs[j])'
    BY <1>1, <1>2, <1>r, <1>n, <2>1 DEF RecordHome, RecordSound, At, Rec, Passed, Alike, Left,
       Actors
  <2>4. Watched(j, recs[j])'
    BY <1>1, <1>2, <1>r, <1>n, <2>1 DEF Watched, RecordSound, At, Rec, Passed, Alike, Left,
       Actors, Live
  <2> QED
    BY <2>2, <2>3, <2>4
<1> QED
  BY <1>r, <1>3, <1>4, <1>5, <1>6 DEF DictationInv, RecordsSound

\* So does the overlay.
LEMMA DismissKeeps == ASSUME DictationBounds, DictationInv, Dismiss PROVE DictationInv'
<1>1. /\ actor["windows"].at = "idle" /\ Take("windows", FALSE) /\ events' \in 0..MaxEvents
      /\ UNCHANGED <<active, session, sessions, down>>
  <2>1. Event /\ events \in 0..MaxEvents
    BY DEF Dismiss, Command, DictationInv, Types
  <2>2. events' \in 0..MaxEvents
    BY <2>1 DEF Event, DictationBounds
  <2> QED
    BY <2>2 DEF Dismiss, Command, At
<1>n. /\ Len(recs) \in Nat /\ DOMAIN recs = 1..Len(recs)
      /\ \A i \in DOMAIN recs : recs[i] \in RecordTypes
      /\ active \in 0..Len(recs) /\ owner \in 0..Len(recs)
      /\ 0..Len(recs) \subseteq 0..MaxRecordings
      /\ actor \in [Actors -> FlowTypes] /\ \A b \in Actors : actor[b] \in FlowTypes
      /\ Types /\ "windows" \in Actors
  BY DEF DictationInv, Types, Actors, DictationBounds
<1>2. /\ held' = FALSE /\ owner' = 0
      /\ actor' \in [Actors -> FlowTypes] /\ actor'["windows"].home = actor["windows"].home
      /\ actor'["windows"].rec = owner /\ actor'["windows"].whole /\ ~actor'["windows"].rewrite
      /\ actor'["windows"].at = (IF owner = 0 THEN "wipe" ELSE "cancel")
      /\ \A b \in Actors : b # "windows" => actor'[b] = actor[b]
      /\ (owner # 0 => owner \in DOMAIN recs)
  BY <1>1, <1>n, Takes
<1>r. /\ recs' \in Seq(RecordTypes) /\ Len(recs') = Len(recs) /\ DOMAIN recs' = DOMAIN recs
      /\ \A i \in DOMAIN recs : Left(recs[i], recs'[i]) /\ (i = owner => recs'[i].left)
  BY <1>1, <1>n, Takes
<1>3. Types'
  <2>1. /\ recs' \in Seq(RecordTypes) /\ Len(recs') <= MaxRecordings /\ active' \in 0..Len(recs')
        /\ owner' \in 0..Len(recs')
    BY <1>1, <1>2, <1>r, <1>n DEF Types, DictationInv
  <2>2. held' \in BOOLEAN /\ down' \in BOOLEAN /\ session' \in SessionTypes
    BY <1>1, <1>2, NoSessionType DEF Types, DictationInv
  <2>3. /\ sessions' \in 0..MaxSessions /\ events' \in 0..MaxEvents
        /\ actor' \in [Actors -> FlowTypes]
    BY <1>1, <1>2, <1>n DEF Types, DictationInv
  <2> QED
    BY <2>1, <2>2, <2>3 DEF Types
<1>4. FlowsSound'
  BY <1>1, <1>2, <1>r, <1>n, NoSessionType DEF FlowsSound, At, Rec, Actors, DictationInv, Passed,
     Alike, Left
<1>5. HoldsSound'
  BY <1>1, <1>2, <1>r, <1>n, NoSessionType DEF HoldsSound, FlowsSound, At, Rec, Actors, Ending,
     DictationInv, Good, Passed, Alike, Left
<1>6. ASSUME NEW j \in DOMAIN recs
      PROVE  (RecordSound(j, recs[j]) /\ RecordHome(j, recs[j]) /\ Watched(j, recs[j]))'
  <2>1. RecordSound(j, recs[j]) /\ RecordHome(j, recs[j]) /\ Watched(j, recs[j])
    BY DEF DictationInv, RecordsSound
  <2>2. RecordSound(j, recs[j])'
    BY <1>1, <1>2, <1>r, <1>n, <2>1 DEF RecordSound, At, Rec, Passed, Alike, Left, Live, Actors
  <2>3. RecordHome(j, recs[j])'
    BY <1>1, <1>2, <1>r, <1>n, <2>1 DEF RecordHome, RecordSound, At, Rec, Passed, Alike, Left,
       Actors
  <2>4. Watched(j, recs[j])'
    BY <1>1, <1>2, <1>r, <1>n, <2>1 DEF Watched, RecordSound, At, Rec, Passed, Alike, Left,
       Actors, Live
  <2> QED
    BY <2>2, <2>3, <2>4
<1> QED
  BY <1>r, <1>3, <1>4, <1>5, <1>6 DEF DictationInv, RecordsSound

\* The monitor is stopped once its thread has ended.
LEMMA StopMonitorKeeps == ASSUME DictationBounds, DictationInv, StopMonitor PROVE DictationInv'
<1>1. /\ actor["windows"].at = "idle" /\ Goto("windows", "wipe") /\ events' \in 0..MaxEvents
      /\ UNCHANGED <<active, recs, held, owner, session, sessions, down>>
  BY DEF StopMonitor, Command, Event, At, Goto, inline, DictationInv, Types, DictationBounds
<1>n. /\ Len(recs) \in Nat /\ DOMAIN recs = 1..Len(recs)
      /\ \A i \in DOMAIN recs : recs[i] \in RecordTypes
      /\ active \in 0..Len(recs) /\ owner \in 0..Len(recs)
      /\ 0..Len(recs) \subseteq 0..MaxRecordings
      /\ actor \in [Actors -> FlowTypes] /\ \A b \in Actors : actor[b] \in FlowTypes
  BY DEF DictationInv, Types, Actors, DictationBounds
<1>2. /\ actor' \in [Actors -> FlowTypes] /\ actor'["windows"].rec = actor["windows"].rec
      /\ actor'["windows"].home = actor["windows"].home
      /\ actor'["windows"].whole = actor["windows"].whole
      /\ actor'["windows"].rewrite = actor["windows"].rewrite
      /\ \A b \in Actors : b # "windows" => actor'[b] = actor[b]
      /\ actor'["windows"].at = "wipe"
  BY <1>1, <1>n, Goes DEF Goto, Actors, Steps
<1>r. recs' = recs
  BY <1>1
<1>3. Types'
  BY <1>1, <1>2, <1>r, <1>n, NoSessionType DEF Types, DictationInv
<1>4. FlowsSound'
  BY <1>1, <1>2, <1>r, <1>n, NoSessionType DEF FlowsSound, At, Rec, Actors, DictationInv, Passed,
     Alike, Left
<1>5. HoldsSound'
  BY <1>1, <1>2, <1>r, <1>n, NoSessionType DEF HoldsSound, FlowsSound, At, Rec, Actors, Ending,
     DictationInv, Good, Passed, Alike, Left
<1>6. ASSUME NEW j \in DOMAIN recs
      PROVE  (RecordSound(j, recs[j]) /\ RecordHome(j, recs[j]) /\ Watched(j, recs[j]))'
  <2>1. RecordSound(j, recs[j]) /\ RecordHome(j, recs[j]) /\ Watched(j, recs[j])
    BY DEF DictationInv, RecordsSound
  <2>2. RecordSound(j, recs[j])'
    BY <1>1, <1>2, <1>r, <1>n, <2>1 DEF RecordSound, At, Rec, Passed, Alike, Left, Live, Actors
  <2>3. RecordHome(j, recs[j])'
    BY <1>1, <1>2, <1>r, <1>n, <2>1 DEF RecordHome, RecordSound, At, Rec, Passed, Alike, Left,
       Actors
  <2>4. Watched(j, recs[j])'
    BY <1>1, <1>2, <1>r, <1>n, <2>1 DEF Watched, RecordSound, At, Rec, Passed, Alike, Left,
       Actors, Live
  <2> QED
    BY <2>2, <2>3, <2>4
<1> QED
  BY <1>r, <1>3, <1>4, <1>5, <1>6 DEF DictationInv, RecordsSound

-----------------------------------------------------------------------------
(***************************************************************************)
(* The task of a recording.                                                *)
(***************************************************************************)
\* Events are bounded.
LEMMA EventType ==
    ASSUME DictationBounds, Types, Event \/ UNCHANGED events
    PROVE  events' \in 0..MaxEvents
BY DEF Types, Event, DictationBounds

\* The microphone is open.
LEMMA OpenedKeeps ==
    ASSUME DictationBounds, DictationInv, NEW m \in DOMAIN recs, Step(m, "start"),
           recs' = [recs EXCEPT ![m].task = "opened", ![m].mic = "open"],
       UNCHANGED <<active, events, inline, sessions, down, actor>> PROVE DictationInv'
<1>1. /\ recs[m].task = "start"
      /\ UNCHANGED <<active, held, owner, session, sessions, down, actor, events>>
  BY DEF Step, inline
<1>n. /\ Len(recs) \in Nat /\ DOMAIN recs = 1..Len(recs)
      /\ \A i \in DOMAIN recs : recs[i] \in RecordTypes
      /\ active \in 0..Len(recs) /\ owner \in 0..Len(recs)
      /\ 0..Len(recs) \subseteq 0..MaxRecordings
      /\ actor \in [Actors -> FlowTypes] /\ \A b \in Actors : actor[b] \in FlowTypes
      /\ m # 0 /\ RecordSound(m, recs[m]) /\ RecordHome(m, recs[m])
  BY <1>1 DEF DictationInv, Types, Actors, DictationBounds, RecordsSound
<1>d. recs \in Seq(RecordTypes) /\ m \in DOMAIN recs /\ recs[m] \in RecordTypes
  BY <1>1, <1>n DEF DictationInv, Types, FlowsSound, Actors, At, Rec
<1> DEFINE r == [recs[m] EXCEPT !.task = "opened", !.mic = "open"]
<1>p. /\ r \in RecordTypes
      /\ r.target = recs[m].target
      /\ r.modifier = recs[m].modifier
      /\ r.phase = recs[m].phase
      /\ r.mic = "open"
      /\ r.token = recs[m].token
      /\ r.task = "opened"
      /\ r.home = recs[m].home
      /\ r.into = recs[m].into
      /\ r.left = recs[m].left
      /\ r.wiped = recs[m].wiped
      /\ r.ends = recs[m].ends
  BY <1>d, <1>1, <1>n DEF RecordTypes, Tasks, Phases
<1>u. recs' = [recs EXCEPT ![m] = r]
  BY DEF Step, inline
<1> HIDE DEF r
<1>2. actor' = actor
  BY <1>1, <1>n
<1>r. /\ recs' \in Seq(RecordTypes) /\ Len(recs') = Len(recs) /\ DOMAIN recs' = DOMAIN recs
      /\ recs'[m] = r /\ \A i \in DOMAIN recs : i # m => recs'[i] = recs[i]
  BY <1>d, <1>p, <1>u, Put
<1>3. Types'
  BY <1>1, <1>2, <1>r, <1>n, NoSessionType DEF Types, DictationInv
<1>k. \A j \in DOMAIN recs :
        /\ recs'[j].modifier = recs[j].modifier /\ recs'[j].home = recs[j].home
        /\ recs[j].phase = "Cancelling" => recs'[j].phase = "Cancelling"
        /\ recs[j].task = "none" => recs'[j].task = "none"
  BY <1>1, <1>p, <1>r, <1>n DEF Passed, Alike
<1>4. FlowsSound'
  BY <1>1, <1>2, <1>r, <1>k, NoSessionType DEF FlowsSound, At, Rec, Actors, DictationInv
<1>5. HoldsSound'
  BY <1>1, <1>2, <1>p, <1>r, <1>n, NoSessionType DEF HoldsSound, FlowsSound, At, Rec, Actors,
     Ending, DictationInv, Good, Passed, Alike, Left, RecordSound, RecordsSound
<1>6. ASSUME NEW j \in DOMAIN recs
      PROVE  (RecordSound(j, recs[j]) /\ RecordHome(j, recs[j]) /\ Watched(j, recs[j]))'
  <2>1. RecordSound(j, recs[j]) /\ RecordHome(j, recs[j]) /\ Watched(j, recs[j])
    BY DEF DictationInv, RecordsSound
  <2>8. CASE j = m
    <3>2. RecordSound(j, recs[j])'
      BY <1>1, <1>2, <1>n, <2>1, <2>8, <1>p, <1>r DEF RecordSound, At, Rec, Passed, Alike, Left,
         Live, Actors
    <3>3. RecordHome(j, recs[j])'
      BY <1>1, <1>2, <1>n, <2>1, <2>8, <1>p, <1>r DEF RecordHome, RecordSound, At, Rec, Passed,
         Alike, Left, Actors
    <3>4. Watched(j, recs[j])'
      BY <1>1, <1>2, <1>n, <2>1, <2>8, <1>p, <1>r DEF Watched, RecordSound, At, Rec, Passed,
         Alike, Left, Actors, Live
    <3> QED
      BY <3>2, <3>3, <3>4
  <2>9. CASE j # m
    <3>1. recs'[j] = recs[j]
      BY <2>9, <1>r
    <3>2. RecordSound(j, recs[j])'
      BY <1>1, <1>2, <1>n, <2>1, <2>9, <3>1 DEF RecordSound, At, Rec, Passed, Alike, Left, Live,
         Actors
    <3>3. RecordHome(j, recs[j])'
      BY <1>1, <1>2, <1>n, <2>1, <2>9, <3>1 DEF RecordHome, RecordSound, At, Rec, Passed, Alike,
         Left, Actors
    <3>4. Watched(j, recs[j])'
      BY <1>1, <1>2, <1>n, <2>1, <2>9, <3>1 DEF Watched, RecordSound, At, Rec, Passed, Alike,
         Left, Actors, Live
    <3> QED
      BY <3>2, <3>3, <3>4
  <2> QED
    BY <2>8, <2>9
<1> QED
  BY <1>r, <1>3, <1>4, <1>5, <1>6 DEF DictationInv, RecordsSound

\* A start that fails.
LEMMA NotOpenedKeeps ==
    ASSUME DictationBounds, DictationInv, NEW m \in DOMAIN recs, Step(m, "start"), active' = 0,
           events' \in 0..MaxEvents,
           recs' = [recs EXCEPT ![m] =
                       IF (recs[m].phase = "Cancelling" /\ recs[m].modifier)
                       THEN [Ended(recs[m], "bad") EXCEPT !.task = "wipe"]
                       ELSE Ended(recs[m], "bad")],
           UNCHANGED <<inline, sessions, down, actor>>
    PROVE  DictationInv'
<1>1. /\ recs[m].task = "start" /\ active' = 0 /\ events' \in 0..MaxEvents
      /\ UNCHANGED <<held, owner, session, sessions, down, actor>>
  BY DEF Step, inline
<1>n. /\ Len(recs) \in Nat /\ DOMAIN recs = 1..Len(recs)
      /\ \A i \in DOMAIN recs : recs[i] \in RecordTypes
      /\ active \in 0..Len(recs) /\ owner \in 0..Len(recs)
      /\ 0..Len(recs) \subseteq 0..MaxRecordings
      /\ actor \in [Actors -> FlowTypes] /\ \A b \in Actors : actor[b] \in FlowTypes
      /\ m # 0 /\ RecordSound(m, recs[m]) /\ RecordHome(m, recs[m])
  BY <1>1 DEF DictationInv, Types, Actors, DictationBounds, RecordsSound
<1>d. recs \in Seq(RecordTypes) /\ m \in DOMAIN recs /\ recs[m] \in RecordTypes
  BY <1>1, <1>n DEF DictationInv, Types, FlowsSound, Actors, At, Rec
<1> DEFINE r == IF (recs[m].phase = "Cancelling" /\ recs[m].modifier)
                THEN [Ended(recs[m], "bad") EXCEPT !.task = "wipe"]
                ELSE Ended(recs[m], "bad")
<1>p. /\ r \in RecordTypes
      /\ r.target = recs[m].target
      /\ r.modifier = recs[m].modifier
      /\ r.phase = recs[m].phase
      /\ r.mic = recs[m].mic
      /\ r.token = TRUE
      /\ r.task = (IF recs[m].phase = "Cancelling"
                   THEN IF recs[m].modifier THEN "wipe" ELSE "done" ELSE "bad")
      /\ r.home = recs[m].home
      /\ r.into = recs[m].into
      /\ r.left = recs[m].left
      /\ r.wiped = recs[m].wiped
      /\ r.ends = (IF recs[m].phase = "Cancelling" THEN recs[m].ends ELSE recs[m].ends + 1)
  <2>0. "bad" \in Tasks /\ "wipe" \in Tasks
    BY DEF Tasks
  <2> DEFINE q == Ended(recs[m], "bad")
  <2>1. /\ q \in RecordTypes /\ q.target = recs[m].target /\ q.modifier = recs[m].modifier
        /\ q.phase = recs[m].phase /\ q.mic = recs[m].mic /\ q.token = TRUE
        /\ q.task = (IF recs[m].phase = "Cancelling" THEN "done" ELSE "bad")
        /\ q.home = recs[m].home /\ q.into = recs[m].into /\ q.left = recs[m].left
        /\ q.wiped = recs[m].wiped
        /\ q.ends = (IF recs[m].phase = "Cancelling" THEN recs[m].ends ELSE recs[m].ends + 1)
    BY <1>d, <2>0, EndedType
  <2>2. r = IF (recs[m].phase = "Cancelling" /\ recs[m].modifier)
            THEN [q EXCEPT !.task = "wipe"] ELSE q
    OBVIOUS
  <2> HIDE DEF q, r
  <2>3. CASE (recs[m].phase = "Cancelling" /\ recs[m].modifier)
    BY <2>0, <2>1, <2>2, <2>3 DEF RecordTypes
  <2>4. CASE ~(recs[m].phase = "Cancelling" /\ recs[m].modifier)
    <3>1. recs[m].modifier \in BOOLEAN
      BY <1>d DEF RecordTypes
    <3> QED
      BY <3>1, <2>1, <2>2, <2>4
  <2> QED
    BY <2>3, <2>4
<1>u. recs' = [recs EXCEPT ![m] = r]
  BY DEF Step, inline
<1> HIDE DEF r
<1>s. /\ r.task \in {"wipe", "done", "bad"} /\ r.task \notin Live
      /\ (r.task = "bad" <=> recs[m].phase # "Cancelling")
      /\ (r.task = "done" => ~recs[m].modifier) /\ r.ends = 1 /\ r.token
      /\ r.target = recs[m].target /\ r.modifier = recs[m].modifier /\ r.phase = recs[m].phase
      /\ r.home = recs[m].home /\ r.into = recs[m].into /\ r.left = recs[m].left
      /\ r.wiped = recs[m].wiped
  BY <1>1, <1>p, <1>n DEF RecordSound, Live
<1>2. actor' = actor
  BY <1>1, <1>n
<1>r. /\ recs' \in Seq(RecordTypes) /\ Len(recs') = Len(recs) /\ DOMAIN recs' = DOMAIN recs
      /\ recs'[m] = r /\ \A i \in DOMAIN recs : i # m => recs'[i] = recs[i]
  BY <1>d, <1>p, <1>u, Put
<1>3. Types'
  BY <1>1, <1>2, <1>r, <1>n, NoSessionType DEF Types, DictationInv
<1>k. \A j \in DOMAIN recs :
        /\ recs'[j].modifier = recs[j].modifier /\ recs'[j].home = recs[j].home
        /\ recs[j].phase = "Cancelling" => recs'[j].phase = "Cancelling"
        /\ recs[j].task = "none" => recs'[j].task = "none"
  BY <1>1, <1>p, <1>r, <1>n DEF Passed, Alike
<1>4. FlowsSound'
  BY <1>1, <1>2, <1>r, <1>k, NoSessionType DEF FlowsSound, At, Rec, Actors, DictationInv
<1>g. \A j \in DOMAIN recs :
        /\ recs'[j].modifier = recs[j].modifier /\ recs'[j].home = recs[j].home
        /\ recs'[j].target = recs[j].target /\ recs'[j].wiped = recs[j].wiped
        /\ recs'[j].phase = recs[j].phase
        /\ (recs[j].task # "none" => recs'[j].task # "none") /\ (Good(recs[j]) => Good(recs'[j]))
  BY <1>1, <1>s, <1>r, <1>n DEF Good
<1>5. HoldsSound'
  BY <1>1, <1>2, <1>g, <1>n DEF HoldsSound, FlowsSound, At, Rec, Actors, Ending, DictationInv
<1>6. ASSUME NEW j \in DOMAIN recs
      PROVE  (RecordSound(j, recs[j]) /\ RecordHome(j, recs[j]) /\ Watched(j, recs[j]))'
  <2>1. RecordSound(j, recs[j]) /\ RecordHome(j, recs[j]) /\ Watched(j, recs[j])
    BY DEF DictationInv, RecordsSound
  <2>8. CASE j = m
    <3>2. RecordSound(j, recs[j])'
      BY <1>1, <1>n, <2>8, <1>s, <1>r DEF RecordSound
    <3>3. RecordHome(j, recs[j])'
      BY <1>1, <1>2, <1>n, <2>1, <2>8, <1>s, <1>r DEF RecordHome, RecordSound, At, Rec, Passed,
         Alike, Left, Actors
    <3>4. Watched(j, recs[j])'
      BY <1>1, <1>2, <1>n, <2>1, <2>8, <1>s, <1>r DEF Watched, RecordSound, At, Rec, Passed,
         Alike, Left, Actors, Live
    <3> QED
      BY <3>2, <3>3, <3>4
  <2>9. CASE j # m
    <3>1. recs'[j] = recs[j]
      BY <2>9, <1>r
    <3>2. RecordSound(j, recs[j])'
      BY <1>1, <1>2, <1>n, <2>1, <2>9, <3>1 DEF RecordSound, At, Rec, Passed, Alike, Left, Live,
         Actors
    <3>3. RecordHome(j, recs[j])'
      BY <1>1, <1>2, <1>n, <2>1, <2>9, <3>1 DEF RecordHome, RecordSound, At, Rec, Passed, Alike,
         Left, Actors
    <3>4. Watched(j, recs[j])'
      BY <1>1, <1>2, <1>n, <2>1, <2>9, <3>1 DEF Watched, RecordSound, At, Rec, Passed, Alike,
         Left, Actors, Live
    <3> QED
      BY <3>2, <3>3, <3>4
  <2> QED
    BY <2>8, <2>9
<1> QED
  BY <1>r, <1>3, <1>4, <1>5, <1>6 DEF DictationInv, RecordsSound

\* The start of a recording, whichever way it goes.
LEMMA OpenKeeps ==
    ASSUME DictationBounds, DictationInv, NEW m \in DOMAIN recs, Open(m)
    PROVE  DictationInv'
<1>1. recs \in Seq(RecordTypes) /\ recs[m] \in RecordTypes /\ Step(m, "start") /\ Types
  BY DEF DictationInv, Types, Open
<1>2. CASE /\ recs' = [recs EXCEPT ![m].task = "opened", ![m].mic = "open"]
           /\ UNCHANGED <<active, events, inline, sessions, down, actor>>
  BY <1>1, <1>2, OpenedKeeps
<1>3. CASE /\ IF recs[m].token THEN UNCHANGED events ELSE Event
           /\ LET r == Ended(recs[m], "bad") IN
              recs' = [recs EXCEPT ![m] =
                 IF r.task = "done" /\ r.modifier THEN [r EXCEPT !.task = "wipe"] ELSE r]
           /\ active' = 0 /\ UNCHANGED <<inline, sessions, down, actor>>
  <2> DEFINE r == Ended(recs[m], "bad")
  <2>1. /\ r.modifier = recs[m].modifier
        /\ r.task = (IF recs[m].phase = "Cancelling" THEN "done" ELSE "bad")
    BY <1>1, EndedType DEF Tasks
  <2>2. recs' = [recs EXCEPT ![m] = IF r.task = "done" /\ r.modifier
                                    THEN [r EXCEPT !.task = "wipe"] ELSE r]
    BY <1>3
  <2>3. r.task = "done" <=> recs[m].phase = "Cancelling"
    BY <2>1
  <2>4. recs' = [recs EXCEPT ![m] = IF (recs[m].phase = "Cancelling" /\ recs[m].modifier)
                                    THEN [r EXCEPT !.task = "wipe"] ELSE r]
    <3> HIDE DEF r
    <3>1. CASE recs[m].phase = "Cancelling" /\ recs[m].modifier
      BY <2>1, <2>2, <2>3, <3>1
    <3>2. CASE ~(recs[m].phase = "Cancelling" /\ recs[m].modifier)
      BY <2>1, <2>2, <2>3, <3>2
    <3> QED
      BY <3>1, <3>2
  <2>5. events' \in 0..MaxEvents
    BY <1>1, <1>3, EventType
  <2> QED
    BY <1>1, <1>3, <2>4, <2>5, NotOpenedKeeps
<1> QED
  BY <1>2, <1>3 DEF Open

\* A microphone that was stopped before it was open is off.
LEMMA AttachCaptureKeeps ==
    ASSUME DictationBounds, DictationInv, NEW m \in DOMAIN recs, AttachCapture(m)
    PROVE  DictationInv'
<1>1. /\ recs[m].task = "opened"
      /\ UNCHANGED <<active, held, owner, session, sessions, down, actor, events>>
  BY DEF AttachCapture, Step, inline
<1>n. /\ Len(recs) \in Nat /\ DOMAIN recs = 1..Len(recs)
      /\ \A i \in DOMAIN recs : recs[i] \in RecordTypes
      /\ active \in 0..Len(recs) /\ owner \in 0..Len(recs)
      /\ 0..Len(recs) \subseteq 0..MaxRecordings
      /\ actor \in [Actors -> FlowTypes] /\ \A b \in Actors : actor[b] \in FlowTypes
      /\ m # 0 /\ RecordSound(m, recs[m]) /\ RecordHome(m, recs[m])
  BY <1>1 DEF DictationInv, Types, Actors, DictationBounds, RecordsSound
<1>d. recs \in Seq(RecordTypes) /\ m \in DOMAIN recs /\ recs[m] \in RecordTypes
  BY <1>1, <1>n DEF DictationInv, Types, FlowsSound, Actors, At, Rec
<1> DEFINE r == IF recs[m].phase = "Opening"
                THEN [recs[m] EXCEPT !.task = "run", !.phase = "Listening"]
                ELSE [recs[m] EXCEPT !.task = "run", !.mic = "stopped"]
<1>p. /\ r \in RecordTypes
      /\ r.target = recs[m].target
      /\ r.modifier = recs[m].modifier
      /\ r.phase = (IF recs[m].phase = "Opening" THEN "Listening" ELSE recs[m].phase)
      /\ r.mic = (IF recs[m].phase = "Opening" THEN recs[m].mic ELSE "stopped")
      /\ r.token = recs[m].token
      /\ r.task = "run"
      /\ r.home = recs[m].home
      /\ r.into = recs[m].into
      /\ r.left = recs[m].left
      /\ r.wiped = recs[m].wiped
      /\ r.ends = recs[m].ends
  <2>1. CASE (recs[m].phase = "Opening")
    BY <2>1, <1>d, <1>1, <1>n DEF RecordTypes, Tasks, Phases
  <2>2. CASE ~(recs[m].phase = "Opening")
    BY <2>2, <1>d, <1>1, <1>n DEF RecordTypes, Tasks, Phases
  <2> QED
    BY <2>1, <2>2
<1>u. recs' = [recs EXCEPT ![m] = r]
  BY DEF AttachCapture, Step, inline
<1> HIDE DEF r
<1>2. actor' = actor
  BY <1>1, <1>n
<1>r. /\ recs' \in Seq(RecordTypes) /\ Len(recs') = Len(recs) /\ DOMAIN recs' = DOMAIN recs
      /\ recs'[m] = r /\ \A i \in DOMAIN recs : i # m => recs'[i] = recs[i]
  BY <1>d, <1>p, <1>u, Put
<1>3. Types'
  BY <1>1, <1>2, <1>r, <1>n, NoSessionType DEF Types, DictationInv
<1>k. \A j \in DOMAIN recs :
        /\ recs'[j].modifier = recs[j].modifier /\ recs'[j].home = recs[j].home
        /\ recs[j].phase = "Cancelling" => recs'[j].phase = "Cancelling"
        /\ recs[j].task = "none" => recs'[j].task = "none"
  BY <1>1, <1>p, <1>r, <1>n DEF Passed, Alike
<1>4. FlowsSound'
  BY <1>1, <1>2, <1>r, <1>k, NoSessionType DEF FlowsSound, At, Rec, Actors, DictationInv
<1>5. HoldsSound'
  BY <1>1, <1>2, <1>p, <1>r, <1>n, NoSessionType DEF HoldsSound, FlowsSound, At, Rec, Actors,
     Ending, DictationInv, Good, Passed, Alike, Left, RecordSound, RecordsSound
<1>6. ASSUME NEW j \in DOMAIN recs
      PROVE  (RecordSound(j, recs[j]) /\ RecordHome(j, recs[j]) /\ Watched(j, recs[j]))'
  <2>1. RecordSound(j, recs[j]) /\ RecordHome(j, recs[j]) /\ Watched(j, recs[j])
    BY DEF DictationInv, RecordsSound
  <2>8. CASE j = m
    <3>2. RecordSound(j, recs[j])'
      BY <1>1, <1>2, <1>n, <2>1, <2>8, <1>p, <1>r DEF RecordSound, At, Rec, Passed, Alike, Left,
         Live, Actors
    <3>3. RecordHome(j, recs[j])'
      BY <1>1, <1>2, <1>n, <2>1, <2>8, <1>p, <1>r DEF RecordHome, RecordSound, At, Rec, Passed,
         Alike, Left, Actors
    <3>4. Watched(j, recs[j])'
      BY <1>1, <1>2, <1>n, <2>1, <2>8, <1>p, <1>r DEF Watched, RecordSound, At, Rec, Passed,
         Alike, Left, Actors, Live
    <3> QED
      BY <3>2, <3>3, <3>4
  <2>9. CASE j # m
    <3>1. recs'[j] = recs[j]
      BY <2>9, <1>r
    <3>2. RecordSound(j, recs[j])'
      BY <1>1, <1>2, <1>n, <2>1, <2>9, <3>1 DEF RecordSound, At, Rec, Passed, Alike, Left, Live,
         Actors
    <3>3. RecordHome(j, recs[j])'
      BY <1>1, <1>2, <1>n, <2>1, <2>9, <3>1 DEF RecordHome, RecordSound, At, Rec, Passed, Alike,
         Left, Actors
    <3>4. Watched(j, recs[j])'
      BY <1>1, <1>2, <1>n, <2>1, <2>9, <3>1 DEF Watched, RecordSound, At, Rec, Passed, Alike,
         Left, Actors, Live
    <3> QED
      BY <3>2, <3>3, <3>4
  <2> QED
    BY <2>8, <2>9
<1> QED
  BY <1>r, <1>3, <1>4, <1>5, <1>6 DEF DictationInv, RecordsSound

\* An event is too large.
LEMMA OverflowKeeps ==
    ASSUME DictationBounds, DictationInv, NEW m \in DOMAIN recs, Overflow(m)
    PROVE  DictationInv'
<1>1. /\ recs[m].task = "run" /\ recs[m].phase # "Cancelling" /\ events' \in 0..MaxEvents
      /\ UNCHANGED <<active, held, owner, session, sessions, down, actor>>
  BY DEF Overflow, Step, Event, inline, DictationInv, Types, DictationBounds
<1>n. /\ Len(recs) \in Nat /\ DOMAIN recs = 1..Len(recs)
      /\ \A i \in DOMAIN recs : recs[i] \in RecordTypes
      /\ active \in 0..Len(recs) /\ owner \in 0..Len(recs)
      /\ 0..Len(recs) \subseteq 0..MaxRecordings
      /\ actor \in [Actors -> FlowTypes] /\ \A b \in Actors : actor[b] \in FlowTypes
      /\ m # 0 /\ RecordSound(m, recs[m]) /\ RecordHome(m, recs[m])
  BY <1>1 DEF DictationInv, Types, Actors, DictationBounds, RecordsSound
<1>d. recs \in Seq(RecordTypes) /\ m \in DOMAIN recs /\ recs[m] \in RecordTypes
  BY <1>1, <1>n DEF DictationInv, Types, FlowsSound, Actors, At, Rec
<1> DEFINE r == [CancelledRec(recs[m]) EXCEPT !.token = TRUE, !.task = "overflow"]
<1>p. /\ r \in RecordTypes
      /\ r.target = recs[m].target
      /\ r.modifier = recs[m].modifier
      /\ r.phase = "Cancelling"
      /\ r.mic = recs[m].mic
      /\ r.token = TRUE
      /\ r.task = "overflow"
      /\ r.home = recs[m].home
      /\ r.into = recs[m].into
      /\ r.left = recs[m].left
      /\ r.wiped = recs[m].wiped
      /\ r.ends = recs[m].ends + 1
  <2>1. /\ CancelledRec(recs[m]) \in RecordTypes
    BY <1>d, CancelledType
  <2>2. [CancelledRec(recs[m]) EXCEPT !.token = TRUE, !.task = "overflow"] \in RecordTypes
    BY <2>1 DEF RecordTypes, Tasks
  <2>3. LET q == CancelledRec(recs[m])
        IN  /\ q.target = recs[m].target /\ q.modifier = recs[m].modifier
            /\ q.phase = "Cancelling"
            /\ q.mic = recs[m].mic /\ q.home = recs[m].home /\ q.into = recs[m].into
            /\ q.left = recs[m].left /\ q.wiped = recs[m].wiped /\ q.ends = recs[m].ends + 1
    BY <1>d, CancelledType
  <2> QED
    BY <2>1, <2>2, <2>3 DEF RecordTypes
<1>u. recs' = [recs EXCEPT ![m] = r]
  BY DEF Overflow, Step, Event, inline, DictationInv, Types, DictationBounds
<1> HIDE DEF r
<1>2. actor' = actor
  BY <1>1, <1>n
<1>r. /\ recs' \in Seq(RecordTypes) /\ Len(recs') = Len(recs) /\ DOMAIN recs' = DOMAIN recs
      /\ recs'[m] = r /\ \A i \in DOMAIN recs : i # m => recs'[i] = recs[i]
  BY <1>d, <1>p, <1>u, Put
<1>3. Types'
  BY <1>1, <1>2, <1>r, <1>n, NoSessionType DEF Types, DictationInv
<1>k. \A j \in DOMAIN recs :
        /\ recs'[j].modifier = recs[j].modifier /\ recs'[j].home = recs[j].home
        /\ recs[j].phase = "Cancelling" => recs'[j].phase = "Cancelling"
        /\ recs[j].task = "none" => recs'[j].task = "none"
  BY <1>1, <1>p, <1>r, <1>n DEF Passed, Alike
<1>4. FlowsSound'
  BY <1>1, <1>2, <1>r, <1>k, NoSessionType DEF FlowsSound, At, Rec, Actors, DictationInv
<1>5. HoldsSound'
  BY <1>1, <1>2, <1>p, <1>r, <1>n, NoSessionType DEF HoldsSound, FlowsSound, At, Rec, Actors,
     Ending, DictationInv, Good, Passed, Alike, Left, RecordSound, RecordsSound
<1>6. ASSUME NEW j \in DOMAIN recs
      PROVE  (RecordSound(j, recs[j]) /\ RecordHome(j, recs[j]) /\ Watched(j, recs[j]))'
  <2>1. RecordSound(j, recs[j]) /\ RecordHome(j, recs[j]) /\ Watched(j, recs[j])
    BY DEF DictationInv, RecordsSound
  <2>8. CASE j = m
    <3>2. RecordSound(j, recs[j])'
      BY <1>1, <1>2, <1>n, <2>1, <2>8, <1>p, <1>r DEF RecordSound, At, Rec, Passed, Alike, Left,
         Live, Actors
    <3>3. RecordHome(j, recs[j])'
      BY <1>1, <1>2, <1>n, <2>1, <2>8, <1>p, <1>r DEF RecordHome, RecordSound, At, Rec, Passed,
         Alike, Left, Actors
    <3>4. Watched(j, recs[j])'
      BY <1>1, <1>2, <1>n, <2>1, <2>8, <1>p, <1>r DEF Watched, RecordSound, At, Rec, Passed,
         Alike, Left, Actors, Live
    <3> QED
      BY <3>2, <3>3, <3>4
  <2>9. CASE j # m
    <3>1. recs'[j] = recs[j]
      BY <2>9, <1>r
    <3>2. RecordSound(j, recs[j])'
      BY <1>1, <1>2, <1>n, <2>1, <2>9, <3>1 DEF RecordSound, At, Rec, Passed, Alike, Left, Live,
         Actors
    <3>3. RecordHome(j, recs[j])'
      BY <1>1, <1>2, <1>n, <2>1, <2>9, <3>1 DEF RecordHome, RecordSound, At, Rec, Passed, Alike,
         Left, Actors
    <3>4. Watched(j, recs[j])'
      BY <1>1, <1>2, <1>n, <2>1, <2>9, <3>1 DEF Watched, RecordSound, At, Rec, Passed, Alike,
         Left, Actors, Live
    <3> QED
      BY <3>2, <3>3, <3>4
  <2> QED
    BY <2>8, <2>9
<1> QED
  BY <1>r, <1>3, <1>4, <1>5, <1>6 DEF DictationInv, RecordsSound

\* The session waits for room that only it can make.
LEMMA StallKeeps ==
    ASSUME DictationBounds, DictationInv, NEW m \in DOMAIN recs, Stall(m)
    PROVE  DictationInv'
<1>1. /\ recs[m].task = "run" /\ ~recs[m].token /\ events' \in 0..MaxEvents
      /\ UNCHANGED <<active, held, owner, session, sessions, down, actor>>
  BY DEF Stall, Step, Event, inline, DictationInv, Types, DictationBounds
<1>n. /\ Len(recs) \in Nat /\ DOMAIN recs = 1..Len(recs)
      /\ \A i \in DOMAIN recs : recs[i] \in RecordTypes
      /\ active \in 0..Len(recs) /\ owner \in 0..Len(recs)
      /\ 0..Len(recs) \subseteq 0..MaxRecordings
      /\ actor \in [Actors -> FlowTypes] /\ \A b \in Actors : actor[b] \in FlowTypes
      /\ m # 0 /\ RecordSound(m, recs[m]) /\ RecordHome(m, recs[m])
  BY <1>1 DEF DictationInv, Types, Actors, DictationBounds, RecordsSound
<1>d. recs \in Seq(RecordTypes) /\ m \in DOMAIN recs /\ recs[m] \in RecordTypes
  BY <1>1, <1>n DEF DictationInv, Types, FlowsSound, Actors, At, Rec
<1> DEFINE r == [recs[m] EXCEPT !.task = "stalled"]
<1>p. /\ r \in RecordTypes
      /\ r.target = recs[m].target
      /\ r.modifier = recs[m].modifier
      /\ r.phase = recs[m].phase
      /\ r.mic = recs[m].mic
      /\ r.token = recs[m].token
      /\ r.task = "stalled"
      /\ r.home = recs[m].home
      /\ r.into = recs[m].into
      /\ r.left = recs[m].left
      /\ r.wiped = recs[m].wiped
      /\ r.ends = recs[m].ends
  BY <1>d DEF RecordTypes, Tasks
<1>u. recs' = [recs EXCEPT ![m] = r]
  BY DEF Stall, Step, Event, inline, DictationInv, Types, DictationBounds
<1> HIDE DEF r
<1>2. actor' = actor
  BY <1>1, <1>n
<1>r. /\ recs' \in Seq(RecordTypes) /\ Len(recs') = Len(recs) /\ DOMAIN recs' = DOMAIN recs
      /\ recs'[m] = r /\ \A i \in DOMAIN recs : i # m => recs'[i] = recs[i]
  BY <1>d, <1>p, <1>u, Put
<1>3. Types'
  BY <1>1, <1>2, <1>r, <1>n, NoSessionType DEF Types, DictationInv
<1>k. \A j \in DOMAIN recs :
        /\ recs'[j].modifier = recs[j].modifier /\ recs'[j].home = recs[j].home
        /\ recs[j].phase = "Cancelling" => recs'[j].phase = "Cancelling"
        /\ recs[j].task = "none" => recs'[j].task = "none"
  BY <1>1, <1>p, <1>r, <1>n DEF Passed, Alike
<1>4. FlowsSound'
  BY <1>1, <1>2, <1>r, <1>k, NoSessionType DEF FlowsSound, At, Rec, Actors, DictationInv
<1>5. HoldsSound'
  BY <1>1, <1>2, <1>p, <1>r, <1>n, NoSessionType DEF HoldsSound, FlowsSound, At, Rec, Actors,
     Ending, DictationInv, Good, Passed, Alike, Left, RecordSound, RecordsSound
<1>6. ASSUME NEW j \in DOMAIN recs
      PROVE  (RecordSound(j, recs[j]) /\ RecordHome(j, recs[j]) /\ Watched(j, recs[j]))'
  <2>1. RecordSound(j, recs[j]) /\ RecordHome(j, recs[j]) /\ Watched(j, recs[j])
    BY DEF DictationInv, RecordsSound
  <2>8. CASE j = m
    <3>2. RecordSound(j, recs[j])'
      BY <1>1, <1>2, <1>n, <2>1, <2>8, <1>p, <1>r DEF RecordSound, At, Rec, Passed, Alike, Left,
         Live, Actors
    <3>3. RecordHome(j, recs[j])'
      BY <1>1, <1>2, <1>n, <2>1, <2>8, <1>p, <1>r DEF RecordHome, RecordSound, At, Rec, Passed,
         Alike, Left, Actors
    <3>4. Watched(j, recs[j])'
      BY <1>1, <1>2, <1>n, <2>1, <2>8, <1>p, <1>r DEF Watched, RecordSound, At, Rec, Passed,
         Alike, Left, Actors, Live
    <3> QED
      BY <3>2, <3>3, <3>4
  <2>9. CASE j # m
    <3>1. recs'[j] = recs[j]
      BY <2>9, <1>r
    <3>2. RecordSound(j, recs[j])'
      BY <1>1, <1>2, <1>n, <2>1, <2>9, <3>1 DEF RecordSound, At, Rec, Passed, Alike, Left, Live,
         Actors
    <3>3. RecordHome(j, recs[j])'
      BY <1>1, <1>2, <1>n, <2>1, <2>9, <3>1 DEF RecordHome, RecordSound, At, Rec, Passed, Alike,
         Left, Actors
    <3>4. Watched(j, recs[j])'
      BY <1>1, <1>2, <1>n, <2>1, <2>9, <3>1 DEF Watched, RecordSound, At, Rec, Passed, Alike,
         Left, Actors, Live
    <3> QED
      BY <3>2, <3>3, <3>4
  <2> QED
    BY <2>8, <2>9
<1> QED
  BY <1>r, <1>3, <1>4, <1>5, <1>6 DEF DictationInv, RecordsSound

\* The overflow is told: to the companion, or to the field.
LEMMA OverflowedCompanionKeeps ==
    ASSUME DictationBounds, DictationInv, NEW m \in DOMAIN recs, Overflowed(m),
           recs[m].target # "Inline"
    PROVE  DictationInv'
<1>1. /\ recs[m].task = "overflow" /\ recs[m].target # "Inline"
      /\ UNCHANGED <<active, held, owner, session, sessions, down, actor, events>>
  BY DEF Overflowed, Step, inline
<1>n. /\ Len(recs) \in Nat /\ DOMAIN recs = 1..Len(recs)
      /\ \A i \in DOMAIN recs : recs[i] \in RecordTypes
      /\ active \in 0..Len(recs) /\ owner \in 0..Len(recs)
      /\ 0..Len(recs) \subseteq 0..MaxRecordings
      /\ actor \in [Actors -> FlowTypes] /\ \A b \in Actors : actor[b] \in FlowTypes
      /\ m # 0 /\ RecordSound(m, recs[m]) /\ RecordHome(m, recs[m])
  BY <1>1 DEF DictationInv, Types, Actors, DictationBounds, RecordsSound
<1>d. recs \in Seq(RecordTypes) /\ m \in DOMAIN recs /\ recs[m] \in RecordTypes
  BY <1>1, <1>n DEF DictationInv, Types, FlowsSound, Actors, At, Rec
<1> DEFINE r == [recs[m] EXCEPT !.task = "run"]
<1>p. /\ r \in RecordTypes
      /\ r.target = recs[m].target
      /\ r.modifier = recs[m].modifier
      /\ r.phase = recs[m].phase
      /\ r.mic = recs[m].mic
      /\ r.token = recs[m].token
      /\ r.task = "run"
      /\ r.home = recs[m].home
      /\ r.into = recs[m].into
      /\ r.left = recs[m].left
      /\ r.wiped = recs[m].wiped
      /\ r.ends = recs[m].ends
  BY <1>d, <1>1, <1>n DEF RecordTypes, Tasks, Phases
<1>u. recs' = [recs EXCEPT ![m] = r]
  BY DEF Overflowed, Step, inline
<1> HIDE DEF r
<1>2. actor' = actor
  BY <1>1, <1>n
<1>r. /\ recs' \in Seq(RecordTypes) /\ Len(recs') = Len(recs) /\ DOMAIN recs' = DOMAIN recs
      /\ recs'[m] = r /\ \A i \in DOMAIN recs : i # m => recs'[i] = recs[i]
  BY <1>d, <1>p, <1>u, Put
<1>3. Types'
  BY <1>1, <1>2, <1>r, <1>n, NoSessionType DEF Types, DictationInv
<1>k. \A j \in DOMAIN recs :
        /\ recs'[j].modifier = recs[j].modifier /\ recs'[j].home = recs[j].home
        /\ recs[j].phase = "Cancelling" => recs'[j].phase = "Cancelling"
        /\ recs[j].task = "none" => recs'[j].task = "none"
  BY <1>1, <1>p, <1>r, <1>n DEF Passed, Alike
<1>4. FlowsSound'
  BY <1>1, <1>2, <1>r, <1>k, NoSessionType DEF FlowsSound, At, Rec, Actors, DictationInv
<1>5. HoldsSound'
  BY <1>1, <1>2, <1>p, <1>r, <1>n, NoSessionType DEF HoldsSound, FlowsSound, At, Rec, Actors,
     Ending, DictationInv, Good, Passed, Alike, Left, RecordSound, RecordsSound
<1>6. ASSUME NEW j \in DOMAIN recs
      PROVE  (RecordSound(j, recs[j]) /\ RecordHome(j, recs[j]) /\ Watched(j, recs[j]))'
  <2>1. RecordSound(j, recs[j]) /\ RecordHome(j, recs[j]) /\ Watched(j, recs[j])
    BY DEF DictationInv, RecordsSound
  <2>8. CASE j = m
    <3>2. RecordSound(j, recs[j])'
      BY <1>1, <1>2, <1>n, <2>1, <2>8, <1>p, <1>r DEF RecordSound, At, Rec, Passed, Alike, Left,
         Live, Actors
    <3>3. RecordHome(j, recs[j])'
      BY <1>1, <1>2, <1>n, <2>1, <2>8, <1>p, <1>r DEF RecordHome, RecordSound, At, Rec, Passed,
         Alike, Left, Actors
    <3>4. Watched(j, recs[j])'
      BY <1>1, <1>2, <1>n, <2>1, <2>8, <1>p, <1>r DEF Watched, RecordSound, At, Rec, Passed,
         Alike, Left, Actors, Live
    <3> QED
      BY <3>2, <3>3, <3>4
  <2>9. CASE j # m
    <3>1. recs'[j] = recs[j]
      BY <2>9, <1>r
    <3>2. RecordSound(j, recs[j])'
      BY <1>1, <1>2, <1>n, <2>1, <2>9, <3>1 DEF RecordSound, At, Rec, Passed, Alike, Left, Live,
         Actors
    <3>3. RecordHome(j, recs[j])'
      BY <1>1, <1>2, <1>n, <2>1, <2>9, <3>1 DEF RecordHome, RecordSound, At, Rec, Passed, Alike,
         Left, Actors
    <3>4. Watched(j, recs[j])'
      BY <1>1, <1>2, <1>n, <2>1, <2>9, <3>1 DEF Watched, RecordSound, At, Rec, Passed, Alike,
         Left, Actors, Live
    <3> QED
      BY <3>2, <3>3, <3>4
  <2> QED
    BY <2>8, <2>9
<1> QED
  BY <1>r, <1>3, <1>4, <1>5, <1>6 DEF DictationInv, RecordsSound

LEMMA OverflowedInlineKeeps ==
    ASSUME DictationBounds, DictationInv, NEW m \in DOMAIN recs, Overflowed(m),
           recs[m].target = "Inline"
    PROVE  DictationInv'
<1>1. /\ recs[m].task = "overflow" /\ recs[m].target = "Inline"
      /\ held' = FALSE /\ owner' = 0
      /\ session' = (IF session.kind = "dictation" THEN NoSession ELSE session)
      /\ UNCHANGED <<active, sessions, down, actor, events>>
  BY DEF Overflowed, Step, CancelDictation
<1>n. /\ Len(recs) \in Nat /\ DOMAIN recs = 1..Len(recs)
      /\ \A i \in DOMAIN recs : recs[i] \in RecordTypes
      /\ active \in 0..Len(recs) /\ owner \in 0..Len(recs)
      /\ 0..Len(recs) \subseteq 0..MaxRecordings
      /\ actor \in [Actors -> FlowTypes] /\ \A b \in Actors : actor[b] \in FlowTypes
      /\ m # 0 /\ RecordSound(m, recs[m]) /\ RecordHome(m, recs[m])
  BY <1>1 DEF DictationInv, Types, Actors, DictationBounds, RecordsSound
<1>d. recs \in Seq(RecordTypes) /\ m \in DOMAIN recs /\ recs[m] \in RecordTypes
  BY <1>1, <1>n DEF DictationInv, Types, FlowsSound, Actors, At, Rec
<1> DEFINE r == [recs[m] EXCEPT !.task = "run"]
<1>p. /\ r \in RecordTypes
      /\ r.target = recs[m].target
      /\ r.modifier = recs[m].modifier
      /\ r.phase = recs[m].phase
      /\ r.mic = recs[m].mic
      /\ r.token = recs[m].token
      /\ r.task = "run"
      /\ r.home = recs[m].home
      /\ r.into = recs[m].into
      /\ r.left = recs[m].left
      /\ r.wiped = recs[m].wiped
      /\ r.ends = recs[m].ends
  BY <1>d, <1>1, <1>n DEF RecordTypes, Tasks, Phases
<1>u. recs' = Wiped([recs EXCEPT ![m] = r])
  BY DEF Overflowed, Step, CancelDictation
<1> HIDE DEF r
<1>2. actor' = actor
  BY <1>1, <1>n
<1>r. /\ recs' \in Seq(RecordTypes) /\ Len(recs') = Len(recs) /\ DOMAIN recs' = DOMAIN recs
      /\ Passed(r, recs'[m]) /\ \A i \in DOMAIN recs : i # m => Passed(recs[i], recs'[i])
  BY <1>d, <1>p, <1>u, PutWiped
<1>3. Types'
  <2>1. /\ recs' \in Seq(RecordTypes) /\ Len(recs') <= MaxRecordings /\ active' \in 0..Len(recs')
        /\ owner' \in 0..Len(recs')
    BY <1>1, <1>2, <1>r, <1>n DEF Types, DictationInv
  <2>2. held' \in BOOLEAN /\ down' \in BOOLEAN /\ session' \in SessionTypes
    BY <1>1, <1>2, NoSessionType DEF Types, DictationInv
  <2>3. /\ sessions' \in 0..MaxSessions /\ events' \in 0..MaxEvents
        /\ actor' \in [Actors -> FlowTypes]
    BY <1>1, <1>2, <1>n DEF Types, DictationInv
  <2> QED
    BY <2>1, <2>2, <2>3 DEF Types
<1>k. \A j \in DOMAIN recs :
        /\ recs'[j].modifier = recs[j].modifier /\ recs'[j].home = recs[j].home
        /\ recs[j].phase = "Cancelling" => recs'[j].phase = "Cancelling"
        /\ recs[j].task = "none" => recs'[j].task = "none"
  BY <1>1, <1>p, <1>r, <1>n DEF Passed, Alike
<1>4. FlowsSound'
  BY <1>1, <1>2, <1>r, <1>k, NoSessionType DEF FlowsSound, At, Rec, Actors, DictationInv
<1>5. HoldsSound'
  BY <1>1, <1>2, <1>p, <1>r, <1>n, NoSessionType DEF HoldsSound, FlowsSound, At, Rec, Actors,
     Ending, DictationInv, Good, Passed, Alike, Left, RecordSound, RecordsSound
<1>6. ASSUME NEW j \in DOMAIN recs
      PROVE  (RecordSound(j, recs[j]) /\ RecordHome(j, recs[j]) /\ Watched(j, recs[j]))'
  <2>1. RecordSound(j, recs[j]) /\ RecordHome(j, recs[j]) /\ Watched(j, recs[j])
    BY DEF DictationInv, RecordsSound
  <2>8. CASE j = m
    <3>2. RecordSound(j, recs[j])'
      BY <1>1, <1>2, <1>n, <2>1, <2>8, <1>p, <1>r DEF RecordSound, At, Rec, Passed, Alike, Left,
         Live, Actors
    <3>3. RecordHome(j, recs[j])'
      BY <1>1, <1>2, <1>n, <2>1, <2>8, <1>p, <1>r DEF RecordHome, RecordSound, At, Rec, Passed,
         Alike, Left, Actors
    <3>4. Watched(j, recs[j])'
      BY <1>1, <1>2, <1>n, <2>1, <2>8, <1>p, <1>r DEF Watched, RecordSound, At, Rec, Passed,
         Alike, Left, Actors, Live
    <3> QED
      BY <3>2, <3>3, <3>4
  <2>9. CASE j # m
    <3>1. Passed(recs[j], recs'[j])
      BY <2>9, <1>r
    <3>2. RecordSound(j, recs[j])'
      BY <1>1, <1>2, <1>n, <2>1, <2>9, <3>1 DEF RecordSound, At, Rec, Passed, Alike, Left, Live,
         Actors
    <3>3. RecordHome(j, recs[j])'
      BY <1>1, <1>2, <1>n, <2>1, <2>9, <3>1 DEF RecordHome, RecordSound, At, Rec, Passed, Alike,
         Left, Actors
    <3>4. Watched(j, recs[j])'
      BY <1>1, <1>2, <1>n, <2>1, <2>9, <3>1 DEF Watched, RecordSound, At, Rec, Passed, Alike,
         Left, Actors, Live
    <3> QED
      BY <3>2, <3>3, <3>4
  <2> QED
    BY <2>8, <2>9
<1> QED
  BY <1>r, <1>3, <1>4, <1>5, <1>6 DEF DictationInv, RecordsSound

\* A recording reaches its limit.
LEMMA LimitKeeps ==
    ASSUME DictationBounds, DictationInv, NEW m \in DOMAIN recs, Limit(m)
    PROVE  DictationInv'
<1>1. /\ recs[m].task \in {"run", "stalled"} /\ recs[m].phase = "Listening" /\ active = m
      /\ UNCHANGED <<active, held, owner, session, sessions, down, actor, events>>
  BY DEF Limit, Running, inline
<1>n. /\ Len(recs) \in Nat /\ DOMAIN recs = 1..Len(recs)
      /\ \A i \in DOMAIN recs : recs[i] \in RecordTypes
      /\ active \in 0..Len(recs) /\ owner \in 0..Len(recs)
      /\ 0..Len(recs) \subseteq 0..MaxRecordings
      /\ actor \in [Actors -> FlowTypes] /\ \A b \in Actors : actor[b] \in FlowTypes
      /\ m # 0 /\ RecordSound(m, recs[m]) /\ RecordHome(m, recs[m])
  BY <1>1 DEF DictationInv, Types, Actors, DictationBounds, RecordsSound
<1>d. recs \in Seq(RecordTypes) /\ m \in DOMAIN recs /\ recs[m] \in RecordTypes
  BY <1>1, <1>n DEF DictationInv, Types, FlowsSound, Actors, At, Rec
<1> DEFINE r == Finalized(recs[m])
<1>p. /\ r \in RecordTypes
      /\ r.target = recs[m].target
      /\ r.modifier = recs[m].modifier
      /\ r.phase = (IF recs[m].phase \in
              {"Opening", "Listening"} THEN "Finalizing" ELSE recs[m].phase)
      /\ r.mic = (IF recs[m].phase \in
              {"Opening", "Listening"} /\ recs[m].mic = "open" THEN "stopped" ELSE recs[m].mic)
      /\ r.token = recs[m].token
      /\ r.task = recs[m].task
      /\ r.home = recs[m].home
      /\ r.into = recs[m].into
      /\ r.left = recs[m].left
      /\ r.wiped = recs[m].wiped
      /\ r.ends = recs[m].ends
  BY <1>d, FinalizedType
<1>u. recs' = [recs EXCEPT ![m] = r]
  BY DEF Limit, Running, inline
<1> HIDE DEF r
<1>2. actor' = actor
  BY <1>1, <1>n
<1>r. /\ recs' \in Seq(RecordTypes) /\ Len(recs') = Len(recs) /\ DOMAIN recs' = DOMAIN recs
      /\ recs'[m] = r /\ \A i \in DOMAIN recs : i # m => recs'[i] = recs[i]
  BY <1>d, <1>p, <1>u, Put
<1>3. Types'
  BY <1>1, <1>2, <1>r, <1>n, NoSessionType DEF Types, DictationInv
<1>k. \A j \in DOMAIN recs :
        /\ recs'[j].modifier = recs[j].modifier /\ recs'[j].home = recs[j].home
        /\ recs[j].phase = "Cancelling" => recs'[j].phase = "Cancelling"
        /\ recs[j].task = "none" => recs'[j].task = "none"
  BY <1>1, <1>p, <1>r, <1>n DEF Passed, Alike
<1>4. FlowsSound'
  BY <1>1, <1>2, <1>r, <1>k, NoSessionType DEF FlowsSound, At, Rec, Actors, DictationInv
<1>5. HoldsSound'
  BY <1>1, <1>2, <1>p, <1>r, <1>n, NoSessionType DEF HoldsSound, FlowsSound, At, Rec, Actors,
     Ending, DictationInv, Good, Passed, Alike, Left, RecordSound, RecordsSound
<1>6. ASSUME NEW j \in DOMAIN recs
      PROVE  (RecordSound(j, recs[j]) /\ RecordHome(j, recs[j]) /\ Watched(j, recs[j]))'
  <2>1. RecordSound(j, recs[j]) /\ RecordHome(j, recs[j]) /\ Watched(j, recs[j])
    BY DEF DictationInv, RecordsSound
  <2>8. CASE j = m
    <3>2. RecordSound(j, recs[j])'
      BY <1>1, <1>2, <1>n, <2>1, <2>8, <1>p, <1>r DEF RecordSound, At, Rec, Passed, Alike, Left,
         Live, Actors
    <3>3. RecordHome(j, recs[j])'
      BY <1>1, <1>2, <1>n, <2>1, <2>8, <1>p, <1>r DEF RecordHome, RecordSound, At, Rec, Passed,
         Alike, Left, Actors
    <3>4. Watched(j, recs[j])'
      BY <1>1, <1>2, <1>n, <2>1, <2>8, <1>p, <1>r DEF Watched, RecordSound, At, Rec, Passed,
         Alike, Left, Actors, Live
    <3> QED
      BY <3>2, <3>3, <3>4
  <2>9. CASE j # m
    <3>1. recs'[j] = recs[j]
      BY <2>9, <1>r
    <3>2. RecordSound(j, recs[j])'
      BY <1>1, <1>2, <1>n, <2>1, <2>9, <3>1 DEF RecordSound, At, Rec, Passed, Alike, Left, Live,
         Actors
    <3>3. RecordHome(j, recs[j])'
      BY <1>1, <1>2, <1>n, <2>1, <2>9, <3>1 DEF RecordHome, RecordSound, At, Rec, Passed, Alike,
         Left, Actors
    <3>4. Watched(j, recs[j])'
      BY <1>1, <1>2, <1>n, <2>1, <2>9, <3>1 DEF Watched, RecordSound, At, Rec, Passed, Alike,
         Left, Actors, Live
    <3> QED
      BY <3>2, <3>3, <3>4
  <2> QED
    BY <2>8, <2>9
<1> QED
  BY <1>r, <1>3, <1>4, <1>5, <1>6 DEF DictationInv, RecordsSound

\* The session ends, with a transcript or not.
LEMMA FinishKeeps ==
    ASSUME DictationBounds, DictationInv, NEW m \in DOMAIN recs,
           NEW what \in {"text", "blank", "bad"},
           Running(m), active' = 0, events' \in 0..MaxEvents,
           recs' = [recs EXCEPT ![m] = Ended(recs[m], what)],
           UNCHANGED <<inline, sessions, down, actor>>
    PROVE  DictationInv'
<1>1. /\ recs[m].task \in {"run", "stalled"} /\ active' = 0 /\ events' \in 0..MaxEvents
      /\ UNCHANGED <<held, owner, session, sessions, down, actor>>
  BY DEF Running, inline
<1>n. /\ Len(recs) \in Nat /\ DOMAIN recs = 1..Len(recs)
      /\ \A i \in DOMAIN recs : recs[i] \in RecordTypes
      /\ active \in 0..Len(recs) /\ owner \in 0..Len(recs)
      /\ 0..Len(recs) \subseteq 0..MaxRecordings
      /\ actor \in [Actors -> FlowTypes] /\ \A b \in Actors : actor[b] \in FlowTypes
      /\ m # 0 /\ RecordSound(m, recs[m]) /\ RecordHome(m, recs[m])
  BY <1>1 DEF DictationInv, Types, Actors, DictationBounds, RecordsSound
<1>d. recs \in Seq(RecordTypes) /\ m \in DOMAIN recs /\ recs[m] \in RecordTypes
  BY <1>1, <1>n DEF DictationInv, Types, FlowsSound, Actors, At, Rec
<1> DEFINE r == Ended(recs[m], what)
<1>p. /\ r \in RecordTypes
      /\ r.target = recs[m].target
      /\ r.modifier = recs[m].modifier
      /\ r.phase = recs[m].phase
      /\ r.mic = recs[m].mic
      /\ r.token = TRUE
      /\ r.task = (IF recs[m].phase = "Cancelling" THEN "done" ELSE what)
      /\ r.home = recs[m].home
      /\ r.into = recs[m].into
      /\ r.left = recs[m].left
      /\ r.wiped = recs[m].wiped
      /\ r.ends = (IF recs[m].phase = "Cancelling" THEN recs[m].ends ELSE recs[m].ends + 1)
  <2>1. what \in Tasks
    BY DEF Tasks
  <2> QED
    BY <1>d, <2>1, EndedType
<1>u. recs' = [recs EXCEPT ![m] = r]
  BY DEF Running, inline
<1> HIDE DEF r
<1>2. actor' = actor
  BY <1>1, <1>n
<1>r. /\ recs' \in Seq(RecordTypes) /\ Len(recs') = Len(recs) /\ DOMAIN recs' = DOMAIN recs
      /\ recs'[m] = r /\ \A i \in DOMAIN recs : i # m => recs'[i] = recs[i]
  BY <1>d, <1>p, <1>u, Put
<1>3. Types'
  BY <1>1, <1>2, <1>r, <1>n, NoSessionType DEF Types, DictationInv
<1>k. \A j \in DOMAIN recs :
        /\ recs'[j].modifier = recs[j].modifier /\ recs'[j].home = recs[j].home
        /\ recs[j].phase = "Cancelling" => recs'[j].phase = "Cancelling"
        /\ recs[j].task = "none" => recs'[j].task = "none"
  BY <1>1, <1>p, <1>r, <1>n DEF Passed, Alike
<1>4. FlowsSound'
  BY <1>1, <1>2, <1>r, <1>k, NoSessionType DEF FlowsSound, At, Rec, Actors, DictationInv
<1>5. HoldsSound'
  BY <1>1, <1>2, <1>p, <1>r, <1>n, NoSessionType DEF HoldsSound, FlowsSound, At, Rec, Actors,
     Ending, DictationInv, Good, Passed, Alike, Left, RecordSound, RecordsSound
<1>6. ASSUME NEW j \in DOMAIN recs
      PROVE  (RecordSound(j, recs[j]) /\ RecordHome(j, recs[j]) /\ Watched(j, recs[j]))'
  <2>1. RecordSound(j, recs[j]) /\ RecordHome(j, recs[j]) /\ Watched(j, recs[j])
    BY DEF DictationInv, RecordsSound
  <2>8. CASE j = m
    <3>2. RecordSound(j, recs[j])'
      BY <1>1, <1>2, <1>n, <2>1, <2>8, <1>p, <1>r DEF RecordSound, At, Rec, Passed, Alike, Left,
         Live, Actors
    <3>3. RecordHome(j, recs[j])'
      BY <1>1, <1>2, <1>n, <2>1, <2>8, <1>p, <1>r DEF RecordHome, RecordSound, At, Rec, Passed,
         Alike, Left, Actors
    <3>4. Watched(j, recs[j])'
      BY <1>1, <1>2, <1>n, <2>1, <2>8, <1>p, <1>r DEF Watched, RecordSound, At, Rec, Passed,
         Alike, Left, Actors, Live
    <3> QED
      BY <3>2, <3>3, <3>4
  <2>9. CASE j # m
    <3>1. recs'[j] = recs[j]
      BY <2>9, <1>r
    <3>2. RecordSound(j, recs[j])'
      BY <1>1, <1>2, <1>n, <2>1, <2>9, <3>1 DEF RecordSound, At, Rec, Passed, Alike, Left, Live,
         Actors
    <3>3. RecordHome(j, recs[j])'
      BY <1>1, <1>2, <1>n, <2>1, <2>9, <3>1 DEF RecordHome, RecordSound, At, Rec, Passed, Alike,
         Left, Actors
    <3>4. Watched(j, recs[j])'
      BY <1>1, <1>2, <1>n, <2>1, <2>9, <3>1 DEF Watched, RecordSound, At, Rec, Passed, Alike,
         Left, Actors, Live
    <3> QED
      BY <3>2, <3>3, <3>4
  <2> QED
    BY <2>8, <2>9
<1> QED
  BY <1>r, <1>3, <1>4, <1>5, <1>6 DEF DictationInv, RecordsSound

\* The text goes into the session, or is late.
LEMMA TextDeliveredKeeps ==
    ASSUME DictationBounds, DictationInv, NEW m \in DOMAIN recs, TellText(m),
           recs[m].target = "Inline", session.kind = "dictation"
    PROVE  DictationInv'
<1>1. /\ recs[m].task = "text" /\ recs[m].target = "Inline" /\ owner' = 0 /\ session' = NoSession
      /\ session.kind = "dictation" /\ session \in SessionTypes
      /\ UNCHANGED <<active, held, sessions, down, actor, events>>
  BY DEF TellText, Step, DictationInv, Types
<1>n. /\ Len(recs) \in Nat /\ DOMAIN recs = 1..Len(recs)
      /\ \A i \in DOMAIN recs : recs[i] \in RecordTypes
      /\ active \in 0..Len(recs) /\ owner \in 0..Len(recs)
      /\ 0..Len(recs) \subseteq 0..MaxRecordings
      /\ actor \in [Actors -> FlowTypes] /\ \A b \in Actors : actor[b] \in FlowTypes
      /\ m # 0 /\ RecordSound(m, recs[m]) /\ RecordHome(m, recs[m])
      /\ session.id \in 0..MaxSessions
      /\ (owner = m => session.id = recs[m].home)
  BY <1>1 DEF DictationInv, Types, Actors, DictationBounds, RecordsSound, SessionTypes, HoldsSound
<1>d. recs \in Seq(RecordTypes) /\ m \in DOMAIN recs /\ recs[m] \in RecordTypes
  BY <1>1, <1>n DEF DictationInv, Types, FlowsSound, Actors, At, Rec
<1> DEFINE r == [recs[m] EXCEPT !.task = "done", !.into = session.id]
<1>p. /\ r \in RecordTypes
      /\ r.target = recs[m].target
      /\ r.modifier = recs[m].modifier
      /\ r.phase = recs[m].phase
      /\ r.mic = recs[m].mic
      /\ r.token = recs[m].token
      /\ r.task = "done"
      /\ r.home = recs[m].home
      /\ r.into = session.id
      /\ r.left = recs[m].left
      /\ r.wiped = recs[m].wiped
      /\ r.ends = recs[m].ends
  BY <1>d, <1>1, <1>n DEF RecordTypes, Tasks, Phases
<1>u. recs' = Wiped([recs EXCEPT ![m] = r])
  BY DEF TellText, Step, DictationInv, Types
<1> HIDE DEF r
<1>2. actor' = actor
  BY <1>1, <1>n
<1>r. /\ recs' \in Seq(RecordTypes) /\ Len(recs') = Len(recs) /\ DOMAIN recs' = DOMAIN recs
      /\ Passed(r, recs'[m]) /\ \A i \in DOMAIN recs : i # m => Passed(recs[i], recs'[i])
  BY <1>d, <1>p, <1>u, PutWiped
<1>3. Types'
  BY <1>1, <1>2, <1>r, <1>n, NoSessionType DEF Types, DictationInv
<1>k. \A j \in DOMAIN recs :
        /\ recs'[j].modifier = recs[j].modifier /\ recs'[j].home = recs[j].home
        /\ recs[j].phase = "Cancelling" => recs'[j].phase = "Cancelling"
        /\ recs[j].task = "none" => recs'[j].task = "none"
  BY <1>1, <1>p, <1>r, <1>n DEF Passed, Alike
<1>4. FlowsSound'
  BY <1>1, <1>2, <1>r, <1>k, NoSessionType DEF FlowsSound, At, Rec, Actors, DictationInv
<1>5. HoldsSound'
  BY <1>1, <1>2, <1>p, <1>r, <1>n, NoSessionType DEF HoldsSound, FlowsSound, At, Rec, Actors,
     Ending, DictationInv, Good, Passed, Alike, Left, RecordSound, RecordsSound
<1>6. ASSUME NEW j \in DOMAIN recs
      PROVE  (RecordSound(j, recs[j]) /\ RecordHome(j, recs[j]) /\ Watched(j, recs[j]))'
  <2>1. RecordSound(j, recs[j]) /\ RecordHome(j, recs[j]) /\ Watched(j, recs[j])
    BY DEF DictationInv, RecordsSound
  <2>8. CASE j = m
    <3>2. RecordSound(j, recs[j])'
      BY <1>1, <1>2, <1>n, <2>1, <2>8, <1>p, <1>r DEF RecordSound, At, Rec, Passed, Alike, Left,
         Live, Actors
    <3>3. RecordHome(j, recs[j])'
      BY <1>1, <1>2, <1>n, <2>1, <2>8, <1>p, <1>r DEF RecordHome, RecordSound, At, Rec, Passed,
         Alike, Left, Actors
    <3>4. Watched(j, recs[j])'
      BY <1>1, <1>2, <1>n, <2>1, <2>8, <1>p, <1>r DEF Watched, RecordSound, At, Rec, Passed,
         Alike, Left, Actors, Live
    <3> QED
      BY <3>2, <3>3, <3>4
  <2>9. CASE j # m
    <3>1. Passed(recs[j], recs'[j])
      BY <2>9, <1>r
    <3>2. RecordSound(j, recs[j])'
      BY <1>1, <1>2, <1>n, <2>1, <2>9, <3>1 DEF RecordSound, At, Rec, Passed, Alike, Left, Live,
         Actors
    <3>3. RecordHome(j, recs[j])'
      BY <1>1, <1>2, <1>n, <2>1, <2>9, <3>1 DEF RecordHome, RecordSound, At, Rec, Passed, Alike,
         Left, Actors
    <3>4. Watched(j, recs[j])'
      BY <1>1, <1>2, <1>n, <2>1, <2>9, <3>1 DEF Watched, RecordSound, At, Rec, Passed, Alike,
         Left, Actors, Live
    <3> QED
      BY <3>2, <3>3, <3>4
  <2> QED
    BY <2>8, <2>9
<1> QED
  BY <1>r, <1>3, <1>4, <1>5, <1>6 DEF DictationInv, RecordsSound

LEMMA TextLateKeeps ==
    ASSUME DictationBounds, DictationInv, NEW m \in DOMAIN recs, TellText(m),
           recs[m].target = "Inline", session.kind # "dictation"
    PROVE  DictationInv'
<1>1. /\ recs[m].task = "text" /\ recs[m].target = "Inline" /\ owner' = 0
      /\ session.kind # "dictation"
      /\ UNCHANGED <<active, held, session, sessions, down, actor, events>>
  BY DEF TellText, Step, DictationInv, Types
<1>n. /\ Len(recs) \in Nat /\ DOMAIN recs = 1..Len(recs)
      /\ \A i \in DOMAIN recs : recs[i] \in RecordTypes
      /\ active \in 0..Len(recs) /\ owner \in 0..Len(recs)
      /\ 0..Len(recs) \subseteq 0..MaxRecordings
      /\ actor \in [Actors -> FlowTypes] /\ \A b \in Actors : actor[b] \in FlowTypes
      /\ m # 0 /\ RecordSound(m, recs[m]) /\ RecordHome(m, recs[m])
  BY <1>1 DEF DictationInv, Types, Actors, DictationBounds, RecordsSound
<1>d. recs \in Seq(RecordTypes) /\ m \in DOMAIN recs /\ recs[m] \in RecordTypes
  BY <1>1, <1>n DEF DictationInv, Types, FlowsSound, Actors, At, Rec
<1> DEFINE r == [recs[m] EXCEPT !.task = "wipe"]
<1>p. /\ r \in RecordTypes
      /\ r.target = recs[m].target
      /\ r.modifier = recs[m].modifier
      /\ r.phase = recs[m].phase
      /\ r.mic = recs[m].mic
      /\ r.token = recs[m].token
      /\ r.task = "wipe"
      /\ r.home = recs[m].home
      /\ r.into = recs[m].into
      /\ r.left = recs[m].left
      /\ r.wiped = recs[m].wiped
      /\ r.ends = recs[m].ends
  BY <1>d, <1>1, <1>n DEF RecordTypes, Tasks, Phases
<1>u. recs' = Wiped([recs EXCEPT ![m] = r])
  BY DEF TellText, Step, DictationInv, Types
<1> HIDE DEF r
<1>2. actor' = actor
  BY <1>1, <1>n
<1>r. /\ recs' \in Seq(RecordTypes) /\ Len(recs') = Len(recs) /\ DOMAIN recs' = DOMAIN recs
      /\ Passed(r, recs'[m]) /\ \A i \in DOMAIN recs : i # m => Passed(recs[i], recs'[i])
  BY <1>d, <1>p, <1>u, PutWiped
<1>3. Types'
  BY <1>1, <1>2, <1>r, <1>n, NoSessionType DEF Types, DictationInv
<1>k. \A j \in DOMAIN recs :
        /\ recs'[j].modifier = recs[j].modifier /\ recs'[j].home = recs[j].home
        /\ recs[j].phase = "Cancelling" => recs'[j].phase = "Cancelling"
        /\ recs[j].task = "none" => recs'[j].task = "none"
  BY <1>1, <1>p, <1>r, <1>n DEF Passed, Alike
<1>4. FlowsSound'
  BY <1>1, <1>2, <1>r, <1>k, NoSessionType DEF FlowsSound, At, Rec, Actors, DictationInv
<1>5. HoldsSound'
  BY <1>1, <1>2, <1>p, <1>r, <1>n, NoSessionType DEF HoldsSound, FlowsSound, At, Rec, Actors,
     Ending, DictationInv, Good, Passed, Alike, Left, RecordSound, RecordsSound
<1>6. ASSUME NEW j \in DOMAIN recs
      PROVE  (RecordSound(j, recs[j]) /\ RecordHome(j, recs[j]) /\ Watched(j, recs[j]))'
  <2>1. RecordSound(j, recs[j]) /\ RecordHome(j, recs[j]) /\ Watched(j, recs[j])
    BY DEF DictationInv, RecordsSound
  <2>8. CASE j = m
    <3>2. RecordSound(j, recs[j])'
      BY <1>1, <1>2, <1>n, <2>1, <2>8, <1>p, <1>r DEF RecordSound, At, Rec, Passed, Alike, Left,
         Live, Actors
    <3>3. RecordHome(j, recs[j])'
      BY <1>1, <1>2, <1>n, <2>1, <2>8, <1>p, <1>r DEF RecordHome, RecordSound, At, Rec, Passed,
         Alike, Left, Actors
    <3>4. Watched(j, recs[j])'
      BY <1>1, <1>2, <1>n, <2>1, <2>8, <1>p, <1>r DEF Watched, RecordSound, At, Rec, Passed,
         Alike, Left, Actors, Live
    <3> QED
      BY <3>2, <3>3, <3>4
  <2>9. CASE j # m
    <3>1. Passed(recs[j], recs'[j])
      BY <2>9, <1>r
    <3>2. RecordSound(j, recs[j])'
      BY <1>1, <1>2, <1>n, <2>1, <2>9, <3>1 DEF RecordSound, At, Rec, Passed, Alike, Left, Live,
         Actors
    <3>3. RecordHome(j, recs[j])'
      BY <1>1, <1>2, <1>n, <2>1, <2>9, <3>1 DEF RecordHome, RecordSound, At, Rec, Passed, Alike,
         Left, Actors
    <3>4. Watched(j, recs[j])'
      BY <1>1, <1>2, <1>n, <2>1, <2>9, <3>1 DEF Watched, RecordSound, At, Rec, Passed, Alike,
         Left, Actors, Live
    <3> QED
      BY <3>2, <3>3, <3>4
  <2> QED
    BY <2>8, <2>9
<1> QED
  BY <1>r, <1>3, <1>4, <1>5, <1>6 DEF DictationInv, RecordsSound

\* A transcript for the companion leaves the hold alone.
LEMMA TellNobodyKeeps ==
    ASSUME DictationBounds, DictationInv, NEW m \in DOMAIN recs, TellText(m) \/ TellBlank(m),
           recs[m].target = "Companion"
    PROVE  DictationInv'
<1>1. /\ recs[m].task \in {"text", "blank"} /\ recs[m].target = "Companion"
      /\ UNCHANGED <<active, held, owner, session, sessions, down, actor, events>>
  BY DEF TellText, TellBlank, Step, Done, inline
<1>n. /\ Len(recs) \in Nat /\ DOMAIN recs = 1..Len(recs)
      /\ \A i \in DOMAIN recs : recs[i] \in RecordTypes
      /\ active \in 0..Len(recs) /\ owner \in 0..Len(recs)
      /\ 0..Len(recs) \subseteq 0..MaxRecordings
      /\ actor \in [Actors -> FlowTypes] /\ \A b \in Actors : actor[b] \in FlowTypes
      /\ m # 0 /\ RecordSound(m, recs[m]) /\ RecordHome(m, recs[m])
  BY <1>1 DEF DictationInv, Types, Actors, DictationBounds, RecordsSound
<1>d. recs \in Seq(RecordTypes) /\ m \in DOMAIN recs /\ recs[m] \in RecordTypes
  BY <1>1, <1>n DEF DictationInv, Types, FlowsSound, Actors, At, Rec
<1> DEFINE r == [recs[m] EXCEPT !.task = "done"]
<1>p. /\ r \in RecordTypes
      /\ r.target = recs[m].target
      /\ r.modifier = recs[m].modifier
      /\ r.phase = recs[m].phase
      /\ r.mic = recs[m].mic
      /\ r.token = recs[m].token
      /\ r.task = "done"
      /\ r.home = recs[m].home
      /\ r.into = recs[m].into
      /\ r.left = recs[m].left
      /\ r.wiped = recs[m].wiped
      /\ r.ends = recs[m].ends
  BY <1>d, <1>1, <1>n DEF RecordTypes, Tasks, Phases
<1>u. recs' = [recs EXCEPT ![m] = r]
  BY DEF TellText, TellBlank, Step, Done, inline
<1> HIDE DEF r
<1>2. actor' = actor
  BY <1>1, <1>n
<1>r. /\ recs' \in Seq(RecordTypes) /\ Len(recs') = Len(recs) /\ DOMAIN recs' = DOMAIN recs
      /\ recs'[m] = r /\ \A i \in DOMAIN recs : i # m => recs'[i] = recs[i]
  BY <1>d, <1>p, <1>u, Put
<1>3. Types'
  BY <1>1, <1>2, <1>r, <1>n, NoSessionType DEF Types, DictationInv
<1>k. \A j \in DOMAIN recs :
        /\ recs'[j].modifier = recs[j].modifier /\ recs'[j].home = recs[j].home
        /\ recs[j].phase = "Cancelling" => recs'[j].phase = "Cancelling"
        /\ recs[j].task = "none" => recs'[j].task = "none"
  BY <1>1, <1>p, <1>r, <1>n DEF Passed, Alike
<1>4. FlowsSound'
  BY <1>1, <1>2, <1>r, <1>k, NoSessionType DEF FlowsSound, At, Rec, Actors, DictationInv
<1>5. HoldsSound'
  BY <1>1, <1>2, <1>p, <1>r, <1>n, NoSessionType DEF HoldsSound, FlowsSound, At, Rec, Actors,
     Ending, DictationInv, Good, Passed, Alike, Left, RecordSound, RecordsSound
<1>6. ASSUME NEW j \in DOMAIN recs
      PROVE  (RecordSound(j, recs[j]) /\ RecordHome(j, recs[j]) /\ Watched(j, recs[j]))'
  <2>1. RecordSound(j, recs[j]) /\ RecordHome(j, recs[j]) /\ Watched(j, recs[j])
    BY DEF DictationInv, RecordsSound
  <2>8. CASE j = m
    <3>2. RecordSound(j, recs[j])'
      BY <1>1, <1>2, <1>n, <2>1, <2>8, <1>p, <1>r DEF RecordSound, At, Rec, Passed, Alike, Left,
         Live, Actors
    <3>3. RecordHome(j, recs[j])'
      BY <1>1, <1>2, <1>n, <2>1, <2>8, <1>p, <1>r DEF RecordHome, RecordSound, At, Rec, Passed,
         Alike, Left, Actors
    <3>4. Watched(j, recs[j])'
      BY <1>1, <1>2, <1>n, <2>1, <2>8, <1>p, <1>r DEF Watched, RecordSound, At, Rec, Passed,
         Alike, Left, Actors, Live
    <3> QED
      BY <3>2, <3>3, <3>4
  <2>9. CASE j # m
    <3>1. recs'[j] = recs[j]
      BY <2>9, <1>r
    <3>2. RecordSound(j, recs[j])'
      BY <1>1, <1>2, <1>n, <2>1, <2>9, <3>1 DEF RecordSound, At, Rec, Passed, Alike, Left, Live,
         Actors
    <3>3. RecordHome(j, recs[j])'
      BY <1>1, <1>2, <1>n, <2>1, <2>9, <3>1 DEF RecordHome, RecordSound, At, Rec, Passed, Alike,
         Left, Actors
    <3>4. Watched(j, recs[j])'
      BY <1>1, <1>2, <1>n, <2>1, <2>9, <3>1 DEF Watched, RecordSound, At, Rec, Passed, Alike,
         Left, Actors, Live
    <3> QED
      BY <3>2, <3>3, <3>4
  <2> QED
    BY <2>8, <2>9
<1> QED
  BY <1>r, <1>3, <1>4, <1>5, <1>6 DEF DictationInv, RecordsSound

\* There is no text.
LEMMA TellBlankKeeps ==
    ASSUME DictationBounds, DictationInv, NEW m \in DOMAIN recs, TellBlank(m),
           recs[m].target = "Inline"
    PROVE  DictationInv'
<1>1. /\ recs[m].task = "blank" /\ recs[m].target = "Inline" /\ owner' = 0
      /\ session' = (IF session.kind = "dictation" THEN NoSession ELSE session)
      /\ UNCHANGED <<active, held, sessions, down, actor, events>>
  BY DEF TellBlank, Step
<1>n. /\ Len(recs) \in Nat /\ DOMAIN recs = 1..Len(recs)
      /\ \A i \in DOMAIN recs : recs[i] \in RecordTypes
      /\ active \in 0..Len(recs) /\ owner \in 0..Len(recs)
      /\ 0..Len(recs) \subseteq 0..MaxRecordings
      /\ actor \in [Actors -> FlowTypes] /\ \A b \in Actors : actor[b] \in FlowTypes
      /\ m # 0 /\ RecordSound(m, recs[m]) /\ RecordHome(m, recs[m])
  BY <1>1 DEF DictationInv, Types, Actors, DictationBounds, RecordsSound
<1>d. recs \in Seq(RecordTypes) /\ m \in DOMAIN recs /\ recs[m] \in RecordTypes
  BY <1>1, <1>n DEF DictationInv, Types, FlowsSound, Actors, At, Rec
<1> DEFINE r == [recs[m] EXCEPT !.task = "done"]
<1>p. /\ r \in RecordTypes
      /\ r.target = recs[m].target
      /\ r.modifier = recs[m].modifier
      /\ r.phase = recs[m].phase
      /\ r.mic = recs[m].mic
      /\ r.token = recs[m].token
      /\ r.task = "done"
      /\ r.home = recs[m].home
      /\ r.into = recs[m].into
      /\ r.left = recs[m].left
      /\ r.wiped = recs[m].wiped
      /\ r.ends = recs[m].ends
  BY <1>d, <1>1, <1>n DEF RecordTypes, Tasks, Phases
<1>u. recs' = Wiped([recs EXCEPT ![m] = r])
  BY DEF TellBlank, Step
<1> HIDE DEF r
<1>2. actor' = actor
  BY <1>1, <1>n
<1>r. /\ recs' \in Seq(RecordTypes) /\ Len(recs') = Len(recs) /\ DOMAIN recs' = DOMAIN recs
      /\ Passed(r, recs'[m]) /\ \A i \in DOMAIN recs : i # m => Passed(recs[i], recs'[i])
  BY <1>d, <1>p, <1>u, PutWiped
<1>3. Types'
  BY <1>1, <1>2, <1>r, <1>n, NoSessionType DEF Types, DictationInv
<1>k. \A j \in DOMAIN recs :
        /\ recs'[j].modifier = recs[j].modifier /\ recs'[j].home = recs[j].home
        /\ recs[j].phase = "Cancelling" => recs'[j].phase = "Cancelling"
        /\ recs[j].task = "none" => recs'[j].task = "none"
  BY <1>1, <1>p, <1>r, <1>n DEF Passed, Alike
<1>4. FlowsSound'
  BY <1>1, <1>2, <1>r, <1>k, NoSessionType DEF FlowsSound, At, Rec, Actors, DictationInv
<1>5. HoldsSound'
  BY <1>1, <1>2, <1>p, <1>r, <1>n, NoSessionType DEF HoldsSound, FlowsSound, At, Rec, Actors,
     Ending, DictationInv, Good, Passed, Alike, Left, RecordSound, RecordsSound
<1>6. ASSUME NEW j \in DOMAIN recs
      PROVE  (RecordSound(j, recs[j]) /\ RecordHome(j, recs[j]) /\ Watched(j, recs[j]))'
  <2>1. RecordSound(j, recs[j]) /\ RecordHome(j, recs[j]) /\ Watched(j, recs[j])
    BY DEF DictationInv, RecordsSound
  <2>8. CASE j = m
    <3>2. RecordSound(j, recs[j])'
      BY <1>1, <1>2, <1>n, <2>1, <2>8, <1>p, <1>r DEF RecordSound, At, Rec, Passed, Alike, Left,
         Live, Actors
    <3>3. RecordHome(j, recs[j])'
      BY <1>1, <1>2, <1>n, <2>1, <2>8, <1>p, <1>r DEF RecordHome, RecordSound, At, Rec, Passed,
         Alike, Left, Actors
    <3>4. Watched(j, recs[j])'
      BY <1>1, <1>2, <1>n, <2>1, <2>8, <1>p, <1>r DEF Watched, RecordSound, At, Rec, Passed,
         Alike, Left, Actors, Live
    <3> QED
      BY <3>2, <3>3, <3>4
  <2>9. CASE j # m
    <3>1. Passed(recs[j], recs'[j])
      BY <2>9, <1>r
    <3>2. RecordSound(j, recs[j])'
      BY <1>1, <1>2, <1>n, <2>1, <2>9, <3>1 DEF RecordSound, At, Rec, Passed, Alike, Left, Live,
         Actors
    <3>3. RecordHome(j, recs[j])'
      BY <1>1, <1>2, <1>n, <2>1, <2>9, <3>1 DEF RecordHome, RecordSound, At, Rec, Passed, Alike,
         Left, Actors
    <3>4. Watched(j, recs[j])'
      BY <1>1, <1>2, <1>n, <2>1, <2>9, <3>1 DEF Watched, RecordSound, At, Rec, Passed, Alike,
         Left, Actors, Live
    <3> QED
      BY <3>2, <3>3, <3>4
  <2> QED
    BY <2>8, <2>9
<1> QED
  BY <1>r, <1>3, <1>4, <1>5, <1>6 DEF DictationInv, RecordsSound

\* So is a failure.
LEMMA TellBadCompanionKeeps ==
    ASSUME DictationBounds, DictationInv, NEW m \in DOMAIN recs, TellBad(m),
           recs[m].target # "Inline"
    PROVE  DictationInv'
<1>1. /\ recs[m].task = "bad" /\ recs[m].target # "Inline"
      /\ UNCHANGED <<active, held, owner, session, sessions, down, actor, events>>
  BY DEF TellBad, Step, inline
<1>n. /\ Len(recs) \in Nat /\ DOMAIN recs = 1..Len(recs)
      /\ \A i \in DOMAIN recs : recs[i] \in RecordTypes
      /\ active \in 0..Len(recs) /\ owner \in 0..Len(recs)
      /\ 0..Len(recs) \subseteq 0..MaxRecordings
      /\ actor \in [Actors -> FlowTypes] /\ \A b \in Actors : actor[b] \in FlowTypes
      /\ m # 0 /\ RecordSound(m, recs[m]) /\ RecordHome(m, recs[m])
  BY <1>1 DEF DictationInv, Types, Actors, DictationBounds, RecordsSound
<1>d. recs \in Seq(RecordTypes) /\ m \in DOMAIN recs /\ recs[m] \in RecordTypes
  BY <1>1, <1>n DEF DictationInv, Types, FlowsSound, Actors, At, Rec
<1> DEFINE r == [recs[m] EXCEPT !.task =
        IF (recs[m].mic = "none" /\ recs[m].modifier) THEN "wipe" ELSE "done"]
<1>p. /\ r \in RecordTypes
      /\ r.target = recs[m].target
      /\ r.modifier = recs[m].modifier
      /\ r.phase = recs[m].phase
      /\ r.mic = recs[m].mic
      /\ r.token = recs[m].token
      /\ r.task = (IF (recs[m].mic = "none" /\ recs[m].modifier) THEN "wipe" ELSE "done")
      /\ r.home = recs[m].home
      /\ r.into = recs[m].into
      /\ r.left = recs[m].left
      /\ r.wiped = recs[m].wiped
      /\ r.ends = recs[m].ends
  <2>1. CASE (recs[m].mic = "none" /\ recs[m].modifier)
    BY <2>1, <1>d DEF RecordTypes, Tasks
  <2>2. CASE ~(recs[m].mic = "none" /\ recs[m].modifier)
    BY <2>2, <1>d DEF RecordTypes, Tasks
  <2> QED
    BY <2>1, <2>2
<1>u. recs' = [recs EXCEPT ![m] = r]
  BY DEF TellBad, Step, inline
<1> HIDE DEF r
<1>2. actor' = actor
  BY <1>1, <1>n
<1>r. /\ recs' \in Seq(RecordTypes) /\ Len(recs') = Len(recs) /\ DOMAIN recs' = DOMAIN recs
      /\ recs'[m] = r /\ \A i \in DOMAIN recs : i # m => recs'[i] = recs[i]
  BY <1>d, <1>p, <1>u, Put
<1>3. Types'
  BY <1>1, <1>2, <1>r, <1>n, NoSessionType DEF Types, DictationInv
<1>k. \A j \in DOMAIN recs :
        /\ recs'[j].modifier = recs[j].modifier /\ recs'[j].home = recs[j].home
        /\ recs[j].phase = "Cancelling" => recs'[j].phase = "Cancelling"
        /\ recs[j].task = "none" => recs'[j].task = "none"
  BY <1>1, <1>p, <1>r, <1>n DEF Passed, Alike
<1>4. FlowsSound'
  BY <1>1, <1>2, <1>r, <1>k, NoSessionType DEF FlowsSound, At, Rec, Actors, DictationInv
<1>5. HoldsSound'
  BY <1>1, <1>2, <1>p, <1>r, <1>n, NoSessionType DEF HoldsSound, FlowsSound, At, Rec, Actors,
     Ending, DictationInv, Good, Passed, Alike, Left, RecordSound, RecordsSound
<1>6. ASSUME NEW j \in DOMAIN recs
      PROVE  (RecordSound(j, recs[j]) /\ RecordHome(j, recs[j]) /\ Watched(j, recs[j]))'
  <2>1. RecordSound(j, recs[j]) /\ RecordHome(j, recs[j]) /\ Watched(j, recs[j])
    BY DEF DictationInv, RecordsSound
  <2>8. CASE j = m
    <3>2. RecordSound(j, recs[j])'
      BY <1>1, <1>2, <1>n, <2>1, <2>8, <1>p, <1>r DEF RecordSound, At, Rec, Passed, Alike, Left,
         Live, Actors
    <3>3. RecordHome(j, recs[j])'
      BY <1>1, <1>2, <1>n, <2>1, <2>8, <1>p, <1>r DEF RecordHome, RecordSound, At, Rec, Passed,
         Alike, Left, Actors
    <3>4. Watched(j, recs[j])'
      BY <1>1, <1>2, <1>n, <2>1, <2>8, <1>p, <1>r DEF Watched, RecordSound, At, Rec, Passed,
         Alike, Left, Actors, Live
    <3> QED
      BY <3>2, <3>3, <3>4
  <2>9. CASE j # m
    <3>1. recs'[j] = recs[j]
      BY <2>9, <1>r
    <3>2. RecordSound(j, recs[j])'
      BY <1>1, <1>2, <1>n, <2>1, <2>9, <3>1 DEF RecordSound, At, Rec, Passed, Alike, Left, Live,
         Actors
    <3>3. RecordHome(j, recs[j])'
      BY <1>1, <1>2, <1>n, <2>1, <2>9, <3>1 DEF RecordHome, RecordSound, At, Rec, Passed, Alike,
         Left, Actors
    <3>4. Watched(j, recs[j])'
      BY <1>1, <1>2, <1>n, <2>1, <2>9, <3>1 DEF Watched, RecordSound, At, Rec, Passed, Alike,
         Left, Actors, Live
    <3> QED
      BY <3>2, <3>3, <3>4
  <2> QED
    BY <2>8, <2>9
<1> QED
  BY <1>r, <1>3, <1>4, <1>5, <1>6 DEF DictationInv, RecordsSound

LEMMA TellBadInlineKeeps ==
    ASSUME DictationBounds, DictationInv, NEW m \in DOMAIN recs, TellBad(m),
           recs[m].target = "Inline"
    PROVE  DictationInv'
<1>1. /\ recs[m].task = "bad" /\ recs[m].target = "Inline"
      /\ held' = FALSE /\ owner' = 0
      /\ session' = (IF session.kind = "dictation" THEN NoSession ELSE session)
      /\ UNCHANGED <<active, sessions, down, actor, events>>
  BY DEF TellBad, Step, CancelDictation
<1>n. /\ Len(recs) \in Nat /\ DOMAIN recs = 1..Len(recs)
      /\ \A i \in DOMAIN recs : recs[i] \in RecordTypes
      /\ active \in 0..Len(recs) /\ owner \in 0..Len(recs)
      /\ 0..Len(recs) \subseteq 0..MaxRecordings
      /\ actor \in [Actors -> FlowTypes] /\ \A b \in Actors : actor[b] \in FlowTypes
      /\ m # 0 /\ RecordSound(m, recs[m]) /\ RecordHome(m, recs[m])
  BY <1>1 DEF DictationInv, Types, Actors, DictationBounds, RecordsSound
<1>d. recs \in Seq(RecordTypes) /\ m \in DOMAIN recs /\ recs[m] \in RecordTypes
  BY <1>1, <1>n DEF DictationInv, Types, FlowsSound, Actors, At, Rec
<1> DEFINE r == [recs[m] EXCEPT !.task =
        IF (recs[m].mic = "none" /\ recs[m].modifier) THEN "wipe" ELSE "done"]
<1>p. /\ r \in RecordTypes
      /\ r.target = recs[m].target
      /\ r.modifier = recs[m].modifier
      /\ r.phase = recs[m].phase
      /\ r.mic = recs[m].mic
      /\ r.token = recs[m].token
      /\ r.task = (IF (recs[m].mic = "none" /\ recs[m].modifier) THEN "wipe" ELSE "done")
      /\ r.home = recs[m].home
      /\ r.into = recs[m].into
      /\ r.left = recs[m].left
      /\ r.wiped = recs[m].wiped
      /\ r.ends = recs[m].ends
  <2>1. CASE (recs[m].mic = "none" /\ recs[m].modifier)
    BY <2>1, <1>d DEF RecordTypes, Tasks
  <2>2. CASE ~(recs[m].mic = "none" /\ recs[m].modifier)
    BY <2>2, <1>d DEF RecordTypes, Tasks
  <2> QED
    BY <2>1, <2>2
<1>u. recs' = Wiped([recs EXCEPT ![m] = r])
  BY DEF TellBad, Step, CancelDictation
<1> HIDE DEF r
<1>2. actor' = actor
  BY <1>1, <1>n
<1>r. /\ recs' \in Seq(RecordTypes) /\ Len(recs') = Len(recs) /\ DOMAIN recs' = DOMAIN recs
      /\ Passed(r, recs'[m]) /\ \A i \in DOMAIN recs : i # m => Passed(recs[i], recs'[i])
  BY <1>d, <1>p, <1>u, PutWiped
<1>3. Types'
  <2>1. /\ recs' \in Seq(RecordTypes) /\ Len(recs') <= MaxRecordings /\ active' \in 0..Len(recs')
        /\ owner' \in 0..Len(recs')
    BY <1>1, <1>2, <1>r, <1>n DEF Types, DictationInv
  <2>2. held' \in BOOLEAN /\ down' \in BOOLEAN /\ session' \in SessionTypes
    BY <1>1, <1>2, NoSessionType DEF Types, DictationInv
  <2>3. /\ sessions' \in 0..MaxSessions /\ events' \in 0..MaxEvents
        /\ actor' \in [Actors -> FlowTypes]
    BY <1>1, <1>2, <1>n DEF Types, DictationInv
  <2> QED
    BY <2>1, <2>2, <2>3 DEF Types
<1>k. \A j \in DOMAIN recs :
        /\ recs'[j].modifier = recs[j].modifier /\ recs'[j].home = recs[j].home
        /\ recs[j].phase = "Cancelling" => recs'[j].phase = "Cancelling"
        /\ recs[j].task = "none" => recs'[j].task = "none"
  BY <1>1, <1>p, <1>r, <1>n DEF Passed, Alike
<1>4. FlowsSound'
  BY <1>1, <1>2, <1>r, <1>k, NoSessionType DEF FlowsSound, At, Rec, Actors, DictationInv
<1>5. HoldsSound'
  BY <1>1, <1>2, <1>p, <1>r, <1>n, NoSessionType DEF HoldsSound, FlowsSound, At, Rec, Actors,
     Ending, DictationInv, Good, Passed, Alike, Left, RecordSound, RecordsSound
<1>6. ASSUME NEW j \in DOMAIN recs
      PROVE  (RecordSound(j, recs[j]) /\ RecordHome(j, recs[j]) /\ Watched(j, recs[j]))'
  <2>1. RecordSound(j, recs[j]) /\ RecordHome(j, recs[j]) /\ Watched(j, recs[j])
    BY DEF DictationInv, RecordsSound
  <2>8. CASE j = m
    <3>2. RecordSound(j, recs[j])'
      BY <1>1, <1>2, <1>n, <2>1, <2>8, <1>p, <1>r DEF RecordSound, At, Rec, Passed, Alike, Left,
         Live, Actors
    <3>3. RecordHome(j, recs[j])'
      BY <1>1, <1>2, <1>n, <2>1, <2>8, <1>p, <1>r DEF RecordHome, RecordSound, At, Rec, Passed,
         Alike, Left, Actors
    <3>4. Watched(j, recs[j])'
      BY <1>1, <1>2, <1>n, <2>1, <2>8, <1>p, <1>r DEF Watched, RecordSound, At, Rec, Passed,
         Alike, Left, Actors, Live
    <3> QED
      BY <3>2, <3>3, <3>4
  <2>9. CASE j # m
    <3>1. Passed(recs[j], recs'[j])
      BY <2>9, <1>r
    <3>2. RecordSound(j, recs[j])'
      BY <1>1, <1>2, <1>n, <2>1, <2>9, <3>1 DEF RecordSound, At, Rec, Passed, Alike, Left, Live,
         Actors
    <3>3. RecordHome(j, recs[j])'
      BY <1>1, <1>2, <1>n, <2>1, <2>9, <3>1 DEF RecordHome, RecordSound, At, Rec, Passed, Alike,
         Left, Actors
    <3>4. Watched(j, recs[j])'
      BY <1>1, <1>2, <1>n, <2>1, <2>9, <3>1 DEF Watched, RecordSound, At, Rec, Passed, Alike,
         Left, Actors, Live
    <3> QED
      BY <3>2, <3>3, <3>4
  <2> QED
    BY <2>8, <2>9
<1> QED
  BY <1>r, <1>3, <1>4, <1>5, <1>6 DEF DictationInv, RecordsSound

\* A recording that failed to start passes over everything.
LEMMA TaskWipeKeeps ==
    ASSUME DictationBounds, DictationInv, NEW m \in DOMAIN recs, TaskWipe(m)
    PROVE  DictationInv'
<1>1. /\ recs[m].task = "wipe" /\ held' = FALSE /\ owner' = 0 /\ session' = NoSession
      /\ UNCHANGED <<active, sessions, down, actor, events>>
  BY DEF TaskWipe, Step, CancelAll
<1>n. /\ Len(recs) \in Nat /\ DOMAIN recs = 1..Len(recs)
      /\ \A i \in DOMAIN recs : recs[i] \in RecordTypes
      /\ active \in 0..Len(recs) /\ owner \in 0..Len(recs)
      /\ 0..Len(recs) \subseteq 0..MaxRecordings
      /\ actor \in [Actors -> FlowTypes] /\ \A b \in Actors : actor[b] \in FlowTypes
      /\ m # 0 /\ RecordSound(m, recs[m]) /\ RecordHome(m, recs[m])
  BY <1>1 DEF DictationInv, Types, Actors, DictationBounds, RecordsSound
<1>d. recs \in Seq(RecordTypes) /\ m \in DOMAIN recs /\ recs[m] \in RecordTypes
  BY <1>1, <1>n DEF DictationInv, Types, FlowsSound, Actors, At, Rec
<1> DEFINE r == [recs[m] EXCEPT !.task = "done"]
<1>p. /\ r \in RecordTypes
      /\ r.target = recs[m].target
      /\ r.modifier = recs[m].modifier
      /\ r.phase = recs[m].phase
      /\ r.mic = recs[m].mic
      /\ r.token = recs[m].token
      /\ r.task = "done"
      /\ r.home = recs[m].home
      /\ r.into = recs[m].into
      /\ r.left = recs[m].left
      /\ r.wiped = recs[m].wiped
      /\ r.ends = recs[m].ends
  BY <1>d, <1>1, <1>n DEF RecordTypes, Tasks, Phases
<1>u. recs' = Wiped([recs EXCEPT ![m] = r])
  BY DEF TaskWipe, Step, CancelAll
<1> HIDE DEF r
<1>2. actor' = actor
  BY <1>1, <1>n
<1>r. /\ recs' \in Seq(RecordTypes) /\ Len(recs') = Len(recs) /\ DOMAIN recs' = DOMAIN recs
      /\ Passed(r, recs'[m]) /\ \A i \in DOMAIN recs : i # m => Passed(recs[i], recs'[i])
  BY <1>d, <1>p, <1>u, PutWiped
<1>3. Types'
  <2>1. /\ recs' \in Seq(RecordTypes) /\ Len(recs') <= MaxRecordings /\ active' \in 0..Len(recs')
        /\ owner' \in 0..Len(recs')
    BY <1>1, <1>2, <1>r, <1>n DEF Types, DictationInv
  <2>2. held' \in BOOLEAN /\ down' \in BOOLEAN /\ session' \in SessionTypes
    BY <1>1, <1>2, NoSessionType DEF Types, DictationInv
  <2>3. /\ sessions' \in 0..MaxSessions /\ events' \in 0..MaxEvents
        /\ actor' \in [Actors -> FlowTypes]
    BY <1>1, <1>2, <1>n DEF Types, DictationInv
  <2> QED
    BY <2>1, <2>2, <2>3 DEF Types
<1>k. \A j \in DOMAIN recs :
        /\ recs'[j].modifier = recs[j].modifier /\ recs'[j].home = recs[j].home
        /\ recs[j].phase = "Cancelling" => recs'[j].phase = "Cancelling"
        /\ recs[j].task = "none" => recs'[j].task = "none"
  BY <1>1, <1>p, <1>r, <1>n DEF Passed, Alike
<1>4. FlowsSound'
  BY <1>1, <1>2, <1>r, <1>k, NoSessionType DEF FlowsSound, At, Rec, Actors, DictationInv
<1>5. HoldsSound'
  BY <1>1, <1>2, <1>p, <1>r, <1>n, NoSessionType DEF HoldsSound, FlowsSound, At, Rec, Actors,
     Ending, DictationInv, Good, Passed, Alike, Left, RecordSound, RecordsSound
<1>6. ASSUME NEW j \in DOMAIN recs
      PROVE  (RecordSound(j, recs[j]) /\ RecordHome(j, recs[j]) /\ Watched(j, recs[j]))'
  <2>1. RecordSound(j, recs[j]) /\ RecordHome(j, recs[j]) /\ Watched(j, recs[j])
    BY DEF DictationInv, RecordsSound
  <2>8. CASE j = m
    <3>2. RecordSound(j, recs[j])'
      BY <1>1, <1>2, <1>n, <2>1, <2>8, <1>p, <1>r DEF RecordSound, At, Rec, Passed, Alike, Left,
         Live, Actors
    <3>3. RecordHome(j, recs[j])'
      BY <1>1, <1>2, <1>n, <2>1, <2>8, <1>p, <1>r DEF RecordHome, RecordSound, At, Rec, Passed,
         Alike, Left, Actors
    <3>4. Watched(j, recs[j])'
      BY <1>1, <1>2, <1>n, <2>1, <2>8, <1>p, <1>r DEF Watched, RecordSound, At, Rec, Passed,
         Alike, Left, Actors, Live
    <3> QED
      BY <3>2, <3>3, <3>4
  <2>9. CASE j # m
    <3>1. Passed(recs[j], recs'[j])
      BY <2>9, <1>r
    <3>2. RecordSound(j, recs[j])'
      BY <1>1, <1>2, <1>n, <2>1, <2>9, <3>1 DEF RecordSound, At, Rec, Passed, Alike, Left, Live,
         Actors
    <3>3. RecordHome(j, recs[j])'
      BY <1>1, <1>2, <1>n, <2>1, <2>9, <3>1 DEF RecordHome, RecordSound, At, Rec, Passed, Alike,
         Left, Actors
    <3>4. Watched(j, recs[j])'
      BY <1>1, <1>2, <1>n, <2>1, <2>9, <3>1 DEF Watched, RecordSound, At, Rec, Passed, Alike,
         Left, Actors, Live
    <3> QED
      BY <3>2, <3>3, <3>4
  <2> QED
    BY <2>8, <2>9
<1> QED
  BY <1>r, <1>3, <1>4, <1>5, <1>6 DEF DictationInv, RecordsSound

\* Every step of the task of a recording.
LEMMA TaskKeeps ==
    ASSUME DictationBounds, DictationInv, NEW m \in DOMAIN recs, Task(m)
    PROVE  DictationInv'
<1>1. recs[m] \in RecordTypes /\ Types
  BY DEF DictationInv, Types
<1>2. recs[m].target \in {"Inline", "Companion"}
  BY <1>1 DEF RecordTypes
<1>3. CASE Finish(m)
  <2>1. events' \in 0..MaxEvents
    BY <1>1, <1>3, EventType DEF Finish
  <2>2. PICK what \in {"text", "blank", "bad"} : recs' = [recs EXCEPT ![m] = Ended(recs[m], what)]
    BY <1>3 DEF Finish
  <2> QED
    BY <1>3, <2>1, <2>2, FinishKeeps DEF Finish
<1>4. CASE Overflowed(m)
  BY <1>2, <1>4, OverflowedCompanionKeeps, OverflowedInlineKeeps
<1>5. CASE TellText(m)
  BY <1>2, <1>5, TellNobodyKeeps, TextDeliveredKeeps, TextLateKeeps
<1>6. CASE TellBlank(m)
  BY <1>2, <1>6, TellNobodyKeeps, TellBlankKeeps
<1>7. CASE TellBad(m)
  BY <1>2, <1>7, TellBadCompanionKeeps, TellBadInlineKeeps
<1> QED
  BY <1>3, <1>4, <1>5, <1>6, <1>7, OpenKeeps, AttachCaptureKeeps, OverflowKeeps, StallKeeps,
     TaskWipeKeeps DEF Task

-----------------------------------------------------------------------------
(***************************************************************************)
(* Every behaviour.                                                        *)
(***************************************************************************)
\* Every step keeps the invariant.
LEMMA NextKeeps == ASSUME DictationBounds, DictationInv, Next PROVE DictationInv'
<1>1. CASE \E i \in 1..MaxRecordings : TaskOf(i) \/ LimitOf(i)
  BY <1>1, TaskKeeps, LimitKeeps DEF TaskOf, LimitOf
<1>2. CASE \E a \in Actors : Flow(a)
  BY <1>2, CancelRecKeeps, EmitKeeps, EffectKeeps, WipeKeeps DEF Flow
<1>3. CASE Reserve
  BY <1>3, ReserveKeeps, ReserveAbortKeeps
<1> QED
  BY <1>1, <1>2, <1>3, HoldStartedKeeps, AimKeeps, AttachKeeps, AbortKeeps, HoldReleasedKeeps,
     FinalizeKeeps, GestureCancelsKeeps, TakenKeeps, RewriteKeeps, StartKeeps,
     FinalizeActiveKeeps, CancelActiveKeeps, DismissKeeps, StopMonitorKeeps DEF Next

LEMMA StutterKeeps == ASSUME DictationInv, UNCHANGED vars PROVE DictationInv'
<1>1. UNCHANGED <<active, recs, held, owner, session, sessions, down, actor, events>>
  BY DEF vars
<1>2. Types' /\ FlowsSound'
  BY <1>1 DEF DictationInv, Types, FlowsSound, At, Rec
<1>3. HoldsSound'
  BY <1>1 DEF DictationInv, HoldsSound, At, Rec, Ending
<1>4. RecordsSound'
  BY <1>1 DEF DictationInv, RecordsSound, RecordSound, RecordHome, Watched, At, Rec
<1> QED
  BY <1>2, <1>3, <1>4 DEF DictationInv

\* It holds when nothing was recorded.
LEMMA Starts == ASSUME DictationBounds, Init PROVE DictationInv
<1>1. Idle \in FlowTypes /\ Idle.at = "idle" /\ Idle.home = 0 /\ Idle.rewrite = FALSE
  BY DEF Idle, FlowTypes, DictationBounds, Steps
<1>2. /\ actor \in [Actors -> FlowTypes] /\ \A a \in Actors : actor[a] = Idle
      /\ recs = << >> /\ Len(recs) = 0 /\ DOMAIN recs = {} /\ recs \in Seq(RecordTypes)
  BY <1>1 DEF Init
<1>3. Types
  <2>1. active \in 0..Len(recs) /\ owner \in 0..Len(recs) /\ Len(recs) <= MaxRecordings
    BY <1>2 DEF Init, DictationBounds
  <2>2. held \in BOOLEAN /\ down \in BOOLEAN /\ session \in SessionTypes
    BY NoSessionType DEF Init
  <2>3. sessions \in 0..MaxSessions /\ events \in 0..MaxEvents
    BY DEF Init, DictationBounds
  <2> QED
    BY <1>2, <2>1, <2>2, <2>3 DEF Types
<1>4. FlowsSound
  BY <1>1, <1>2, NoSessionType DEF FlowsSound, Init, At, Actors
<1>5. HoldsSound
  BY NoSessionType DEF HoldsSound, Init
<1>6. RecordsSound
  BY <1>2 DEF RecordsSound
<1> QED
  BY <1>3, <1>4, <1>5, <1>6 DEF DictationInv

\* And it says what the recordings promise.
LEMMA Implies ==
    ASSUME DictationInv
    PROVE  /\ TypeOK /\ OneEnding /\ TextGoesHome
           /\ HoldIsHeardInline /\ SessionsEnd /\ MicrophoneOff
<1>n. /\ Len(recs) \in Nat /\ DOMAIN recs = 1..Len(recs)
      /\ \A i \in DOMAIN recs : recs[i] \in RecordTypes
  BY DEF DictationInv, Types
<1>1. TypeOK
  BY <1>n DEF TypeOK, DictationInv, Types, RecordTypes, FlowTypes, SessionTypes
<1>2. OneEnding
  BY DEF OneEnding, DictationInv, RecordsSound, RecordSound, Live
<1>3. TextGoesHome
  BY DEF TextGoesHome, DictationInv, RecordsSound, RecordHome
<1>o. owner \in 0..Len(recs) /\ (owner # 0 => owner \in DOMAIN recs)
  BY <1>n DEF DictationInv, Types
<1>4. HoldIsHeardInline
  BY <1>n, <1>o DEF HoldIsHeardInline, AllIdle, Step, At, DictationInv, HoldsSound, Good,
     RecordTypes
<1>5. SessionsEnd
  BY <1>n, <1>o DEF SessionsEnd, AllIdle, Step, At, Actors, DictationInv, HoldsSound, Good, Ending
<1>6. MicrophoneOff
  <2> SUFFICES ASSUME ~down, \A a \in Actors : At(a, "idle"), NEW i \in DOMAIN recs,
                      recs[i].modifier, Running(i), recs[i].mic = "open", ~recs[i].token
               PROVE  recs[i].wiped
    BY DEF MicrophoneOff
  <2>1. Watched(i, recs[i]) /\ recs[i].phase \in Phases
    BY <1>n DEF DictationInv, RecordsSound, RecordTypes
  <2> QED
    BY <2>1 DEF Watched, Running, At, Live, Phases, Actors
<1> QED
  BY <1>1, <1>2, <1>3, <1>4, <1>5, <1>6

\* The windows hear of exactly one end of each recording; its text goes into the session of
\* its own hold or nowhere, unless the hold was cancelled; the next hold is heard, no session
\* of a dictation is left over, and no microphone stays open after the key was let go, but
\* for what a cancellation passed over: whatever threads, windows and tasks interleave, for
\* any number of recordings, sessions and failures.
THEOREM DictationIsWhole ==
    ASSUME DictationBounds
    PROVE  Spec => [](/\ TypeOK /\ OneEnding /\ TextGoesHome
                      /\ HoldIsHeardInline /\ SessionsEnd /\ MicrophoneOff)
<1>1. Init => DictationInv
  BY Starts
<1>2. DictationInv /\ [Next]_vars => DictationInv'
  BY NextKeeps, StutterKeeps
<1>3. DictationInv => /\ TypeOK /\ OneEnding /\ TextGoesHome
                      /\ HoldIsHeardInline /\ SessionsEnd /\ MicrophoneOff
  BY Implies
<1> QED
  BY <1>1, <1>2, <1>3, PTL DEF Spec
==============================================================================
