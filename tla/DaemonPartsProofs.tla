------------------------- MODULE DaemonPartsProofs -------------------------
(***************************************************************************)
(* The theorems about parts of the daemon, for the parts side by side: a   *)
(* behaviour of the composition in which one part moves is a behaviour of  *)
(* that part.  The summaries are proved about here, for any backfill and   *)
(* retention and any number of rows, resets, restarts and failures; for    *)
(* retention, which has its proofs in a module of its own, what is left is *)
(* that both instances of it are the same.                                 *)
(***************************************************************************)
EXTENDS MCDaemonParts, Sequences, FiniteSetTheorems, WellFoundedInduction, TLAPS

\* The gates again, with their theorems.
Gates == INSTANCE DaemonDataProofs WITH
    Cap <- cap, Pruner <- pruner, Runs <- memoryRuns, Requests <- callers,
    Kinds <- {"retention"}, Apps <- programs, Policies <- ages, MaxObs <- Observations,
    VacuumMayFail <- FALSE, Forever <- forever, pc <- taskPc, chronicle <- summary,
    run <- generation, history <- requestHistory

-----------------------------------------------------------------------------
(***************************************************************************)
(* The scheduler: a row that a stored summary of its period lacks is       *)
(* accounted for, and a summary was made from rows that are still there.   *)
(***************************************************************************)
AllPeriods == [level : Memory!Levels, start : Nat, end : Nat]
SummaryRuns == [at : {"idle", "key", "next", "generate", "commit"},
                queue : Seq(AllPeriods), epoch : Nat,
                of : SUBSET Nat, known : SUBSET Nat, cancelled : BOOLEAN]

\* The periods that are over.  A row of theirs may still come.
PastPeriods == {p \in AllPeriods : p = Memory!Containing(p.level, p.start) /\ p.end <= memoryNow}

RowNumbers == DOMAIN memoryRows
Summaries == [period : PastPeriods, of : SUBSET RowNumbers, known : SUBSET RowNumbers]
SummaryUnderway == run.at \in {"generate", "commit"}

ScheduleTyped ==
    /\ Memory!TypeOK
    /\ epoch \in Nat
    /\ run \in SummaryRuns /\ run.queue \in Seq(PastPeriods)
    /\ run.of \subseteq RowNumbers /\ run.known \subseteq RowNumbers
    /\ chronicle \subseteq Summaries

\* A row that is not in what was read: a stored summary of a shorter period lacks it too,
\* because the row came late or its hour was crowded.
LackedBeneath(p, r) ==
    \E d \in chronicle :
        /\ Memory!Hours[d.period.level] < Memory!Hours[p.level]
        /\ Memory!Within(d.period, memoryRows[r].at)
        /\ Memory!Late(d, r) \/ Memory!Crowded(d, r)

SummaryWhole(p, of, known) ==
    /\ of \subseteq Memory!Live /\ known \subseteq Memory!Live
    /\ \A r \in Memory!RowsIn(p) \ of :
          \/ r \notin known
          \/ p.level = "hour" /\ Memory!Cardinality(of) >= PromptRows
          \/ LackedBeneath(p, r)

\* What a run has read covers its period, unless a pruning or a reset came in between, and
\* then the epoch tells.
RunIsWhole ==
    SummaryUnderway =>
        /\ run.epoch <= epoch
        /\ run.epoch = epoch => SummaryWhole(Memory!Period, run.of, run.known)

-----------------------------------------------------------------------------
(***************************************************************************)
(* The calendar.                                                           *)
(***************************************************************************)
LEMMA PeriodsCalendar ==
    ASSUME NEW level \in Memory!Levels, NEW t \in Nat
    PROVE  LET p == Memory!Containing(level, t) IN
           /\ p \in AllPeriods /\ p.level = level
           /\ p.start <= t /\ t < p.end
           /\ p = Memory!Containing(level, p.start)
<1>1. CASE level = "hour"
  BY <1>1 DEF Memory!Containing, AllPeriods, Memory!Levels, Memory!Hours
<1>2. CASE level = "week"
  BY <1>2 DEF Memory!Containing, AllPeriods, Memory!Levels, Memory!Hours
<1>3. CASE level = "month"
  BY <1>3 DEF Memory!Containing, AllPeriods, Memory!Levels, Memory!Hours
<1> QED
  BY <1>1, <1>2, <1>3 DEF Memory!Levels

\* What begins before a period is over before it begins.
LEMMA EarlierPeriod ==
    ASSUME NEW level \in Memory!Levels, NEW t \in Nat, NEW s \in Nat,
           s < Memory!Containing(level, t).start
    PROVE  Memory!Containing(level, s).end <= Memory!Containing(level, t).start
<1>1. CASE level = "hour"
  BY <1>1 DEF Memory!Containing, Memory!Levels, Memory!Hours
<1>2. CASE level = "week"
  BY <1>2 DEF Memory!Containing, Memory!Levels, Memory!Hours
<1>3. CASE level = "month"
  BY <1>3 DEF Memory!Containing, Memory!Levels, Memory!Hours
<1> QED
  BY <1>1, <1>2, <1>3 DEF Memory!Levels

LEMMA CurrentKnown ==
    ASSUME memoryNow \in Nat, NEW level \in Memory!Levels
    PROVE  Memory!Containing(level, memoryNow).start \in Nat /\ Memory!Hours[level] \in {1, 2, 3}
<1>1. Memory!Containing(level, memoryNow) \in AllPeriods
  BY PeriodsCalendar
<1>2. Memory!Hours[level] \in {1, 2, 3}
  BY DEF Memory!Levels, Memory!Hours
<1> QED
  BY <1>1, <1>2 DEF AllPeriods

LEMMA BeforeNowIsPast ==
    ASSUME memoryNow \in Nat, NEW level \in Memory!Levels, NEW s \in Nat,
           s < Memory!Containing(level, memoryNow).start
    PROVE  Memory!Containing(level, s) \in PastPeriods
<1>1. /\ Memory!Containing(level, s) \in AllPeriods /\ Memory!Containing(level, s).level = level
      /\ Memory!Containing(level, s) = Memory!Containing(level, Memory!Containing(level, s).start)
  BY PeriodsCalendar
<1>2. /\ Memory!Containing(level, memoryNow).start <= memoryNow
      /\ Memory!Containing(level, memoryNow) \in AllPeriods
  BY PeriodsCalendar
<1>3. Memory!Containing(level, s).end <= Memory!Containing(level, memoryNow).start
  BY EarlierPeriod
<1>4. Memory!Containing(level, s).end <= memoryNow
  BY <1>1, <1>2, <1>3 DEF AllPeriods
<1> QED
  BY <1>1, <1>4 DEF PastPeriods

\* The parts of a period tile it.
LEMMA PartsTile ==
    ASSUME NEW p \in AllPeriods, p.level # "hour", NEW t \in Nat, Memory!Within(p, t)
    PROVE  LET c == Memory!Containing(Memory!Child[p.level], t) IN
           c \in Memory!Children(p) /\ Memory!Within(c, t)
<1>1. t \in p.start..(p.end - 1) /\ p.level \in {"week", "month"}
  BY DEF Memory!Within, AllPeriods, Memory!Levels
<1>2. Memory!Child[p.level] \in Memory!Levels
  BY <1>1 DEF Memory!Child, Memory!Levels
<1>3. LET c == Memory!Containing(Memory!Child[p.level], t) IN
        c \in AllPeriods /\ c.start <= t /\ t < c.end
  BY <1>2, PeriodsCalendar
<1> QED
  BY <1>1, <1>3 DEF Memory!Children, Memory!Within, AllPeriods
-----------------------------------------------------------------------------
(***************************************************************************)
(* What a run plans is over.                                               *)
(***************************************************************************)
LEMMA MinOfTwo ==
    ASSUME NEW a \in Nat, NEW b \in Nat
    PROVE  Memory!Min({a, b}) \in Nat /\ Memory!Min({a, b}) <= a /\ Memory!Min({a, b}) <= b
<1>1. \E x \in {a, b} : \A y \in {a, b} : x =< y
  <2>1. CASE a <= b
    BY <2>1
  <2>2. CASE b <= a
    BY <2>2
  <2> QED
    BY <2>1, <2>2
<1> QED
  BY <1>1 DEF Memory!Min

LEMMA DueIsPast ==
    ASSUME memoryNow \in Nat, Backfill \in Nat, NEW level \in Memory!Levels
    PROVE  Memory!Due(level) \in Seq(PastPeriods)
<1> DEFINE current == Memory!Containing(level, memoryNow).start
           n == Memory!Min({Backfill, current \div Memory!Hours[level]})
           Back(k) == current - (n + 1 - k) * Memory!Hours[level]
<1>1. current \in Nat /\ Memory!Hours[level] \in {1, 2, 3}
  BY CurrentKnown
<1>2. /\ current \div Memory!Hours[level] \in Nat
      /\ \A i \in 0..(current \div Memory!Hours[level]) : i * Memory!Hours[level] <= current
  <2>1. CASE Memory!Hours[level] = 1
    BY <1>1, <2>1
  <2>2. CASE Memory!Hours[level] = 2
    BY <1>1, <2>2
  <2>3. CASE Memory!Hours[level] = 3
    BY <1>1, <2>3
  <2> QED
    BY <1>1, <2>1, <2>2, <2>3
<1>3. n \in Nat /\ n <= current \div Memory!Hours[level]
  BY <1>2, MinOfTwo
<1>4. ASSUME NEW k \in 1..n PROVE Back(k) \in Nat /\ Back(k) < current
  <2>1. n + 1 - k \in 0..(current \div Memory!Hours[level]) /\ n + 1 - k >= 1
    BY <1>2, <1>3
  <2>2. (n + 1 - k) * Memory!Hours[level] <= current
    BY <1>2, <2>1
  <2> QED
    BY <1>1, <2>1, <2>2
<1>5. \A k \in 1..n : Memory!Containing(level, Back(k)) \in PastPeriods
  BY <1>4, BeforeNowIsPast
<1>6. Memory!Due(level) = [k \in 1..n |-> Memory!Containing(level, Back(k))]
  BY DEF Memory!Due
<1> HIDE DEF n, Back
<1> QED
  BY <1>3, <1>5, <1>6

LEMMA MaxOfSome ==
    ASSUME NEW S \in SUBSET Nat, S # {}, NEW bound \in Nat, \A x \in S : x <= bound
    PROVE  Memory!Max(S) \in S
<1> DEFINE D == {bound - x : x \in S}
<1>1. D \subseteq Nat /\ D # {}
  <2>1. \A x \in S : bound - x \in Nat
    OBVIOUS
  <2>2. PICK x \in S : TRUE
    OBVIOUS
  <2>3. bound - x \in D
    BY <2>2
  <2> QED
    BY <2>1, <2>3
<1>2. PICK d \in D : \A e \in D : ~(<<e, d>> \in OpToRel(<, Nat))
  BY <1>1, WFMin, NatLessThanWellFounded
<1>3. PICK x \in S : d = bound - x
  BY <1>2
<1>4. ASSUME NEW y \in S PROVE x >= y
  <2>1. bound - y \in D /\ bound - y \in Nat /\ d \in Nat
    BY <1>1
  <2>2. ~(bound - y < d)
    BY <1>2, <2>1, Zenon DEF OpToRel
  <2>3. x \in Nat /\ y \in Nat
    OBVIOUS
  <2> QED
    BY ONLY <1>3, <2>2, <2>3, bound \in Nat
<1> QED
  BY <1>4 DEF Memory!Max

LEMMA RowsKnown ==
    ASSUME ScheduleTyped, LastHour \in Nat
    PROVE  /\ \A r \in DOMAIN memoryRows :
                 /\ memoryRows[r] \in Memory!Row /\ memoryRows[r].at \in Nat
                 /\ memoryRows[r].seen \in 0..LastHour
                 /\ memoryRows[r].gone \in BOOLEAN
           /\ DOMAIN memoryRows = 1..Len(memoryRows) /\ Len(memoryRows) \in Nat
           /\ Memory!Live \subseteq DOMAIN memoryRows /\ RowNumbers \subseteq Nat
           /\ memoryNow \in 0..LastHour /\ memoryNow \in Nat
<1>1. memoryRows \in Seq(Memory!Row) /\ memoryNow \in 0..LastHour
  BY DEF ScheduleTyped, Memory!TypeOK
<1>2. DOMAIN memoryRows = 1..Len(memoryRows) /\ Len(memoryRows) \in Nat
  BY <1>1
<1>3. ASSUME NEW r \in DOMAIN memoryRows PROVE memoryRows[r] \in Memory!Row
  BY <1>1, <1>2, <1>3
<1>4. ASSUME NEW r \in DOMAIN memoryRows
      PROVE  /\ memoryRows[r].at \in Nat /\ memoryRows[r].seen \in 0..LastHour
             /\ memoryRows[r].gone \in BOOLEAN
  <2>1. memoryRows[r] \in Memory!Row
    BY <1>3
  <2> QED
    BY <2>1 DEF Memory!Row
<1> QED
  BY <1>1, <1>2, <1>3, <1>4 DEF ScheduleTyped, Memory!Live, RowNumbers

LEMMA HistoricalIsPast ==
    ASSUME ScheduleTyped, Backfill \in Nat, LastHour \in Nat, NEW level \in Memory!Levels
    PROVE  Memory!Historical(level) \in Seq(PastPeriods)
<1> DEFINE missing == {memoryRows[r].at : r \in
           {q \in Memory!Live : memoryRows[q].at < Memory!Cutoff(level)
                                /\ ~Memory!Done(Memory!Containing(level, memoryRows[q].at))}}
           current == Memory!Containing(level, memoryNow).start
<1>1. memoryNow \in Nat /\ memoryRows \in Seq(Memory!Row)
  BY DEF ScheduleTyped, Memory!TypeOK
<1>2. current \in Nat /\ Memory!Hours[level] \in {1, 2, 3}
  BY <1>1, CurrentKnown
<1>3. Memory!Cutoff(level) <= current
  <2>1. Backfill * Memory!Hours[level] \in Nat
    BY <1>2
  <2>2. Memory!Cutoff(level) = IF current < Backfill * Memory!Hours[level] THEN 0
                        ELSE current - Backfill * Memory!Hours[level]
    BY DEF Memory!Cutoff
  <2> HIDE DEF current
  <2> QED
    BY <1>2, <2>1, <2>2
<1>4. Memory!Cutoff(level) \in Nat
  <2>1. Backfill * Memory!Hours[level] \in Nat
    BY <1>2
  <2>2. Memory!Cutoff(level) = IF current < Backfill * Memory!Hours[level] THEN 0
                        ELSE current - Backfill * Memory!Hours[level]
    BY DEF Memory!Cutoff
  <2> HIDE DEF current
  <2> QED
    BY <1>2, <2>1, <2>2
<1>5. \A x \in missing : x \in Nat /\ x < Memory!Cutoff(level)
  <2>1. \A q \in Memory!Live : memoryRows[q].at \in Nat
    BY RowsKnown
  <2> QED
    BY <2>1
<1>6. CASE Backfill = 0 \/ missing = {}
  BY <1>6 DEF Memory!Historical
<1>7. CASE ~(Backfill = 0 \/ missing = {})
  <2>1. Memory!Max(missing) \in missing
    <3>1. \A x \in missing : x <= Memory!Cutoff(level)
      BY <1>4, <1>5
    <3>2. missing \in SUBSET Nat /\ missing # {}
      BY <1>5, <1>7
    <3> HIDE DEF missing
    <3> QED
      BY <1>4, <3>1, <3>2, MaxOfSome
  <2>2. Memory!Max(missing) \in Nat /\ Memory!Max(missing) < current
    BY <1>2, <1>3, <1>4, <1>5, <2>1
  <2>3. Memory!Containing(level, Memory!Max(missing)) \in PastPeriods
    BY <1>1, <2>2, BeforeNowIsPast
  <2>4. Memory!Historical(level) = <<Memory!Containing(level, Memory!Max(missing))>>
    BY <1>7 DEF Memory!Historical
  <2> QED
    BY <2>3, <2>4
<1> QED
  BY <1>6, <1>7

LEMMA PlanIsPast ==
    ASSUME ScheduleTyped, Backfill \in Nat, LastHour \in Nat
    PROVE  Memory!Lanes([level \in Memory!Levels |-> Memory!Due(level)]) \o
           Memory!Lanes([level \in Memory!Levels |-> Memory!Historical(level)]) \in
                   Seq(PastPeriods)
<1>1. /\ memoryNow \in Nat /\ "hour" \in Memory!Levels /\ "week" \in Memory!Levels
      /\ "month" \in Memory!Levels
  BY DEF ScheduleTyped, Memory!TypeOK, Memory!Levels
<1>2. /\ Memory!Due("hour") \in Seq(PastPeriods) /\ Memory!Due("week") \in Seq(PastPeriods)
      /\ Memory!Due("month") \in Seq(PastPeriods)
  BY <1>1, DueIsPast
<1>3. /\ Memory!Historical("hour") \in Seq(PastPeriods)
      /\ Memory!Historical("week") \in Seq(PastPeriods)
      /\ Memory!Historical("month") \in Seq(PastPeriods)
  BY <1>1, HistoricalIsPast
<1>4. Memory!Lanes([level \in Memory!Levels |-> Memory!Due(level)]) \in Seq(PastPeriods)
  BY <1>2 DEF Memory!Lanes, Memory!Levels
<1>5. Memory!Lanes([level \in Memory!Levels |-> Memory!Historical(level)]) \in Seq(PastPeriods)
  BY <1>3 DEF Memory!Lanes, Memory!Levels
<1> QED
  BY <1>4, <1>5

-----------------------------------------------------------------------------
(***************************************************************************)
(* Types, step by step.                                                    *)
(***************************************************************************)
LEMMA SummaryRunKnown ==
    ASSUME ScheduleTyped
    PROVE  /\ run.at \in {"idle", "key", "next", "generate", "commit"} /\ run.epoch \in Nat
           /\ run.cancelled \in BOOLEAN /\ run.queue \in Seq(PastPeriods)
           /\ run.of \subseteq RowNumbers /\ run.known \subseteq RowNumbers
           /\ run \in SummaryRuns
           /\ run.queue # <<>> =>
                 Memory!Period \in PastPeriods /\ Tail(run.queue) \in Seq(PastPeriods)
<1>1. run \in SummaryRuns /\ run.queue \in Seq(PastPeriods)
      /\ run.of \subseteq RowNumbers /\ run.known \subseteq RowNumbers
  BY DEF ScheduleTyped
<1>2. run.queue # <<>> => Memory!Period \in PastPeriods /\ Tail(run.queue) \in Seq(PastPeriods)
  BY <1>1 DEF Memory!Period
<1> QED
  BY <1>1, <1>2 DEF SummaryRuns

\* The next period is taken up by a run that remembers nothing of the last.
LEMMA SummaryNextKnown ==
    ASSUME ScheduleTyped, run.queue # <<>>
    PROVE  LET r == Memory!Next_(run) IN
           /\ r \in SummaryRuns /\ r.queue \in Seq(PastPeriods) /\ r.at = "next"
           /\ r.of = {} /\ r.known = {}
<1>1. /\ run \in SummaryRuns /\ Tail(run.queue) \in Seq(PastPeriods)
  BY SummaryRunKnown
<1>2. Tail(run.queue) \in Seq(AllPeriods)
  BY <1>1 DEF PastPeriods
<1> QED
  BY <1>1, <1>2 DEF Memory!Next_, SummaryRuns

LEMMA IdleRunKnown ==
    /\ Memory!Idle \in SummaryRuns /\ Memory!Idle.queue \in Seq(PastPeriods)
    /\ Memory!Idle.of = {} /\ Memory!Idle.known = {} /\ Memory!Idle.at = "idle"
BY DEF Memory!Idle, SummaryRuns

LEMMA SourcesKnown ==
    ASSUME ScheduleTyped, LastHour \in Nat, run.queue # <<>>,
           NEW of \in Memory!Sources(Memory!Period)
    PROVE  of \subseteq RowNumbers
<1>1. CASE Memory!Period.level = "hour"
  BY <1>1, RowsKnown DEF Memory!Sources, Memory!RowsIn, RowNumbers
<1>2. CASE Memory!Period.level # "hour"
  <2>1. \A c \in chronicle : c.of \subseteq RowNumbers
    BY DEF ScheduleTyped, Summaries
  <2> QED
    BY <1>2, <2>1 DEF Memory!Sources
<1> QED
  BY <1>1, <1>2

LEMMA ScheduleStarts == LastHour \in Nat /\ Captures \in Nat /\ Memory!Init => ScheduleTyped
<1> SUFFICES ASSUME LastHour \in Nat, Captures \in Nat, Memory!Init PROVE ScheduleTyped
    OBVIOUS
<1>1. /\ memoryRows = <<>> /\ chronicle = {} /\ memoryNow = 0 /\ run = Memory!Idle /\ epoch = 0
      /\ capture = Memory!NoCapture
  BY DEF Memory!Init
<1>2. Memory!TypeOK
  BY <1>1 DEF Memory!TypeOK, Memory!Idle, Memory!NoCapture
<1> QED
  BY <1>1, <1>2, IdleRunKnown DEF ScheduleTyped

\* What a capture task knows.
CaptureTyped ==
    /\ capture \in [pending : BOOLEAN, row : Nat, at : 0..LastHour, seen : 0..LastHour,
                    epoch : Nat]
    /\ capture.row # 0 =>
          capture.row \in DOMAIN memoryRows /\ capture.at = memoryRows[capture.row].at
    /\ capture.pending /\ capture.row = 0 => Len(memoryRows) < Captures

\* A step that leaves the rows and the time alone.
LEMMA RunKeepsType ==
    ASSUME ScheduleTyped, LastHour \in Nat,
           UNCHANGED <<memoryNow, memoryRows>>, CaptureTyped', epoch' \in Nat,
           chronicle' \subseteq Summaries,
           run' \in SummaryRuns, run'.queue \in Seq(PastPeriods), run'.of \subseteq RowNumbers,
           run'.known \subseteq RowNumbers,
           run'.at \in {"generate", "commit"} => run'.queue # <<>>
    PROVE  ScheduleTyped'
<1>1. PastPeriods' = PastPeriods /\ RowNumbers' = RowNumbers
  BY DEF PastPeriods, RowNumbers
<1>2. run'.at \in {"idle", "key", "next", "generate", "commit"}
  BY DEF SummaryRuns
<1>3. ASSUME NEW c \in chronicle'
      PROVE  /\ c.period.level \in Memory!Levels
             /\ c.period = Memory!Containing(c.period.level, c.period.start)
             /\ c.of \subseteq DOMAIN memoryRows
  <2>1. c.period \in PastPeriods /\ c.of \subseteq RowNumbers
    BY DEF Summaries
  <2> QED
    BY <2>1 DEF PastPeriods, AllPeriods, RowNumbers
<1>4. Memory!TypeOK'
  BY <1>2, <1>3 DEF ScheduleTyped, Memory!TypeOK, CaptureTyped
<1> QED
  BY <1>1, <1>4 DEF ScheduleTyped, Summaries

LEMMA PlanKeepsType ==
    ASSUME ScheduleTyped, Backfill \in Nat, LastHour \in Nat,
           \/ Memory!Observe \/ Memory!Coalesce \/ Memory!PersistFails
           \/ Memory!AskReset \/ Memory!Restart
           \/ Memory!StartRun \/ Memory!HaveKey \/ Memory!NoKey \/ Memory!EndRun
           \/ Memory!Consider \/ Memory!Answered \/ Memory!Failed
           \/ Memory!GaveUp \/ Memory!Commit
    PROVE  ScheduleTyped'
<1>0. /\ chronicle \subseteq Summaries /\ epoch \in Nat
      /\ SummaryUnderway => run.queue # <<>>
  BY DEF ScheduleTyped, Memory!TypeOK, SummaryUnderway
<1>c. CaptureTyped
  BY DEF ScheduleTyped, Memory!TypeOK, CaptureTyped
<1>s. UNCHANGED <<capture, memoryRows>> => CaptureTyped'
  BY <1>c DEF CaptureTyped
<1>9. CASE Memory!Observe \/ Memory!Coalesce \/ Memory!PersistFails
  <2>1. run' = run /\ UNCHANGED <<memoryNow, memoryRows, chronicle, epoch>>
    BY <1>9 DEF Memory!Observe, Memory!Coalesce, Memory!PersistFails
  <2>2. CaptureTyped'
    <3>1. CASE Memory!Observe
      BY <1>0, <3>1, RowsKnown DEF Memory!Observe, CaptureTyped
    <3>2. CASE Memory!Coalesce
      BY <1>c, <3>2, RowsKnown DEF Memory!Coalesce, CaptureTyped
    <3>3. CASE Memory!PersistFails
      BY <3>3 DEF Memory!PersistFails, CaptureTyped, Memory!NoCapture
    <3> QED
      BY <1>9, <3>1, <3>2, <3>3
  <2> QED
    BY <1>0, <2>1, <2>2, SummaryRunKnown, RunKeepsType DEF SummaryUnderway
<1>1. CASE Memory!AskReset
  <2>1. /\ run' \in SummaryRuns /\ run'.queue = run.queue /\ run'.of = run.of /\ run'.at = run.at
        /\ run'.known = run.known
    BY <1>1, SummaryRunKnown DEF Memory!AskReset, SummaryRuns
  <2>2. CaptureTyped'
    BY <1>1, <1>s DEF Memory!AskReset
  <2> QED
    BY <1>1, <1>0, <2>1, <2>2, SummaryRunKnown, RunKeepsType DEF Memory!AskReset, SummaryUnderway
<1>2. CASE Memory!Restart \/ Memory!NoKey \/ Memory!EndRun \/ Memory!GaveUp
  <2>1. run' = Memory!Idle /\ UNCHANGED <<memoryNow, memoryRows, chronicle, epoch>>
    BY <1>2 DEF Memory!Restart, Memory!NoKey, Memory!EndRun, Memory!GaveUp, Memory!End
  <2>2. CaptureTyped'
    <3>1. CASE Memory!Restart
      BY <3>1 DEF Memory!Restart, CaptureTyped, Memory!NoCapture
    <3>2. CASE Memory!NoKey \/ Memory!EndRun \/ Memory!GaveUp
      BY <1>s, <3>2 DEF Memory!NoKey, Memory!EndRun, Memory!GaveUp
    <3> QED
      BY <1>2, <3>1, <3>2
  <2> QED
    BY <1>0, <2>1, <2>2, IdleRunKnown, RunKeepsType
<1>3. CASE Memory!StartRun \/ Memory!Answered
  <2>1. /\ run' \in SummaryRuns /\ run'.queue = run.queue /\ run'.of = run.of
        /\ run'.known = run.known
        /\ run'.at = "key" \/ SummaryUnderway
        /\ UNCHANGED <<memoryNow, memoryRows, capture, chronicle, epoch>>
    BY <1>3, SummaryRunKnown DEF Memory!StartRun, Memory!Answered, SummaryRuns, SummaryUnderway
  <2> QED
    BY <1>0, <1>s, <2>1, SummaryRunKnown, RunKeepsType
<1>4. CASE Memory!HaveKey
  <2>1. Memory!Lanes([level \in Memory!Levels |-> Memory!Due(level)]) \o
       Memory!Lanes([level \in Memory!Levels |-> Memory!Historical(level)]) \in Seq(PastPeriods)
    BY PlanIsPast
  <2>2. Memory!Lanes([level \in Memory!Levels |-> Memory!Due(level)]) \o
       Memory!Lanes([level \in Memory!Levels |-> Memory!Historical(level)]) \in Seq(AllPeriods)
    BY <2>1 DEF PastPeriods
  <2>3. /\ run' \in SummaryRuns /\ run'.queue \in Seq(PastPeriods) /\ run'.of = run.of
        /\ run'.known = run.known /\ run'.at = "next"
        /\ UNCHANGED <<memoryNow, memoryRows, capture, chronicle, epoch>>
    BY <1>4, <2>1, <2>2, SummaryRunKnown DEF Memory!HaveKey, SummaryRuns
  <2> QED
    BY <1>0, <1>s, <2>3, SummaryRunKnown, RunKeepsType
<1>5. CASE Memory!Consider
  <2>1. run.queue # <<>> /\ UNCHANGED <<memoryNow, memoryRows, capture, chronicle, epoch>>
    BY <1>5 DEF Memory!Consider
  <2>2. CASE run' = Memory!Next_(run)
    BY <1>0, <1>s, <2>1, <2>2, SummaryNextKnown, RunKeepsType
  <2>3. ASSUME NEW of \in Memory!Sources(Memory!Period),
               run' = [run EXCEPT !.at = "generate", !.epoch = epoch, !.of = of,
                                  !.known = Memory!Live]
        PROVE  ScheduleTyped'
    <3>1. of \subseteq RowNumbers /\ Memory!Live \subseteq RowNumbers /\ RowNumbers \subseteq Nat
      BY <2>1, SourcesKnown, RowsKnown DEF RowNumbers
    <3>2. /\ run' \in SummaryRuns /\ run'.queue = run.queue /\ run'.of \subseteq RowNumbers
          /\ run'.known \subseteq RowNumbers
      BY <1>0, <2>3, <3>1, SummaryRunKnown DEF SummaryRuns
    <3> QED
      BY <1>0, <1>s, <2>1, <3>2, SummaryRunKnown, RunKeepsType
  <2> QED
    BY <1>5, <2>2, <2>3 DEF Memory!Consider
<1>6. CASE Memory!Failed
  <2>1. /\ run.queue # <<>> /\ UNCHANGED <<memoryNow, memoryRows, capture, chronicle, epoch>>
        /\ run' = Memory!Next_(run)
    BY <1>0, <1>6 DEF Memory!Failed, SummaryUnderway
  <2> QED
    BY <1>0, <1>s, <2>1, SummaryNextKnown, RunKeepsType
<1>7. CASE Memory!Commit
  <2>1. run.queue # <<>> /\ UNCHANGED <<memoryNow, memoryRows, capture, epoch>>
    BY <1>0, <1>7 DEF Memory!Commit, SummaryUnderway
  <2>2. run' \in {Memory!Idle, Memory!Next_(run)}
    BY <1>7 DEF Memory!Commit, Memory!End
  <2>3. chronicle' \subseteq chronicle \union
                {[period |-> Memory!Period, of |-> run.of, known |-> run.known]}
    BY <1>7 DEF Memory!Commit
  <2>4. [period |-> Memory!Period, of |-> run.of, known |-> run.known] \in Summaries
    BY <2>1, SummaryRunKnown DEF Summaries
  <2>5. chronicle' \subseteq Summaries
    BY <1>0, <2>3, <2>4
  <2> QED
    BY <1>0, <1>s, <2>1, <2>2, <2>5, SummaryNextKnown, IdleRunKnown, RunKeepsType
<1> QED
  BY <1>1, <1>2, <1>3, <1>4, <1>5, <1>6, <1>7, <1>9

\* A step of the rows, or of time.
LEMMA RowsKeepType ==
    ASSUME ScheduleTyped, LastHour \in Nat, run' = run, CaptureTyped', epoch' \in Nat,
           chronicle' \subseteq chronicle,
           memoryNow' \in 0..LastHour, memoryNow <= memoryNow',
           memoryRows' \in Seq(Memory!Row), Len(memoryRows') <= Captures,
           DOMAIN memoryRows \subseteq DOMAIN memoryRows'
    PROVE  ScheduleTyped'
<1>1. RowNumbers \subseteq RowNumbers'
  BY DEF RowNumbers
<1>2. PastPeriods \subseteq PastPeriods'
  <2>1. memoryNow \in Nat /\ memoryNow' \in Nat
    BY RowsKnown
  <2>2. \A p \in AllPeriods : p.end \in Nat
    BY DEF AllPeriods
  <2> QED
    BY <2>1, <2>2 DEF PastPeriods
<1>3. chronicle' \subseteq Summaries'
  <2>1. \A c \in chronicle : c \in Summaries'
    BY <1>1, <1>2 DEF ScheduleTyped, Summaries
  <2> QED
    BY <2>1
<1>4. /\ run'.queue \in Seq(PastPeriods') /\ run'.of \subseteq RowNumbers'
      /\ run'.known \subseteq RowNumbers' /\ run' \in SummaryRuns
  BY <1>1, <1>2, SummaryRunKnown
<1>5. ASSUME NEW c \in chronicle'
      PROVE  /\ c.period.level \in Memory!Levels
             /\ c.period = Memory!Containing(c.period.level, c.period.start)
             /\ c.of \subseteq DOMAIN memoryRows'
  <2>1. c.period \in PastPeriods' /\ c.of \subseteq RowNumbers'
    BY <1>3 DEF Summaries
  <2> QED
    BY <2>1 DEF PastPeriods, AllPeriods, RowNumbers
<1>6. Memory!TypeOK'
  BY <1>5 DEF ScheduleTyped, Memory!TypeOK, CaptureTyped
<1> QED
  BY <1>3, <1>4, <1>6 DEF ScheduleTyped

\* The row that an observation becomes: a new one, or that of its sequence.
PersistedRow == [at |-> capture.at, seen |-> capture.seen, gone |-> FALSE]

LEMMA PersistWrites ==
    ASSUME ScheduleTyped, LastHour \in Nat, Captures \in Nat, Memory!Persist
    PROVE  /\ PersistedRow \in Memory!Row /\ memoryRows' \in Seq(Memory!Row)
           /\ Len(memoryRows') <= Captures /\ DOMAIN memoryRows \subseteq DOMAIN memoryRows'
           /\ \A r \in DOMAIN memoryRows :
                 /\ memoryRows'[r] \in {memoryRows[r], PersistedRow}
                 /\ memoryRows'[r].at = memoryRows[r].at
           /\ CaptureTyped'
<1>0. /\ memoryRows \in Seq(Memory!Row) /\ Len(memoryRows) <= Captures
      /\ CaptureTyped /\ capture.pending
  BY DEF ScheduleTyped, Memory!TypeOK, CaptureTyped, Memory!Persist
<1>1. PersistedRow \in Memory!Row /\ PersistedRow.at = capture.at
  BY <1>0 DEF PersistedRow, Memory!Row, CaptureTyped
<1>2. CASE capture.row = 0
  <2>1. /\ memoryRows' = Append(memoryRows, PersistedRow)
        /\ capture' = [capture EXCEPT !.pending = FALSE, !.row = Len(memoryRows) + 1]
    BY <1>2 DEF Memory!Persist, PersistedRow
  <2>2. Len(memoryRows) < Captures /\ Len(memoryRows) \in Nat
    BY <1>0, <1>2 DEF CaptureTyped
  <2>3. /\ memoryRows' \in Seq(Memory!Row) /\ Len(memoryRows') = Len(memoryRows) + 1
        /\ DOMAIN memoryRows' = 1..(Len(memoryRows) + 1) /\ DOMAIN memoryRows = 1..Len(memoryRows)
        /\ \A r \in DOMAIN memoryRows : memoryRows'[r] = memoryRows[r]
        /\ memoryRows'[Len(memoryRows) + 1] = PersistedRow
    BY <1>0, <1>1, <2>1
  <2>4. CaptureTyped'
    <3>1. capture \in [pending : BOOLEAN, row : Nat, at : 0..LastHour, seen : 0..LastHour, epoch : Nat]
      BY <1>0 DEF CaptureTyped
    <3>2. /\ capture'.pending = FALSE /\ capture'.row = Len(memoryRows) + 1
          /\ capture'.at = capture.at
          /\ capture' \in [pending : BOOLEAN, row : Nat, at : 0..LastHour, seen : 0..LastHour,
                          epoch : Nat]
      <4> DEFINE n == Len(memoryRows) + 1
      <4>1. n \in Nat /\ capture' = [capture EXCEPT !.pending = FALSE, !.row = n]
        BY <2>1, <2>2
      <4> HIDE DEF n
      <4>2. /\ capture'.pending = FALSE /\ capture'.row = n /\ capture'.at = capture.at
            /\ capture' \in [pending : BOOLEAN, row : Nat, at : 0..LastHour, seen : 0..LastHour,
                            epoch : Nat]
        BY <4>1, <3>1
      <4> QED
        BY <4>2 DEF n
    <3>3. capture'.row \in DOMAIN memoryRows' /\ capture'.at = memoryRows'[capture'.row].at
      BY <1>1, <2>2, <2>3, <3>2
    <3> QED
      BY <3>2, <3>3 DEF CaptureTyped
  <2> QED
    BY <1>1, <2>2, <2>3, <2>4
<1>3. CASE capture.row # 0
  <2>1. /\ memoryRows' = [memoryRows EXCEPT ![capture.row] = PersistedRow]
        /\ capture' = [capture EXCEPT !.pending = FALSE]
    BY <1>3 DEF Memory!Persist, PersistedRow
  <2>2. /\ capture.row \in DOMAIN memoryRows /\ capture.at = memoryRows[capture.row].at
        /\ DOMAIN memoryRows = 1..Len(memoryRows) /\ Len(memoryRows) \in Nat
    BY <1>0, <1>3 DEF CaptureTyped
  <2>3. /\ memoryRows' \in Seq(Memory!Row) /\ Len(memoryRows') = Len(memoryRows)
        /\ DOMAIN memoryRows' = DOMAIN memoryRows
        /\ \A r \in DOMAIN memoryRows :
              memoryRows'[r] = IF r = capture.row THEN PersistedRow ELSE memoryRows[r]
    BY <1>0, <1>1, <2>1, <2>2
  <2>4. CaptureTyped'
    BY <1>0, <1>1, <2>1, <2>2, <2>3 DEF CaptureTyped
  <2> QED
    BY <1>0, <1>1, <2>2, <2>3, <2>4
<1> QED
  BY <1>2, <1>3

LEMMA SummariesKeepType ==
    ASSUME ScheduleTyped, LastHour \in Nat, Captures \in Nat,
           Memory!Tick \/ Memory!Persist \/ Memory!Prune \/ Memory!Reset
    PROVE  ScheduleTyped'
<1>0. /\ memoryRows \in Seq(Memory!Row) /\ Len(memoryRows) <= Captures /\ epoch \in Nat
      /\ CaptureTyped
  BY DEF ScheduleTyped, Memory!TypeOK, CaptureTyped
<1>1. CASE Memory!Tick
  <2>1. memoryNow' \in 0..LastHour /\ memoryNow <= memoryNow'
    BY <1>1, RowsKnown DEF Memory!Tick
  <2>2. CaptureTyped'
    BY <1>0, <1>1 DEF Memory!Tick, CaptureTyped
  <2> QED
    BY <1>0, <1>1, <2>1, <2>2, RowsKeepType DEF Memory!Tick
<1>2. CASE Memory!Persist
  <2>1. UNCHANGED <<memoryNow, chronicle, epoch, run>>
    BY <1>2 DEF Memory!Persist
  <2> QED
    BY <1>0, <1>2, <2>1, PersistWrites, RowsKnown, RowsKeepType
<1>4. CASE Memory!Prune \/ Memory!Reset
  <2>1. /\ DOMAIN memoryRows' = DOMAIN memoryRows
        /\ \A r \in DOMAIN memoryRows :
                memoryRows'[r] \in {memoryRows[r], [memoryRows[r] EXCEPT !.gone = TRUE]}
        /\ UNCHANGED <<memoryNow, run, capture>> /\ chronicle' = {} /\ epoch' = epoch + 1
        /\ memoryRows' = [r \in DOMAIN memoryRows |-> memoryRows'[r]]
    BY <1>4 DEF Memory!Prune, Memory!Reset
  <2>2. \A r \in DOMAIN memoryRows :
                memoryRows'[r] \in Memory!Row /\ memoryRows'[r].at = memoryRows[r].at
    BY <2>1, RowsKnown DEF Memory!Row
  <2>3. memoryRows' \in Seq(Memory!Row) /\ Len(memoryRows') = Len(memoryRows)
    BY SMTT(30), <1>0, <2>1, <2>2, RowsKnown
  <2>4. CaptureTyped'
    BY <1>0, <2>1, <2>2, <2>3 DEF CaptureTyped
  <2> QED
    BY <1>0, <2>1, <2>2, <2>3, <2>4, RowsKnown, RowsKeepType
<1> QED
  BY <1>1, <1>2, <1>4

LEMMA ScheduleKeepsType ==
    ASSUME Backfill \in Nat, LastHour \in Nat, Captures \in Nat, ScheduleTyped,
           [Memory!Next]_Memory!vars
    PROVE  ScheduleTyped'
<1>1. CASE UNCHANGED Memory!vars
  BY <1>1 DEF Memory!vars, ScheduleTyped, Memory!TypeOK, PastPeriods, RowNumbers, Summaries
<1>2. CASE Memory!Next
  BY <1>2, PlanKeepsType, SummariesKeepType DEF Memory!Next
<1> QED
  BY <1>1, <1>2

-----------------------------------------------------------------------------
(***************************************************************************)
(* What was whole stays so.                                                *)
(***************************************************************************)
\* The rows that were there are where they were, and no summary is lost.
MemoryRowsKept ==
    /\ \A r \in Memory!Live :
            r \in Memory!Live' /\ memoryRows'[r].at = memoryRows[r].at
    /\ \A r \in Memory!Live' : r \in DOMAIN memoryRows => memoryRows'[r].at = memoryRows[r].at
    /\ chronicle \subseteq chronicle'

LEMMA RowsAreKept ==
    ASSUME ScheduleTyped, LastHour \in Nat, Captures \in Nat, Memory!Next, ~Memory!Prune,
           ~Memory!Reset
    PROVE  MemoryRowsKept
<1>1. CASE memoryRows' = memoryRows
  <2>1. chronicle \subseteq chronicle'
    BY <1>1 DEF Memory!Next, Memory!Tick, Memory!Observe, Memory!Coalesce, Memory!Persist,
       Memory!PersistFails, Memory!AskReset, Memory!Restart, Memory!StartRun, Memory!HaveKey,
       Memory!NoKey, Memory!EndRun, Memory!Consider, Memory!Answered, Memory!Failed,
       Memory!GaveUp, Memory!Commit
  <2> QED
    BY <1>1, <2>1 DEF MemoryRowsKept, Memory!Live
<1>2. CASE Memory!Persist
  <2>1. chronicle' = chronicle
    BY <1>2 DEF Memory!Persist
  <2>2. PersistedRow.gone = FALSE
    BY DEF PersistedRow
  <2> QED
    BY <1>2, <2>1, <2>2, PersistWrites DEF MemoryRowsKept, Memory!Live
<1> QED
  BY <1>1, <1>2 DEF Memory!Next, Memory!Tick, Memory!Observe, Memory!Coalesce,
     Memory!PersistFails, Memory!AskReset, Memory!Restart,
     Memory!StartRun, Memory!HaveKey, Memory!NoKey, Memory!EndRun, Memory!Consider,
     Memory!Answered, Memory!Failed, Memory!GaveUp, Memory!Commit

\* What explains that a row is lacking goes on explaining it; and a row that was not there
\* is one that came later.
LEMMA WholeKept ==
    ASSUME ScheduleTyped, LastHour \in Nat, MemoryRowsKept, NEW p \in PastPeriods,
           NEW of \in SUBSET RowNumbers, NEW known \in SUBSET RowNumbers,
           SummaryWhole(p, of, known)
    PROVE  SummaryWhole(p, of, known)'
<1>1. of \subseteq Memory!Live' /\ known \subseteq Memory!Live'
  BY DEF SummaryWhole, MemoryRowsKept
<1>2. ASSUME NEW r \in Memory!RowsIn(p)' \ of
      PROVE  \/ r \notin known
             \/ p.level = "hour" /\ Memory!Cardinality(of) >= PromptRows
             \/ LackedBeneath(p, r)'
  <2>1. CASE r \notin Memory!Live
    BY <2>1 DEF SummaryWhole
  <2>2. CASE r \in Memory!Live
    <3>1. memoryRows'[r].at = memoryRows[r].at
      BY <2>2 DEF MemoryRowsKept
    <3>2. r \in Memory!RowsIn(p) \ of
      BY <1>2, <2>2, <3>1 DEF Memory!RowsIn
    <3>3. ASSUME LackedBeneath(p, r) PROVE LackedBeneath(p, r)'
      <4>1. PICK d \in chronicle :
              /\ Memory!Hours[d.period.level] < Memory!Hours[p.level]
              /\ Memory!Within(d.period, memoryRows[r].at)
              /\ Memory!Late(d, r) \/ Memory!Crowded(d, r)
        BY <3>3 DEF LackedBeneath
      <4>2. d \in chronicle' /\ Memory!Within(d.period, memoryRows'[r].at)
        BY <3>1, <4>1 DEF MemoryRowsKept
      <4> QED
        BY <4>1, <4>2 DEF LackedBeneath, Memory!Late, Memory!Crowded
    <3> QED
      BY <3>2, <3>3 DEF SummaryWhole
  <2> QED
    BY <2>1, <2>2
<1> QED
  BY <1>1, <1>2 DEF SummaryWhole

\* All of them together.
AllSummariesWhole == \A c \in chronicle : SummaryWhole(c.period, c.of, c.known)

LEMMA WholeIsSound == AllSummariesWhole => Memory!NoPartialRollup /\ Memory!NoGhost
<1> SUFFICES ASSUME AllSummariesWhole PROVE Memory!NoPartialRollup /\ Memory!NoGhost
    OBVIOUS
<1>1. Memory!NoGhost
  BY DEF Memory!NoGhost, AllSummariesWhole, SummaryWhole
<1>2. ASSUME NEW c \in chronicle, NEW r \in Memory!RowsIn(c.period) \ c.of
      PROVE  \E d \in Memory!Beneath(c, r) : Memory!Late(d, r) \/ Memory!Crowded(d, r)
  <2>1. \/ r \notin c.known
        \/ c.period.level = "hour" /\ Memory!Cardinality(c.of) >= PromptRows
        \/ LackedBeneath(c.period, r)
    BY <1>2 DEF AllSummariesWhole, SummaryWhole
  <2>2. CASE r \notin c.known \/ (c.period.level = "hour" /\ Memory!Cardinality(c.of) >= PromptRows)
    BY <1>2, <2>2 DEF Memory!Beneath, Memory!Late, Memory!Crowded
  <2>3. CASE LackedBeneath(c.period, r)
    BY <2>3 DEF LackedBeneath, Memory!Beneath
  <2> QED
    BY <2>1, <2>2, <2>3
<1> QED
  BY <1>1, <1>2 DEF Memory!NoPartialRollup

\* What is read for a period covers it: the summary of each part covers the part, and a
\* part with rows but without a summary puts the period off.
LEMMA SourcesWhole ==
    ASSUME ScheduleTyped, LastHour \in Nat, AllSummariesWhole, run.queue # <<>>,
           Memory!Period.level = "hour" \/ ~Memory!Deferred(Memory!Period),
           NEW of \in Memory!Sources(Memory!Period)
    PROVE  SummaryWhole(Memory!Period, of, Memory!Live)
<1>0. Memory!Period \in AllPeriods
  BY SummaryRunKnown DEF PastPeriods
<1>1. CASE Memory!Period.level = "hour"
  <2>1. Memory!Fits(Memory!Period, of)
    BY <1>1 DEF Memory!Sources
  <2> QED
    BY <1>1, <2>1 DEF Memory!Fits, SummaryWhole, Memory!RowsIn
<1>2. CASE Memory!Period.level # "hour"
  <2> DEFINE parts == {d \in chronicle : d.period \in Memory!Children(Memory!Period)}
  <2>1. of = UNION {c.of : c \in parts}
    BY <1>2 DEF Memory!Sources
  <2>2. of \subseteq Memory!Live
    BY <2>1 DEF AllSummariesWhole, SummaryWhole
  <2>3. ASSUME NEW r \in Memory!RowsIn(Memory!Period) \ of
        PROVE  LackedBeneath(Memory!Period, r)
    <3> DEFINE part == Memory!Containing(Memory!Child[Memory!Period.level], memoryRows[r].at)
    <3>1. /\ Memory!Within(Memory!Period, memoryRows[r].at) /\ memoryRows[r].at \in Nat
          /\ r \in Memory!Live
      BY RowsKnown DEF Memory!RowsIn
    <3>2. part \in Memory!Children(Memory!Period) /\ Memory!Within(part, memoryRows[r].at)
      BY <1>0, <1>2, <3>1, PartsTile
    <3>3. Memory!Hours[part.level] < Memory!Hours[Memory!Period.level]
      BY <1>0, <1>2 DEF AllPeriods, Memory!Levels, Memory!Child, Memory!Hours, Memory!Containing
    <3> HIDE DEF part
    <3>4. r \in Memory!RowsIn(part)
      BY <3>1, <3>2 DEF Memory!RowsIn
    <3>5. Memory!Done(part)
      BY <1>2, <3>1, <3>2, <3>4 DEF Memory!Deferred, Memory!Missing, Memory!Overlap
    <3>6. PICK c \in parts : c.period = part
      BY <3>2, <3>5 DEF Memory!Done
    <3>7. r \notin c.of
      BY <2>1, <3>6
    <3>8. \/ r \notin c.known
          \/ part.level = "hour" /\ Memory!Cardinality(c.of) >= PromptRows
          \/ LackedBeneath(part, r)
      BY <3>4, <3>6, <3>7 DEF AllSummariesWhole, SummaryWhole
    <3>9. CASE r \notin c.known
               \/ (part.level = "hour" /\ Memory!Cardinality(c.of) >= PromptRows)
      BY <3>2, <3>3, <3>6, <3>7, <3>9 DEF LackedBeneath, Memory!Late, Memory!Crowded
    <3>10. CASE LackedBeneath(part, r)
      <4>1. PICK d \in chronicle :
              /\ Memory!Hours[d.period.level] < Memory!Hours[part.level]
              /\ Memory!Within(d.period, memoryRows[r].at)
              /\ Memory!Late(d, r) \/ Memory!Crowded(d, r)
        BY <3>10 DEF LackedBeneath
      <4>2. /\ d.period.level \in Memory!Levels /\ part.level \in Memory!Levels
            /\ Memory!Period.level \in Memory!Levels
        BY <1>0, <3>6 DEF ScheduleTyped, Summaries, PastPeriods, AllPeriods
      <4>3. Memory!Hours[d.period.level] < Memory!Hours[Memory!Period.level]
        BY <3>3, <4>1, <4>2 DEF Memory!Hours, Memory!Levels
      <4> QED
        BY <4>1, <4>3 DEF LackedBeneath
    <3> QED
      BY <3>8, <3>9, <3>10
  <2> QED
    BY <2>2, <2>3 DEF SummaryWhole
<1> QED
  BY <1>1, <1>2

\* Nothing but the rows and the summaries decides whether one is whole.
LEMMA WholeUnchanged ==
    ASSUME UNCHANGED <<memoryRows, chronicle>>, NEW p, NEW of, NEW known,
           SummaryWhole(p, of, known)
    PROVE  SummaryWhole(p, of, known)'
BY DEF SummaryWhole, LackedBeneath, Memory!RowsIn, Memory!Live, Memory!Late, Memory!Crowded

LEMMA RunStaysWhole ==
    ASSUME ScheduleTyped, LastHour \in Nat, Captures \in Nat, RunIsWhole, AllSummariesWhole,
           [Memory!Next]_Memory!vars
    PROVE  RunIsWhole'
<1>0. /\ epoch \in Nat /\ run.epoch \in Nat /\ run \in SummaryRuns
      /\ run.of \in SUBSET RowNumbers /\ run.known \in SUBSET RowNumbers
  BY SummaryRunKnown DEF ScheduleTyped
<1>1. CASE UNCHANGED Memory!vars
  <2>1. UNCHANGED <<memoryRows, chronicle, run, epoch>> /\ Memory!Period' = Memory!Period
    BY <1>1 DEF Memory!vars, Memory!Period
  <2> QED
    BY <2>1, WholeUnchanged DEF RunIsWhole, SummaryUnderway
<1>2. CASE Memory!Prune \/ Memory!Reset
  <2>1. run' = run /\ epoch' = epoch + 1
    BY <1>2 DEF Memory!Prune, Memory!Reset
  <2> QED
    BY <1>0, <2>1 DEF RunIsWhole, SummaryUnderway
<1>3. CASE Memory!Consider /\ SummaryUnderway'
  <2>1. /\ run.queue # <<>> /\ (Memory!Period.level = "hour" \/ ~Memory!Deferred(Memory!Period))
        /\ UNCHANGED <<memoryRows, chronicle, epoch>>
        /\ \E of \in Memory!Sources(Memory!Period) :
              run' = [run EXCEPT !.at = "generate", !.epoch = epoch, !.of = of,
                                 !.known = Memory!Live]
    BY <1>0, <1>3 DEF Memory!Consider, SummaryUnderway, Memory!Next_, SummaryRuns
  <2>2. PICK of \in Memory!Sources(Memory!Period) :
              run' = [run EXCEPT !.at = "generate", !.epoch = epoch, !.of = of,
                                 !.known = Memory!Live]
    BY <2>1
  <2>3. run'.epoch = epoch /\ run'.queue = run.queue /\ run'.of = of /\ run'.known = Memory!Live
    BY <1>0, <2>2 DEF SummaryRuns
  <2>4. SummaryWhole(Memory!Period, of, Memory!Live)
    BY <2>1, SourcesWhole
  <2>5. PICK p : p = Memory!Period
    OBVIOUS
  <2>6. PICK known : known = Memory!Live
    OBVIOUS
  <2>7. SummaryWhole(p, of, known)'
    BY <2>1, <2>4, <2>5, <2>6, WholeUnchanged
  <2>8. Memory!Period' = p /\ run'.of = of /\ run'.known = known /\ run'.epoch <= epoch'
    BY <1>0, <2>1, <2>3, <2>5, <2>6 DEF Memory!Period
  <2> QED
    BY <2>7, <2>8 DEF RunIsWhole
<1>4. CASE Memory!Next /\ ~Memory!Prune /\ ~Memory!Reset /\ ~Memory!Consider /\ SummaryUnderway'
  <2>1. /\ SummaryUnderway /\ run'.epoch = run.epoch /\ run'.of = run.of /\ run'.queue = run.queue
        /\ run'.known = run.known /\ epoch' = epoch
    <3>1. CASE Memory!Tick \/ Memory!Observe \/ Memory!Coalesce \/ Memory!Persist
               \/ Memory!PersistFails
      BY <1>4, <3>1 DEF Memory!Tick, Memory!Observe, Memory!Coalesce, Memory!Persist,
         Memory!PersistFails, SummaryUnderway
    <3>2. CASE Memory!AskReset
      BY <1>0, <1>4, <3>2 DEF Memory!AskReset, SummaryUnderway, SummaryRuns
    <3>3. CASE Memory!Answered
      BY <1>0, <1>4, <3>3 DEF Memory!Answered, SummaryUnderway, SummaryRuns
    <3>4. CASE Memory!Restart \/ Memory!NoKey \/ Memory!EndRun \/ Memory!GaveUp
      BY <1>4, <3>4, IdleRunKnown DEF Memory!Restart, Memory!NoKey, Memory!EndRun, Memory!GaveUp,
         Memory!End, SummaryUnderway
    <3>5. CASE Memory!StartRun \/ Memory!HaveKey
      BY <1>0, <1>4, <3>5 DEF Memory!StartRun, Memory!HaveKey, SummaryUnderway, SummaryRuns
    <3>6. CASE Memory!Failed \/ Memory!Commit
      BY <1>0, <1>4, <3>6, IdleRunKnown DEF Memory!Failed, Memory!Commit, Memory!End,
         Memory!Next_, SummaryUnderway, SummaryRuns
    <3> QED
      BY <1>4, <3>1, <3>2, <3>3, <3>4, <3>5, <3>6 DEF Memory!Next
  <2>2. ASSUME run.epoch = epoch PROVE SummaryWhole(Memory!Period, run.of, run.known)'
    <3>1. Memory!Period \in PastPeriods
      BY <2>1, SummaryRunKnown DEF ScheduleTyped, Memory!TypeOK, SummaryUnderway
    <3>2. PICK p \in PastPeriods : p = Memory!Period
      BY <3>1
    <3>3. PICK of \in SUBSET RowNumbers : of = run.of
      BY <1>0
    <3>4. PICK known \in SUBSET RowNumbers : known = run.known
      BY <1>0
    <3>5. SummaryWhole(p, of, known)
      BY <2>1, <2>2, <3>2, <3>3, <3>4 DEF RunIsWhole
    <3>6. SummaryWhole(p, of, known)'
      BY <1>4, <3>5, RowsAreKept, WholeKept
    <3>7. Memory!Period' = p /\ run'.of = of /\ run'.known = known
      BY <2>1, <3>2, <3>3, <3>4 DEF Memory!Period
    <3> QED
      BY <3>6, <3>7
  <2> QED
    BY <2>1, <2>2 DEF RunIsWhole
<1>5. CASE ~SummaryUnderway'
  BY <1>5 DEF RunIsWhole
<1> QED
  BY <1>1, <1>2, <1>3, <1>4, <1>5

LEMMA SummariesStayWhole ==
    ASSUME ScheduleTyped, LastHour \in Nat, Captures \in Nat, RunIsWhole, AllSummariesWhole,
           [Memory!Next]_Memory!vars
    PROVE  AllSummariesWhole'
<1>1. CASE UNCHANGED Memory!vars
  BY <1>1, WholeUnchanged DEF Memory!vars, AllSummariesWhole
<1>2. CASE Memory!Prune \/ Memory!Reset
  BY <1>2 DEF Memory!Prune, Memory!Reset, AllSummariesWhole
<1>3. CASE Memory!Next /\ ~Memory!Prune /\ ~Memory!Reset
  <2> SUFFICES ASSUME NEW c \in chronicle' PROVE SummaryWhole(c.period, c.of, c.known)'
    BY DEF AllSummariesWhole
  <2>1. MemoryRowsKept
    BY <1>3, RowsAreKept
  <2>2. CASE c \in chronicle
    <3>1. /\ c.period \in PastPeriods /\ c.of \in SUBSET RowNumbers /\ c.known \in SUBSET RowNumbers
          /\ SummaryWhole(c.period, c.of, c.known)
      BY <2>2 DEF ScheduleTyped, Summaries, AllSummariesWhole
    <3> QED
      BY <2>1, <3>1, WholeKept
  <2>3. CASE c \notin chronicle
    <3>1. Memory!Commit
      BY <1>3, <2>3 DEF Memory!Next, Memory!Tick, Memory!Observe, Memory!Coalesce,
         Memory!Persist, Memory!PersistFails,
         Memory!AskReset, Memory!Restart, Memory!StartRun, Memory!HaveKey, Memory!NoKey,
         Memory!EndRun, Memory!Consider, Memory!Answered, Memory!Failed, Memory!GaveUp
    <3>2. /\ Memory!SameEpoch
          /\ c = [period |-> Memory!Period, of |-> run.of, known |-> run.known]
          /\ SummaryUnderway
      BY <2>3, <3>1 DEF Memory!Commit, SummaryUnderway
    <3>3. c.period = Memory!Period /\ c.of = run.of /\ c.known = run.known
      BY <3>2
    <3>4. SummaryWhole(c.period, c.of, c.known)
      BY <3>2, <3>3 DEF RunIsWhole, Memory!SameEpoch
    <3>5. /\ c.period \in PastPeriods /\ c.of \in SUBSET RowNumbers
          /\ c.known \in SUBSET RowNumbers
      BY <3>2, <3>3, SummaryRunKnown DEF ScheduleTyped, Memory!TypeOK, SummaryUnderway
    <3> QED
      BY <2>1, <3>4, <3>5, WholeKept
  <2> QED
    BY <2>2, <2>3
<1> QED
  BY <1>1, <1>2, <1>3

\* Every stored summary covers the rows that began in its period, at every level, but for
\* rows that came once it, or one beneath it, was begun, and those that its hour's prompt had no
\* room for; and it was made from rows that are still there: whatever is captured, pruned or
\* reset while the model is asked, and wherever the daemon is restarted
\* (MemoryScheduler::run_due_once).
THEOREM SummariesAreSound == PartsSpec => []SummariesSound
<1> DEFINE Whole == ScheduleTyped /\ RunIsWhole /\ AllSummariesWhole
<1>1. PartsInit => Whole
  <2>1. Memory!Init => RunIsWhole /\ AllSummariesWhole
    BY DEF Memory!Init, RunIsWhole, SummaryUnderway, Memory!Idle, AllSummariesWhole
  <2> QED
    BY <2>1, ScheduleBounds, ScheduleStarts DEF PartsInit
<1>2. component = "memory" /\ [Step \/ BoundReached]_allvars
      => [Memory!Next]_Memory!vars /\ (component = "memory")'
  BY DEF Step, BoundReached, allvars, memoryVars, Memory!vars
<1>3. ~(component = "memory") /\ [Step \/ BoundReached]_allvars => (~(component = "memory"))'
  BY DEF Step, BoundReached, allvars
<1>4. Whole /\ [Memory!Next]_Memory!vars => Whole'
  BY ScheduleBounds, ScheduleKeepsType, RunStaysWhole, SummariesStayWhole
<1>5. Whole => SummariesSound
  BY WholeIsSound DEF ScheduleTyped, SummariesSound
<1>6. ~(component = "memory") => SummariesSound
  BY DEF SummariesSound
<1> HIDE DEF Whole
<1> QED
  BY <1>1, <1>2, <1>3, <1>4, <1>5, <1>6, PTL DEF PartsSpec

-----------------------------------------------------------------------------
(***************************************************************************)
(* Retention.                                                              *)
(***************************************************************************)
LEMMA SameGates ==
    /\ Daemon!Init <=> Gates!Init
    /\ Daemon!Next <=> Gates!Next
    /\ Daemon!NoExpiredInMemory <=> Gates!NoExpiredInMemory
BY DEF Daemon!RequestKinds, Gates!RequestKinds, Daemon!Tasks, Gates!Tasks, Daemon!Locks, Gates!Locks,
       Daemon!NoSpan, Gates!NoSpan, Daemon!NoSnapshot, Gates!NoSnapshot, Daemon!NoMemory,
       Gates!NoMemory, Daemon!NoRequest, Gates!NoRequest, Daemon!ToResume, Gates!ToResume,
       Daemon!Asked, Gates!Asked, Daemon!Init, Gates!Init, Daemon!Goto, Gates!Goto,
       Daemon!Await, Gates!Await, Daemon!Drop, Gates!Drop, Daemon!Paused, Gates!Paused,
       Daemon!Resumed, Gates!Resumed, Daemon!PauseNow, Gates!PauseNow, Daemon!Cleared,
       Gates!Cleared, Daemon!Continued, Gates!Continued, Daemon!Refreshed, Gates!Refreshed,
       Daemon!CapIdle, Gates!CapIdle, Daemon!CapAskLease, Gates!CapAskLease,
       Daemon!CapLeasePaused, Gates!CapLeasePaused, Daemon!CapBeginRead, Gates!CapBeginRead,
       Daemon!CapSkip, Gates!CapSkip, Daemon!Merges, Gates!Merges, Daemon!Observed,
       Gates!Observed, Daemon!CapObserve, Gates!CapObserve, Daemon!Extended, Gates!Extended,
       Daemon!Recorded, Gates!Recorded, Daemon!CapPersist, Gates!CapPersist, Daemon!CapEnd,
       Gates!CapEnd, Daemon!CapStep, Gates!CapStep, Daemon!FirstLock, Gates!FirstLock,
       Daemon!Arrive, Gates!Arrive, Daemon!Resume, Gates!Resume, Daemon!Answer, Gates!Answer,
       Daemon!GrantedThenAwait, Gates!GrantedThenAwait, Daemon!PauseTake, Gates!PauseTake,
       Daemon!PauseAnswer, Gates!PauseAnswer, Daemon!BlacklistConfig, Gates!BlacklistConfig,
       Daemon!BlacklistBarrier, Gates!BlacklistBarrier, Daemon!BlacklistStart,
       Gates!BlacklistStart, Daemon!BlacklistSave, Gates!BlacklistSave, Daemon!InlineStart,
       Gates!InlineStart, Daemon!InlineAnswer, Gates!InlineAnswer, Daemon!CutoffOf,
       Gates!CutoffOf, Daemon!PruneLocks, Gates!PruneLocks, Daemon!Finish, Gates!Finish,
       Daemon!Expired, Gates!Expired, Daemon!PruneCommit, Gates!PruneCommit, Daemon!PruneFinish,
       Gates!PruneFinish, Daemon!PruneFails, Gates!PruneFails, Daemon!RetentionBarrier,
       Gates!RetentionBarrier, Daemon!RetentionStart, Gates!RetentionStart,
       Daemon!RetentionSave, Gates!RetentionSave, Daemon!PrunerBegin, Gates!PrunerBegin,
       Daemon!DeleteSerial, Gates!DeleteSerial, Daemon!DeleteFlag, Gates!DeleteFlag,
       Daemon!AllCancelled, Gates!AllCancelled, Daemon!DeleteQuiesce, Gates!DeleteQuiesce,
       Daemon!DeleteBarrier, Gates!DeleteBarrier, Daemon!DeleteObserve, Gates!DeleteObserve,
       Daemon!DeletePause, Gates!DeletePause, Daemon!DeleteCommit, Gates!DeleteCommit,
       Daemon!DeleteFails, Gates!DeleteFails, Daemon!DeleteFinish, Gates!DeleteFinish,
       Daemon!DeleteResume, Gates!DeleteResume, Daemon!DeleteReset, Gates!DeleteReset,
       Daemon!DeleteRelease, Gates!DeleteRelease, Daemon!Waiting, Gates!Waiting,
       Daemon!Disconnect, Gates!Disconnect, Daemon!RunLocks, Gates!RunLocks, Daemon!RunLeave,
       Gates!RunLeave, Daemon!RunUnchanged, Gates!RunUnchanged, Daemon!RunRegister,
       Gates!RunRegister, Daemon!RunAwaitSerial, Gates!RunAwaitSerial, Daemon!RunAwaitGate,
       Gates!RunAwaitGate, Daemon!RunEnter, Gates!RunEnter, Daemon!RunCancelled,
       Gates!RunCancelled, Daemon!RunPlan, Gates!RunPlan, Daemon!RunGather, Gates!RunGather,
       Daemon!RunComplete, Gates!RunComplete, Daemon!RunFails, Gates!RunFails, Daemon!RunCommit,
       Gates!RunCommit, Daemon!PruneStep, Gates!PruneStep, Daemon!Serve, Gates!Serve,
       Daemon!RunStep, Gates!RunStep, Daemon!Requested, Gates!Requested, Daemon!Next,
       Gates!Next, Daemon!NoExpiredInMemory, Gates!NoExpiredInMemory, Daemon!FreeLock,
       Gates!FreeLock, Daemon!Queued, Gates!Queued, Daemon!Join, Gates!Join, Daemon!Leave,
       Gates!Leave, Daemon!Holds, Gates!Holds, Daemon!HoldsWrite, Gates!HoldsWrite,
       Daemon!HoldsRead, Gates!HoldsRead

\* No committed summary rests on a row that retention removed, as long as nothing fails
\* after the commit of the pruning (enforce_retention_locked).
THEOREM MemoryIsRetained == PartsSpec => []NoExpiredInMemory
<1>1. PartsInit => Gates!Init
  BY SameGates DEF PartsInit
<1>2. component = "retention" /\ [Step \/ BoundReached]_allvars
      => [Gates!Next]_Gates!vars /\ (component = "retention")'
  BY SameGates DEF Step, BoundReached, allvars, daemonVars, Gates!vars
<1>3. ~(component = "retention") /\ [Step \/ BoundReached]_allvars => (~(component = "retention"))'
  BY DEF Step, BoundReached, allvars
<1>4. Gates!Spec => []Gates!NoExpiredInMemory
  <2>1. /\ cap # pruner /\ cap \notin memoryRuns \cup callers
        /\ pruner \notin memoryRuns \cup callers /\ \A m \in memoryRuns : m \notin callers
    BY DaemonTasks
  <2>2. {"retention"} \subseteq Gates!RequestKinds
    BY DEF Gates!RequestKinds
  <2>3. /\ Observations \in Nat /\ ages \subseteq Nat \ {0} /\ FALSE \in BOOLEAN
        /\ forever \notin Nat
    BY DaemonTasks
  <2> QED
    BY <2>1, <2>2, <2>3, Gates!MemoryOutlivesNoSource
<1>5. Gates!NoExpiredInMemory => NoExpiredInMemory
  BY SameGates DEF NoExpiredInMemory
<1>6. ~(component = "retention") => NoExpiredInMemory
  BY DEF NoExpiredInMemory
<1> QED
  BY <1>1, <1>2, <1>3, <1>4, <1>5, <1>6, PTL DEF PartsSpec, Gates!Spec

-----------------------------------------------------------------------------
(***************************************************************************)
(* The index.  A record names the second in which its row was last seen; a *)
(* record that agrees with its row about the second agrees about the text, *)
(* unless the row is one whose text or deletion did not reach the index,   *)
(* or, on disk, one that got a new text for the second of its record,      *)
(* which are remembered.                                                   *)
(***************************************************************************)
IndexedRow == [text : Contents, seen : 1..IndexSeconds]
Vector == [id : IndexIds, text : Contents \ Featureless, seen : 1..IndexSeconds, revision : Vectors]
VectorGraphs == [records : SUBSET Vector, signature : Vectors \cup {0}]

IndexTyped ==
    /\ indexNow \in 1..IndexSeconds /\ revision \in Vectors
    /\ indexRows \in [IndexIds -> {Index!Absent} \cup IndexedRow]
    /\ active \in [id : IndexIds \cup {"none"}, text : Contents \cup {"none"}]
    /\ up \in {"up", "down", "refused"}
    /\ failed \subseteq IndexIds /\ masked \subseteq IndexIds
    /\ memory \in VectorGraphs /\ indexFile \in VectorGraphs
    /\ indexFaults \in 0..Upsets

\* One record of a row, which is of the row's second only with its text.
Faithful(g, rs, lost) ==
    /\ \A x, y \in g.records : x.id = y.id => x = y
    /\ \A x \in g.records : x.revision = g.signature
    /\ \A x \in g.records :
          rs[x.id] # Index!Absent /\ x.id \notin lost /\ x.seen = rs[x.id].seen =>
             x.text = rs[x.id].text

Current(g, rs, lost, rev) ==
    \A i \in IndexIds : rs[i] # Index!Absent /\ i \notin lost =>
        Index!Record(i, rs[i].text, rs[i].seen, rev) \in g.records

NoGhost(g, rs, lost) == \A x \in g.records : rs[x.id] # Index!Absent \/ x.id \in lost

InFront(a, rs) ==
    a.id \in IndexIds /\ rs[a.id] # Index!Absent => rs[a.id].text = a.text

IndexInv ==
    /\ IndexTyped
    /\ Faithful(memory, indexRows, failed) /\ Faithful(indexFile, indexRows, failed \cup masked)
    /\ InFront(active, indexRows)
    /\ up # "up" => memory = Index!Nothing /\ active = Index!NoSequence
    /\ up = "up" => /\ memory.signature = revision
                    /\ Current(memory, indexRows, failed, revision)
                    /\ NoGhost(memory, indexRows, failed) /\ NoGhost(indexFile, indexRows, failed)

\* What a row, a record and no row are.
LEMMA RowsAre ==
    /\ \A r \in {Index!Absent} \cup IndexedRow : r # Index!Absent => r \in IndexedRow
    /\ \A t, s : [text |-> t, seen |-> s].text = t /\ [text |-> t, seen |-> s].seen = s
    /\ \A t, s : s \in 1..IndexSeconds => [text |-> t, seen |-> s] # Index!Absent
    /\ \A i, t, s, r : LET x == Index!Record(i, t, s, r) IN
          x.id = i /\ x.text = t /\ x.seen = s /\ x.revision = r
<1>1. ASSUME NEW t, NEW s \in 1..IndexSeconds PROVE [text |-> t, seen |-> s] # Index!Absent
  <2>1. [text |-> t, seen |-> s].seen = s /\ Index!Absent.seen = 0 /\ s # 0
    BY DEF Index!Absent
  <2> QED
    BY <2>1
<1> QED
  BY <1>1 DEF Index!Record

\* The empty index, and no sequence.
LEMMA NothingIs ==
    /\ Index!Nothing \in VectorGraphs /\ Index!Nothing.records = {}
    /\ \A rs, lost : Faithful(Index!Nothing, rs, lost) /\ NoGhost(Index!Nothing, rs, lost)
    /\ Index!NoSequence \in [id : IndexIds \cup {"none"}, text : Contents \cup {"none"}]
    /\ IndexBounds => \A rs : InFront(Index!NoSequence, rs)
<1>1. Index!NoSequence = [id |-> "none", text |-> "none"]
  BY DEF Index!NoSequence
<1>2. Index!NoSequence \in [id : IndexIds \cup {"none"}, text : Contents \cup {"none"}]
  BY <1>1
<1>3. IndexBounds => \A rs : InFront(Index!NoSequence, rs)
  <2>1. Index!NoSequence.id = "none"
    BY <1>1
  <2> QED
    BY <2>1, IndexBounds DEF InFront
<1>4. /\ Index!Nothing \in VectorGraphs /\ Index!Nothing.records = {}
      /\ \A rs, lost : Faithful(Index!Nothing, rs, lost) /\ NoGhost(Index!Nothing, rs, lost)
  BY DEF Index!Nothing, VectorGraphs, Faithful, NoGhost
<1> QED
  BY <1>2, <1>3, <1>4

\* An index that is built anew is of the rows there are.
LEMMA GraphBuilt ==
    ASSUME revision \in Vectors, NEW rs \in [IndexIds -> {Index!Absent} \cup IndexedRow],
           NEW left, left = {i \in IndexIds : rs[i] # Index!Absent},
           \A i \in left : rs[i].text \notin Featureless
    PROVE  LET g == Index!Graph(left, rs) IN
           /\ g \in VectorGraphs /\ g.signature = revision
           /\ \A lost : Faithful(g, rs, lost) /\ NoGhost(g, rs, lost) /\ Current(g, rs, lost, revision)
<1> DEFINE g == Index!Graph(left, rs)
<1>1. /\ g.signature = revision
      /\ g.records = {Index!Record(i, rs[i].text, rs[i].seen, revision) : i \in left}
      /\ g = [signature |-> revision,
              records |-> {Index!Record(i, rs[i].text, rs[i].seen, revision) : i \in left}]
  BY DEF Index!Graph
<1>2. \A i \in left : /\ i \in IndexIds /\ rs[i] \in IndexedRow
                      /\ rs[i].text \in Contents \ Featureless /\ rs[i].seen \in 1..IndexSeconds
  BY RowsAre DEF IndexedRow
<1>3. \A i \in left : Index!Record(i, rs[i].text, rs[i].seen, revision) \in Vector
  BY <1>2 DEF Index!Record, Vector
<1>4. g \in VectorGraphs
  BY <1>1, <1>3 DEF VectorGraphs
<1>5. ASSUME NEW x \in g.records
      PROVE  x.id \in left /\ x = Index!Record(x.id, rs[x.id].text, rs[x.id].seen, revision)
  BY <1>1, <1>5, RowsAre
<1> HIDE DEF g
<1>6. ASSUME NEW lost PROVE Faithful(g, rs, lost)
  <2>1. \A x, y \in g.records : x.id = y.id => x = y
    BY <1>5
  <2>2. \A x \in g.records : x.revision = g.signature
    BY <1>1, <1>5, RowsAre
  <2>3. \A x \in g.records : x.seen = rs[x.id].seen /\ x.text = rs[x.id].text /\ x.seen \in Int
    BY <1>2, <1>5, RowsAre
  <2> QED
    BY <2>1, <2>2, <2>3 DEF Faithful
<1>7. ASSUME NEW lost PROVE NoGhost(g, rs, lost) /\ Current(g, rs, lost, revision)
  BY <1>1, <1>5 DEF NoGhost, Current
<1> QED
  BY <1>1, <1>4, <1>6, <1>7 DEF g

\* The rows a capture changes, and what it goes on from.
LEMMA Captured ==
    ASSUME IndexBounds, IndexInv, NEW i \in IndexIds, NEW text \in Contents, Index!Capture(i, text)
    PROVE  /\ up = "up" /\ indexRows' \in [IndexIds -> {Index!Absent} \cup IndexedRow]
           /\ indexRows'[i] # Index!Absent
           /\ indexRows'[i].text = text /\ indexRows'[i].seen \in 1..IndexSeconds
           /\ \A j \in IndexIds : j # i => indexRows'[j] = indexRows[j]
           /\ active.id = i /\ indexRows[i] # Index!Absent => indexRows[i].text = active.text
           /\ UNCHANGED <<indexNow, revision, asked, answer>>
<1> DEFINE last == IF indexRows[i].seen > indexNow THEN indexRows[i].seen ELSE indexNow
<1>1. /\ up = "up" /\ indexRows' = [indexRows EXCEPT ![i] = [text |-> text, seen |-> last]]
      /\ UNCHANGED <<indexNow, revision, asked, answer>>
  BY DEF Index!Capture, Index!searching
<1>2. indexNow \in 1..IndexSeconds /\ indexRows \in [IndexIds -> {Index!Absent} \cup IndexedRow]
  BY DEF IndexInv, IndexTyped
<1>3. last \in 1..IndexSeconds
  <2>1. indexRows[i] = Index!Absent => indexRows[i].seen = 0
    BY DEF Index!Absent
  <2>2. indexRows[i] # Index!Absent => indexRows[i].seen \in 1..IndexSeconds
    BY <1>2 DEF IndexedRow
  <2>3. IndexSeconds \in Nat
    BY IndexBounds
  <2> QED
    BY <1>2, <2>1, <2>2, <2>3
<1> HIDE DEF last
<1>4. /\ indexRows' \in [IndexIds -> {Index!Absent} \cup IndexedRow]
      /\ indexRows'[i] = [text |-> text, seen |-> last]
      /\ \A j \in IndexIds : j # i => indexRows'[j] = indexRows[j]
  <2>1. [text |-> text, seen |-> last] \in IndexedRow
    BY <1>3 DEF IndexedRow
  <2> QED
    BY <1>1, <1>2, <2>1
<1>5. /\ indexRows'[i] # Index!Absent /\ indexRows'[i].text = text
      /\ indexRows'[i].seen \in 1..IndexSeconds
  BY <1>3, <1>4, RowsAre
<1>6. active.id = i /\ indexRows[i] # Index!Absent => indexRows[i].text = active.text
  BY DEF IndexInv, InFront
<1> QED
  BY <1>1, <1>4, <1>5, <1>6

\* What is in memory stays faithful while the row moves on, but for the row itself.
LEMMA CaptureFaithful ==
    ASSUME IndexBounds, IndexInv, NEW i \in IndexIds, NEW text \in Contents, Index!Capture(i, text)
    PROVE  Faithful(memory, indexRows', failed \cup {i})
<1>1. \A j \in IndexIds : j # i => indexRows'[j] = indexRows[j]
  BY Captured
<1>2. Faithful(memory, indexRows, failed) /\ \A x \in memory.records : x.id \in IndexIds
  BY DEF IndexInv, IndexTyped, VectorGraphs, Vector
<1> QED
  BY <1>1, <1>2 DEF Faithful

\* And so does what is on disk, when a row is marked whose second the container has.
LEMMA CaptureMasks ==
    ASSUME IndexBounds, IndexInv, NEW i \in IndexIds, NEW text \in Contents, Index!Capture(i, text),
           masked' = Index!Masked(i), NEW lost, failed \ {i} \subseteq lost
    PROVE  masked' \subseteq IndexIds /\ Faithful(indexFile, indexRows', lost \cup masked')
<1>1. \A j \in IndexIds : j # i => indexRows'[j] = indexRows[j]
  BY Captured
<1>2. /\ Faithful(indexFile, indexRows, failed \cup masked) /\ masked \subseteq IndexIds
      /\ \A x \in indexFile.records : x.id \in IndexIds
  BY DEF IndexInv, IndexTyped, VectorGraphs, Vector
<1>3. CASE \E x \in indexFile.records : /\ x.id = i /\ x.seen = indexRows'[i].seen
                                      /\ x.text # indexRows'[i].text
  <2>1. masked' = masked \cup {i}
    BY <1>3 DEF Index!Masked
  <2>2. \A j \in IndexIds : j \notin lost \cup masked' => j # i /\ j \notin failed \cup masked
    BY <2>1
  <2> QED
    BY <1>1, <1>2, <2>1, <2>2 DEF Faithful
<1>4. CASE \A x \in indexFile.records :
              x.id = i /\ x.seen = indexRows'[i].seen => x.text = indexRows'[i].text
  <2>1. masked' = masked \ {i}
    BY <1>4 DEF Index!Masked
  <2>2. \A j \in IndexIds : j # i /\ j \notin lost \cup masked' => j \notin failed \cup masked
    BY <2>1
  <2> QED
    BY <1>1, <1>2, <1>4, <2>1, <2>2 DEF Faithful
<1> QED
  BY <1>3, <1>4

\* And the row a capture writes makes no ghost.
LEMMA CaptureGhosts ==
    ASSUME IndexBounds, IndexInv, NEW i \in IndexIds, NEW text \in Contents, Index!Capture(i, text),
           NEW g \in {memory, indexFile}, NEW lost, failed \ {i} \subseteq lost
    PROVE  NoGhost(g, indexRows', lost)
<1>1. /\ up = "up" /\ indexRows'[i] # Index!Absent
      /\ \A j \in IndexIds : j # i => indexRows'[j] = indexRows[j]
  BY Captured
<1>2. NoGhost(g, indexRows, failed) /\ \A x \in g.records : x.id \in IndexIds
  BY <1>1 DEF IndexInv, IndexTyped, VectorGraphs, Vector
<1> QED
  BY <1>1, <1>2 DEF NoGhost

\* A record that is written anew, or whose second is.
LEMMA Replaced ==
    ASSUME IndexBounds, IndexInv, NEW i \in IndexIds, NEW text \in Contents \ Featureless,
           Index!Capture(i, text)
    PROVE  LET g == Index!Upserted(i) IN
           /\ g \in VectorGraphs /\ g.signature = revision
           /\ Faithful(g, indexRows', failed \ {i}) /\ NoGhost(g, indexRows', failed \ {i})
           /\ Current(g, indexRows', failed \ {i}, revision)
<1> DEFINE g == Index!Upserted(i)
<1> DEFINE stamp == indexRows'[i].seen
<1> DEFINE new == Index!Record(i, text, stamp, revision)
<1>1. /\ up = "up" /\ indexRows'[i] # Index!Absent /\ indexRows'[i].text = text
      /\ indexRows'[i].seen = stamp /\ stamp \in 1..IndexSeconds
      /\ \A j \in IndexIds : j # i => indexRows'[j] = indexRows[j]
  BY Captured
<1>2. memory \in VectorGraphs /\ revision \in Vectors
      /\ memory.signature = revision
  BY <1>1 DEF IndexInv, IndexTyped
<1>3. /\ g = [memory EXCEPT !.records = {x \in @ : x.id # i} \cup {new}]
      /\ g.records = {x \in memory.records : x.id # i} \cup {new} /\ g.signature = revision
  BY <1>1, <1>2 DEF Index!Upserted, VectorGraphs
<1>4. new \in Vector /\ new.id = i /\ new.text = text /\ new.seen = stamp /\ new.revision = revision
  BY <1>1, <1>2 DEF Index!Record, Vector
<1>5. g \in VectorGraphs
  BY <1>2, <1>3, <1>4 DEF VectorGraphs
<1>6. Faithful(memory, indexRows', failed \cup {i}) /\ NoGhost(memory, indexRows', failed \ {i})
  BY CaptureFaithful, CaptureGhosts
<1>7. Current(memory, indexRows, failed, revision)
  BY <1>1 DEF IndexInv
<1>8. \A x \in g.records : x = new \/ (x \in memory.records /\ x.id # i)
  BY <1>3
<1> HIDE DEF g, new, stamp
<1>10. Faithful(g, indexRows', failed \ {i})
  <2>1. \A x, y \in g.records : x.id = y.id => x = y
    BY <1>4, <1>6, <1>8 DEF Faithful
  <2>2. \A x \in g.records : x.revision = g.signature
    BY <1>2, <1>3, <1>4, <1>6, <1>8 DEF Faithful
  <2>3. ASSUME NEW x \in g.records, indexRows'[x.id] # Index!Absent, x.id \notin failed \ {i},
               x.seen = indexRows'[x.id].seen
        PROVE  x.text = indexRows'[x.id].text
    <3>1. CASE x = new
      BY <1>1, <1>4, <3>1
    <3>2. CASE x # new
      <4>1. x \in memory.records /\ x.id \notin failed \cup {i}
        BY <1>8, <2>3, <3>2
      <4> QED
        BY <1>6, <2>3, <4>1 DEF Faithful
    <3> QED
      BY <3>1, <3>2
  <2> QED
    BY <2>1, <2>2, <2>3 DEF Faithful
<1>11. NoGhost(g, indexRows', failed \ {i})
  BY <1>1, <1>4, <1>6, <1>8 DEF NoGhost
<1>12. Current(g, indexRows', failed \ {i}, revision)
  <2>1. new \in g.records /\ new = Index!Record(i, indexRows'[i].text, indexRows'[i].seen, revision)
    BY <1>1, <1>3 DEF new
  <2>2. ASSUME NEW j \in IndexIds, j # i, indexRows'[j] # Index!Absent, j \notin failed
        PROVE  Index!Record(j, indexRows'[j].text, indexRows'[j].seen, revision) \in g.records
    <3>1. Index!Record(j, indexRows[j].text, indexRows[j].seen, revision) \in memory.records
      BY <1>1, <1>7, <2>2 DEF Current
    <3> QED
      BY <1>1, <1>3, <2>2, <3>1, RowsAre
  <2> QED
    BY <2>1, <2>2 DEF Current
<1> QED
  BY <1>3, <1>5, <1>10, <1>11, <1>12 DEF g

\* A record whose row is seen again with the same text.
LEMMA Refreshed ==
    ASSUME IndexBounds, IndexInv, NEW i \in IndexIds, NEW text \in Contents, Index!Capture(i, text),
           active.id = i, active.text = text, i \in Index!Ranked(memory.records),
           NEW g, g = [memory EXCEPT !.records =
                         {IF x.id = i THEN [x EXCEPT !.seen = indexRows'[i].seen] ELSE x : x \in @}]
    PROVE  /\ g \in VectorGraphs /\ g.signature = revision
           /\ Faithful(g, indexRows', failed) /\ NoGhost(g, indexRows', failed)
           /\ Current(g, indexRows', failed, revision)
<1> DEFINE stamp == indexRows'[i].seen
<1> DEFINE new(x) == IF x.id = i THEN [x EXCEPT !.seen = stamp] ELSE x
<1>1. /\ up = "up" /\ indexRows'[i] # Index!Absent /\ indexRows'[i].text = text
      /\ indexRows'[i].seen = stamp /\ stamp \in 1..IndexSeconds
      /\ indexRows[i] # Index!Absent => indexRows[i].text = text
      /\ \A j \in IndexIds : j # i => indexRows'[j] = indexRows[j]
  BY Captured
<1>2. /\ memory \in VectorGraphs /\ revision \in Vectors
      /\ memory.signature = revision /\ Faithful(memory, indexRows, failed)
      /\ Current(memory, indexRows, failed, revision) /\ NoGhost(memory, indexRows, failed)
  BY <1>1 DEF IndexInv, IndexTyped
<1>3. g.records = {new(x) : x \in memory.records} /\ g.signature = revision
  BY <1>1, <1>2 DEF VectorGraphs
<1>4. ASSUME NEW x \in memory.records
      PROVE  /\ x \in Vector /\ new(x) \in Vector /\ new(x).id = x.id /\ new(x).text = x.text
             /\ new(x).revision = x.revision
             /\ new(x).seen = IF x.id = i THEN stamp ELSE x.seen
  BY <1>1, <1>2 DEF VectorGraphs, Vector
<1>5. g \in VectorGraphs
  <2>1. g.records \subseteq Vector
    BY <1>3, <1>4
  <2>2. g = [records |-> g.records, signature |-> g.signature]
    BY <1>2 DEF VectorGraphs
  <2> QED
    BY <1>2, <1>3, <2>1, <2>2 DEF VectorGraphs
<1>6. Faithful(memory, indexRows', failed \cup {i}) /\ NoGhost(memory, indexRows', failed)
  BY CaptureFaithful, CaptureGhosts
<1>7. \A y \in g.records : \E x \in memory.records : y = new(x)
  BY <1>3
<1>8. \A x \in memory.records : x.id = i /\ i \notin failed => x.text = text
  <2>1. ASSUME NEW x \in memory.records, x.id = i, i \notin failed PROVE x.text = text
    <3>1. indexRows[i] # Index!Absent
      BY <1>2, <2>1 DEF NoGhost
    <3>2. Index!Record(i, text, indexRows[i].seen, revision) \in memory.records
      BY <1>1, <1>2, <2>1, <3>1 DEF Current
    <3> QED
      BY <1>2, <2>1, <3>2, RowsAre DEF Faithful
  <2> QED
    BY <2>1
<1>13. \A x \in memory.records : new(x) \in g.records
  BY <1>3
<1>14. \A x \in memory.records : x.id # i => new(x) = x
  OBVIOUS
<1>15. \A x \in memory.records : x.id = i => new(x) = [x EXCEPT !.seen = stamp]
  OBVIOUS
<1> HIDE DEF new, stamp
<1>9. Faithful(g, indexRows', failed)
  <2>1. ASSUME NEW y \in g.records, NEW z \in g.records, y.id = z.id PROVE y = z
    <3>1. PICK x \in memory.records : y = new(x)
      BY <1>7
    <3>2. PICK w \in memory.records : z = new(w)
      BY <1>7
    <3>3. x = w
      BY <1>2, <1>4, <2>1, <3>1, <3>2 DEF Faithful
    <3> QED
      BY <3>1, <3>2, <3>3
  <2>2. \A y \in g.records : y.revision = g.signature
    BY <1>2, <1>3, <1>4, <1>7 DEF Faithful
  <2>3. ASSUME NEW y \in g.records, indexRows'[y.id] # Index!Absent, y.id \notin failed,
               y.seen = indexRows'[y.id].seen
        PROVE  y.text = indexRows'[y.id].text
    <3>1. PICK x \in memory.records : y = new(x)
      BY <1>7
    <3>2. CASE x.id = i
      BY <1>1, <1>4, <1>8, <2>3, <3>1, <3>2
    <3>3. CASE x.id # i
      <4>1. y = x /\ x.id \notin failed \cup {i}
        BY <1>14, <2>3, <3>1, <3>3
      <4> QED
        BY <1>6, <2>3, <4>1 DEF Faithful
    <3> QED
      BY <3>2, <3>3
  <2> QED
    BY <2>1, <2>2, <2>3 DEF Faithful
<1>10. NoGhost(g, indexRows', failed)
  BY <1>4, <1>6, <1>7 DEF NoGhost
<1>11. Current(g, indexRows', failed, revision)
  <2>1. ASSUME NEW j \in IndexIds, indexRows'[j] # Index!Absent, j \notin failed
        PROVE  Index!Record(j, indexRows'[j].text, indexRows'[j].seen, revision) \in g.records
    <3>1. CASE j = i
      <4>1. PICK x \in memory.records : x.id = i
        BY DEF Index!Ranked
      <4>2. /\ new(x) \in g.records /\ new(x) \in Vector /\ new(x).id = i /\ new(x).text = text
            /\ new(x).seen = stamp /\ new(x).revision = revision
        BY <1>2, <1>4, <1>8, <1>13, <2>1, <3>1, <4>1 DEF Faithful
      <4>3. new(x) = Index!Record(i, text, stamp, revision)
        BY <4>2 DEF Vector, Index!Record
      <4> QED
        BY <1>1, <3>1, <4>2, <4>3
    <3>2. CASE j # i
      <4>1. Index!Record(j, indexRows[j].text, indexRows[j].seen, revision) \in memory.records
        BY <1>1, <1>2, <2>1, <3>2 DEF Current
      <4>2. Index!Record(j, indexRows[j].text, indexRows[j].seen, revision).id = j
        BY RowsAre
      <4> QED
        BY <1>1, <1>13, <1>14, <3>2, <4>1, <4>2
    <3> QED
      BY <3>1, <3>2
  <2> QED
    BY <2>1 DEF Current
<1> QED
  BY <1>3, <1>5, <1>9, <1>10, <1>11

\* A capture: the row is written, and the index follows, fails to, or is lost.
LEMMA CaptureMoves ==
    ASSUME IndexBounds, IndexInv, NEW i \in IndexIds, NEW text \in Contents, Index!Capture(i, text)
    PROVE  IndexInv'
<1>1. /\ up = "up" /\ indexRows' \in [IndexIds -> {Index!Absent} \cup IndexedRow]
      /\ indexRows'[i] # Index!Absent /\ indexRows'[i].text = text
      /\ UNCHANGED <<indexNow, revision>>
  BY Captured
<1>2. IndexTyped /\ memory.signature = revision /\ Current(memory, indexRows, failed, revision)
  BY <1>1 DEF IndexInv
<1>3. CASE Index!Die /\ Index!Fault /\ masked' = Index!Masked(i) /\ UNCHANGED <<indexFile, failed>>
  <2>1. up' = "down" /\ memory' = Index!Nothing /\ active' = Index!NoSequence
        /\ indexFile' = indexFile /\ failed' = failed /\ indexFaults' \in 0..Upsets
    BY <1>2, <1>3, IndexBounds DEF Index!Die, Index!Fault, IndexTyped
  <2>2. masked' \subseteq IndexIds /\ Faithful(indexFile, indexRows', failed \cup masked')
    <3>1. failed \ {i} \subseteq failed
      OBVIOUS
    <3> QED
      BY <1>3, <3>1, CaptureMasks
  <2>3. IndexTyped'
    BY <1>1, <1>2, <2>1, <2>2, NothingIs DEF IndexTyped
  <2> QED
    BY <1>1, <2>1, <2>2, <2>3, NothingIs DEF IndexInv
<1>4. ASSUME active' = [id |-> i, text |-> text], up' = up,
             memory' \in VectorGraphs, memory'.signature = revision,
             \/ indexFile' = memory' /\ masked' = {}
             \/ indexFile' \in {indexFile, memory'} /\ masked' = Index!Masked(i),
             indexFaults' \in 0..Upsets,
             failed' \subseteq IndexIds, failed \ {i} \subseteq failed',
             Faithful(memory', indexRows', failed'), NoGhost(memory', indexRows', failed'),
             Current(memory', indexRows', failed', revision)
      PROVE  IndexInv'
  <2>1. active' \in [id : IndexIds \cup {"none"}, text : Contents \cup {"none"}]
        /\ InFront(active', indexRows')
    BY <1>1, <1>4 DEF InFront
  <2>2. masked' \subseteq IndexIds
    BY <1>4, CaptureMasks
  <2>3. IndexTyped'
    BY <1>1, <1>2, <1>4, <2>1, <2>2 DEF IndexTyped
  <2>4. NoGhost(indexFile', indexRows', failed')
    BY <1>4, CaptureGhosts
  <2>5. \A lost : failed' \subseteq lost => Faithful(memory', indexRows', lost)
    BY <1>4 DEF Faithful
  <2>6. Faithful(indexFile', indexRows', failed' \cup masked')
    <3>1. CASE indexFile' = memory'
      BY <2>5, <3>1
    <3>2. CASE indexFile' = indexFile /\ masked' = Index!Masked(i)
      BY <1>4, <3>2, CaptureMasks
    <3> QED
      BY <1>4, <3>1, <3>2
  <2> QED
    BY <1>1, <1>4, <2>1, <2>3, <2>4, <2>6 DEF IndexInv
<1>5. ASSUME active' = [id |-> i, text |-> text], up' = up, Index!Missed(i),
             indexFaults' \in 0..Upsets
      PROVE  IndexInv'
  <2>1. failed' = failed \cup {i} /\ masked' = Index!Masked(i) /\ UNCHANGED <<memory, indexFile>>
    BY <1>5 DEF Index!Missed
  <2>2. failed' \subseteq IndexIds /\ failed \ {i} \subseteq failed'
    BY <1>2, <2>1 DEF IndexTyped
  <2>3. Faithful(memory, indexRows', failed')
    BY <2>1, CaptureFaithful
  <2>4. NoGhost(memory, indexRows', failed')
    BY <2>2, CaptureGhosts
  <2>5. Current(memory, indexRows', failed', revision)
    <3>1. \A j \in IndexIds : j # i => indexRows'[j] = indexRows[j]
      BY Captured
    <3> QED
      BY <1>2, <2>1, <3>1 DEF Current
  <2> QED
    BY <1>2, <1>4, <1>5, <2>1, <2>2, <2>3, <2>4, <2>5 DEF IndexTyped
<1>6. ASSUME NEW graph, Index!Keep(i, graph)
      PROVE  /\ memory' = graph /\ indexFaults' \in 0..Upsets
             /\ \/ indexFile' = memory' /\ masked' = {}
                \/ indexFile' \in {indexFile, memory'} /\ masked' = Index!Masked(i)
  BY <1>2, <1>6, IndexBounds DEF Index!Keep, Index!Saved, Index!NotSaved, Index!Fault, IndexTyped
<1>7. Index!Fault \/ UNCHANGED indexFaults => indexFaults' \in 0..Upsets
  BY <1>2, IndexBounds DEF Index!Fault, IndexTyped
<1>8. ASSUME active' = [id |-> i, text |-> text], up' = up, Index!Upsert(i) PROVE IndexInv'
  <2>1. CASE /\ indexRows'[i].text \notin Featureless
             /\ Index!Keep(i, Index!Upserted(i)) /\ failed' = failed \ {i}
    <3>1. text \in Contents \ Featureless
      BY <1>1, <2>1
    <3>2. failed' \subseteq IndexIds /\ failed \ {i} \subseteq failed'
      BY <1>2, <2>1 DEF IndexTyped
    <3> QED
      BY <1>4, <1>6, <1>8, <2>1, <3>1, <3>2, Replaced
  <2>2. CASE Index!Missed(i) /\ (Index!Fault \/ UNCHANGED indexFaults)
    BY <1>5, <1>7, <1>8, <2>2
  <2> QED
    BY <1>8, <2>1, <2>2 DEF Index!Upsert
<1>9. ASSUME active' = [id |-> i, text |-> text], up' = up, active.id = i, active.text = text,
             Index!Refresh(i)
      PROVE  IndexInv'
  <2> DEFINE g == [memory EXCEPT !.records =
                     {IF x.id = i THEN [x EXCEPT !.seen = indexRows'[i].seen] ELSE x : x \in @}]
  <2>1. CASE i \in Index!Ranked(memory.records) /\ Index!Keep(i, g) /\ UNCHANGED failed
    <3>1. /\ g \in VectorGraphs /\ g.signature = revision
          /\ Faithful(g, indexRows', failed) /\ NoGhost(g, indexRows', failed)
          /\ Current(g, indexRows', failed, revision)
      BY <1>9, <2>1, Refreshed
    <3> HIDE DEF g
    <3>2. failed' \subseteq IndexIds /\ failed \ {i} \subseteq failed'
      BY <1>2, <2>1 DEF IndexTyped
    <3> QED
      BY <1>4, <1>6, <1>9, <2>1, <3>1, <3>2
  <2>2. CASE Index!Missed(i) /\ Index!Fault
    BY <1>5, <1>7, <1>9, <2>2
  <2>3. CASE Index!Upsert(i)
    BY <1>8, <1>9, <2>3
  <2> QED
    BY <1>9, <2>1, <2>2, <2>3 DEF Index!Refresh
<1> QED
  BY <1>3, <1>8, <1>9 DEF Index!Capture

\* Rows that go take nothing with them but the claim that their records are current.
LEMMA RowsGone ==
    ASSUME IndexInv, NEW some \in SUBSET Index!Present,
           indexRows' = [i \in IndexIds |-> IF i \in some THEN Index!Absent ELSE indexRows[i]]
    PROVE  /\ indexRows' \in [IndexIds -> {Index!Absent} \cup IndexedRow]
           /\ some \subseteq IndexIds
           /\ \A g, old, lost : Faithful(g, indexRows, old) /\ g \in VectorGraphs /\ old \subseteq lost =>
                 Faithful(g, indexRows', lost)
           /\ \A g : NoGhost(g, indexRows, failed) /\ g \in VectorGraphs =>
                 NoGhost(g, indexRows', failed \cup some)
           /\ \A g, rev, lost : Current(g, indexRows, failed, rev) /\ failed \subseteq lost =>
                 Current(g, indexRows', lost, rev)
           /\ InFront(active, indexRows')
<1>1. \A i \in IndexIds : indexRows'[i] = IF i \in some THEN Index!Absent ELSE indexRows[i]
  OBVIOUS
<1>2. \A g \in VectorGraphs : \A x \in g.records : x.id \in IndexIds
  BY DEF VectorGraphs, Vector
<1>3. indexRows' \in [IndexIds -> {Index!Absent} \cup IndexedRow] /\ some \subseteq IndexIds
  BY <1>1 DEF IndexInv, IndexTyped, Index!Present
<1>4. \A g, old, lost : Faithful(g, indexRows, old) /\ g \in VectorGraphs /\ old \subseteq lost =>
          Faithful(g, indexRows', lost)
  BY <1>1, <1>2 DEF Faithful
<1>5. \A g : NoGhost(g, indexRows, failed) /\ g \in VectorGraphs =>
          NoGhost(g, indexRows', failed \cup some)
  BY <1>1, <1>2 DEF NoGhost
<1>6. \A g, rev, lost : Current(g, indexRows, failed, rev) /\ failed \subseteq lost =>
          Current(g, indexRows', lost, rev)
  BY <1>1 DEF Current
<1>7. InFront(active, indexRows')
  BY <1>1 DEF IndexInv, InFront
<1> QED
  BY <1>3, <1>4, <1>5, <1>6, <1>7

\* A deletion rebuilds the index, or remembers what is left in it.
LEMMA EraseMoves ==
    ASSUME IndexBounds, IndexInv, Index!Erase \/ Index!EraseAndDie
    PROVE  IndexInv'
<1>1. IndexTyped
  BY DEF IndexInv
<1>2. CASE Index!Erase
  <2>1. PICK some \in SUBSET Index!Present :
          /\ indexRows' = [i \in IndexIds |-> IF i \in some THEN Index!Absent ELSE indexRows[i]]
          /\ Index!Rebuild(some) \/ Index!NotRebuilt(some)
    BY <1>2 DEF Index!Erase
  <2>2. /\ up = "up" /\ up' = up /\ revision' = revision /\ indexNow' = indexNow
        /\ active' = active
    BY <1>2 DEF Index!Erase
  <2>3. /\ indexRows' \in [IndexIds -> {Index!Absent} \cup IndexedRow]
        /\ some \subseteq IndexIds /\ InFront(active', indexRows')
        /\ \A g, old, lost : Faithful(g, indexRows, old) /\ g \in VectorGraphs /\ old \subseteq lost =>
              Faithful(g, indexRows', lost)
    BY <2>1, <2>2, RowsGone
  <2>4. memory \in VectorGraphs /\ indexFile \in VectorGraphs
    BY <1>1 DEF IndexTyped
  <2>5. Index!Kept(some) => /\ failed' \subseteq IndexIds /\ masked' = masked
                            /\ failed' = failed \cup some
                            /\ Faithful(indexFile, indexRows', failed' \cup masked')
    <3>1. Faithful(indexFile, indexRows, failed \cup masked)
      BY DEF IndexInv
    <3>2. CASE Index!Kept(some)
      <4>1. failed' = failed \cup some /\ masked' = masked
        BY <3>2 DEF Index!Kept
      <4>2. failed \cup masked \subseteq failed' \cup masked'
        BY <4>1
      <4>3. failed' \subseteq IndexIds
        BY <1>1, <2>3, <4>1 DEF IndexTyped
      <4>4. Faithful(indexFile, indexRows', failed' \cup masked')
        BY <2>3, <2>4, <3>1, <4>2
      <4> QED
        BY <4>1, <4>3, <4>4
    <3> QED
      BY <3>2
  <2>6. NoGhost(indexFile, indexRows', failed \cup some)
        /\ NoGhost(memory, indexRows', failed \cup some)
    BY <2>1, <2>2, <2>4, RowsGone DEF IndexInv
  <2> DEFINE left == {i \in IndexIds : indexRows'[i] # Index!Absent}
  <2> DEFINE g == Index!Graph(left, indexRows')
  <2>7. CASE /\ \A i \in left : indexRows'[i].text \notin Featureless
             /\ memory' = g
             /\ \/ Index!Saved(g) /\ failed' = {}
                \/ Index!Fault /\ Index!Removed
                \/ Index!NotSaved(g) /\ Index!Kept(some)
    <3>1. /\ g \in VectorGraphs /\ g.signature = revision
          /\ \A lost : Faithful(g, indexRows', lost) /\ NoGhost(g, indexRows', lost)
                          /\ Current(g, indexRows', lost, revision)
      BY <1>1, <2>3, <2>7, GraphBuilt DEF IndexTyped
    <3>2. /\ indexFaults' \in 0..Upsets
          /\ \/ indexFile' \in {g, Index!Nothing} /\ failed' = {} /\ masked' = {}
             \/ indexFile' \in {g, indexFile} /\ Index!Kept(some)
      BY <1>1, <2>7, IndexBounds
         DEF Index!Saved, Index!NotSaved, Index!Fault, Index!Removed, IndexTyped
    <3> HIDE DEF g, left
    <3>3. /\ indexFile' \in VectorGraphs /\ failed' \subseteq IndexIds /\ masked' \subseteq IndexIds
          /\ Faithful(indexFile', indexRows', failed' \cup masked')
          /\ NoGhost(indexFile', indexRows', failed')
      <4>1. CASE indexFile' \in {g, Index!Nothing} /\ failed' = {} /\ masked' = {}
        BY <3>1, <4>1, NothingIs
      <4>2. CASE indexFile' \in {g, indexFile} /\ Index!Kept(some)
        <5>1. masked' \subseteq IndexIds
          BY <1>1, <2>5, <4>2 DEF IndexTyped
        <5> QED
          BY <2>4, <2>5, <2>6, <3>1, <4>2, <5>1
      <4> QED
        BY <3>2, <4>1, <4>2
    <3>4. IndexTyped'
      BY <1>1, <2>2, <2>3, <2>7, <3>1, <3>2, <3>3 DEF IndexTyped
    <3> QED
      BY <2>2, <2>3, <2>7, <3>1, <3>3, <3>4 DEF IndexInv
  <2>8. CASE Index!Kept(some) /\ UNCHANGED <<memory, indexFile>> /\ indexFaults' \in 0..Upsets
    <3>1. IndexTyped'
      BY <1>1, <2>2, <2>3, <2>5, <2>8 DEF IndexTyped
    <3>2. Faithful(memory, indexRows', failed') /\ Current(memory, indexRows', failed', revision)
      <4>1. failed \subseteq failed'
        BY <2>5, <2>8
      <4> QED
        BY <2>1, <2>2, <2>4, <4>1, RowsGone DEF IndexInv
    <3> QED
      BY <2>2, <2>3, <2>5, <2>6, <2>8, <3>1, <3>2 DEF IndexInv
  <2>9. CASE Index!Rebuild(some)
    <3>1. CASE Index!Kept(some) /\ UNCHANGED <<memory, indexFile, indexFaults>>
      BY <1>1, <2>8, <3>1 DEF IndexTyped
    <3> QED
      BY <2>7, <2>9, <3>1 DEF Index!Rebuild
  <2>10. CASE Index!NotRebuilt(some)
    <3>1. indexFaults' \in 0..Upsets
      BY <1>1, <2>10, IndexBounds DEF Index!NotRebuilt, Index!Fault, IndexTyped
    <3> QED
      BY <2>8, <2>10, <3>1 DEF Index!NotRebuilt
  <2> QED
    BY <2>1, <2>9, <2>10
<1>3. CASE Index!EraseAndDie
  <2>1. PICK some \in SUBSET Index!Present :
          indexRows' = [i \in IndexIds |-> IF i \in some THEN Index!Absent ELSE indexRows[i]]
    BY <1>3 DEF Index!EraseAndDie
  <2>2. /\ up' = "down" /\ memory' = Index!Nothing /\ active' = Index!NoSequence
        /\ UNCHANGED <<indexNow, indexFile, revision, failed, masked>> /\ indexFaults' \in 0..Upsets
    BY <1>1, <1>3, IndexBounds
       DEF Index!EraseAndDie, Index!Die, Index!Fault, Index!lost, IndexTyped
  <2>3. /\ indexRows' \in [IndexIds -> {Index!Absent} \cup IndexedRow]
        /\ Faithful(indexFile, indexRows', failed \cup masked)
    <3>1. indexFile \in VectorGraphs /\ Faithful(indexFile, indexRows, failed \cup masked)
      BY <1>1 DEF IndexTyped, IndexInv
    <3>2. failed \cup masked \subseteq failed \cup masked
      OBVIOUS
    <3> QED
      BY <2>1, <3>1, <3>2, RowsGone
  <2>4. IndexTyped'
    BY <1>1, <2>2, <2>3, NothingIs DEF IndexTyped
  <2> QED
    BY <2>2, <2>3, <2>4, NothingIs DEF IndexInv
<1> QED
  BY <1>2, <1>3

\* The instance brings its own copy of Cardinality.
LEMMA SameCardinality == \A S : Index!Cardinality(S) = Cardinality(S)
  BY DEF Index!Cardinality, Cardinality

\* A container that passes index_matches has a record for every row and no other, each with
\* the text of its row.
LEMMA MatchFits ==
    ASSUME IndexBounds, IndexInv, Index!Matches
    PROVE  /\ NoGhost(indexFile, indexRows, {})
           /\ Current(indexFile, indexRows, failed \cup masked, revision)
<1> DEFINE rec(i) == CHOOSE x \in indexFile.records : x.id = i /\ x.seen = indexRows[i].seen
<1> DEFINE own == {rec(i) : i \in Index!Present}
<1>1. /\ indexFile.signature = revision
      /\ Cardinality(indexFile.records) = Cardinality(Index!Present)
      /\ \A i \in Index!Present : \E x \in indexFile.records : x.id = i /\ x.seen = indexRows[i].seen
  BY SameCardinality DEF Index!Matches
<1>2. \A i \in Index!Present : rec(i) \in indexFile.records /\ rec(i).id = i
                                  /\ rec(i).seen = indexRows[i].seen
  BY <1>1
<1>3. Faithful(indexFile, indexRows, failed \cup masked) /\ IndexTyped
  BY DEF IndexInv
<1>4. IsFiniteSet(indexFile.records)
  <2>1. indexFile.records \subseteq Vector
    BY <1>3 DEF IndexTyped, VectorGraphs
  <2> DEFINE f == [x \in indexFile.records |-> x.id]
  <2>2. f \in Injection(indexFile.records, IndexIds)
    <3>1. f \in [indexFile.records -> IndexIds]
      BY <2>1 DEF Vector
    <3>2. \A x, y \in indexFile.records : f[x] = f[y] => x = y
      BY <1>3 DEF Faithful
    <3> QED
      BY <3>1, <3>2 DEF Injection, IsInjective
  <2> QED
    BY <2>2, IndexBounds, FS_Injection
<1> HIDE DEF rec
<1>5. own \subseteq indexFile.records /\ Cardinality(own) = Cardinality(Index!Present)
  <2>1. IsFiniteSet(Index!Present)
    BY IndexBounds, FS_Subset DEF Index!Present
  <2> DEFINE f == [i \in Index!Present |-> rec(i)]
  <2>2. f \in Bijection(Index!Present, own)
    <3>1. f \in [Index!Present -> own]
      OBVIOUS
    <3>2. \A i, j \in Index!Present : f[i] = f[j] => i = j
      BY <1>2
    <3>3. \A x \in own : \E i \in Index!Present : f[i] = x
      OBVIOUS
    <3> QED
      BY <3>1, <3>2, <3>3 DEF Bijection, Injection, IsInjective, Surjection
  <2>3. own \subseteq indexFile.records
    BY <1>2
  <2>4. ExistsBijection(Index!Present, own)
    BY <2>2 DEF ExistsBijection
  <2> HIDE DEF own
  <2>5. Cardinality(own) = Cardinality(Index!Present)
    BY <2>1, <2>4, FS_Bijection
  <2> QED
    BY <2>3, <2>5
<1>6. own = indexFile.records
  BY <1>1, <1>4, <1>5, FS_Subset
<1>7. ASSUME NEW x \in indexFile.records PROVE x.id \in Index!Present
  BY <1>2, <1>6
<1>8. NoGhost(indexFile, indexRows, {})
  BY <1>7 DEF NoGhost, Index!Present
<1>9. ASSUME NEW i \in IndexIds, indexRows[i] # Index!Absent, i \notin failed \cup masked
      PROVE  Index!Record(i, indexRows[i].text, indexRows[i].seen, revision) \in indexFile.records
  <2>1. i \in Index!Present
    BY <1>9 DEF Index!Present
  <2>2. /\ rec(i) \in indexFile.records /\ rec(i).id = i /\ rec(i).seen = indexRows[i].seen
        /\ rec(i).text = indexRows[i].text /\ rec(i).revision = revision
    BY <1>1, <1>2, <1>3, <1>9, <2>1 DEF Faithful
  <2>3. rec(i) \in Vector
    BY <1>3, <2>2 DEF IndexTyped, VectorGraphs
  <2>4. rec(i) = Index!Record(i, indexRows[i].text, indexRows[i].seen, revision)
    BY <2>2, <2>3 DEF Vector, Index!Record
  <2> QED
    BY <2>2, <2>4
<1> QED
  BY <1>8, <1>9 DEF Current

\* A start loads a container that matches, or builds one.
LEMMA StartMoves ==
    ASSUME IndexBounds, IndexInv, Index!Load \/ Index!Build
    PROVE  IndexInv'
<1>1. /\ IndexTyped /\ up # "up" /\ memory = Index!Nothing /\ active = Index!NoSequence
      /\ UNCHANGED <<indexNow, indexRows, active, revision>>
      /\ Faithful(indexFile, indexRows, failed \cup masked) /\ InFront(active, indexRows)
  BY DEF IndexInv, Index!Load, Index!Build
<1>2. CASE Index!Load
  <2>1. /\ Index!Matches /\ up' = "up" /\ memory' = indexFile
        /\ failed' = failed \cup masked /\ masked' = {}
        /\ UNCHANGED <<indexFile, indexFaults>> /\ indexFile.signature = revision
    BY <1>2 DEF Index!Load, Index!Matches
  <2>2. /\ NoGhost(indexFile, indexRows, failed \cup masked)
        /\ Current(indexFile, indexRows, failed \cup masked, revision)
    BY <2>1, MatchFits DEF NoGhost
  <2>4. failed' \cup masked' = failed \cup masked
    BY <2>1
  <2>3. IndexTyped'
    BY <1>1, <2>1 DEF IndexTyped
  <2> QED
    BY <1>1, <2>1, <2>2, <2>3, <2>4 DEF IndexInv
<1>3. CASE Index!Build
  <2> DEFINE g == Index!Graph(Index!Present, indexRows)
  <2>1. CASE /\ \A i \in Index!Present : indexRows[i].text \notin Featureless
             /\ \/ Index!Saved(g) /\ up' = "up" /\ memory' = g /\ failed' = {}
                \/ Index!NotSaved(g) /\ up' = "down" /\ UNCHANGED <<memory, failed, masked>>
    <3>1. /\ g \in VectorGraphs /\ g.signature = revision
          /\ \A lost : Faithful(g, indexRows, lost) /\ NoGhost(g, indexRows, lost)
                          /\ Current(g, indexRows, lost, revision)
      <4>1. indexRows \in [IndexIds -> {Index!Absent} \cup IndexedRow] /\ revision \in Vectors
        BY <1>1 DEF IndexTyped
      <4>2. Index!Present = {i \in IndexIds : indexRows[i] # Index!Absent}
        BY DEF Index!Present
      <4> QED
        BY <2>1, <4>1, <4>2, GraphBuilt
    <3>2. indexFile' \in {indexFile, g} /\ indexFaults' \in 0..Upsets
          /\ (up' = "up" => indexFile' = g /\ masked' = {})
          /\ (up' # "up" => UNCHANGED <<memory, failed, masked>>)
      BY <1>1, <2>1, IndexBounds DEF Index!Saved, Index!NotSaved, Index!Fault, IndexTyped
    <3> HIDE DEF g
    <3>3. IndexTyped'
      BY <1>1, <2>1, <3>1, <3>2 DEF IndexTyped
    <3>4. CASE up' = "up"
      BY <1>1, <2>1, <3>1, <3>2, <3>3, <3>4, NothingIs DEF IndexInv
    <3>5. CASE up' # "up"
      BY <1>1, <2>1, <3>1, <3>2, <3>3, <3>5, NothingIs DEF IndexInv
    <3> QED
      BY <3>4, <3>5
  <2>2. CASE up' = "refused" /\ UNCHANGED <<memory, indexFile, failed, masked, indexFaults>>
    <3>1. IndexTyped'
      BY <1>1, <2>2 DEF IndexTyped
    <3> QED
      BY <1>1, <2>2, <3>1, NothingIs DEF IndexInv
  <2> QED
    BY <1>3, <2>1, <2>2 DEF Index!Build, Index!lost
<1> QED
  BY <1>2, <1>3

\* The clock, the system's vocabulary, an end of the sequence or of the process.
LEMMA OthersMove ==
    ASSUME IndexBounds, IndexInv,
           Index!Tick \/ Index!Discontinue \/ Index!Stop \/ Index!Update \/ Index!Ask \/ Index!Answer
    PROVE  IndexInv'
<1> USE DEF Index!searching, Index!lost
<1>1. CASE Index!Tick
  <2>1. /\ indexNow' \in 1..IndexSeconds
        /\ UNCHANGED <<indexRows, active, up, memory, indexFile, revision, failed, masked,
                       indexFaults>>
    BY <1>1 DEF Index!Tick
  <2>2. IndexTyped'
    BY <2>1 DEF IndexInv, IndexTyped
  <2> QED
    BY <2>1, <2>2 DEF IndexInv
<1>2. CASE Index!Discontinue
  <2>1. active' = Index!NoSequence
        /\ UNCHANGED <<indexNow, indexRows, up, memory, indexFile, revision, failed, masked,
                      indexFaults>>
    BY <1>2 DEF Index!Discontinue
  <2>2. IndexTyped'
    BY <2>1, NothingIs DEF IndexInv, IndexTyped
  <2> QED
    BY <2>1, <2>2, NothingIs DEF IndexInv
<1>3. CASE Index!Stop
  <2>1. /\ up' = "down" /\ memory' = Index!Nothing /\ active' = Index!NoSequence
        /\ UNCHANGED <<indexNow, indexRows, indexFile, revision, failed, masked, indexFaults>>
    BY <1>3 DEF Index!Stop, Index!Die
  <2>2. IndexTyped'
    BY <2>1, NothingIs DEF IndexInv, IndexTyped
  <2> QED
    BY <2>1, <2>2, NothingIs DEF IndexInv
<1>4. CASE Index!Update
  <2>1. /\ up = "down" /\ revision' \in Vectors /\ indexFaults' \in 0..Upsets
        /\ UNCHANGED <<indexNow, indexRows, active, up, memory, indexFile, failed, masked>>
    BY <1>4, IndexBounds DEF Index!Update, Index!Fault, IndexInv, IndexTyped
  <2>2. IndexTyped'
    BY <2>1 DEF IndexInv, IndexTyped
  <2> QED
    BY <2>1, <2>2 DEF IndexInv
<1>5. CASE Index!Ask \/ Index!Answer
  <2>1. UNCHANGED <<indexNow, indexRows, active, up, memory, indexFile, revision, failed,
                    masked, indexFaults>>
    BY <1>5 DEF Index!Ask, Index!Answer
  <2>2. IndexTyped'
    BY <2>1 DEF IndexInv, IndexTyped
  <2> QED
    BY <2>1, <2>2 DEF IndexInv
<1> QED
  BY <1>1, <1>2, <1>3, <1>4, <1>5

\* At the start there is nothing.
LEMMA IndexStarts == ASSUME IndexBounds, Index!Init PROVE IndexInv
<1>1. /\ indexNow = 1 /\ indexRows = [i \in IndexIds |-> Index!Absent]
      /\ active = Index!NoSequence /\ up = "down" /\ memory = Index!Nothing
      /\ indexFile = Index!Nothing /\ revision \in Vectors /\ failed = {} /\ masked = {}
      /\ indexFaults = 0
  BY DEF Index!Init
<1>2. IndexTyped
  BY <1>1, IndexBounds, NothingIs DEF IndexTyped
<1> QED
  BY <1>1, <1>2, NothingIs DEF IndexInv

\* Every step keeps the invariant, the stutter of another part included.
LEMMA IndexStep == IndexBounds /\ IndexInv /\ [Index!Next]_Index!vars => IndexInv'
<1>1. ASSUME IndexBounds, IndexInv, Index!Next PROVE IndexInv'
  BY <1>1, CaptureMoves, EraseMoves, StartMoves, OthersMove DEF Index!Next
<1>2. ASSUME IndexInv, UNCHANGED Index!vars PROVE IndexInv'
  <2>1. UNCHANGED <<indexNow, indexRows, active, up, memory, indexFile, revision, failed,
                    masked, indexFaults>>
    BY <1>2 DEF Index!vars, Index!lost
  <2>2. IndexTyped'
    BY <1>2, <2>1 DEF IndexInv, IndexTyped
  <2> QED
    BY <1>2, <2>1, <2>2 DEF IndexInv
<1> QED
  BY <1>1, <1>2

\* The invariant is strong enough.
LEMMA IndexHolds == IndexInv => Index!TypeOK /\ Index!VectorsCurrent /\ Index!ErasedLeavesIndex
<1> SUFFICES ASSUME IndexInv
             PROVE  Index!TypeOK /\ Index!VectorsCurrent /\ Index!ErasedLeavesIndex
  OBVIOUS
<1>1. Index!TypeOK
  <2>1. \A x \in memory.records \cup indexFile.records :
           x.id \in IndexIds /\ x.text \in Contents \ Featureless /\ x.seen \in 1..IndexSeconds
    BY DEF IndexInv, IndexTyped, VectorGraphs, Vector
  <2>2. \A graph \in {memory, indexFile} : \A x, y \in graph.records : x.id = y.id => x = y
    BY DEF IndexInv, Faithful
  <2>3. \A i \in IndexIds : indexRows[i] \in {Index!Absent} \cup Index!Row
    BY DEF IndexInv, IndexTyped, IndexedRow, Index!Row
  <2> QED
    BY <2>1, <2>2, <2>3 DEF IndexInv, IndexTyped, Index!TypeOK
<1>2. Index!VectorsCurrent
  BY DEF IndexInv, Current, Index!VectorsCurrent, Index!Present
<1>3. Index!ErasedLeavesIndex
  <2>1. \A x \in memory.records \cup indexFile.records : x.id \in IndexIds
    BY DEF IndexInv, IndexTyped, VectorGraphs, Vector
  <2> QED
    BY <2>1 DEF IndexInv, NoGhost, Index!ErasedLeavesIndex, Index!Ranked, Index!Present
<1> QED
  BY <1>1, <1>2, <1>3

(***************************************************************************)
(* A search: the shares of a rank fall with it strictly up to a hundred    *)
(* candidates, although they are rounded, so that a row that both rankings *)
(* prefer has the higher score.                                            *)
(***************************************************************************)
Rankings == UNION {[1..n -> IndexIds] : n \in 0..Candidates}

SearchInv ==
    /\ asked.lexical \in Rankings /\ asked.vector \in Rankings
    /\ asked # Index!Quiet => answer = <<>>

\* What the quotient of two numbers is.
LEMMA Division == \A a \in Nat, b \in Nat \ {0} :
    a \div b \in Nat /\ b * (a \div b) <= a /\ a < b * (a \div b) + b
  OBVIOUS

\* A better rank has a greater share (HybridWeights).
LEMMA SharesFall ==
    ASSUME NEW a \in {55000000, 45000000}, NEW r \in 1..100, NEW s \in 1..100, r < s
    PROVE  /\ a \div (100 * (60 + r)) \in Nat /\ a \div (100 * (60 + s)) \in Nat
           /\ a \div (100 * (60 + s)) < a \div (100 * (60 + r))
<1> DEFINE b == 100 * (60 + r)
<1> DEFINE c == 100 * (60 + s)
<1>1. /\ a \in Nat /\ b \in Nat \ {0} /\ c \in Nat \ {0}
      /\ 44000000 <= a /\ b + 100 <= c /\ c <= 16000
  OBVIOUS
<1> HIDE DEF b, c
<1> DEFINE q == a \div b
<1> DEFINE p == a \div c
<1>2. /\ q \in Nat /\ b * q <= a /\ a < b * q + b
      /\ p \in Nat /\ c * p <= a /\ a < c * p + c
  BY <1>1, Division
<1> HIDE DEF q, p
<1>3. 2000 < q
  <2>1. CASE q <= 2000
    <3>1. b * q <= 16000 * 2000
      BY <1>1, <1>2, <2>1
    <3> QED
      BY <1>1, <1>2, <3>1
  <2> QED
    BY <1>2, <2>1
<1>4. p < q
  <2>1. CASE q <= p
    <3>1. (b + 100) * q <= c * p
      BY <1>1, <1>2, <2>1
    <3>2. (b + 100) * q = b * q + 100 * q
      BY <1>1, <1>2
    <3> QED
      BY <1>1, <1>2, <1>3, <3>1, <3>2
  <2> QED
    BY <1>2, <2>1
<1> QED
  BY <1>2, <1>4 DEF p, q, b, c

\* Every rank has a share.
LEMMA SharesPositive ==
    ASSUME NEW a \in {55000000, 45000000}, NEW r \in 1..100
    PROVE  a \div (100 * (60 + r)) \in Nat /\ 0 < a \div (100 * (60 + r))
<1> DEFINE b == 100 * (60 + r)
<1>1. a \in Nat /\ 44000000 <= a /\ b \in Nat \ {0} /\ b <= 16000
  OBVIOUS
<1> HIDE DEF b
<1> DEFINE q == a \div b
<1>2. q \in Nat /\ a < b * q + b
  BY <1>1, Division
<1> HIDE DEF q
<1>3. q # 0
  BY <1>1, <1>2
<1> QED
  BY <1>2, <1>3 DEF q, b

\* The rank of a row that is ranked.
LEMMA RankKnown ==
    ASSUME IndexBounds, NEW list \in Rankings, NEW i \in Index!ToSet(list)
    PROVE  Index!Rank(list, i) \in 1..100
<1>1. PICK n \in 0..Candidates : list \in [1..n -> IndexIds]
  BY DEF Rankings
<1>2. \E k \in DOMAIN list : list[k] = i
  BY DEF Index!ToSet
<1>3. Index!Rank(list, i) \in DOMAIN list
  BY <1>2 DEF Index!Rank
<1>4. DOMAIN list = 1..n
  BY <1>1
<1>5. n \in Nat /\ n <= 100
  BY IndexBounds
<1>6. \A k \in 1..n : k \in 1..100
  BY <1>5
<1>7. Index!Rank(list, i) \in 1..n
  BY <1>3, <1>4
<1> QED
  BY <1>6, <1>7

\* A ranking gives more to a row that it prefers.
LEMMA PartsFall ==
    ASSUME IndexBounds, NEW list \in Rankings, NEW i, NEW m, NEW weight \in {55, 45},
           i \in Index!ToSet(list),
           m \in Index!ToSet(list) => Index!Rank(list, i) < Index!Rank(list, m)
    PROVE  /\ Index!Part(weight, list, i) \in Nat /\ Index!Part(weight, list, m) \in Nat
           /\ Index!Part(weight, list, m) < Index!Part(weight, list, i)
<1> DEFINE a == weight * 1000000
<1>1. a \in {55000000, 45000000}
  OBVIOUS
<1> HIDE DEF a
<1>2. Index!Part(weight, list, i) = a \div (100 * (60 + Index!Rank(list, i)))
  BY DEF Index!Part, a
<1>3. Index!Rank(list, i) \in 1..100
  BY RankKnown
<1>4. CASE m \in Index!ToSet(list)
  <2>1. Index!Part(weight, list, m) = a \div (100 * (60 + Index!Rank(list, m)))
    BY <1>4 DEF Index!Part, a
  <2>2. Index!Rank(list, m) \in 1..100
    BY <1>4, RankKnown
  <2> QED
    BY <1>1, <1>2, <1>3, <1>4, <2>1, <2>2, SharesFall
<1>5. CASE m \notin Index!ToSet(list)
  <2>1. Index!Part(weight, list, m) = 0
    BY <1>5 DEF Index!Part
  <2> QED
    BY <1>1, <1>2, <1>3, <2>1, SharesPositive
<1> QED
  BY <1>4, <1>5

\* A row that both rankings prefer has the higher score, and an answer is in the order of the
\* scores.
LEMMA AnswerRanks ==
    ASSUME IndexBounds, SearchInv, Index!Answer
    PROVE  \A j, k \in DOMAIN answer' : Index!Above(answer'[j], answer'[k]) => j < k
<1>1. \A j, k \in DOMAIN answer' : j < k => Index!Score(answer'[j]) >= Index!Score(answer'[k])
  BY DEF Index!Answer, Index!Orders
<1>2. DOMAIN answer' \subseteq Int
  BY DEF Index!Answer, Index!Orders, Index!SetToSeqs
<1> SUFFICES ASSUME NEW j \in DOMAIN answer', NEW k \in DOMAIN answer',
                    Index!Above(answer'[j], answer'[k])
             PROVE  j < k
  OBVIOUS
<1> DEFINE i == answer'[j]
<1> DEFINE m == answer'[k]
<1>3. /\ i \in Index!ToSet(asked.lexical) /\ i \in Index!ToSet(asked.vector)
      /\ m \in Index!ToSet(asked.lexical) =>
            Index!Rank(asked.lexical, i) < Index!Rank(asked.lexical, m)
      /\ m \in Index!ToSet(asked.vector) =>
            Index!Rank(asked.vector, i) < Index!Rank(asked.vector, m)
  BY DEF Index!Above
<1> HIDE DEF i, m
<1>4. /\ Index!Part(55, asked.lexical, i) \in Nat /\ Index!Part(55, asked.lexical, m) \in Nat
      /\ Index!Part(55, asked.lexical, m) < Index!Part(55, asked.lexical, i)
  BY <1>3, PartsFall DEF SearchInv
<1>5. /\ Index!Part(45, asked.vector, i) \in Nat /\ Index!Part(45, asked.vector, m) \in Nat
      /\ Index!Part(45, asked.vector, m) < Index!Part(45, asked.vector, i)
  BY <1>3, PartsFall DEF SearchInv
<1>6. /\ Index!Score(m) \in Nat /\ Index!Score(i) \in Nat
      /\ Index!Score(m) < Index!Score(i)
  BY <1>4, <1>5 DEF Index!Score
<1>7. j # k
  BY <1>6 DEF i, m
<1>8. ~(k < j)
  BY <1>1, <1>6 DEF i, m
<1> QED
  BY <1>2, <1>7, <1>8

\* The rankings that a search takes.
LEMMA ListsAreRankings ==
    ASSUME IndexBounds, NEW some \in SUBSET IndexIds, NEW list \in Index!Lists(some)
    PROVE  list \in Rankings
<1>1. PICK s \in SUBSET some : Index!Cardinality(s) <= Candidates /\ list \in Index!SetToSeqs(s)
  BY DEF Index!Lists
<1>2. Index!Cardinality(s) \in Nat
  BY <1>1, IndexBounds, FS_Subset, FS_CardinalityType, SameCardinality
<1>3. list \in [1..Index!Cardinality(s) -> s]
  BY <1>1 DEF Index!SetToSeqs
<1>4. list \in [1..Index!Cardinality(s) -> IndexIds] /\ Index!Cardinality(s) \in 0..Candidates
  BY <1>1, <1>2, <1>3, IndexBounds
<1> QED
  BY <1>4 DEF Rankings

\* No search has two empty rankings.
LEMMA QuietRankings ==
    ASSUME IndexBounds
    PROVE  Index!Quiet.lexical \in Rankings /\ Index!Quiet.vector \in Rankings
<1>1. <<>> \in [1..0 -> IndexIds]
  OBVIOUS
<1>2. 0 \in 0..Candidates
  BY IndexBounds
<1>3. <<>> \in Rankings
  BY <1>1, <1>2 DEF Rankings
<1> QED
  BY <1>3 DEF Index!Quiet

\* No search is under way, or its answer is still to come.
LEMMA SearchStep ==
    ASSUME IndexBounds, IndexInv, SearchInv, [Index!Next]_Index!vars
    PROVE  SearchInv'
<1>1. ASSUME UNCHANGED <<asked, answer>> PROVE SearchInv'
  BY <1>1 DEF SearchInv
<1>2. ASSUME Index!Ask PROVE SearchInv'
  <2>1. Index!Present \subseteq IndexIds
    BY DEF Index!Present
  <2>2. Index!Ranked(memory.records) \subseteq IndexIds
    BY DEF Index!Ranked, IndexInv, IndexTyped, VectorGraphs, Vector
  <2>3. PICK lexical \in Index!Lists(Index!Present),
             vector \in Index!Lists(Index!Ranked(memory.records)) :
             asked' = [lexical |-> lexical, vector |-> vector]
    BY <1>2 DEF Index!Ask
  <2>4. lexical \in Rankings /\ vector \in Rankings
    BY <2>1, <2>2, ListsAreRankings
  <2> QED
    BY <1>2, <2>3, <2>4 DEF SearchInv, Index!Ask
<1>3. ASSUME Index!Answer PROVE SearchInv'
  BY <1>3, QuietRankings DEF SearchInv, Index!Answer
<1>4. CASE Index!Next
  BY <1>1, <1>2, <1>3, <1>4 DEF Index!Next, Index!Tick, Index!Discontinue, Index!Erase,
     Index!EraseAndDie, Index!Stop, Index!Update, Index!Load, Index!Build, Index!Capture,
     Index!searching
<1> QED
  BY <1>1, <1>4 DEF Index!vars

\* Every step keeps to the rankings.
LEMMA RanksKept ==
    ASSUME IndexBounds, SearchInv, [Index!Next]_Index!vars
    PROVE  [asked # Index!Quiet =>
              \A j, k \in DOMAIN answer' : Index!Above(answer'[j], answer'[k]) => j < k]_Index!vars
<1>1. ASSUME UNCHANGED answer, asked # Index!Quiet PROVE DOMAIN answer' = {}
  BY <1>1 DEF SearchInv
<1>2. CASE Index!Answer
  BY <1>2, AnswerRanks
<1>3. CASE Index!Ask
  BY <1>3 DEF Index!Ask
<1>4. CASE Index!Next
  BY <1>1, <1>2, <1>3, <1>4 DEF Index!Next, Index!Tick, Index!Discontinue, Index!Erase,
     Index!EraseAndDie, Index!Stop, Index!Update, Index!Load, Index!Build, Index!Capture,
     Index!searching
<1> QED
  BY <1>4

\* IndexSound: a row that the running daemon has in its index is there with the vector of its
\* present text, and no record outlives its row, whatever crash, failed write, failed embedding
\* or new vocabulary lies between a row and its vector; and an answer keeps what both rankings
\* agree on, whatever was erased meanwhile: for any rows, texts, number of faults and up to a
\* hundred candidates, while no row is captured twice in a second (persist_capture,
\* index_matches, rebuild, hybrid_rank_merge).
THEOREM IndexIsSound == PartsSpec => IndexSound
<1>1. PartsInit => IndexInv /\ SearchInv
  BY IndexBounds, IndexStarts, QuietRankings DEF PartsInit, SearchInv, Index!Init
<1>2. [Step \/ BoundReached]_allvars => [Index!Next]_Index!vars
  BY DEF Step, BoundReached, allvars, indexVars, Index!vars
<1>3. IndexInv => (component = "index" =>
          Index!TypeOK /\ Index!VectorsCurrent /\ Index!ErasedLeavesIndex)
  BY IndexHolds
<1>4. IndexInv /\ SearchInv /\ [Index!Next]_Index!vars => SearchInv'
  BY IndexBounds, SearchStep
<1>5. SearchInv /\ [Index!Next]_Index!vars
          => [asked # Index!Quiet =>
                \A j, k \in DOMAIN answer' :
                    Index!Above(answer'[j], answer'[k]) => j < k]_Index!vars
  BY IndexBounds, RanksKept
<1> QED
  BY <1>1, <1>2, <1>3, <1>4, <1>5, IndexStep, IndexBounds, PTL
     DEF PartsSpec, IndexSound, Index!Dominant
=============================================================================
