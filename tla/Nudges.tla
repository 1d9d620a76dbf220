-------------------------------- MODULE Nudges --------------------------------
(***************************************************************************)
(* Reminders: the rules and the open flags of the database, the nudges the *)
(* daemon makes of them, and the loop of the menu-bar program that lists   *)
(* the ready ones and shows them in the panel and in Notification Center.  *)
(* Every handler of the daemon is one transaction under the mutation       *)
(* barrier and one step here; the loop makes a request per step.           *)
(***************************************************************************)
EXTENDS Naturals, Sequences, FiniteSetsExt

CONSTANTS
    Rules,      \* rule_id
    Flags,      \* flag_id of the commitments, questions and blockers
    Unshowable, \* rules whose text is saved but refused by the desktop
    Kinds,      \* schedule_kind of the rules that are saved
    DAY,        \* hours of a day
    INTERVAL,   \* interval_minutes
    RETENTION,  \* retention_days
    LIMIT,      \* ready-unseen?limit=
    MaxTime,    \* bound: hours
    MaxSaves,   \* bound: POST /rules and /preferences/nudges-enabled
    MaxNudges,  \* bound: rows, beyond which neither the hour nor a rule changes
    MaxFaults   \* bound: requests that fail, restarts, notifications not added

VARIABLES
    now, rules, nudges, enabled,
    running,   \* woof, the menu-bar program and its daemon, has not been quit
    poll,      \* the loop of notifications::start: where it is, what it has left
    panel,     \* Companion.svelte: nudgeQueue
    submitted, \* how often Notification Center was asked to show a nudge
    opening,   \* open_nudge: the nudge it has read, or 0
    saves, faults

vars == <<now, rules, nudges, enabled, running, poll, panel, submitted, opening, saves, faults>>
desktop == <<running, poll, panel, submitted, opening>>

Never == MaxTime + 1   \* NULL
Absent == [kind |-> "absent"]
Rule == [kind : Kinds, at : 0..MaxTime + DAY, created : 0..MaxTime, last : 0..Never]
Key == ({"rule"} \X Rules \X (0..MaxTime)) \cup ({"flag"} \X Flags \X {0})

TypeOK ==
    /\ now \in 0..MaxTime /\ enabled \in BOOLEAN /\ running \in BOOLEAN
    /\ \A r \in Rules : rules[r] \in {Absent} \cup Rule
    /\ \A n \in DOMAIN nudges : nudges[n] \in
          [key : Key, due : 0..MaxTime, touched : 0..MaxTime, sent : BOOLEAN,
           status : {"pending", "ready", "seen", "dismissed", "deleted",
                     "expired"}]
    /\ poll.at \in {"asleep", "list", "show", "deliver", "mark"}
    /\ \A k \in DOMAIN poll.left : poll.left[k].n \in DOMAIN nudges
    /\ panel \subseteq DOMAIN nudges /\ opening \in 0..Len(nudges)
    /\ DOMAIN submitted = DOMAIN nudges
    /\ saves \in 0..MaxSaves /\ faults \in 0..MaxFaults

Asleep == [at |-> "asleep", left |-> <<>>, shown |-> FALSE]

Init ==
    /\ now = 0 /\ rules = [r \in Rules |-> Absent] /\ nudges = <<>> /\ enabled \in BOOLEAN
    /\ running = TRUE
    /\ poll = Asleep /\ panel = {} /\ submitted = <<>> /\ opening = 0
    /\ saves = 0 /\ faults = 0

Fault == faults < MaxFaults /\ faults' = faults + 1
Room == Len(nudges) < MaxNudges

Gone == {"deleted", "expired"}   \* the row is not there any more
Known(all, key) == \E n \in DOMAIN all : all[n].key = key /\ all[n].status \notin Gone

\* due_rule_slot: the slot the rule is due for, or Never.
SlotOf(rule) ==
    LET passed(s) == s <= now /\ (rule.last = Never \/ rule.last < s)
        anchor == IF rule.last = Never THEN rule.created ELSE rule.last
        slot == CASE rule.kind = "once" -> rule.at
                  [] rule.kind = "daily" -> (now \div DAY) * DAY + rule.at
                  [] rule.kind = "interval" ->
                        anchor + ((now - anchor) \div INTERVAL) * INTERVAL
                  [] OTHER -> Never
    IN  IF slot # Never /\ passed(slot) /\ (rule.kind = "interval" => slot # anchor)
        THEN slot ELSE Never

IgnoredFaulty(all, key) == FALSE
\* INSERT OR IGNORE under the unique index on dedupe_key.
Ignored(all, key) == Known(all, key)

Row(key, due) ==
    [key |-> key, due |-> due, touched |-> now, status |-> "pending", sent |-> FALSE]

\* ValidatedNudge::from_json refuses a title of more than 256 bytes and marks of
\* direction; a label of 120 characters may have both.
Bad(nudge) == nudge.key[1] = "rule" /\ nudge.key[2] \in Unshowable

Due == {r \in Rules : rules[r] # Absent /\ SlotOf(rules[r]) # Never}

\* materialize_due_rule_nudges: a row per due rule, and last_fired_at advances.
Materialized ==
    LET add(r, all) == LET key == <<"rule", r, SlotOf(rules[r])>>
                       IN  IF Ignored(all, key) THEN all
                           ELSE Append(all, Row(key, SlotOf(rules[r])))
    IN  FoldSet(add, nudges, Due)

Advanced == [r \in Rules |-> IF r \in Due THEN [rules[r] EXCEPT !.last = SlotOf(rules[r])]
                             ELSE rules[r]]

\* promote_due_nudges
Promoted(all) ==
    [n \in DOMAIN all |-> IF all[n].status = "pending" /\ all[n].due <= now
                          THEN [all[n] EXCEPT !.status = "ready"] ELSE all[n]]

Grown(all) ==
    /\ nudges' = all
    /\ submitted' = [n \in DOMAIN all |-> IF n \in DOMAIN submitted THEN submitted[n] ELSE 0]

\* An hour is long against the 30 s of the scheduler.
Tick ==
    /\ Room /\ now < MaxTime /\ now' = now + 1
    /\ ~(running /\ enabled /\ Due # {})
    /\ UNCHANGED <<rules, nudges, enabled, desktop, saves, faults>>

\* spawn_automation_service: what it does about nudges each 30 s.
Scheduled ==
    /\ running /\ enabled /\ (Due # {} \/ nudges # Promoted(nudges))
    /\ Grown(Promoted(Materialized)) /\ rules' = Advanced
    /\ UNCHANGED <<now, enabled, running, poll, panel, opening, saves, faults>>

\* prune_expired_data, as it deletes nudges: the old ones, and every one that
\* is not of a rule when a source row has expired.
Pruned ==
    /\ running
    /\ \E sources \in BOOLEAN :
          LET goes(n) == /\ nudges[n].status \notin Gone
                         /\ \/ nudges[n].touched + RETENTION < now
                            \/ sources /\ nudges[n].key[1] = "flag"
          IN  /\ \E n \in DOMAIN nudges : goes(n)
              /\ nudges' = [n \in DOMAIN nudges |-> IF goes(n) THEN [nudges[n] EXCEPT !.status = "expired"]
                                                    ELSE nudges[n]]
    /\ UNCHANGED <<now, rules, enabled, desktop, saves, faults>>

\* save_rule: a new rule, or one that is written over.  created_at of a row that
\* is there stays; last_fired_at is forgotten.
Save(r) ==
    /\ Room /\ running /\ saves < MaxSaves /\ saves' = saves + 1
    /\ \E kind \in Kinds, at \in 0..MaxTime :
          /\ kind = "once" => at > now
          /\ kind = "daily" => at < DAY
          /\ kind = "interval" => at = 0
          /\ rules' = [rules EXCEPT ![r] =
                [kind |-> kind, at |-> at, last |-> Never,
                 created |-> IF @ = Absent THEN now ELSE @.created]]
    /\ UNCHANGED <<now, nudges, enabled, desktop, faults>>

\* delete_proactive_rule
Delete(r) ==
    /\ running /\ rules[r] # Absent
    /\ rules' = [rules EXCEPT ![r] = Absent]
    /\ nudges' = [n \in DOMAIN nudges |->
                    IF nudges[n].key[1] = "rule" /\ nudges[n].key[2] = r
                    THEN [nudges[n] EXCEPT !.status = "deleted"] ELSE nudges[n]]
    /\ UNCHANGED <<now, enabled, desktop, saves, faults>>

\* commit_hour_memory with a commitment, a blocker or a question.
Flag(f) ==
    /\ Room /\ running /\ ~Ignored(nudges, <<"flag", f, 0>>)
    /\ Grown(Append(nudges, Row(<<"flag", f, 0>>, now)))
    /\ UNCHANGED <<now, rules, enabled, running, poll, panel, opening, saves, faults>>

Closed(n, status) ==
    nudges' = [nudges EXCEPT ![n].status = status, ![n].sent = TRUE, ![n].touched = now]

\* set_followup_status closes what was made of the flag, ready or not.
Followup(f) ==
    /\ \E n \in DOMAIN nudges :
          /\ running /\ nudges[n].key = <<"flag", f, 0>> /\ nudges[n].status \in {"pending", "ready"}
          /\ nudges' = [nudges EXCEPT ![n].status = "dismissed", ![n].touched = now]
    /\ UNCHANGED <<now, rules, enabled, desktop, saves, faults>>

\* set_nudges_preference
SetEnabled ==
    /\ running /\ saves < MaxSaves /\ saves' = saves + 1
    /\ enabled' = ~enabled
    /\ UNCHANGED <<now, rules, nudges, desktop, faults>>

-------------------------------------------------------------------------------
(* The menu-bar program.                                                   *)

OrderFaulty(all, a, b) == all[a].due < all[b].due \/ (all[a].due = all[b].due /\ a < b)
\* ORDER BY (sent_at IS NOT NULL), scheduled_for, created_at
Order(all, a, b) ==
    IF all[a].sent # all[b].sent THEN ~all[a].sent ELSE OrderFaulty(all, a, b)

\* ready_nudges
Listed(all) ==
    LET ready == {n \in DOMAIN all : all[n].status = "ready"}
        rank(n) == Cardinality({m \in ready : Order(all, m, n)})
    IN  [k \in 1..Min({LIMIT, Cardinality(ready)}) |-> CHOOSE n \in ready : rank(n) = k - 1]

Poll ==
    /\ running /\ poll.at = "asleep" /\ enabled
    /\ poll' = [Asleep EXCEPT !.at = "list"]
    /\ UNCHANGED <<now, rules, nudges, enabled, running, panel, submitted, opening, saves, faults>>

\* What is wrong with a nudge (its title is too long for the panel, or holds a
\* direction mark) is found here: it is skipped.  sent_at is that of the list.
List ==
    /\ poll.at = "list"
    /\ LET all == IF enabled THEN Promoted(Materialized) ELSE nudges
           shown == SelectSeq(Listed(all), LAMBDA n : ~Bad(all[n]))
       IN  /\ Grown(all)
           /\ rules' = IF enabled THEN Advanced ELSE rules
           /\ poll' = IF ~enabled \/ shown = <<>> THEN Asleep
                      ELSE [at |-> "show", shown |-> FALSE,
                            left |-> [k \in DOMAIN shown |->
                                        [n |-> shown[k], sent |-> all[shown[k]].sent]]]
    /\ UNCHANGED <<now, enabled, running, panel, opening, saves, faults>>

NextOne == IF Len(poll.left) = 1 THEN Asleep
           ELSE [at |-> "show", shown |-> FALSE, left |-> Tail(poll.left)]

\* emit_nudge_to_companion: it fails while there is no window.
Show ==
    /\ poll.at = "show"
    /\ LET one == Head(poll.left) IN
       \E window \in BOOLEAN :
          /\ IF window THEN panel' = panel \cup {one.n} /\ faults' = faults
             ELSE Fault /\ UNCHANGED panel
          /\ poll' = IF one.sent THEN NextOne
                     ELSE [poll EXCEPT !.at = "deliver", !.shown = window]
    /\ UNCHANGED <<now, rules, nudges, enabled, running, submitted, opening, saves>>

\* delivery_succeeded
Succeeded(in_app, system) == in_app \/ system

\* deliver: a request the center does not confirm in time may be shown all the
\* same; one that is denied is not.
Deliver ==
    /\ poll.at = "deliver"
    /\ \E outcome \in {"ok", "denied", "late"} :
          /\ outcome = "late" => Fault
          /\ outcome # "late" => UNCHANGED faults
          /\ submitted' = IF outcome = "denied" THEN submitted
                          ELSE [submitted EXCEPT ![Head(poll.left).n] = @ + 1]
          /\ poll' = IF Succeeded(poll.shown, outcome = "ok") THEN [poll EXCEPT !.at = "mark"]
                     ELSE NextOne
    /\ UNCHANGED <<now, rules, nudges, enabled, running, panel, opening, saves>>

MarkedWhile(n, status) ==
    nudges' = IF nudges[n].status = status
              THEN [nudges EXCEPT ![n].sent = TRUE,
                                  ![n].touched = IF nudges[n].sent THEN @ ELSE now]
              ELSE nudges
MarkedFaulty(n) == MarkedWhile(n, "pending")
\* mark_nudge_delivered
Marked(n) == MarkedWhile(n, "ready")

\* mark_delivery: a request that fails is told to the panel and nothing more.
Mark ==
    /\ poll.at = "mark"
    /\ \/ Marked(Head(poll.left).n) /\ UNCHANGED faults
       \/ Fault /\ UNCHANGED nudges
    /\ poll' = NextOne
    /\ UNCHANGED <<now, rules, enabled, running, panel, submitted, opening, saves>>

\* companion_dismiss_nudge: a card that is not ready any more stays.
Dismiss(n) ==
    /\ n \in panel /\ nudges[n].status = "ready"
    /\ Closed(n, "dismissed")
    /\ panel' = panel \ {n}
    /\ UNCHANGED <<now, rules, enabled, running, poll, submitted, opening, saves, faults>>

\* open_nudge, from a card or from Notification Center: the row is read.
Open(n) ==
    /\ running /\ opening = 0 /\ (n \in panel \/ submitted[n] > 0)
    /\ nudges[n].status = "ready" /\ ~Bad(nudges[n])
    /\ opening' = n
    /\ UNCHANGED <<now, rules, nudges, enabled, running, poll, panel, submitted, saves, faults>>

\* It is routed and marked as seen, or shown in the panel and marked delivered.
Opened ==
    /\ opening # 0
    /\ \/ nudges[opening].status = "ready" /\ Closed(opening, "seen") /\ panel' = panel \ {opening}
       \/ nudges[opening].status # "ready" /\ UNCHANGED <<nudges, panel>>
       \/ Marked(opening) /\ panel' = panel \cup {opening}
    /\ opening' = 0
    /\ UNCHANGED <<now, rules, enabled, running, poll, submitted, saves, faults>>

Quit ==
    /\ running /\ Fault
    /\ running' = FALSE
    /\ poll' = Asleep /\ panel' = {} /\ opening' = 0
    /\ UNCHANGED <<now, rules, nudges, enabled, submitted, saves>>

Launch ==
    /\ ~running /\ running' = TRUE
    /\ UNCHANGED <<now, rules, nudges, enabled, poll, panel, submitted, opening, saves, faults>>

Loop == Poll \/ List \/ Show \/ Deliver \/ Mark

Next ==
    \/ Tick \/ Scheduled \/ Pruned \/ SetEnabled \/ Loop \/ Opened \/ Quit \/ Launch
    \/ \E r \in Rules : Save(r) \/ Delete(r)
    \/ \E f \in Flags : Flag(f) \/ Followup(f)
    \/ \E n \in DOMAIN nudges : Dismiss(n) \/ Open(n)

Spec == Init /\ [][Next]_vars

\* The scheduler of the daemon and the loop of the desktop each sleep and go on;
\* their requests have timeouts.
Fairness == WF_vars(Scheduled) /\ WF_vars(Loop) /\ WF_vars(Launch)

FairSpec == Spec /\ Fairness

-------------------------------------------------------------------------------
(* A rule is saved over, a list and the scheduler meet, old rows expire: a  *)
(* slot of a rule becomes one nudge only, unless the rule was deleted.  A   *)
(* save forgets last_fired_at, so nothing but the index on dedupe_key and   *)
(* a retention no shorter than the distance of the slots prevent a second.  *)
SlotOnce ==
    \A a, b \in DOMAIN nudges :
        (a # b /\ nudges[a].key = nudges[b].key /\ nudges[a].key[1] = "rule")
            => "deleted" \in {nudges[a].status, nudges[b].status}

(* Notification Center is asked once about a nudge, and again only for each *)
(* request that failed and each restart.                                    *)
SubmittedOnce == \A n \in DOMAIN nudges : submitted[n] <= 1 + faults

(* A nudge the user has closed stays closed.                                *)
ClosedStaysClosed ==
    [][\A n \in DOMAIN nudges : nudges[n].status \in {"seen", "dismissed"} =>
          nudges'[n].status \in {nudges[n].status} \cup Gone]_vars

(* While the preference stays on, a nudge that is ready and can be shown is *)
(* shown in the end, or closed: those shown before do not keep it from the  *)
(* list however many there are; LIMIT of those that cannot be shown would.  *)
EveryNudgeShown ==
    \A n \in 1..MaxNudges + Cardinality(Rules) :
        (n \in DOMAIN nudges /\ nudges[n].status = "ready" /\ ~Bad(nudges[n]))
            ~> \/ ~enabled
               \/ n \in DOMAIN nudges /\ (nudges[n].status # "ready" \/ nudges[n].sent)
               \/ Cardinality({m \in DOMAIN nudges : Bad(nudges[m])}) >= LIMIT

(* What docs/architecture.md:27 says of reminders that became due while     *)
(* woof was closed: once the scheduler has run, no slot of a rule that has  *)
(* passed since it was saved is without its nudge.                          *)
NoSlotMissed ==
    \A r \in Rules : LET rule == rules[r] IN
        (rule # Absent /\ rule.kind = "daily" /\ rule.last # Never /\ rule.last >= DAY) =>
            \/ \E n \in DOMAIN nudges : nudges[n].key = <<"rule", r, rule.last - DAY>>
            \/ rule.last - DAY < rule.created
===============================================================================
