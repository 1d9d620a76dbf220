------------------------------- MODULE Redaction -------------------------------
(***************************************************************************)
(* What leaves the computer with a rewrite, and what comes back.  The      *)
(* private values of a draft are replaced by markers of this one request,  *)
(* one pattern after the other, each over the text that the one before it  *)
(* has left; the answer is accepted when nothing private is found in it,   *)
(* and every marker is then replaced by the value that it stands for.      *)
(*                                                                         *)
(* A text is a sequence of items: what a pattern would match as a whole,   *)
(* the label of a secret, the end of a line, or words.                     *)
(***************************************************************************)
EXTENDS Naturals, Sequences, FiniteSets, SequencesExt, FiniteSetsExt

CONSTANTS
    DraftItems,  \* the kinds of item that a draft and an instruction are made of
    AnswerItems, \* the kinds of item that the service makes up
    MaxDraft,    \* bound: items of a draft
    MaxAnswer    \* bound: items of an answer

VARIABLES
    draft,   \* RewriteSnapshot: original
    task,    \* RewriteSnapshot: task
    request, \* what is sent, once it is
    slots,   \* RestorableRedaction: slots
    answer,  \* what the service returns
    result   \* what perform_inline_assistance returns

vars == <<draft, task, request, slots, answer, result>>

(***************************************************************************)
(* "key" is what is looked for before the labels, a PEM key or a bearer    *)
(* token; "token" what is looked for after them, from provider tokens to   *)
(* phone numbers; "lookalike" fails the check digits or the ranges of its  *)
(* pattern.  The value of a "quote" label is the item after it, the value  *)
(* of an unquoted "label" the rest of its line; "dummy" is the value of an *)
(* example.  "unavailable" is INLINE_CONTEXT_UNAVAILABLE.                  *)
(***************************************************************************)
Kinds == {"words", "key", "token", "lookalike", "quote", "label", "dummy", "end",
          "unavailable", "marker", "gone", "stray"}

Item(kind) == [kind |-> kind, slot |-> 0]
Marker(n) == [kind |-> "marker", slot |-> n]

Has(text, kinds) == \E i \in DOMAIN text : text[i].kind \in kinds

\* A quotation mark is closed again, on its line.
WellFormed(text) ==
    \A i \in DOMAIN text : text[i].kind = "quote" =>
        i < Len(text) /\ text[i + 1].kind \notin {"quote", "label", "end"}

TextsOf(kinds, n) == {t \in BoundedSeq({Item(k) : k \in kinds}, n) : WellFormed(t)}
Drafts == TextsOf(DraftItems, MaxDraft)

-----------------------------------------------------------------------------
(***************************************************************************)
(* Both ways to redact make the same passes.  A redaction is the text so   *)
(* far and the values taken out of it; `local` tells whether they can be   *)
(* put back.                                                               *)
(***************************************************************************)
\* push_slot, or the marker of a kind
Hide(r, value) ==
    [r EXCEPT !.text = Append(@, IF r.local THEN Marker(Len(r.slots) + 1) ELSE Item("gone")),
              !.slots = Append(@, value)]

Keep(r, items) == [r EXCEPT !.text = @ \o items]

\* is_plausible_labeled_secret
Plausible(value) == value # <<Item("dummy")>>

\* replace_restorable, replace_simple, replace_validated
Single(kind, r) ==
    FoldLeft(LAMBDA acc, item : IF item.kind = kind THEN Hide(acc, <<item>>)
                                ELSE Keep(acc, <<item>>),
             [r EXCEPT !.text = <<>>], r.text)

\* replace_group_restorable and replace_group_validated, with the pattern of the
\* quoted labels: the value is one item.
Quoted(r) ==
    LET value(i) == i > 1 /\ r.text[i - 1].kind = "quote" /\ Plausible(<<r.text[i]>>) IN
    FoldLeftDomain(LAMBDA acc, i : IF value(i) THEN Hide(acc, <<r.text[i]>>)
                                   ELSE Keep(acc, <<r.text[i]>>),
                   [r EXCEPT !.text = <<>>], r.text)

LineEndFaulty(text, i) == Min({Len(text), i + 1})

\* Where the value of an unquoted label at i ends.
LineEnd(text, i) ==
    Min({Len(text)} \union {j - 1 : j \in {k \in DOMAIN text : k > i /\ text[k].kind = "end"}})

\* ... with the pattern of the unquoted labels: the value is the rest of the line,
\* and a label in it is part of the value.
Unquoted(r) ==
    LET starts == {i \in DOMAIN r.text : r.text[i].kind = "label" /\ LineEnd(r.text, i) > i}
        first == {i \in starts : ~ \E j \in starts : j < i /\ i <= LineEnd(r.text, j)}
        value(i) == SubSeq(r.text, i + 1, LineEnd(r.text, i))
        inValue(k) == \E i \in first : i < k /\ k <= LineEnd(r.text, i)
        step(acc, k) ==
            IF k \in first /\ Plausible(value(k)) THEN Hide(Keep(acc, <<r.text[k]>>), value(k))
            ELSE IF k \in first THEN Keep(acc, <<r.text[k]>> \o value(k))
            ELSE IF inValue(k) THEN acc
            ELSE Keep(acc, <<r.text[k]>>) IN
    FoldLeftDomain(step, [r EXCEPT !.text = <<>>], r.text)

\* redact_credentials and redact_credentials_restorable
Credentials(r) == Unquoted(Quoted(Single("key", r)))

\* redact_restorable
Restorable(text) == Single("token", Credentials([text |-> text, slots |-> <<>>, local |-> TRUE]))

\* Redactor::redact
Redact(text) == Single("token", Credentials([text |-> text, slots |-> <<>>, local |-> FALSE]))

\* RedactionReport::total
Total(report) == Len(report.slots)

-----------------------------------------------------------------------------
Ok(text) == [outcome |-> "ok", text |-> text]
Err(why) == [outcome |-> why, text |-> <<>>]

Count(text, item) == Len(SelectSeq(text, LAMBDA x : x = item))

RestoreFaulty(values, text) ==
    LET put(acc, n) ==
            IF acc.outcome # "ok" THEN acc
            ELSE IF Count(acc.text, Marker(n)) = 0 THEN Err("missing")
            ELSE Ok(FlattenSeq([i \in DOMAIN acc.text |->
                        IF acc.text[i] = Marker(n) THEN values[n] ELSE <<acc.text[i]>>])) IN
    FoldLeftDomain(put, Ok(text), values)

\* RestorableRedaction::restore
Restore(values, text) ==
    LET put(acc, n) ==
            IF acc.outcome # "ok" THEN acc
            ELSE IF Count(acc.text, Marker(n)) = 0 THEN Err("missing")
            ELSE IF Count(acc.text, Marker(n)) > 1 THEN Err("duplicated")
            ELSE Ok(ReplaceFirstSubSeq(values[n], <<Marker(n)>>, acc.text))
        restored == FoldLeftDomain(put, Ok(text), values) IN
    IF restored.outcome = "ok" /\ Has(restored.text, {"marker", "stray"})
    THEN Err("unexpected") ELSE restored

\* validate_inline_output
Validated(text) ==
    IF text = <<>> THEN Err("empty")
    ELSE IF task = "reply" /\ Has(text, {"unavailable"}) THEN Err("no context")
    ELSE IF task = "reply" /\ Has(text, {"marker", "gone", "stray"}) THEN Err("placeholder")
    ELSE IF Total(Redact(text)) > 0 THEN Err("new private value")
    ELSE Restore(slots, text)

-----------------------------------------------------------------------------
Nothing == [outcome |-> "none", text |-> <<>>]

Init ==
    /\ draft \in Drafts
    /\ task \in {"rewrite", "reply"}
    /\ task = "reply" => draft = <<>>
    /\ request = <<>> /\ slots = <<>> /\ answer = <<>> /\ result = Nothing

\* The request as the service sees it; the count of the markers is sent with it.
RequestOf(redacted, instruction) ==
    [draft |-> redacted.text, instruction |-> Redact(instruction).text,
     markers |-> Len(redacted.slots)]

\* perform_inline_assistance, until the answer is awaited.  What it says of an
\* instruction and of the visible context depends on these texts alone: here they
\* are the text of the draft once more.
Ask ==
    /\ request = <<>> /\ result = Nothing
    /\ slots' = Restorable(draft).slots
    /\ request' = <<RequestOf(Restorable(draft), draft)>>
    /\ UNCHANGED <<draft, task, answer, result>>

\* The service may return any text made of the markers and of items of its own;
\* "stray" begins as a marker of this request does and is none of them.
Answer(text) ==
    /\ request # <<>> /\ answer = <<>> /\ result = Nothing
    /\ answer' = text
    /\ result' = Validated(text)
    /\ UNCHANGED <<draft, task, request, slots>>

\* The request fails, or it is cancelled before or while it is awaited.
Abandon ==
    /\ result = Nothing
    /\ result' = Err("abandoned")
    /\ UNCHANGED <<draft, task, request, slots, answer>>

AnswerTexts ==
    BoundedSeq({Item(k) : k \in AnswerItems} \union {Marker(n) : n \in DOMAIN slots}, MaxAnswer)

Next ==
    \/ Ask
    \/ \E t \in AnswerTexts : Answer(t)
    \/ Abandon

Spec == Init /\ [][Next]_vars

-----------------------------------------------------------------------------
TypeOK ==
    /\ Has(draft, Kinds) \/ draft = <<>>
    /\ task \in {"rewrite", "reply"}
    /\ \A n \in DOMAIN slots : slots[n] # <<>>
    /\ result.outcome \in {"none", "ok", "missing", "duplicated", "unexpected", "empty", "no context",
                           "placeholder", "new private value", "abandoned"}

\* Nothing private is left in a text: no key and no token, and after each label no
\* more than a marker or the value of an example.
Clean(text) ==
    LET hidden == {"marker", "gone", "dummy", "end"} IN
    /\ ~Has(text, {"key", "token"})
    /\ \A i \in 1..(Len(text) - 1) : text[i].kind = "quote" => text[i + 1].kind \in hidden
    /\ \A i \in 1..(Len(text) - 1) : text[i].kind = "label" =>
           /\ text[i + 1].kind \in hidden
           /\ i + 2 \in DOMAIN text /\ text[i + 1].kind # "end" => text[i + 2].kind = "end"

\* Whatever the order of what is private in a draft or in an instruction, and
\* however one lies within another: no private value is part of what is sent.
PromptClean ==
    request # <<>> => Clean(request[1].draft) /\ Clean(request[1].instruction)

Private(text) == [k \in {"key", "token", "lookalike"} |-> Count(text, Item(k))]

\* An answer that is accepted holds every private value of the draft exactly as often as
\* the draft does and no other one, and no marker: whatever the service leaves out, repeats or
\* makes up, no value is lost, doubled or invented on the way into the user's text.
ValuesKept ==
    result.outcome = "ok" =>
        /\ ~Has(result.text, {"marker", "stray"})
        /\ \A k \in {"key", "token"} : Private(result.text)[k] = Private(draft)[k]
        /\ \A n \in DOMAIN slots : slots[n] \in SubSeqs(result.text)

\* A draft whose private values do not lie within one another comes back as it was
\* when the service leaves the text alone.
RestoredUnlessNested ==
    request # <<>> /\ (\A n \in DOMAIN slots : ~Has(slots[n], {"marker"})) =>
        Restore(slots, request[1].draft) = Ok(draft)

\* redact.rs says of the markers that they "can be restored locally": the text that the
\* service was sent, returned as it is, is the draft again.
MarkersRestore ==
    request # <<>> => Restore(slots, request[1].draft) = Ok(draft)

\* The prompt asks for each marker "exactly once": an answer that is the text which
\* was sent is accepted.
KeptMarkersAccepted ==
    request # <<>> /\ task = "rewrite" /\ answer # <<>> /\ answer = request[1].draft =>
        result.outcome = "ok"
=============================================================================
