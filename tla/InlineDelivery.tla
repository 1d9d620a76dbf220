---------------------------- MODULE InlineDelivery ----------------------------
(***************************************************************************)
(* One delivery of generated text into the field that was focused when the *)
(* user asked for it: through Accessibility where the field is writable,   *)
(* otherwise by a paste with the text on the clipboard for a moment, or by *)
(* keystrokes.  The user goes on typing, copying and switching windows;    *)
(* the application handles posted keys when it gets to them.               *)
(*                                                                         *)
(* A check and the call right after it are one step: macOS has no compare- *)
(* and-set for a text field or for the clipboard.                          *)
(***************************************************************************)
EXTENDS Naturals, Sequences, FiniteSets

CONSTANTS
    MaxEvents,    \* bound: what the user does during the delivery
    MaxFaults     \* bound: calls into macOS that fail

VARIABLES
    scope,        \* TextScope of the expected read
    ways,         \* what is settable: "selected" text, "value", "range"
    focusRule,    \* DeliveryFocus: "target", or "controller" for a rewrite
    blank,        \* the replacement is empty
    at,           \* the next step of InlineSession::deliver
    stage,        \* "replace", or "fallback" once Accessibility is unavailable
    left,         \* chunks to be typed
    err,          \* the outcome of the action, while the clipboard is restored
    result,
    text,         \* the field, as the pieces it was put together from
    keys,         \* keys posted to the process and not handled yet
    focus,        \* "target", "sibling" (in the same process), "controller", "other"
    blocked,      \* what makes Accessibility refuse, or "none"
    clip, rev,    \* the pasteboard and its change count
    own,          \* history: what the user last put on it
    held,         \* ClipboardRestoration: the snapshot and the revision
    events, faults

field == <<scope, ways, focusRule, blank>>
board == <<clip, rev, own, held>>
vars == <<scope, ways, focusRule, blank, at, stage, left, err, result, text, keys, focus,
          blocked, clip, rev, own, held, events, faults>>

Steps == {"wake", "settle", "write", "select", "snapshot", "clear", "fill", "paste",
          "pasted", "restore", "refill", "retype", "type", "typed", "confirm", "done"}
Refusals == {"PermissionDenied", "SecureInput", "ProtectedContent"}
Errors == Refusals \cup
    {"TargetFocusChanged", "TargetContentChanged", "NotWritable", "Accessibility",
     "ClipboardChanged", "ClipboardSnapshot", "ClipboardWrite", "ClipboardRestore",
     "InputInjection", "DeliveryUnconfirmed"}
Pieces == {"draft", "typed", "answer", "first", "second", "mine", "copy"}
Clips == {"mine", "copy", "empty", "answer"}

TypeOK ==
    /\ scope \in {"Selection", "WholeDraft"} /\ ways \subseteq {"selected", "value", "range"}
    /\ focusRule \in {"target", "controller"} /\ blank \in BOOLEAN
    /\ at \in Steps /\ stage \in {"replace", "fallback"}
    /\ left \in Seq({"first", "second", "delete"})
    /\ err \in Errors \cup {"none"} /\ result \in Errors \cup {"none", "ok"}
    /\ text \in Seq(Pieces) /\ keys \in Seq({"paste", "first", "second", "delete"})
    /\ focus \in {"target", "sibling", "controller", "other"}
    /\ blocked \in Refusals \cup {"none"}
    /\ clip \in Clips /\ own \in {"mine", "copy"} /\ rev \in Nat
    /\ held \in [content : Clips, rev : Nat]
    /\ events \in 0..MaxEvents /\ faults \in 0..MaxFaults

Init ==
    /\ scope \in {"Selection", "WholeDraft"}
    /\ ways \in SUBSET {"selected", "value", "range"}
    /\ focusRule \in {"target", "controller"}
    /\ blank \in BOOLEAN
    /\ at = "wake" /\ stage = "replace" /\ left = <<>> /\ err = "none" /\ result = "none"
    /\ text = <<"draft">> /\ keys = <<>>
    /\ focus \in {"target", "controller"}
    /\ blocked = "none"
    /\ clip = "mine" /\ rev = 0 /\ own = "mine"
    /\ held = [content |-> "mine", rev |-> 0]
    /\ events = 0 /\ faults = 0

Fault == faults < MaxFaults /\ faults' = faults + 1
Goto(step) == at' = step /\ UNCHANGED result
Return(r) == at' = "done" /\ result' = r

\* The deletion of a blank replacement, or its pieces.
Chunks == IF blank THEN <<"delete">> ELSE <<"first", "second">>
Replaced == text \in (IF blank THEN {<<>>} ELSE {<<"answer">>, <<"first", "second">>})

-----------------------------------------------------------------------------
(***************************************************************************)
(* What is checked again and again.                                        *)
(***************************************************************************)
\* ensure_focus
Allowed(rule) ==
    focus = "target" \/ (rule = "controller" /\ focus = "controller")

\* validate_revision, and validate_prepared_fallback: a field that is safe to
\* touch, focused, and still as it was read.
Revision(rule) ==
    IF blocked # "none" THEN blocked
    ELSE IF ~Allowed(rule) THEN "TargetFocusChanged"
    ELSE IF text # <<"draft">> THEN "TargetContentChanged" ELSE "none"

\* The revision checks of a step, any of which may fail inside macOS.
Checked(rule) ==
    IF Revision(rule) # "none" THEN {Revision(rule)}
    ELSE {"none"} \cup (IF faults < MaxFaults THEN {"Accessibility"} ELSE {})
Count(e) == faults' = faults + (IF e = "Accessibility" THEN 1 ELSE 0)

-----------------------------------------------------------------------------
(***************************************************************************)
(* Accessibility first.                                                    *)
(***************************************************************************)
\* InlineSession::deliver validates, then wake_for_delivery validates again
\* and gives the field its focus back, once, from the controller.
Wake ==
    /\ at = "wake"
    /\ \E e \in Checked(focusRule) :
          /\ Count(e)
          /\ IF e # "none" THEN Return(e) /\ UNCHANGED focus
             ELSE IF focus = "target"
             THEN Goto(IF stage = "replace" THEN "write" ELSE "select") /\ UNCHANGED focus
             ELSE Goto("settle") /\ focus' \in {focus, "target"}
    /\ UNCHANGED <<field, stage, left, err, text, keys, blocked, board, events>>

Settle ==
    /\ at = "settle"
    /\ IF Revision("target") = "none"
       THEN Goto(IF stage = "replace" THEN "write" ELSE "select")
       ELSE Return(Revision("target"))
    /\ UNCHANGED <<field, stage, left, err, text, keys, focus, blocked, board, events, faults>>

Writable ==
    \/ scope = "Selection" /\ ways \cap {"selected", "value"} # {}
    \/ scope = "WholeDraft" /\ "value" \in ways

\* replace: a failed call may have written all the same.
Write ==
    /\ at = "write"
    /\ IF Revision("target") # "none"
       THEN Return(Revision("target")) /\ UNCHANGED <<stage, text, faults>>
       ELSE IF ~Writable
       THEN Goto("wake") /\ stage' = "fallback" /\ UNCHANGED <<text, faults>>
       ELSE /\ \/ Goto("confirm") /\ text' = (IF blank THEN <<>> ELSE <<"answer">>)
                  /\ UNCHANGED faults
               \/ /\ Fault /\ Return("Accessibility")
                  /\ text' \in {text, IF blank THEN <<>> ELSE <<"answer">>}
            /\ UNCHANGED stage
    /\ UNCHANGED <<field, left, err, keys, focus, blocked, board, events>>

\* prepare_fallback selects what is to be replaced.
Select ==
    /\ at = "select"
    /\ \E e \in Checked("target") :
          /\ Count(e)
          /\ IF e # "none" THEN Return(e)
             ELSE IF scope = "WholeDraft" /\ "range" \notin ways THEN Return("NotWritable")
             ELSE Goto(IF blank THEN "retype" ELSE "snapshot")
    /\ UNCHANGED <<field, stage, left, err, text, keys, focus, blocked, board, events>>

-----------------------------------------------------------------------------
(***************************************************************************)
(* with_temporary_text: each step knows the change count it left behind.   *)
(***************************************************************************)
Snapshot ==
    /\ at = "snapshot"
    /\ \/ Goto("clear") /\ held' = [content |-> clip, rev |-> rev] /\ UNCHANGED faults
       \/ Fault /\ Goto("retype") /\ UNCHANGED held
       \/ Fault /\ Return("ClipboardChanged") /\ UNCHANGED held
    /\ UNCHANGED <<field, stage, left, err, text, keys, focus, blocked, clip, rev, own, events>>

\* ensure_revision
Ours == rev = held.rev

Emptied == clip' = "empty" /\ rev' = rev + 1 /\ held' = [held EXCEPT !.rev = rev + 1]

Clear ==
    /\ at = "clear"
    /\ IF Ours THEN Goto("fill") /\ Emptied
       ELSE Return("ClipboardChanged") /\ UNCHANGED <<clip, rev, held>>
    /\ UNCHANGED <<field, stage, left, err, text, keys, focus, blocked, own, events, faults>>

Fill ==
    /\ at = "fill"
    /\ \/ ~Ours /\ Return("ClipboardChanged") /\ UNCHANGED <<clip, err, faults>>
       \/ Ours /\ Goto("paste") /\ clip' = "answer" /\ UNCHANGED <<err, faults>>
       \/ Ours /\ Fault /\ Goto("restore") /\ err' = "ClipboardWrite" /\ UNCHANGED clip
    /\ UNCHANGED <<field, stage, left, text, keys, focus, blocked, rev, own, held, events>>

\* MacOsInputInjector::paste posts to the process; the events it needs may not
\* be had.
Paste ==
    /\ at = "paste"
    /\ IF ~Ours THEN Return("ClipboardChanged") /\ UNCHANGED <<err, keys, faults>>
       ELSE IF Revision("target") # "none"
       THEN Goto("restore") /\ err' = Revision("target") /\ UNCHANGED <<keys, faults>>
       ELSE \/ Goto("pasted") /\ keys' = Append(keys, "paste") /\ UNCHANGED <<err, faults>>
            \/ Fault /\ Goto("restore") /\ err' = "InputInjection" /\ UNCHANGED keys
    /\ UNCHANGED <<field, stage, left, text, focus, blocked, board, events>>

\* The target is looked at once more, after the key was posted.
PastedFaulty ==
    /\ at = "pasted"
    /\ Goto("restore")
    /\ err' = Revision("target")
    /\ UNCHANGED <<field, stage, left, text, keys, focus, blocked, board, events, faults>>

\* Secure input that came up meanwhile is an error, although the key is posted.
Pasted ==
    /\ at = "pasted"
    /\ Goto("restore")
    /\ err' = IF blocked = "SecureInput" THEN blocked ELSE "none"
    /\ UNCHANGED <<field, stage, left, text, keys, focus, blocked, board, events, faults>>

\* The count is not looked at.
RestoreFaulty ==
    /\ at = "restore"
    /\ Goto("refill") /\ Emptied /\ UNCHANGED faults
    /\ UNCHANGED <<field, stage, left, err, text, keys, focus, blocked, own, events>>

\* A failed restoration is tried once more when the guard is dropped.
Restore ==
    /\ at = "restore"
    /\ \/ ~Ours /\ Return("ClipboardChanged") /\ UNCHANGED <<clip, rev, held, faults>>
       \/ Ours /\ Goto("refill") /\ Emptied /\ UNCHANGED faults
       \/ /\ Ours /\ Fault /\ Return("ClipboardRestore")
          /\ clip' \in {clip, held.content} /\ UNCHANGED <<rev, held>>
    /\ UNCHANGED <<field, stage, left, err, text, keys, focus, blocked, own, events>>

\* Every failed paste is followed by keystrokes.
AfterPasteFaulty ==
    CASE err = "none" -> Goto("confirm")
      [] OTHER        -> Goto("retype")

\* Only an action that cannot have posted anything is followed by keystrokes.
AfterPaste ==
    CASE err = "none"                                -> Goto("confirm")
      [] err \in {"ClipboardWrite", "InputInjection"} -> Goto("retype")
      [] OTHER                                       -> Return(err)

Refill ==
    /\ at = "refill"
    /\ \/ ~Ours /\ Return("ClipboardChanged") /\ UNCHANGED <<clip, faults>>
       \/ Ours /\ AfterPaste /\ clip' = held.content /\ UNCHANGED faults
       \/ /\ Ours /\ Fault /\ Return("ClipboardRestore")
          /\ clip' \in {clip, held.content}
    /\ UNCHANGED <<field, stage, left, err, text, keys, focus, blocked, rev, own, held, events>>

-----------------------------------------------------------------------------
(***************************************************************************)
(* Keystrokes, which nothing checks between two chunks but secure input.   *)
(***************************************************************************)
Retype ==
    /\ at = "retype"
    /\ IF Revision("target") # "none" THEN Return(Revision("target")) /\ UNCHANGED left
       ELSE Goto("type") /\ left' = Chunks
    /\ UNCHANGED <<field, stage, err, text, keys, focus, blocked, board, events, faults>>

Type ==
    /\ at = "type"
    /\ \/ blocked = "SecureInput" /\ Return(blocked) /\ UNCHANGED <<keys, left, faults>>
       \/ Fault /\ Return("InputInjection") /\ UNCHANGED <<keys, left>>
       \/ /\ blocked # "SecureInput"
          /\ Goto("typed") /\ keys' = Append(keys, Head(left)) /\ left' = Tail(left)
          /\ UNCHANGED faults
    /\ UNCHANGED <<field, stage, err, text, focus, blocked, board, events>>

Typed ==
    /\ at = "typed"
    /\ IF blocked = "SecureInput" THEN Return(blocked)
       ELSE Goto(IF left = <<>> THEN "confirm" ELSE "type")
    /\ UNCHANGED <<field, stage, err, left, text, keys, focus, blocked, board, events, faults>>

\* A whole draft is read back, several times over; a selection is not.
Confirm ==
    /\ at = "confirm"
    /\ \/ scope = "Selection" /\ Return("ok")
       \/ scope = "WholeDraft" /\ blocked # "none" /\ Return(blocked)
       \/ scope = "WholeDraft" /\ blocked = "none" /\ Replaced /\ Return("ok")
       \/ scope = "WholeDraft" /\ blocked = "none" /\ ~Replaced /\ Return("DeliveryUnconfirmed")
    /\ UNCHANGED <<field, stage, err, left, text, keys, focus, blocked, board, events, faults>>

-----------------------------------------------------------------------------
(***************************************************************************)
(* The application and the user.                                           *)
(***************************************************************************)
\* The first change falls on the selected draft, a later one after it.
Insert(piece) == text' = IF text = <<"draft">> THEN <<piece>> ELSE Append(text, piece)

Handled(key) ==
    IF focus = "sibling" THEN UNCHANGED text
    ELSE CASE key = "paste"  -> IF clip = "empty" THEN UNCHANGED text ELSE Insert(clip)
           [] key = "delete" -> text' = <<>>
           [] OTHER          -> Insert(key)

Handle ==
    /\ keys # <<>>
    /\ Handled(Head(keys))
    /\ keys' = Tail(keys)
    /\ UNCHANGED <<field, at, stage, err, left, result, focus, blocked, board, events, faults>>

UserActs ==
    /\ events < MaxEvents /\ events' = events + 1
    /\ at # "done"
    /\ UNCHANGED <<field, at, stage, err, left, result, keys, faults, held>>

UserTypes ==
    /\ focus = "target" /\ Insert("typed")
    /\ UserActs /\ UNCHANGED <<focus, blocked, clip, rev, own>>

UserSwitches ==
    /\ focus' \in {"target", "sibling", "controller", "other"} \ {focus}
    /\ UserActs /\ UNCHANGED <<text, blocked, clip, rev, own>>

UserCopies ==
    /\ clip' = "copy" /\ own' = "copy" /\ rev' = rev + 1
    /\ UserActs /\ UNCHANGED <<text, focus, blocked>>

\* Accessibility is withdrawn or given back, secure input comes and goes, the
\* field turns into a protected one.
SafetyChanges ==
    /\ blocked' \in (Refusals \cup {"none"}) \ {blocked}
    /\ UserActs /\ UNCHANGED <<text, focus, clip, rev, own>>

Next ==
    \/ Wake \/ Settle \/ Write \/ Select
    \/ Snapshot \/ Clear \/ Fill \/ Paste \/ Pasted \/ Restore \/ Refill
    \/ Retype \/ Type \/ Typed \/ Confirm
    \/ Handle \/ UserTypes \/ UserSwitches \/ UserCopies \/ SafetyChanges

Spec == Init /\ [][Next]_vars

-----------------------------------------------------------------------------
(***************************************************************************)
(* Properties.                                                             *)
(***************************************************************************)
\* with_temporary_text: whatever failed and whatever the user copied on the
\* way, the clipboard holds what the user last put there, or the delivery says
\* that it could not be restored.
ClipboardKept ==
    at = "done" /\ clip # own => result = "ClipboardRestore"

Inserts == {"answer", "first", "mine", "copy", "paste"}
Insertions == Cardinality({i \in DOMAIN text : text[i] \in Inserts})
              + Cardinality({i \in DOMAIN keys : keys[i] \in Inserts})

\* InlineSession::deliver falls back from the paste to keystrokes: the answer
\* is never put in twice, by one way after the other.
InsertedOnce == Insertions <= 1

\* delivery_may_be_uncertain
Uncertain == {"Accessibility", "SecureInput", "InputInjection", "DeliveryUnconfirmed",
              "ClipboardRestore", "ClipboardChanged"}

\* "Couldn't insert the draft. The chat was left untouched."
LeftUntouched ==
    at = "done" /\ result \notin Uncertain \cup {"ok"} => Insertions = 0

\* The same, but for Accessibility withdrawn, or the field protected, between
\* the write and its confirmation.
FailureKnown ==
    at = "done" /\ result \notin Uncertain \cup {"ok", "PermissionDenied", "ProtectedContent"}
        => Insertions = 0
=============================================================================
