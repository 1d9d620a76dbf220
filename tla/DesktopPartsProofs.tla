------------------------ MODULE DesktopPartsProofs ------------------------
(***************************************************************************)
(* The theorems about parts of the desktop application, for the parts side *)
(* by side: a behaviour of the composition in which one part moves is a    *)
(* behaviour of that part.                                                 *)
(***************************************************************************)
EXTENDS MCDesktopParts, FiniteSetTheorems, TLAPS

\* The chat and the dictation again, with their theorems.
Chats == INSTANCE ChatProofs WITH
    MAX_ATTEMPTS <- Attempts, MAX_TOOL_ROUNDS <- ToolRounds, MaxRequests <- Messages,
    MaxChunks <- TextPieces, MaxFaults <- Breaks,
    active <- chatActive, current <- chatCurrent, events <- chatEvents, faults <- chatFaults

Holds == INSTANCE DictationProofs WITH
    MaxRecordings <- Recordings, MaxSessions <- Dictations, MaxEvents <- Interruptions,
    active <- holdActive, held <- holdHeld, down <- holdDown, events <- holdEvents

-----------------------------------------------------------------------------
(***************************************************************************)
(* The chat.                                                               *)
(***************************************************************************)
LEMMA SameChat ==
    /\ Talk!Init <=> Chats!Init
    /\ Talk!Next <=> Chats!Next
    /\ Talk!TypeOK <=> Chats!TypeOK
    /\ Talk!AnswerWhole <=> Chats!AnswerWhole
    /\ Talk!OneLive <=> Chats!OneLive
<1>1. Talk!Init <=> Chats!Init
  BY DEF Talk!Init, Chats!Init
<1>2. Talk!Next <=> Chats!Next
  <2>1. Talk!Send <=> Chats!Send
    BY DEF Talk!Send, Chats!Send, Talk!Request, Chats!Request, Talk!Response, Chats!Response
  <2>2. (Talk!Cancel <=> Chats!Cancel) /\ (Talk!NewChat <=> Chats!NewChat)
    BY DEF Talk!Cancel, Chats!Cancel, Talk!NewChat, Chats!NewChat
  <2>3. Talk!Cancelled <=> Chats!Cancelled
    BY DEF Talk!Cancelled, Chats!Cancelled, Talk!Stopped, Chats!Stopped
  <2>4. Talk!Hear <=> Chats!Hear
    BY DEF Talk!Hear, Chats!Hear, Talk!Crossed, Chats!Crossed, Talk!Finally, Chats!Finally,
       Talk!Stopped, Chats!Stopped
  <2>5. Talk!ChatCancel <=> Chats!ChatCancel
    BY DEF Talk!ChatCancel, Chats!ChatCancel, Talk!CancelToken, Chats!CancelToken
  <2>6. ASSUME NEW i PROVE Talk!TypedOf(i) <=> Chats!TypedOf(i)
    BY DEF Talk!TypedOf, Chats!TypedOf, Talk!Typed, Chats!Typed, Talk!Finally, Chats!Finally,
       Talk!Crossed, Chats!Crossed
  <2>7. ASSUME NEW i PROVE Talk!Fail(i) <=> Chats!Fail(i)
    BY DEF Talk!Fail, Chats!Fail, Talk!Goto, Chats!Goto, Talk!Tell, Chats!Tell, Talk!Event,
       Chats!Event
  <2>8. ASSUME NEW i PROVE Talk!BreakOf(i) <=> Chats!BreakOf(i)
    BY <2>7 DEF Talk!BreakOf, Chats!BreakOf, Talk!Broken, Chats!Broken, Talk!At, Chats!At,
       Talk!Retry, Chats!Retry, Talk!window, Chats!window
  <2>9. ASSUME NEW i PROVE Talk!StepOf(i) <=> Chats!StepOf(i)
    <3>1. Talk!Register(i) <=> Chats!Register(i)
      BY <2>7 DEF Talk!Register, Chats!Register, Talk!At, Chats!At, Talk!CancelToken,
         Chats!CancelToken, Talk!window, Chats!window
    <3>2. (Talk!Context(i) <=> Chats!Context(i)) /\ (Talk!Open(i) <=> Chats!Open(i))
      BY <2>7 DEF Talk!Context, Chats!Context, Talk!Open, Chats!Open, Talk!At, Chats!At,
         Talk!Goto, Chats!Goto, Talk!window, Chats!window
    <3>3. Talk!Delta(i) <=> Chats!Delta(i)
      BY DEF Talk!Delta, Chats!Delta, Talk!At, Chats!At, Talk!Tell, Chats!Tell, Talk!Event,
         Chats!Event, Talk!window, Chats!window
    <3>4. /\ Talk!Interrupted(i) <=> Chats!Interrupted(i)
          /\ Talk!Completed(i) <=> Chats!Completed(i)
      BY <2>7 DEF Talk!Interrupted, Chats!Interrupted, Talk!Completed, Chats!Completed,
         Talk!At, Chats!At, Talk!Goto, Chats!Goto, Talk!window, Chats!window
    <3>5. Talk!Tools(i) <=> Chats!Tools(i)
      BY <2>7 DEF Talk!Tools, Chats!Tools, Talk!At, Chats!At, Talk!window, Chats!window
    <3>6. Talk!Save(i) <=> Chats!Save(i)
      BY DEF Talk!Save, Chats!Save, Talk!At, Chats!At, Talk!Goto, Chats!Goto, Talk!Tell,
         Chats!Tell, Talk!Event, Chats!Event, Talk!window, Chats!window
    <3> QED
      BY <3>1, <3>2, <3>3, <3>4, <3>5, <3>6 DEF Talk!StepOf, Chats!StepOf, Talk!Step, Chats!Step
  <2> QED
    BY <2>1, <2>2, <2>3, <2>4, <2>5, <2>6, <2>8, <2>9 DEF Talk!Next, Chats!Next
<1>3. Talk!TypeOK <=> Chats!TypeOK
  BY DEF Talk!TypeOK, Chats!TypeOK, Talk!Stages, Chats!Stages, Talk!Chunk, Chats!Chunk
<1>4. (Talk!AnswerWhole <=> Chats!AnswerWhole) /\ (Talk!OneLive <=> Chats!OneLive)
  BY DEF Talk!AnswerWhole, Chats!AnswerWhole, Talk!OneLive, Chats!OneLive
<1> QED
  BY <1>1, <1>2, <1>3, <1>4

\* An answer that was neither given up nor met by an older request shows every piece of its
\* own text once and in order, and at most one request can still be cancelled, for every
\* number of messages, attempts, rounds of tools, pieces and faults (Companion.svelte: send;
\* chat_send, stream_chat).
THEOREM ChatIsSound == PartsSpec => []ChatSound
<1>1. PartsInit => Chats!Init
  BY SameChat DEF PartsInit
<1>2. component = "chat" /\ [Step]_allvars => [Chats!Next]_Chats!vars /\ (component = "chat")'
  BY SameChat DEF Step, allvars, chatVars, Chats!vars
<1>3. ~(component = "chat") /\ [Step]_allvars => (~(component = "chat"))'
  BY DEF Step, allvars
<1>4. Chats!Spec => [](Chats!TypeOK /\ Chats!AnswerWhole /\ Chats!OneLive)
  BY ChatBounds, Chats!ChatIsSound DEF Chats!ChatBounds
<1>5. Chats!TypeOK /\ Chats!AnswerWhole /\ Chats!OneLive => ChatSound
  BY SameChat DEF ChatSound
<1>6. ~(component = "chat") => ChatSound
  BY DEF ChatSound
<1> QED
  BY <1>1, <1>2, <1>3, <1>4, <1>5, <1>6, PTL DEF PartsSpec, Chats!Spec

-----------------------------------------------------------------------------
(***************************************************************************)
(* The dictation.                                                          *)
(***************************************************************************)
LEMMA SameHold ==
    /\ Hold!Init <=> Holds!Init
    /\ Hold!Next <=> Holds!Next
    /\ Hold!TypeOK <=> Holds!TypeOK
    /\ Hold!OneEnding /\ Hold!TextGoesHome <=> Holds!OneEnding /\ Holds!TextGoesHome
    /\ Hold!HoldIsHeardInline <=> Holds!HoldIsHeardInline
    /\ Hold!SessionsEnd /\ Hold!MicrophoneOff <=> Holds!SessionsEnd /\ Holds!MicrophoneOff
<1>1. Hold!Init <=> Holds!Init
  BY DEF Hold!Init, Holds!Init, Hold!NoSession, Holds!NoSession, Hold!Actors, Holds!Actors,
     Hold!Idle, Holds!Idle
<1>2. Hold!Next <=> Holds!Next
  <2>1. ASSUME NEW kind PROVE Hold!Begin(kind) <=> Holds!Begin(kind)
    BY DEF Hold!Begin, Holds!Begin
  <2>2. (Hold!CancelAll <=> Holds!CancelAll) /\ (Hold!CancelDictation <=> Holds!CancelDictation)
    BY DEF Hold!CancelAll, Holds!CancelAll, Hold!CancelDictation, Holds!CancelDictation,
       Hold!NoSession, Holds!NoSession
  <2>3. ASSUME NEW a, NEW rewrite PROVE Hold!Take(a, rewrite) <=> Holds!Take(a, rewrite)
    BY DEF Hold!Take, Holds!Take
  <2>4. ASSUME NEW trigger, NEW home
        PROVE  Hold!Reserved(trigger, home) <=> Holds!Reserved(trigger, home)
    BY DEF Hold!Reserved, Holds!Reserved, Hold!Recording, Holds!Recording
  <2>5. Hold!HoldStarted <=> Holds!HoldStarted
    BY DEF Hold!HoldStarted, Holds!HoldStarted, Hold!At, Holds!At, Hold!Goto, Holds!Goto
  <2>6. Hold!Aim <=> Holds!Aim
    BY <2>1 DEF Hold!Aim, Holds!Aim, Hold!Dropped, Holds!Dropped, Hold!NoSession,
       Holds!NoSession, Hold!At, Holds!At, Hold!Goto, Holds!Goto
  <2>7. Hold!Reserve <=> Holds!Reserve
    BY <2>4 DEF Hold!Reserve, Holds!Reserve, Hold!At, Holds!At, Hold!Goto, Holds!Goto,
       Hold!inline, Holds!inline
  <2>8. Hold!Attach <=> Holds!Attach
    BY DEF Hold!Attach, Holds!Attach, Hold!At, Holds!At, Hold!Return, Holds!Return, Hold!Idle,
       Holds!Idle, Hold!Rec, Holds!Rec
  <2>9. Hold!Abort <=> Holds!Abort
    BY <2>2 DEF Hold!Abort, Holds!Abort, Hold!At, Holds!At, Hold!Return, Holds!Return,
       Hold!Idle, Holds!Idle, Hold!Wiped, Holds!Wiped
  <2>10. (Hold!HoldReleased <=> Holds!HoldReleased) /\ (Hold!Finalize <=> Holds!Finalize)
    BY DEF Hold!HoldReleased, Holds!HoldReleased, Hold!Finalize, Holds!Finalize,
       Hold!Finalized, Holds!Finalized, Hold!At, Holds!At, Hold!Goto, Holds!Goto, Hold!Return,
       Holds!Return, Hold!Idle, Holds!Idle, Hold!Rec, Holds!Rec, Hold!inline, Holds!inline
  <2>11. (Hold!GestureCancels <=> Holds!GestureCancels) /\ (Hold!Taken <=> Holds!Taken)
    BY <2>3 DEF Hold!GestureCancels, Holds!GestureCancels, Hold!Taken, Holds!Taken, Hold!At,
       Holds!At
  <2>12. Hold!Rewrite <=> Holds!Rewrite
    BY <2>1 DEF Hold!Rewrite, Holds!Rewrite, Hold!Dropped, Holds!Dropped, Hold!NoSession,
       Holds!NoSession, Hold!At, Holds!At, Hold!Return, Holds!Return, Hold!Idle, Holds!Idle
  <2>13. ASSUME NEW a PROVE Hold!Flow(a) <=> Holds!Flow(a)
    <3>1. Hold!CancelRec(a) <=> Holds!CancelRec(a)
      BY DEF Hold!CancelRec, Holds!CancelRec, Hold!CancelledRec, Holds!CancelledRec, Hold!At,
         Holds!At, Hold!Goto, Holds!Goto, Hold!Return, Holds!Return, Hold!Idle, Holds!Idle,
         Hold!Rec, Holds!Rec, Hold!inline, Holds!inline
    <3>2. Hold!Emit(a) <=> Holds!Emit(a)
      BY <2>2 DEF Hold!Emit, Holds!Emit, Hold!At, Holds!At, Hold!Goto, Holds!Goto, Hold!Wiped,
         Holds!Wiped
    <3>3. Hold!Effect(a) <=> Holds!Effect(a)
      BY DEF Hold!Effect, Holds!Effect, Hold!At, Holds!At, Hold!Goto, Holds!Goto, Hold!Return,
         Holds!Return, Hold!Idle, Holds!Idle, Hold!Rec, Holds!Rec, Hold!inline, Holds!inline
    <3>4. Hold!Wipe(a) <=> Holds!Wipe(a)
      BY <2>2 DEF Hold!Wipe, Holds!Wipe, Hold!At, Holds!At, Hold!Goto, Holds!Goto, Hold!Return,
         Holds!Return, Hold!Idle, Holds!Idle, Hold!Wiped, Holds!Wiped
    <3> QED
      BY <3>1, <3>2, <3>3, <3>4 DEF Hold!Flow, Holds!Flow
  <2>14. (Hold!Start <=> Holds!Start) /\ (Hold!FinalizeActive <=> Holds!FinalizeActive)
    BY DEF Hold!Start, Holds!Start, Hold!FinalizeActive, Holds!FinalizeActive, Hold!Finalized,
       Holds!Finalized, Hold!Recording, Holds!Recording, Hold!Command, Holds!Command,
       Hold!Event, Holds!Event, Hold!At, Holds!At, Hold!inline, Holds!inline
  <2>15. /\ Hold!CancelActive <=> Holds!CancelActive
         /\ Hold!StopMonitor <=> Holds!StopMonitor
    BY DEF Hold!CancelActive, Holds!CancelActive, Hold!StopMonitor, Holds!StopMonitor,
       Hold!Command, Holds!Command, Hold!Event, Holds!Event, Hold!At, Holds!At, Hold!inline,
       Holds!inline
  <2>16. Hold!Dismiss <=> Holds!Dismiss
    BY <2>3 DEF Hold!Dismiss, Holds!Dismiss, Hold!Command, Holds!Command, Hold!Event,
       Holds!Event, Hold!At, Holds!At
  <2>17. ASSUME NEW i PROVE Hold!TaskOf(i) <=> Holds!TaskOf(i)
    <3>1. Hold!Open(i) <=> Holds!Open(i)
      BY DEF Hold!Open, Holds!Open, Hold!Ended, Holds!Ended, Hold!Event, Holds!Event,
         Hold!Step, Holds!Step, Hold!inline, Holds!inline
    <3>2. /\ Hold!AttachCapture(i) <=> Holds!AttachCapture(i)
          /\ Hold!Overflow(i) <=> Holds!Overflow(i)
      BY DEF Hold!AttachCapture, Holds!AttachCapture, Hold!Overflow, Holds!Overflow,
         Hold!CancelledRec, Holds!CancelledRec, Hold!Event, Holds!Event, Hold!Step, Holds!Step,
         Hold!inline, Holds!inline
    <3>3. Hold!Overflowed(i) <=> Holds!Overflowed(i)
      BY <2>2 DEF Hold!Overflowed, Holds!Overflowed, Hold!Wiped, Holds!Wiped, Hold!Step,
         Holds!Step, Hold!inline, Holds!inline
    <3>4. Hold!Finish(i) <=> Holds!Finish(i)
      BY DEF Hold!Finish, Holds!Finish, Hold!Ended, Holds!Ended, Hold!Event, Holds!Event,
         Hold!Step, Holds!Step, Hold!Running, Holds!Running, Hold!inline, Holds!inline
    <3>5. (Hold!TellText(i) <=> Holds!TellText(i)) /\ (Hold!TellBlank(i) <=> Holds!TellBlank(i))
      BY DEF Hold!TellText, Holds!TellText, Hold!TellBlank, Holds!TellBlank, Hold!Done,
         Holds!Done, Hold!NoSession, Holds!NoSession, Hold!Wiped, Holds!Wiped, Hold!Step,
         Holds!Step, Hold!inline, Holds!inline
    <3>6. (Hold!TellBad(i) <=> Holds!TellBad(i)) /\ (Hold!TaskWipe(i) <=> Holds!TaskWipe(i))
      BY <2>2 DEF Hold!TellBad, Holds!TellBad, Hold!TaskWipe, Holds!TaskWipe, Hold!Wiped,
         Holds!Wiped, Hold!Step, Holds!Step, Hold!inline, Holds!inline
    <3>7. Hold!Stall(i) <=> Holds!Stall(i)
      BY DEF Hold!Stall, Holds!Stall, Hold!Event, Holds!Event, Hold!Step, Holds!Step,
         Hold!inline, Holds!inline
    <3> QED
      BY <3>1, <3>2, <3>3, <3>4, <3>5, <3>6, <3>7
         DEF Hold!TaskOf, Holds!TaskOf, Hold!Task, Holds!Task
  <2>18. ASSUME NEW i PROVE Hold!LimitOf(i) <=> Holds!LimitOf(i)
    BY DEF Hold!LimitOf, Holds!LimitOf, Hold!Limit, Holds!Limit, Hold!Finalized,
       Holds!Finalized, Hold!Step, Holds!Step, Hold!Running, Holds!Running, Hold!inline,
       Holds!inline
  <2> QED
    BY <2>5, <2>6, <2>7, <2>8, <2>9, <2>10, <2>11, <2>12, <2>13, <2>14, <2>15, <2>16, <2>17,
       <2>18 DEF Hold!Next, Holds!Next, Hold!Actors, Holds!Actors
<1>3. Hold!TypeOK <=> Holds!TypeOK
  BY DEF Hold!TypeOK, Holds!TypeOK, Hold!Phases, Holds!Phases, Hold!Tasks, Holds!Tasks,
     Hold!Actors, Holds!Actors, Hold!Steps, Holds!Steps
<1>4. Hold!OneEnding /\ Hold!TextGoesHome <=> Holds!OneEnding /\ Holds!TextGoesHome
  BY DEF Hold!OneEnding, Holds!OneEnding, Hold!TextGoesHome, Holds!TextGoesHome
<1>5. Hold!HoldIsHeardInline <=> Holds!HoldIsHeardInline
  BY DEF Hold!HoldIsHeardInline, Holds!HoldIsHeardInline, Hold!AllIdle, Holds!AllIdle,
     Hold!Step, Holds!Step, Hold!At, Holds!At, Hold!Actors, Holds!Actors
<1>6. Hold!SessionsEnd /\ Hold!MicrophoneOff <=> Holds!SessionsEnd /\ Holds!MicrophoneOff
  BY DEF Hold!SessionsEnd, Holds!SessionsEnd, Hold!MicrophoneOff, Holds!MicrophoneOff,
     Hold!AllIdle, Holds!AllIdle, Hold!Step, Holds!Step, Hold!Running, Holds!Running, Hold!At,
     Holds!At, Hold!Actors, Holds!Actors
<1> QED
  BY <1>1, <1>2, <1>3, <1>4, <1>5, <1>6
\* Every recording ends once; its text goes to the session that asked for it; the next hold
\* is heard, and no session and no microphone outlives the work it was opened for, for any
\* number of recordings, sessions and failures (TranscriptionCoordinator, InlineCoordinator).
THEOREM DictationIsSound == PartsSpec => []DictationSound
<1> DEFINE Whole == /\ Holds!TypeOK /\ Holds!OneEnding /\ Holds!TextGoesHome
                    /\ Holds!HoldIsHeardInline /\ Holds!SessionsEnd /\ Holds!MicrophoneOff
<1>1. PartsInit => Holds!Init
  BY SameHold DEF PartsInit
<1>2. component = "dictation" /\ [Step]_allvars =>
        [Holds!Next]_Holds!vars /\ (component = "dictation")'
  BY SameHold DEF Step, allvars, holdVars, Holds!vars
<1>3. ~(component = "dictation") /\ [Step]_allvars => (~(component = "dictation"))'
  BY DEF Step, allvars
<1>4. Holds!Spec => []Whole
  BY DictationBounds, Holds!DictationIsWhole DEF Holds!DictationBounds
<1>5. Whole => DictationSound
  BY SameHold DEF DictationSound
<1>6. ~(component = "dictation") => DictationSound
  BY DEF DictationSound
<1> HIDE DEF Whole
<1> QED
  BY <1>1, <1>2, <1>3, <1>4, <1>5, <1>6, PTL DEF PartsSpec, Holds!Spec

-----------------------------------------------------------------------------
(***************************************************************************)
(* The delivery of generated text.                                         *)
(***************************************************************************)
\* The pieces of a text, or of the keys, that put something in.
Marked(s) == {i \in DOMAIN s : s[i] \in Delivery!Inserts}
Inserted(s) == Cardinality(Marked(s))

Weight(x) == IF x \in Delivery!Inserts THEN 1 ELSE 0

\* Keys, pieces to type, the windows that may be in front, and what an action comes to.
Presses == {"paste", "first", "second", "delete"}
Typings == {"first", "second", "delete"}
Fronts == {"target", "sibling", "controller", "other"}
Results == Delivery!Errors \cup {"none", "ok"}

USE DEF Weight, Presses, Typings, Fronts, Results

\* How many pieces of a sequence put something in.
LEMMA InsertedType ==
    ASSUME NEW S, NEW s \in Seq(S)
    PROVE  IsFiniteSet(Marked(s)) /\ Inserted(s) \in Nat
<1>1. IsFiniteSet(1..Len(s))
  BY FS_Interval
<1>2. Marked(s) \in SUBSET (1..Len(s))
  BY DEF Marked
<1>3. IsFiniteSet(Marked(s))
  BY <1>1, <1>2, FS_Subset
<1> QED
  BY <1>3, FS_CardinalityType DEF Inserted

\* Nothing is in an empty field.
LEMMA InsertedEmpty == Inserted(<< >>) = 0
<1>1. Marked(<< >>) = {}
  BY DEF Marked
<1> QED
  BY <1>1, FS_EmptySet DEF Inserted

\* One piece counts for itself.
LEMMA InsertedOne == ASSUME NEW x PROVE Inserted(<<x>>) = Weight(x)
<1>1. <<x>>[1] = x /\ DOMAIN <<x>> = {1}
  OBVIOUS
<1>2. CASE x \in Delivery!Inserts
  <2>1. Marked(<<x>>) = {1}
    BY <1>1, <1>2 DEF Marked
  <2> QED
    BY <1>2, <2>1, FS_Singleton DEF Inserted
<1>3. CASE x \notin Delivery!Inserts
  <2>1. Marked(<<x>>) = {}
    BY <1>1, <1>3 DEF Marked
  <2> QED
    BY <1>3, <2>1, FS_EmptySet DEF Inserted
<1> QED
  BY <1>2, <1>3

\* A posted key counts once.
LEMMA InsertedAppend ==
    ASSUME NEW S, NEW s \in Seq(S), NEW x \in S
    PROVE  Inserted(Append(s, x)) = Inserted(s) + Weight(x)
<1> DEFINE t == Append(s, x)
<1>1. /\ DOMAIN t = 1..(Len(s) + 1) /\ DOMAIN s = 1..Len(s) /\ Len(s) \in Nat
      /\ \A i \in 1..Len(s) : t[i] = s[i] /\ t[Len(s) + 1] = x
  OBVIOUS
<1>x. t[Len(s) + 1] = x
  OBVIOUS
<1>2. IsFiniteSet(Marked(s)) /\ Inserted(s) \in Nat
  BY InsertedType
<1> HIDE DEF t
<1>3. Len(s) + 1 \notin Marked(s)
  BY <1>1 DEF Marked
<1>4. CASE x \in Delivery!Inserts
  <2>1. Marked(t) = Marked(s) \cup {Len(s) + 1}
    BY <1>1, <1>x, <1>4 DEF Marked
  <2> QED
    BY <2>1, <1>2, <1>3, <1>4, FS_AddElement DEF Inserted, t
<1>5. CASE x \notin Delivery!Inserts
  <2>1. Marked(t) = Marked(s)
    BY <1>1, <1>x, <1>5 DEF Marked
  <2> QED
    BY <2>1, <1>2, <1>5 DEF Inserted, t
<1> QED
  BY <1>4, <1>5

\* A handled key does not count any more.
LEMMA InsertedTail ==
    ASSUME NEW S, NEW s \in Seq(S), s # << >>
    PROVE  Inserted(Tail(s)) + Weight(Head(s)) <= Inserted(s)
<1> DEFINE t == Tail(s)
           f == [i \in Marked(t) |-> i + 1]
           M == Marked(s) \ {1}
<1>1. /\ t \in Seq(S) /\ DOMAIN s = 1..Len(s) /\ Len(s) \in Nat /\ Len(s) >= 1
      /\ DOMAIN t = 1..(Len(s) - 1) /\ s[1] = Head(s)
      /\ \A i \in 1..(Len(s) - 1) : t[i] = s[i + 1]
  OBVIOUS
<1>2. /\ IsFiniteSet(Marked(s)) /\ Inserted(s) \in Nat
      /\ IsFiniteSet(Marked(t)) /\ Inserted(t) \in Nat
  BY <1>1, InsertedType
<1>3. IsFiniteSet(M) /\ Cardinality(M) = IF 1 \in Marked(s) THEN Inserted(s) - 1 ELSE Inserted(s)
  BY <1>2, FS_RemoveElement DEF Inserted
<1> HIDE DEF t
<1>4. f \in Injection(Marked(t), M)
  <2>1. \A i \in Marked(t) : i \in Int /\ i + 1 \in M
    BY <1>1 DEF Marked
  <2>2. f \in [Marked(t) -> M]
    BY <2>1
  <2>3. \A i, j \in Marked(t) : f[i] = f[j] => i = j
    BY <2>1
  <2> QED
    BY <2>2, <2>3 DEF Injection, IsInjective
<1> HIDE DEF f
<1>5. Cardinality(Marked(t)) <= Cardinality(M)
  BY <1>3, <1>4, FS_Injection
<1>6. 1 \in Marked(s) <=> Head(s) \in Delivery!Inserts
  BY <1>1 DEF Marked
<1> QED
  BY <1>2, <1>3, <1>5, <1>6 DEF Inserted, t

-----------------------------------------------------------------------------
\* Where nothing has been put in yet, and where the clipboard is ours.
Before == {"wake", "settle", "write", "select", "snapshot", "clear", "fill", "paste", "retype"}
Lent == {"clear", "fill", "paste", "pasted", "restore", "refill"}

\* As long as nobody else wrote to it, the clipboard is known to have been the user's.
ClipboardOwed ==
    /\ deliveryAt \in Lent =>
          /\ deliveryHeld.rev <= rev
          /\ IF rev = deliveryHeld.rev THEN deliveryHeld.content = own ELSE clip = own
    /\ deliveryAt \notin Lent \cup {"done"} => clip = own
    /\ Delivery!ClipboardKept

InsertedSoFar ==
    /\ Delivery!Insertions <= 1
    /\ deliveryAt \in Before => Delivery!Insertions = 0
    /\ deliveryAt \in {"restore", "refill"} /\ err \notin {"none", "SecureInput"} =>
          Delivery!Insertions = 0
    /\ deliveryAt \in {"type", "typed"} =>
          /\ left \in {<<"delete">>, <<"first", "second">>, <<"second">>, << >>}
          /\ left = <<"first", "second">> => Delivery!Insertions = 0
    /\ deliveryAt = "type" => left # << >>
    /\ Delivery!FailureKnown

DeliveryInv == Delivery!TypeOK /\ ClipboardOwed /\ InsertedSoFar

\* The module of a delivery counts as this one does.
LEMMA SameCount == ASSUME NEW S PROVE Delivery!Cardinality(S) = Cardinality(S)
BY DEF Delivery!Cardinality, Cardinality

\* What was put in is in the text already, or posted.
LEMMA InsertionsSum == Delivery!Insertions = Inserted(deliveryText) + Inserted(keys)
BY SameCount DEF Delivery!Insertions, Inserted, Marked

\* It changes only with one of the two.
LEMMA InsertionsKept ==
    ASSUME Delivery!TypeOK, UNCHANGED <<deliveryText, keys>>
    PROVE  Delivery!Insertions' = Delivery!Insertions
BY InsertionsSum DEF Delivery!Insertions

\* It is a number.
LEMMA InsertionsType ==
    ASSUME Delivery!TypeOK
    PROVE  Inserted(deliveryText) \in Nat /\ Inserted(keys) \in Nat /\ Delivery!Insertions \in Nat
<1>1. deliveryText \in Seq(Delivery!Pieces) /\ keys \in Seq(Presses)
  BY DEF Delivery!TypeOK
<1> QED
  BY <1>1, InsertedType, InsertionsSum

\* The revision of a step.
LEMMA RevisionType ==
    ASSUME DeliveryBounds, Delivery!TypeOK, NEW rule
    PROVE  /\ Delivery!Revision(rule) \in (Delivery!Errors \cup {"none"}) \ {"Accessibility"}
           /\ Delivery!Revision(rule) = "none" => deliveryText = <<"draft">> /\ blocked = "none"
           /\ \A e \in Delivery!Checked(rule) :
                 /\ e \in Delivery!Errors \cup {"none"}
                 /\ deliveryFaults + (IF e = "Accessibility" THEN 1 ELSE 0) \in 0..Mishaps
BY DEF DeliveryBounds, Delivery!TypeOK, Delivery!Revision, Delivery!Checked, Delivery!Errors,
   Delivery!Refusals

\* A piece that is put in replaces the draft, or goes behind what is there.
LEMMA InsertType ==
    ASSUME Delivery!TypeOK, NEW p \in Delivery!Pieces, Delivery!Insert(p)
    PROVE  /\ deliveryText' \in Seq(Delivery!Pieces)
           /\ Inserted(deliveryText)' <= Inserted(deliveryText) + Weight(p)
<1>1. deliveryText \in Seq(Delivery!Pieces) /\ Inserted(deliveryText) \in Nat
  BY InsertionsType DEF Delivery!TypeOK
<1>2. CASE deliveryText = <<"draft">>
  <2>1. deliveryText' = <<p>>
    BY <1>2 DEF Delivery!Insert
  <2>2. <<p>> \in Seq(Delivery!Pieces)
    OBVIOUS
  <2>3. Inserted(<<p>>) = Weight(p)
    BY InsertedOne
  <2> QED
    BY <2>1, <2>2, <2>3, <1>1 DEF Inserted, Marked
<1>3. CASE deliveryText # <<"draft">>
  <2>1. deliveryText' = Append(deliveryText, p)
    BY <1>3 DEF Delivery!Insert
  <2> QED
    BY <2>1, <1>1, InsertedAppend DEF Inserted, Marked
<1> QED
  BY <1>2, <1>3

\* Posting a key, and handling one.
LEMMA KeyPosted ==
    ASSUME Delivery!TypeOK, NEW key \in Presses,
           keys' = Append(keys, key), UNCHANGED deliveryText
    PROVE  Delivery!Insertions' = Delivery!Insertions + Weight(key)
<1>1. keys \in Seq(Presses)
  BY DEF Delivery!TypeOK
<1>2. Inserted(Append(keys, key)) = Inserted(keys) + Weight(key)
  BY <1>1, InsertedAppend
<1>3. /\ Inserted(keys)' = Inserted(Append(keys, key))
      /\ Inserted(deliveryText)' = Inserted(deliveryText)
  BY DEF Inserted, Marked
<1>4. Delivery!Insertions' = Inserted(deliveryText)' + Inserted(keys)'
  BY SameCount DEF Delivery!Insertions, Inserted, Marked
<1> QED
  BY <1>2, <1>3, <1>4, InsertionsType, InsertionsSum

\* A sequence is not one that it was lengthened to.
LEMMA AppendLonger == ASSUME NEW S, NEW s \in Seq(S), NEW x PROVE Append(s, x) # s
<1>1. Len(Append(s, x)) = Len(s) + 1 /\ Len(s) \in Nat
  OBVIOUS
<1> QED
  BY <1>1

LEMMA KeyHandled ==
    ASSUME Delivery!TypeOK, Delivery!Handle
    PROVE  Delivery!Insertions' <= Delivery!Insertions
<1>1. /\ keys \in Seq(Presses) /\ keys # << >>
      /\ keys' = Tail(keys) /\ Delivery!Handled(Head(keys))
  BY DEF Delivery!Handle, Delivery!TypeOK
<1>2. Inserted(keys)' + Weight(Head(keys)) <= Inserted(keys)
  <2>1. Inserted(keys)' = Inserted(Tail(keys))
    BY <1>1 DEF Inserted, Marked
  <2> QED
    BY <2>1, <1>1, InsertedTail
<1>3. /\ Head(keys) \in Presses
      /\ Tail(keys) \in Seq(Presses)
  BY <1>1
<1>4. Inserted(deliveryText)' <= Inserted(deliveryText) + Weight(Head(keys))
  <2>0. Inserted(deliveryText) \in Nat /\ clip \in Delivery!Clips
    BY InsertionsType DEF Delivery!TypeOK
  <2>1. CASE UNCHANGED deliveryText
    <3>1. Inserted(deliveryText)' = Inserted(deliveryText)
      BY <2>1 DEF Inserted, Marked
    <3> QED
      BY <2>0, <3>1
  <2>2. CASE Head(keys) = "paste" /\ clip # "empty" /\ Delivery!Insert(clip)
    <3>1. PICK p \in Delivery!Pieces : p = clip
      BY <2>0, <2>2 DEF Delivery!Clips, Delivery!Pieces
    <3>2. Inserted(deliveryText)' <= Inserted(deliveryText) + Weight(p)
      BY <2>2, <3>1, InsertType
    <3>3. p \in Delivery!Inserts /\ Head(keys) \in Delivery!Inserts
      BY <2>0, <2>2, <3>1 DEF Delivery!Clips, Delivery!Inserts
    <3> QED
      BY <3>2, <3>3
  <2>3. CASE deliveryText' = << >>
    <3>1. Inserted(deliveryText)' = 0
      BY <2>3, InsertedEmpty DEF Inserted, Marked
    <3> QED
      BY <2>0, <3>1
  <2>4. CASE Head(keys) \in {"first", "second"} /\ Delivery!Insert(Head(keys))
    BY <2>4, InsertType DEF Delivery!Pieces
  <2> QED
    BY <1>1, <1>3, <2>1, <2>2, <2>3, <2>4 DEF Delivery!Handled
<1>5. Delivery!Insertions' = Inserted(deliveryText)' + Inserted(keys)'
  BY SameCount DEF Delivery!Insertions, Inserted, Marked
<1>6. Inserted(keys)' \in Nat /\ Inserted(deliveryText)' \in Nat
  <2>1. Inserted(Tail(keys)) \in Nat
    BY <1>3, InsertedType
  <2>2. /\ clip \in Delivery!Clips
        /\ deliveryText \in Seq(Delivery!Pieces) /\ << >> \in Seq(Delivery!Pieces)
    BY DEF Delivery!TypeOK
  <2>3. clip # "empty" => clip \in Delivery!Pieces
    BY <2>2 DEF Delivery!Clips, Delivery!Pieces
  <2>4. deliveryText' \in Seq(Delivery!Pieces)
    BY <1>1, <1>3, <2>2, <2>3, InsertType DEF Delivery!Handled, Delivery!Pieces
  <2>5. Inserted(deliveryText') \in Nat
    BY <2>4, InsertedType
  <2> QED
    BY <1>1, <2>1, <2>5 DEF Inserted, Marked
<1> QED
  BY <1>2, <1>4, <1>5, <1>6, InsertionsType, InsertionsSum

-----------------------------------------------------------------------------
\* The types, by what a step may change.
StepTypes ==
    /\ deliveryAt' \in Delivery!Steps /\ stage' \in {"replace", "fallback"}
    /\ left' \in Seq(Typings) /\ err' \in Delivery!Errors \cup {"none"}
    /\ deliveryResult' \in Results /\ deliveryFaults' \in 0..Mishaps
FieldTypes ==
    /\ deliveryText' \in Seq(Delivery!Pieces) /\ keys' \in Seq(Presses)
    /\ deliveryFocus' \in Fronts
    /\ blocked' \in Delivery!Refusals \cup {"none"} /\ deliveryEvents' \in 0..Disturbances
BoardTypes ==
    /\ clip' \in Delivery!Clips /\ own' \in {"mine", "copy"} /\ rev' \in Nat
    /\ deliveryHeld' \in [content : Delivery!Clips, rev : Nat]

LEMMA DeliveryTyped ==
    ASSUME DeliveryBounds, Delivery!TypeOK, deliveryAt = "type" => left # << >>,
           [Delivery!Next]_Delivery!vars
    PROVE  Delivery!TypeOK'
<1>t. /\ UNCHANGED <<stage, left, err>> =>
            /\ stage' \in {"replace", "fallback"} /\ left' \in Seq(Typings)
            /\ err' \in Delivery!Errors \cup {"none"}
      /\ UNCHANGED <<deliveryText, keys>> =>
            deliveryText' \in Seq(Delivery!Pieces) /\ keys' \in Seq(Presses)
      /\ UNCHANGED <<deliveryFocus, blocked>> =>
            deliveryFocus' \in Fronts /\ blocked' \in Delivery!Refusals \cup {"none"}
      /\ UNCHANGED Delivery!board => BoardTypes
      /\ UNCHANGED deliveryEvents => deliveryEvents' \in 0..Disturbances
      /\ UNCHANGED deliveryFaults => deliveryFaults' \in 0..Mishaps
      /\ Delivery!Fault => deliveryFaults' \in 0..Mishaps
      /\ UNCHANGED <<deliveryAt, deliveryResult>> =>
            deliveryAt' \in Delivery!Steps /\ deliveryResult' \in Results
      /\ Delivery!UserActs => deliveryEvents' \in 0..Disturbances
  BY DEF Delivery!UserActs, Delivery!TypeOK, BoardTypes, Delivery!board, Delivery!Fault,
     DeliveryBounds
<1>r. \A rule : /\ Delivery!Revision(rule) \in Delivery!Errors \cup {"none"}
                /\ \A e \in Delivery!Checked(rule) :
                      /\ e \in Delivery!Errors \cup {"none"}
                      /\ deliveryFaults + (IF e = "Accessibility" THEN 1 ELSE 0) \in 0..Mishaps
  BY RevisionType
<1>f. deliveryFocus \in Fronts /\ blocked \in Delivery!Refusals \cup {"none"}
  BY DEF Delivery!TypeOK
<1>x. \A p \in Delivery!Pieces : Delivery!Insert(p) => deliveryText' \in Seq(Delivery!Pieces)
  BY InsertType
<1>g. /\ \A step \in Delivery!Steps :
            Delivery!Goto(step) => deliveryAt' \in Delivery!Steps /\ deliveryResult' \in Results
      /\ \A r \in Results :
            Delivery!Return(r) => deliveryAt' \in Delivery!Steps /\ deliveryResult' \in Results
  BY DEF Delivery!TypeOK, Delivery!Goto, Delivery!Return, Delivery!Steps
<1> SUFFICES UNCHANGED Delivery!field /\ StepTypes /\ FieldTypes /\ BoardTypes
  BY DEF Delivery!TypeOK, Delivery!field, StepTypes, FieldTypes, BoardTypes
<1>1. CASE Delivery!Wake
  BY <1>1, <1>t, <1>r, <1>g, <1>f DEF Delivery!Wake, Delivery!Count, StepTypes, FieldTypes,
     Delivery!Steps
<1>2. CASE Delivery!Settle
  BY <1>2, <1>t, <1>r, <1>g DEF Delivery!Settle, StepTypes, FieldTypes, Delivery!Steps
<1>3. CASE Delivery!Write
  <2>1. /\ deliveryText \in Seq(Delivery!Pieces)
        /\ <<"answer">> \in Seq(Delivery!Pieces) /\ << >> \in Seq(Delivery!Pieces)
    BY DEF Delivery!TypeOK, Delivery!Pieces
  <2>2. deliveryText' \in Seq(Delivery!Pieces) /\ deliveryFaults' \in 0..Mishaps
    BY <1>3, <1>t, <2>1 DEF Delivery!Write
  <2>3. /\ deliveryAt' \in Delivery!Steps /\ deliveryResult' \in Results
        /\ stage' \in {"replace", "fallback"}
    BY <1>3, <1>t, <1>r, <1>g DEF Delivery!Write, Delivery!Steps, Delivery!Errors, Delivery!TypeOK
  <2> QED
    BY <1>3, <1>t, <2>2, <2>3 DEF Delivery!Write, StepTypes, FieldTypes, Delivery!TypeOK
<1>4. CASE Delivery!Select
  BY <1>4, <1>t, <1>r, <1>g DEF Delivery!Select, Delivery!Count, StepTypes, FieldTypes,
     Delivery!Steps, Delivery!Errors
<1>5. CASE Delivery!Snapshot
  BY <1>5, <1>t, <1>r, <1>g DEF Delivery!Snapshot, StepTypes, FieldTypes, Delivery!Steps,
     Delivery!Errors, BoardTypes, Delivery!TypeOK
<1>6. CASE Delivery!Clear
  BY <1>6, <1>t, <1>r, <1>g DEF Delivery!Clear, Delivery!Emptied, StepTypes, FieldTypes,
     Delivery!Steps, Delivery!Errors, BoardTypes, Delivery!TypeOK, Delivery!Clips
<1>7. CASE Delivery!Fill
  BY <1>7, <1>t, <1>r, <1>g DEF Delivery!Fill, StepTypes, FieldTypes, Delivery!Steps,
     Delivery!Errors, BoardTypes, Delivery!TypeOK, Delivery!Clips
<1>8. CASE Delivery!Paste
  <2>1. keys' \in Seq(Presses)
    <3>1. keys \in Seq(Presses)
          /\ Append(keys, "paste") \in Seq(Presses)
      BY DEF Delivery!TypeOK
    <3>2. keys' = keys \/ keys' = Append(keys, "paste")
      BY <1>8 DEF Delivery!Paste
    <3> QED
      BY <3>1, <3>2
  <2>2. err' \in Delivery!Errors \cup {"none"} /\ deliveryFaults' \in 0..Mishaps
    BY <1>8, <1>t, <1>r DEF Delivery!Paste, Delivery!Errors, Delivery!TypeOK
  <2>3. deliveryAt' \in Delivery!Steps /\ deliveryResult' \in Results
    BY <1>8, <1>g DEF Delivery!Paste, Delivery!Steps, Delivery!Errors
  <2> QED
    BY <1>8, <1>t, <2>1, <2>2, <2>3 DEF Delivery!Paste, StepTypes, FieldTypes, Delivery!TypeOK
<1>9. CASE Delivery!Pasted
  <2>1. err' \in Delivery!Errors \cup {"none"}
    BY <1>9 DEF Delivery!Pasted, Delivery!Errors, Delivery!Refusals
  <2>2. deliveryAt' \in Delivery!Steps /\ deliveryResult' \in Results
    BY <1>9, <1>g DEF Delivery!Pasted, Delivery!Steps
  <2> QED
    BY <1>9, <1>t, <2>1, <2>2 DEF Delivery!Pasted, StepTypes, FieldTypes, Delivery!TypeOK
<1>10. CASE Delivery!Restore
  BY <1>10, <1>t, <1>r, <1>g DEF Delivery!Restore, Delivery!Emptied, StepTypes, FieldTypes,
     Delivery!Steps, Delivery!Errors, BoardTypes, Delivery!TypeOK, Delivery!Clips
<1>11. CASE Delivery!Refill
  BY <1>11, <1>t, <1>r, <1>g DEF Delivery!Refill, Delivery!AfterPaste, StepTypes, FieldTypes,
     Delivery!Steps, Delivery!Errors, BoardTypes, Delivery!TypeOK
<1>12. CASE Delivery!Retype
  <2>1. Delivery!Chunks \in Seq(Typings) /\ left \in Seq(Typings)
    <3>1. left \in Seq(Typings)
      BY DEF Delivery!TypeOK
    <3>2. <<"delete">> \in Seq(Typings)
          /\ <<"first", "second">> \in Seq(Typings)
      OBVIOUS
    <3> QED
      BY <3>1, <3>2 DEF Delivery!Chunks
  <2>2. deliveryAt' \in Delivery!Steps /\ deliveryResult' \in Results
    BY <1>12, <1>r, <1>g DEF Delivery!Retype, Delivery!Steps
  <2> QED
    BY <1>12, <1>t, <2>1, <2>2 DEF Delivery!Retype, StepTypes, FieldTypes, Delivery!TypeOK
<1>13. CASE Delivery!Type
  <2>1. CASE left = << >>
    BY <1>13, <2>1 DEF Delivery!Type
  <2>2. CASE left # << >>
    <3>1. Head(left) \in {"first", "second", "delete"}
          /\ Tail(left) \in Seq(Typings)
          /\ left \in Seq(Typings)
      BY <2>2 DEF Delivery!TypeOK
    <3>2. keys' \in Seq(Presses)
          /\ left' \in Seq(Typings)
      <4>1. keys \in Seq(Presses)
        BY DEF Delivery!TypeOK
      <4>2. Append(keys, Head(left)) \in Seq(Presses)
        BY <4>1, <3>1
      <4>3. \/ keys' = keys /\ left' = left
            \/ keys' = Append(keys, Head(left)) /\ left' = Tail(left)
        BY <1>13 DEF Delivery!Type
      <4> QED
        BY <4>1, <4>2, <4>3, <3>1
    <3>3. /\ deliveryAt' \in Delivery!Steps
          /\ deliveryResult' \in Results /\ deliveryFaults' \in 0..Mishaps
      BY <1>13, <1>t, <1>g, <1>f DEF Delivery!Type, Delivery!Steps, Delivery!Errors,
         Delivery!Refusals
    <3> QED
      BY <1>13, <1>t, <3>2, <3>3 DEF Delivery!Type, StepTypes, FieldTypes, Delivery!TypeOK
  <2> QED
    BY <2>1, <2>2
<1>14. CASE Delivery!Typed
  BY <1>14, <1>t, <1>r, <1>g DEF Delivery!Typed, StepTypes, FieldTypes, Delivery!Steps,
     Delivery!Errors, Delivery!Refusals
<1>15. CASE Delivery!Confirm
  BY <1>15, <1>t, <1>r, <1>g DEF Delivery!Confirm, StepTypes, FieldTypes, Delivery!Steps,
     Delivery!Errors, Delivery!TypeOK
<1>16. CASE Delivery!Handle
  <2>1. /\ Head(keys) \in Presses
        /\ Tail(keys) \in Seq(Presses)
    BY <1>16 DEF Delivery!Handle, Delivery!TypeOK
  <2>2. deliveryText' \in Seq(Delivery!Pieces)
    <3>1. /\ clip \in Delivery!Clips
          /\ deliveryText \in Seq(Delivery!Pieces) /\ << >> \in Seq(Delivery!Pieces)
      BY DEF Delivery!TypeOK
    <3>2. clip # "empty" => clip \in Delivery!Pieces
      BY <3>1 DEF Delivery!Clips, Delivery!Pieces
    <3> QED
      BY <1>16, <1>x, <2>1, <3>1, <3>2 DEF Delivery!Handle, Delivery!Handled, Delivery!Pieces
  <2> QED
    BY <1>16, <1>t, <2>1, <2>2 DEF Delivery!Handle, StepTypes, FieldTypes, Delivery!TypeOK
<1>17. CASE Delivery!UserTypes
  <2>1. deliveryText' \in Seq(Delivery!Pieces)
    BY <1>17, <1>x DEF Delivery!UserTypes, Delivery!Pieces
  <2> QED
    BY <1>17, <1>t, <2>1 DEF Delivery!UserTypes, Delivery!UserActs, StepTypes, FieldTypes,
       Delivery!TypeOK, BoardTypes
<1>18. CASE Delivery!UserSwitches
  BY <1>18, <1>t DEF Delivery!UserSwitches, Delivery!UserActs, StepTypes, FieldTypes,
     Delivery!TypeOK, BoardTypes
<1>19. CASE Delivery!UserCopies
  BY <1>19, <1>t DEF Delivery!UserCopies, Delivery!UserActs, StepTypes, FieldTypes,
     Delivery!TypeOK, BoardTypes, Delivery!Clips
<1>20. CASE Delivery!SafetyChanges
  BY <1>20, <1>t DEF Delivery!SafetyChanges, Delivery!UserActs, StepTypes, FieldTypes,
     Delivery!TypeOK, BoardTypes
<1>21. CASE UNCHANGED Delivery!vars
  BY <1>21, <1>t DEF Delivery!vars, Delivery!board, Delivery!field, StepTypes, FieldTypes,
     Delivery!TypeOK
<1> QED
  BY <1>1, <1>2, <1>3, <1>4, <1>5, <1>6, <1>7, <1>8, <1>9, <1>10, <1>11, <1>12, <1>13, <1>14,
     <1>15, <1>16, <1>17, <1>18, <1>19, <1>20, <1>21 DEF Delivery!Next

\* The clipboard.
LEMMA DeliveryOwes ==
    ASSUME DeliveryBounds, Delivery!TypeOK, ClipboardOwed, [Delivery!Next]_Delivery!vars
    PROVE  ClipboardOwed'
<1>t. /\ rev \in Nat
      /\ deliveryHeld \in [content : Delivery!Clips, rev : Nat] /\ deliveryHeld.rev \in Nat
  BY DEF Delivery!TypeOK
<1>1. CASE UNCHANGED Delivery!board /\ UNCHANGED <<deliveryAt, deliveryResult>>
  BY <1>1 DEF ClipboardOwed, Delivery!ClipboardKept, Delivery!board, Lent
<1>12. CASE /\ UNCHANGED Delivery!board
            /\ deliveryAt \notin Lent \cup {"done"} /\ deliveryAt' \notin Lent
  BY <1>12 DEF ClipboardOwed, Delivery!ClipboardKept, Delivery!board, Lent
<1>2. CASE Delivery!Wake \/ Delivery!Settle \/ Delivery!Write \/ Delivery!Select
  <2>1. /\ UNCHANGED Delivery!board
        /\ deliveryAt \notin Lent \cup {"done"} /\ deliveryAt' \notin Lent
    BY <1>2 DEF Delivery!Wake, Delivery!Settle, Delivery!Write, Delivery!Select, Delivery!Goto,
       Delivery!Return, Lent
  <2> QED
    BY <2>1, <1>12
<1>3. CASE Delivery!Retype \/ Delivery!Type \/ Delivery!Typed \/ Delivery!Confirm
  <2>1. /\ UNCHANGED Delivery!board
        /\ deliveryAt \notin Lent \cup {"done"} /\ deliveryAt' \notin Lent
    BY <1>3 DEF Delivery!Retype, Delivery!Type, Delivery!Typed, Delivery!Confirm, Delivery!Goto,
       Delivery!Return, Lent
  <2> QED
    BY <2>1, <1>12
<1>4. CASE \/ Delivery!Handle
           \/ Delivery!UserTypes \/ Delivery!UserSwitches \/ Delivery!SafetyChanges
           \/ UNCHANGED Delivery!vars
  <2>1. UNCHANGED Delivery!board /\ UNCHANGED <<deliveryAt, deliveryResult>>
    BY <1>4 DEF Delivery!Handle, Delivery!UserTypes, Delivery!UserSwitches,
       Delivery!SafetyChanges, Delivery!UserActs, Delivery!vars, Delivery!board
  <2> QED
    BY <2>1, <1>1
<1>5. CASE Delivery!UserCopies
  BY <1>5, <1>t DEF Delivery!UserCopies, Delivery!UserActs, ClipboardOwed,
     Delivery!ClipboardKept, Lent
<1>6. CASE Delivery!Snapshot
  BY <1>6, <1>t DEF Delivery!Snapshot, Delivery!Goto, Delivery!Return, ClipboardOwed,
     Delivery!ClipboardKept, Lent
<1>7. CASE Delivery!Clear
  <2>1. CASE Delivery!Ours
    <3>1. /\ deliveryAt = "clear" /\ deliveryAt' = "fill" /\ rev' = rev + 1 /\ own' = own
          /\ deliveryHeld' = [deliveryHeld EXCEPT !.rev = rev + 1]
      BY <1>7, <2>1 DEF Delivery!Clear, Delivery!Goto, Delivery!Emptied
    <3>2. deliveryHeld'.rev = rev + 1 /\ deliveryHeld'.content = deliveryHeld.content
      BY <3>1, <1>t
    <3>3. deliveryHeld.content = own
      BY <3>1, <2>1 DEF ClipboardOwed, Delivery!Ours, Lent
    <3> QED
      BY <3>1, <3>2, <3>3, <1>t DEF ClipboardOwed, Delivery!ClipboardKept, Lent
  <2>2. CASE ~Delivery!Ours
    BY <1>7, <2>2 DEF Delivery!Clear, Delivery!Ours, Delivery!Return, ClipboardOwed,
       Delivery!ClipboardKept, Lent
  <2> QED
    BY <2>1, <2>2
<1>8. CASE Delivery!Fill
  BY <1>8, <1>t DEF Delivery!Fill, Delivery!Ours, Delivery!Goto, Delivery!Return, ClipboardOwed,
     Delivery!ClipboardKept, Lent
<1>9. CASE Delivery!Paste \/ Delivery!Pasted
  <2>1. UNCHANGED Delivery!board /\ deliveryAt \in {"paste", "pasted"}
        /\ (deliveryAt' \in {"pasted", "restore"} \/ (deliveryAt' = "done" /\ ~Delivery!Ours))
    BY <1>9 DEF Delivery!Paste, Delivery!Pasted, Delivery!Goto, Delivery!Return
  <2> QED
    BY <2>1 DEF Delivery!board, Delivery!Ours, ClipboardOwed, Delivery!ClipboardKept, Lent
<1>10. CASE Delivery!Restore
  <2>1. CASE Delivery!Ours /\ Delivery!Emptied /\ Delivery!Goto("refill")
    <3>1. /\ deliveryAt = "restore" /\ deliveryAt' = "refill" /\ rev' = rev + 1 /\ own' = own
          /\ deliveryHeld' = [deliveryHeld EXCEPT !.rev = rev + 1]
      BY <1>10, <2>1 DEF Delivery!Restore, Delivery!Goto, Delivery!Emptied
    <3>2. deliveryHeld'.rev = rev + 1 /\ deliveryHeld'.content = deliveryHeld.content
      BY <3>1, <1>t
    <3>3. deliveryHeld.content = own
      BY <3>1, <2>1 DEF ClipboardOwed, Delivery!Ours, Lent
    <3> QED
      BY <3>1, <3>2, <3>3, <1>t DEF ClipboardOwed, Delivery!ClipboardKept, Lent
  <2>2. CASE /\ ~Delivery!Ours
             /\ Delivery!Return("ClipboardChanged") /\ UNCHANGED <<clip, rev, deliveryHeld>>
    BY <1>10, <2>2 DEF Delivery!Restore, Delivery!Ours, Delivery!Return, ClipboardOwed,
       Delivery!ClipboardKept, Lent
  <2>3. CASE Delivery!Return("ClipboardRestore")
    BY <2>3 DEF Delivery!Return, ClipboardOwed, Delivery!ClipboardKept, Lent
  <2> QED
    BY <1>10, <2>1, <2>2, <2>3 DEF Delivery!Restore
<1>11. CASE Delivery!Refill
  <2>1. CASE ~Delivery!Ours /\ Delivery!Return("ClipboardChanged") /\ UNCHANGED clip
    BY <1>11, <2>1 DEF Delivery!Refill, Delivery!Ours, Delivery!Return, ClipboardOwed,
       Delivery!ClipboardKept, Lent
  <2>2. CASE Delivery!Ours /\ Delivery!AfterPaste /\ clip' = deliveryHeld.content
    <3>1. deliveryAt' \in {"confirm", "retype", "done"}
      BY <2>2 DEF Delivery!AfterPaste, Delivery!Goto, Delivery!Return
    <3> QED
      BY <1>11, <2>2, <3>1 DEF Delivery!Refill, Delivery!Ours, ClipboardOwed,
         Delivery!ClipboardKept, Lent
  <2>3. CASE Delivery!Return("ClipboardRestore")
    BY <2>3 DEF Delivery!Return, ClipboardOwed, Delivery!ClipboardKept, Lent
  <2> QED
    BY <1>11, <2>1, <2>2, <2>3 DEF Delivery!Refill
<1> QED
  BY <1>2, <1>3, <1>4, <1>5, <1>6, <1>7, <1>8, <1>9, <1>10, <1>11 DEF Delivery!Next

\* The text.
LEMMA DeliveryInserts ==
    ASSUME DeliveryBounds, Delivery!TypeOK, InsertedSoFar, [Delivery!Next]_Delivery!vars
    PROVE  InsertedSoFar'
<1>t. /\ Inserted(deliveryText) \in Nat /\ Inserted(keys) \in Nat /\ Delivery!Insertions \in Nat
      /\ Delivery!Insertions = Inserted(deliveryText) + Inserted(keys)
  BY InsertionsType, InsertionsSum
<1>s. Delivery!Insertions' = Inserted(deliveryText)' + Inserted(keys)'
  BY SameCount DEF Delivery!Insertions, Inserted, Marked
<1>i. Delivery!Insertions' \in Nat /\ Inserted(deliveryText)' \in Nat /\ Inserted(keys)' \in Nat
  <2>1. Delivery!TypeOK'
    BY DeliveryTyped DEF InsertedSoFar
  <2>2. deliveryText' \in Seq(Delivery!Pieces) /\ keys' \in Seq(Presses)
    BY <2>1 DEF Delivery!TypeOK
  <2>3. Inserted(deliveryText)' \in Nat /\ Inserted(keys)' \in Nat
    <3>1. Inserted(deliveryText') \in Nat /\ Inserted(keys') \in Nat
      BY <2>2, InsertedType
    <3> QED
      BY <3>1 DEF Inserted, Marked
  <2> QED
    BY <2>3, <1>s
<1>k. UNCHANGED <<deliveryText, keys>> => Delivery!Insertions' = Delivery!Insertions
  BY InsertionsKept
<1>1. CASE Delivery!Wake \/ Delivery!Settle \/ Delivery!Select \/ Delivery!Retype
  <2>1. Delivery!Insertions = 0 /\ Delivery!Insertions' = 0
    BY <1>1, <1>k DEF Delivery!Wake, Delivery!Settle, Delivery!Select, Delivery!Retype,
       InsertedSoFar, Before
  <2>2. /\ deliveryAt' \in Before \cup {"done", "type"}
        /\ deliveryAt' = "type" => left' \in {<<"delete">>, <<"first", "second">>}
    BY <1>1 DEF Delivery!Wake, Delivery!Settle, Delivery!Select, Delivery!Retype,
       Delivery!Chunks, Delivery!Goto, Delivery!Return, Before
  <2> QED
    BY <2>1, <2>2 DEF InsertedSoFar, Before, Delivery!FailureKnown
<1>2. CASE Delivery!Write
  <2>1. CASE UNCHANGED deliveryText
    <3>1. Delivery!Insertions' = 0
      BY <1>2, <2>1, <1>k DEF Delivery!Write, InsertedSoFar, Before
    <3>2. deliveryAt' \in {"wake", "done", "confirm"}
      BY <1>2 DEF Delivery!Write, Delivery!Goto, Delivery!Return
    <3> QED
      BY <3>1, <3>2 DEF InsertedSoFar, Before, Delivery!FailureKnown
  <2>2. CASE ~UNCHANGED deliveryText
    <3>1. /\ UNCHANGED keys /\ deliveryText' \in {<< >>, <<"answer">>}
          /\ deliveryAt' = "confirm" \/ (deliveryAt' = "done" /\ deliveryResult' = "Accessibility")
      BY <1>2, <2>2 DEF Delivery!Write, Delivery!Goto, Delivery!Return
    <3>2. Inserted(keys) = 0
      BY <1>2, <1>t DEF Delivery!Write, InsertedSoFar, Before
    <3>3. Inserted(<<"answer">>) <= 1 /\ Inserted(<< >>) <= 1
      BY InsertedEmpty, InsertedOne
    <3>4. Delivery!Insertions' <= 1
      <4>1. Inserted(deliveryText') <= 1 /\ Inserted(keys') = 0
        BY <3>1, <3>2, <3>3
      <4>2. Inserted(deliveryText') = Inserted(deliveryText)' /\ Inserted(keys') = Inserted(keys)'
        BY DEF Inserted, Marked
      <4>3. Inserted(deliveryText') \in Nat
        BY <3>1, InsertedEmpty, InsertedOne
      <4> QED
        BY <4>1, <4>2, <4>3, <1>s
    <3> QED
      BY <3>1, <3>4 DEF InsertedSoFar, Before, Delivery!FailureKnown, Delivery!Uncertain
  <2> QED
    BY <2>1, <2>2
<1>3. CASE Delivery!Snapshot \/ Delivery!Clear \/ Delivery!Fill
  <2>1. Delivery!Insertions = 0 /\ Delivery!Insertions' = 0
    BY <1>3, <1>k DEF Delivery!Snapshot, Delivery!Clear, Delivery!Fill, InsertedSoFar, Before
  <2>2. deliveryAt' \in {"clear", "fill", "paste", "restore", "retype", "done"}
    BY <1>3 DEF Delivery!Snapshot, Delivery!Clear, Delivery!Fill, Delivery!Goto, Delivery!Return
  <2> QED
    BY <2>1, <2>2 DEF InsertedSoFar, Before, Delivery!FailureKnown
<1>4. CASE Delivery!Paste
  <2>1. Delivery!Insertions = 0
    BY <1>4 DEF Delivery!Paste, InsertedSoFar, Before
  <2>2. CASE UNCHANGED keys
    <3>1. Delivery!Insertions' = 0
      BY <1>4, <2>1, <2>2, <1>k DEF Delivery!Paste
    <3>2. deliveryAt' \in {"restore", "done", "pasted"}
      BY <1>4 DEF Delivery!Paste, Delivery!Goto, Delivery!Return
    <3> QED
      BY <3>1, <3>2 DEF InsertedSoFar, Before, Delivery!FailureKnown
  <2>3. CASE ~UNCHANGED keys
    <3>1. deliveryAt' = "pasted" /\ keys' = Append(keys, "paste") /\ UNCHANGED deliveryText
      BY <1>4, <2>3 DEF Delivery!Paste, Delivery!Goto
    <3>2. Delivery!Insertions' <= 1
      BY <3>1, <2>1, <1>t, <1>s, KeyPosted DEF Delivery!Inserts
    <3> QED
      BY <3>1, <3>2 DEF InsertedSoFar, Before, Delivery!FailureKnown
  <2> QED
    BY <2>2, <2>3
<1>5. CASE Delivery!Pasted \/ Delivery!Restore
  <2>1. Delivery!Insertions' = Delivery!Insertions /\ Delivery!Insertions <= 1
    BY <1>5, <1>k DEF Delivery!Pasted, Delivery!Restore, InsertedSoFar
  <2>2. \/ deliveryAt' = "restore" /\ err' \in {"none", "SecureInput"}
        \/ deliveryAt = "restore" /\ deliveryAt' = "refill" /\ err' = err
        \/ deliveryAt' = "done" /\ deliveryResult' \in Delivery!Uncertain
    BY <1>5 DEF Delivery!Pasted, Delivery!Restore, Delivery!Goto, Delivery!Return,
       Delivery!Uncertain
  <2> QED
    BY <2>1, <2>2 DEF InsertedSoFar, Before, Delivery!FailureKnown
<1>6. CASE Delivery!Refill
  <2>1. Delivery!Insertions' = Delivery!Insertions /\ Delivery!Insertions <= 1
    BY <1>6, <1>k DEF Delivery!Refill, InsertedSoFar
  <2>2. \/ deliveryAt' = "confirm"
        \/ deliveryAt' = "retype" /\ err \in {"ClipboardWrite", "InputInjection"}
        \/ deliveryAt' = "done" /\ deliveryResult' \in Delivery!Uncertain
        \/ deliveryAt' = "done" /\ deliveryResult' = err /\ err # "none"
    BY <1>6 DEF Delivery!Refill, Delivery!AfterPaste, Delivery!Goto, Delivery!Return,
       Delivery!Uncertain
  <2>3. deliveryAt = "refill" /\ (err \notin {"none", "SecureInput"} => Delivery!Insertions = 0)
    BY <1>6 DEF Delivery!Refill, InsertedSoFar
  <2> QED
    BY <2>1, <2>2, <2>3 DEF InsertedSoFar, Before, Delivery!FailureKnown, Delivery!Uncertain
<1>7. CASE Delivery!Type
  <2>1. CASE UNCHANGED keys
    <3>1. Delivery!Insertions' = Delivery!Insertions /\ Delivery!Insertions <= 1
      BY <1>7, <2>1, <1>k DEF Delivery!Type, InsertedSoFar
    <3>2. deliveryAt' = "done" /\ deliveryResult' \in Delivery!Uncertain
      BY <1>7, <2>1, AppendLonger DEF Delivery!Type, Delivery!Return, Delivery!Uncertain,
         Delivery!TypeOK
    <3> QED
      BY <3>1, <3>2 DEF InsertedSoFar, Before, Delivery!FailureKnown
  <2>2. CASE ~UNCHANGED keys
    <3>1. /\ deliveryAt' = "typed"
          /\ keys' = Append(keys, Head(left)) /\ left' = Tail(left) /\ UNCHANGED deliveryText
      BY <1>7, <2>2 DEF Delivery!Type, Delivery!Goto
    <3>2. /\ left \in {<<"delete">>, <<"first", "second">>, <<"second">>}
          /\ left = <<"first", "second">> => Delivery!Insertions = 0
      BY <1>7 DEF Delivery!Type, InsertedSoFar
    <3>3. /\ left' \in {<<"second">>, << >>} /\ left' # <<"first", "second">>
          /\ Head(left) \in Presses
          /\ Head(left) \in Delivery!Inserts => left = <<"first", "second">>
      <4>1. /\ Head(<<"delete">>) = "delete" /\ Tail(<<"delete">>) = << >>
            /\ Head(<<"second">>) = "second" /\ Tail(<<"second">>) = << >>
            /\ Head(<<"first", "second">>) = "first" /\ Tail(<<"first", "second">>) = <<"second">>
            /\ << >> # <<"first", "second">> /\ <<"second">> # <<"first", "second">>
        OBVIOUS
      <4>2. CASE left = <<"delete">>
        BY <3>1, <4>1, <4>2 DEF Delivery!Inserts
      <4>3. CASE left = <<"second">>
        BY <3>1, <4>1, <4>3 DEF Delivery!Inserts
      <4>4. CASE left = <<"first", "second">>
        BY <3>1, <4>1, <4>4 DEF Delivery!Inserts
      <4> QED
        BY <3>2, <4>2, <4>3, <4>4
    <3>4. Delivery!Insertions' <= 1
      <4>1. Delivery!Insertions' = Delivery!Insertions + Weight(Head(left))
        BY <3>1, <3>3, <1>s, KeyPosted
      <4>2. Delivery!Insertions \in Nat /\ Delivery!Insertions <= 1
        BY <1>t DEF InsertedSoFar
      <4> QED
        BY <4>1, <4>2, <3>2, <3>3
    <3> QED
      BY <3>1, <3>3, <3>4 DEF InsertedSoFar, Before, Delivery!FailureKnown
  <2> QED
    BY <2>1, <2>2
<1>8. CASE Delivery!Typed
  <2>1. Delivery!Insertions' = Delivery!Insertions /\ Delivery!Insertions <= 1
    BY <1>8, <1>k DEF Delivery!Typed, InsertedSoFar
  <2>2. \/ deliveryAt' = "confirm"
        \/ deliveryAt' = "done" /\ deliveryResult' \in Delivery!Uncertain
        \/ deliveryAt' = "type" /\ left # << >>
    <3>1. CASE blocked = "SecureInput"
      BY <1>8, <3>1 DEF Delivery!Typed, Delivery!Return, Delivery!Uncertain
    <3>2. CASE blocked # "SecureInput"
      BY <1>8, <3>2 DEF Delivery!Typed, Delivery!Goto
    <3> QED
      BY <3>1, <3>2
  <2> QED
    BY <2>1, <2>2, <1>8 DEF Delivery!Typed, InsertedSoFar, Before, Delivery!FailureKnown
<1>9. CASE Delivery!Confirm
  <2>1. Delivery!Insertions' = Delivery!Insertions /\ Delivery!Insertions <= 1
    BY <1>9, <1>k DEF Delivery!Confirm, InsertedSoFar
  <2>2. /\ deliveryAt' = "done"
        /\ deliveryResult' \in
              Delivery!Uncertain \cup {"ok", "PermissionDenied", "ProtectedContent"}
    BY <1>9 DEF Delivery!Confirm, Delivery!Return, Delivery!Uncertain, Delivery!TypeOK,
       Delivery!Refusals
  <2> QED
    BY <2>1, <2>2 DEF InsertedSoFar, Before, Delivery!FailureKnown
<1>10. CASE /\ UNCHANGED <<deliveryAt, left, err, deliveryResult>>
            /\ Delivery!Insertions' <= Delivery!Insertions
  BY <1>10, <1>t, <1>i DEF InsertedSoFar, Before, Delivery!FailureKnown
<1>11. CASE Delivery!Handle
  BY <1>11, <1>10, KeyHandled DEF Delivery!Handle
<1>12. CASE Delivery!UserTypes
  <2>1. Inserted(deliveryText)' <= Inserted(deliveryText)
    BY <1>12, <1>t, InsertType DEF Delivery!UserTypes, Delivery!Pieces, Delivery!Inserts
  <2>2. UNCHANGED <<deliveryAt, left, err, deliveryResult, keys>>
    BY <1>12 DEF Delivery!UserTypes, Delivery!UserActs
  <2>3. Inserted(keys)' = Inserted(keys)
    BY <2>2 DEF Inserted, Marked
  <2>4. Delivery!Insertions' <= Delivery!Insertions
    BY <2>1, <2>3, <1>t, <1>s, <1>i
  <2> QED
    BY <2>2, <2>4, <1>10
<1>13. CASE \/ Delivery!UserSwitches
            \/ Delivery!UserCopies \/ Delivery!SafetyChanges \/ UNCHANGED Delivery!vars
  <2>1. /\ UNCHANGED <<deliveryAt, left, err, deliveryResult>>
        /\ Delivery!Insertions' = Delivery!Insertions
    BY <1>13, <1>k DEF Delivery!UserSwitches, Delivery!UserCopies, Delivery!SafetyChanges,
       Delivery!UserActs, Delivery!vars
  <2> QED
    BY <2>1, <1>10, <1>t
<1> QED
  BY <1>1, <1>2, <1>3, <1>4, <1>5, <1>6, <1>7, <1>8, <1>9, <1>11, <1>12, <1>13 DEF Delivery!Next

\* A delivery starts with nothing put in and a clipboard nobody touched.
LEMMA DeliveryStarts == ASSUME DeliveryBounds, Delivery!Init PROVE DeliveryInv
<1>1. Delivery!TypeOK
  BY DEF DeliveryBounds, Delivery!Init, Delivery!TypeOK, Delivery!Steps, Delivery!Errors,
     Delivery!Pieces, Delivery!Clips
<1>2. ClipboardOwed
  BY DEF Delivery!Init, ClipboardOwed, Delivery!ClipboardKept, Lent
<1>3. InsertedSoFar
  <2>1. deliveryText = <<"draft">> /\ keys = << >> /\ deliveryAt = "wake"
    BY DEF Delivery!Init
  <2>2. Inserted(<<"draft">>) = 0
    BY InsertedOne DEF Delivery!Inserts
  <2>3. Delivery!Insertions = 0
    BY <2>1, <2>2, InsertedEmpty, InsertionsSum
  <2> QED
    BY <2>1, <2>3 DEF InsertedSoFar, Delivery!FailureKnown
<1> QED
  BY <1>1, <1>2, <1>3 DEF DeliveryInv

\* A delivery leaves the clipboard the user's or reports that it could not, puts the text in
\* at most once, and fails without a doubt only where nothing went in, whatever the user
\* does meanwhile and macOS refuses (with_temporary_text, restore; InlineSession::deliver).
THEOREM DeliveryIsSound == PartsSpec => []DeliverySound
<1>1. PartsInit => DeliveryInv
  BY DeliveryBounds, DeliveryStarts DEF PartsInit
<1>2. component = "delivery" /\ [Step]_allvars =>
        [Delivery!Next]_Delivery!vars /\ (component = "delivery")'
  BY DEF Step, allvars, deliveryVars, Delivery!vars
<1>3. ~(component = "delivery") /\ [Step]_allvars => (~(component = "delivery"))'
  BY DEF Step, allvars
<1>4. DeliveryInv /\ [Delivery!Next]_Delivery!vars => DeliveryInv'
  BY DeliveryBounds, DeliveryTyped, DeliveryOwes, DeliveryInserts
     DEF DeliveryInv, InsertedSoFar
<1>5. DeliveryInv => DeliverySound
  BY DEF DeliveryInv, ClipboardOwed, InsertedSoFar, Delivery!InsertedOnce, DeliverySound
<1>6. ~(component = "delivery") => DeliverySound
  BY DEF DeliverySound
<1> QED
  BY <1>1, <1>2, <1>3, <1>4, <1>5, <1>6, PTL DEF PartsSpec

-----------------------------------------------------------------------------
(***************************************************************************)
(* The macOS reader.                                                       *)
(***************************************************************************)
\* What the screen shows, item by item.
LEMMA ShownItems ==
    ASSUME NEW w, NEW x
    PROVE  /\ <<"title", w, x>> \in Reader!Shown <=> w \in Windows /\ x = Reader!Title(page[w])
           /\ <<"urls", w, x>> \in Reader!Shown <=> w \in Windows /\ x = Reader!Observed(page[w])
           /\ <<"undecided", w, x>> \in Reader!Shown <=>
                 w \in Windows /\ x = Reader!Undecided(page[w])
           /\ <<"secure", x>> \in Reader!Shown <=> x = readerSecure
BY DEF Reader!Shown

\* Where the title of the window is known, where its URLs are, and where they count; what
\* the capture holds that is not from a frame.
Titled == {"walk", "authorize", "fields", "read", "after", "confirm", "rewalk", "retitle"}
Walked == Titled \ {"walk"}
Walking == Walked \ {"retitle"}
Body == {t \in readerText : t.part # "frame"}

\* Where the reader is, and what it has found there.
ReaderPlaces ==
    /\ readerPc \in Titled \cup {"idle", "over", "window", "shallow"}
    /\ readerPc # "over" => outcome = Reader!None
    /\ readerPc \in {"window", "shallow", "walk"} => readerText = {}
    /\ readerPc \in Titled \cup {"shallow"} => window \in Windows
    /\ \A t \in readerText : t.window = window
\* What was decided before the text was read.
ReaderAimed ==
    /\ readerPc \in Titled \/ readerText # {} =>
          /\ title \notin {Reader!Title(q) : q \in TitleExcluded}
          /\ target # Reader!Any =>
                /\ target.process = Reader!Process(window) /\ target.title = title
                /\ target.id \in {Reader!None, window}
    /\ readerPc \in Walked \/ readerText # {} =>
          /\ \A i \in DOMAIN urls : urls[i] \notin HostExcluded
          /\ target # Reader!Any => Reader!Surface(window, urls)
\* As long as nothing came back: what the screen shows again, it showed all along.
ReaderSteady ==
    /\ readerPc # "idle" => Reader!Shown \subseteq past
    /\ ~returned /\ readerPc \notin {"idle", "over"} =>
          <<"secure", FALSE>> \in past /\ (~readerSecure => \A t \in readerText : ~t.secure)
    /\ ~returned /\ readerPc \in Titled =>
          /\ <<"title", window, title>> \in past
          /\ Reader!Title(page[window]) = title => \A t \in Body : Reader!Title(t.page) = title
    /\ ~returned /\ readerPc \in Walking =>
          /\ <<"urls", window, urls>> \in past
          /\ Reader!Observed(page[window]) = urls =>
                \A t \in Body : Reader!Observed(t.page) = urls
    /\ ~returned /\ readerPc \in Walking /\ Reader!NeedsUrl =>
          /\ <<"undecided", window, FALSE>> \in past
          /\ ~Reader!Undecided(page[window]) => \A t \in Body : ~Reader!Undecided(t.page)
    /\ ~returned /\ readerPc = "retitle" =>
          /\ urlsAgain = urls => \A t \in Body : Reader!Observed(t.page) = urls
          /\ Reader!NeedsUrl => \A t \in Body : ~Reader!Undecided(t.page)
    /\ Reader!Kept =>
          /\ \A t \in readerText : ~t.secure
          /\ \A t \in Body :
                /\ Reader!Title(t.page) = title /\ Reader!Observed(t.page) = urls
                /\ Reader!NeedsUrl => ~Reader!Undecided(t.page)

ReaderInv == Reader!TypeOK /\ ReaderPlaces /\ ReaderAimed /\ ReaderSteady

\* The screen moves; the reader takes one of its steps, or gives up.
ScreenMoves ==
    \/ Reader!Switch \/ Reader!Navigate \/ Reader!NavigateFrame
    \/ Reader!Refocus \/ Reader!Protect \/ Reader!Lock
Reads ==
    \/ Reader!FindWindow \/ Reader!ReadShallow \/ Reader!Walk \/ Reader!Authorize
    \/ Reader!BeforeFields \/ Reader!CopyText \/ Reader!AfterFields \/ Reader!Confirm
    \/ Reader!WalkAgain \/ Reader!Conclude \/ Reader!Fail

\* The types of the screen and of its past.
ScreenTyped ==
    /\ front \in Windows /\ page \in [Windows -> Pages] /\ frame \in Pages
    /\ readerFocus \in [Windows -> Elements \cup {Reader!None}]
    /\ readerSecure \in BOOLEAN /\ locked \in BOOLEAN
    /\ readerChanges \in 0..Glances /\ returned \in BOOLEAN

\* Every step keeps the types.
LEMMA ReaderTyped ==
    ASSUME ReaderBounds, Reader!TypeOK, ReaderPlaces, [Reader!Next]_Reader!vars
    PROVE  Reader!TypeOK'
<1>e. Len(Reader!Parts) = 3 /\ Reader!Parts[3] = "frame"
  BY DEF Reader!Parts
<1>u. UNCHANGED <<Reader!screen, Reader!seen>> => ScreenTyped'
  BY DEF Reader!TypeOK, Reader!screen, Reader!seen, ScreenTyped
<1>r. UNCHANGED Reader!reader =>
        /\ part' \in 1..Len(Reader!Parts) /\ target' \in Reader!Targets \cup {Reader!Any}
        /\ window' \in (Windows \ Own) \cup {Reader!None}
        /\ outcome' \in Reader!Outcomes \cup {Reader!None}
  BY DEF Reader!TypeOK, Reader!reader, Reader!found
<1>1. CASE ScreenMoves
  <2>1. Reader!Change
    BY <1>1 DEF ScreenMoves, Reader!Switch, Reader!Navigate, Reader!NavigateFrame,
       Reader!Refocus, Reader!Protect, Reader!Lock
  <2>2. readerChanges' \in 0..Glances /\ returned' \in BOOLEAN
    BY <2>1 DEF Reader!Change, Reader!TypeOK, ReaderBounds
  <2>3. Reader!Navigate => page' \in [Windows -> Pages]
    BY DEF Reader!Navigate, Reader!TypeOK
  <2>4. front' \in Windows /\ page' \in [Windows -> Pages] /\ frame' \in Pages
    BY <1>1, <2>3 DEF ScreenMoves, Reader!Switch, Reader!Navigate, Reader!NavigateFrame,
       Reader!Refocus, Reader!Protect, Reader!Lock, Reader!TypeOK
  <2>6. Reader!Refocus => readerFocus' \in [Windows -> Elements \cup {Reader!None}]
    BY DEF Reader!Refocus, Reader!TypeOK
  <2>5. /\ readerFocus' \in [Windows -> Elements \cup {Reader!None}]
        /\ readerSecure' \in BOOLEAN /\ locked' \in BOOLEAN
    BY <1>1, <2>6 DEF ScreenMoves, Reader!Switch, Reader!Navigate, Reader!NavigateFrame,
       Reader!Refocus, Reader!Protect, Reader!Lock, Reader!TypeOK
  <2> QED
    BY <1>r, <2>1, <2>2, <2>4, <2>5 DEF Reader!TypeOK, Reader!Change
<1>2. CASE Reader!Begin
  <2>1. ScreenTyped'
    <3>1. UNCHANGED Reader!screen /\ readerChanges' = 0 /\ returned' = FALSE /\ 0 \in 0..Glances
      BY <1>2 DEF Reader!Begin, ReaderBounds
    <3> QED
      BY <3>1 DEF Reader!screen, Reader!TypeOK, ScreenTyped
  <2>2. outcome' \in Reader!Outcomes \cup {Reader!None}
    BY <1>2 DEF Reader!Begin, Reader!Blocked, Reader!Outcomes
  <2>3. /\ part' \in 1..Len(Reader!Parts) /\ target' \in Reader!Targets \cup {Reader!Any}
        /\ window' = Reader!None
    BY <1>2, <1>e DEF Reader!Begin
  <2> QED
    BY <2>1, <2>2, <2>3 DEF Reader!TypeOK, ScreenTyped
<1>3. CASE Reader!AfterFields
  <2>1. part' \in 1..Len(Reader!Parts)
    BY <1>3, <1>e DEF Reader!AfterFields, Reader!Children, Reader!End, Reader!TypeOK
  <2>2. /\ UNCHANGED <<Reader!screen, Reader!seen, target, window>>
        /\ outcome' \in Reader!Outcomes \cup {Reader!None}
    BY <1>3 DEF Reader!AfterFields, Reader!End, Reader!TypeOK, Reader!found, Reader!Outcomes
  <2> QED
    BY <1>u, <2>1, <2>2 DEF Reader!TypeOK, ScreenTyped
<1>4. CASE Reads /\ ~Reader!AfterFields
  <2>1. UNCHANGED <<Reader!screen, Reader!seen>> /\ UNCHANGED <<target, part>>
    BY <1>4 DEF Reads, Reader!FindWindow, Reader!ReadShallow, Reader!Walk, Reader!Authorize,
       Reader!BeforeFields, Reader!CopyText, Reader!Confirm, Reader!WalkAgain, Reader!Conclude,
       Reader!Fail, Reader!End
  <2>2. window' \in (Windows \ Own) \cup {Reader!None}
    <3>1. CASE Reader!FindWindow
      BY <3>1 DEF Reader!FindWindow, Reader!End, Reader!found, Reader!TypeOK
    <3>2. CASE ~Reader!FindWindow
      BY <1>4, <3>2 DEF Reads, Reader!ReadShallow, Reader!Walk, Reader!Authorize,
         Reader!BeforeFields, Reader!CopyText, Reader!Confirm, Reader!WalkAgain, Reader!Conclude,
         Reader!Fail, Reader!End, Reader!found, Reader!TypeOK
    <3> QED
      BY <3>1, <3>2
  <2>3. outcome' \in Reader!Outcomes \cup {Reader!None}
    BY <1>4 DEF Reads, Reader!FindWindow, Reader!ReadShallow, Reader!Walk, Reader!Authorize,
       Reader!BeforeFields, Reader!CopyText, Reader!Confirm, Reader!WalkAgain, Reader!Conclude,
       Reader!Fail, Reader!End, Reader!TypeOK, Reader!Outcomes, Reader!Blocked, Reader!Rejected,
       Reader!found
  <2> QED
    BY <1>u, <2>1, <2>2, <2>3 DEF Reader!TypeOK, ScreenTyped
<1>5. CASE UNCHANGED Reader!vars
  BY <1>5, <1>u, <1>r DEF Reader!vars, Reader!TypeOK, ScreenTyped
<1> QED
  BY <1>1, <1>2, <1>3, <1>4, <1>5 DEF Reader!Next, Reads, ScreenMoves

\* Text is read in one window, and nothing is concluded before the end.
LEMMA ReaderPlaced ==
    ASSUME Reader!TypeOK, ReaderPlaces, [Reader!Next]_Reader!vars
    PROVE  ReaderPlaces'
<1>1. CASE ScreenMoves
  BY <1>1 DEF ScreenMoves, Reader!Switch, Reader!Navigate, Reader!NavigateFrame, Reader!Refocus,
     Reader!Protect, Reader!Lock, Reader!Change, Reader!reader, Reader!found, ReaderPlaces
<1>2. CASE Reader!Begin
  BY <1>2 DEF Reader!Begin, ReaderPlaces, Titled
<1>3. CASE Reader!FindWindow
  BY <1>3 DEF Reader!FindWindow, Reader!End, Reader!found, ReaderPlaces, Titled, Reader!TypeOK
<1>4. CASE \/ Reader!ReadShallow \/ Reader!Walk \/ Reader!Authorize
           \/ Reader!BeforeFields \/ Reader!AfterFields
  BY <1>4 DEF Reader!ReadShallow, Reader!Walk, Reader!Authorize, Reader!BeforeFields,
     Reader!AfterFields, Reader!End, Reader!found, ReaderPlaces, Titled
<1>5. CASE Reader!CopyText
  BY <1>5 DEF Reader!CopyText, Reader!found, ReaderPlaces, Titled
<1>6. CASE Reader!Confirm \/ Reader!WalkAgain \/ Reader!Conclude \/ Reader!Fail
  BY <1>6 DEF Reader!Confirm, Reader!WalkAgain, Reader!Conclude, Reader!Fail, Reader!End,
     Reader!found, ReaderPlaces, Titled
<1>7. CASE UNCHANGED Reader!vars
  BY <1>7 DEF Reader!vars, Reader!reader, Reader!found, ReaderPlaces
<1> QED
  BY <1>1, <1>2, <1>3, <1>4, <1>5, <1>6, <1>7 DEF Reader!Next, ScreenMoves

\* The title and the target are decided before the walk, the URLs and the surface by it.
LEMMA ReaderAims ==
    ASSUME Reader!TypeOK, ReaderPlaces, ReaderAimed, [Reader!Next]_Reader!vars
    PROVE  ReaderAimed'
<1> USE DEF Titled, Walked
<1>1. CASE ScreenMoves \/ UNCHANGED Reader!vars
  <2>1. UNCHANGED Reader!reader
    BY <1>1 DEF ScreenMoves, Reader!Switch, Reader!Navigate, Reader!NavigateFrame,
       Reader!Refocus, Reader!Protect, Reader!Lock, Reader!Change, Reader!vars
  <2> QED
    BY <2>1 DEF Reader!reader, Reader!found, ReaderAimed, Reader!Surface
<1>2. CASE Reader!Begin \/ Reader!FindWindow
  <2>1. readerPc' \in {"over", "window", "shallow"} /\ readerText' = {}
    BY <1>2 DEF Reader!Begin, Reader!FindWindow, Reader!End, ReaderPlaces
  <2> QED
    BY <2>1 DEF ReaderAimed
<1>3. CASE Reader!ReadShallow
  <2>1. readerText' = {} /\ readerPc = "shallow" /\ UNCHANGED <<target, window>>
    BY <1>3 DEF Reader!ReadShallow, Reader!End, Reader!found, ReaderPlaces
  <2>2. CASE readerPc' = "walk"
    BY <1>3, <2>1, <2>2 DEF Reader!ReadShallow, Reader!Validated, ReaderAimed, Reader!End
  <2>3. CASE readerPc' = "over"
    BY <2>1, <2>3 DEF ReaderAimed
  <2> QED
    BY <1>3, <2>2, <2>3 DEF Reader!ReadShallow, Reader!End
<1>4. CASE Reader!Walk
  <2>1. readerText' = {} /\ readerPc = "walk" /\ UNCHANGED <<target, window, title>>
    BY <1>4 DEF Reader!Walk, Reader!End, Reader!found, ReaderPlaces
  <2>2. CASE readerPc' = "authorize"
    <3>1. /\ urls' = Reader!Observed(page[window]) /\ ~Reader!Excluded(page[window], title)
          /\ target = Reader!Any \/ Reader!Surface(window, Reader!Observed(page[window]))
      BY <1>4, <2>2 DEF Reader!Walk, Reader!End
    <3>2. \A i \in DOMAIN urls' : urls'[i] \notin HostExcluded
      BY <3>1 DEF Reader!Excluded, Reader!Observed
    <3> QED
      BY <2>1, <2>2, <3>1, <3>2 DEF ReaderAimed, Reader!Surface
  <2>3. CASE readerPc' = "over"
    BY <2>1, <2>3 DEF ReaderAimed
  <2> QED
    BY <1>4, <2>2, <2>3 DEF Reader!Walk, Reader!End
<1>5. CASE readerPc \in Walked /\ UNCHANGED <<target, Reader!found>>
  BY <1>5 DEF ReaderAimed, Reader!found, Reader!Surface
<1>6. CASE \/ Reader!Authorize \/ Reader!BeforeFields \/ Reader!CopyText \/ Reader!AfterFields
           \/ Reader!Confirm \/ Reader!WalkAgain \/ Reader!Conclude
  BY <1>5, <1>6 DEF Reader!Authorize, Reader!BeforeFields, Reader!CopyText, Reader!AfterFields,
     Reader!Confirm, Reader!WalkAgain, Reader!Conclude, Reader!End
<1>7. CASE Reader!Fail
  <2>1. readerPc' = "over" /\ UNCHANGED <<readerText, target, Reader!found>>
    BY <1>7 DEF Reader!Fail, Reader!End
  <2> QED
    BY <2>1 DEF ReaderAimed, Reader!found, Reader!Surface
<1> QED
  BY <1>1, <1>2, <1>3, <1>4, <1>6, <1>7 DEF Reader!Next, ScreenMoves

\* What comes back is noticed.
LEMMA ComesBack ==
    ASSUME ScreenMoves
    PROVE  /\ UNCHANGED Reader!reader /\ readerPc \notin {"idle", "over"}
           /\ past \subseteq past' /\ Reader!Shown' \subseteq past' /\ (returned => returned')
           /\ \A x : x \in past /\ x \in Reader!Shown' /\ x \notin Reader!Shown => returned'
BY DEF ScreenMoves, Reader!Switch, Reader!Navigate, Reader!NavigateFrame, Reader!Refocus,
   Reader!Protect, Reader!Lock, Reader!Change

\* So what was seen once and again, on a screen that shows nothing for a second time, was so
\* all along: the two walks and the two titles together answer for the text between them.
LEMMA ReaderSteadies ==
    ASSUME Reader!TypeOK, ReaderPlaces, ReaderAimed, ReaderSteady, [Reader!Next]_Reader!vars
    PROVE  ReaderSteady'
<1> USE DEF Titled, Walked, Walking, Reader!None
<1>t. readerSecure \in BOOLEAN /\ returned \in BOOLEAN
  BY DEF Reader!TypeOK
<1>s. UNCHANGED <<Reader!screen, Reader!seen>> =>
        Reader!Shown' = Reader!Shown /\ UNCHANGED <<page, readerSecure, past, returned>>
  BY DEF Reader!screen, Reader!seen, Reader!Shown
<1>1. CASE ScreenMoves
  <2>1. /\ UNCHANGED <<readerPc, readerText, window, title, urls, urlsAgain, outcome, Body>>
        /\ readerPc \notin {"idle", "over"}
        /\ past \subseteq past' /\ Reader!Shown' \subseteq past' /\ (returned => returned')
        /\ \A x : x \in past /\ x \in Reader!Shown' /\ x \notin Reader!Shown => returned'
    BY <1>1, ComesBack DEF Reader!reader, Reader!found, Body
  <2>2. ~Reader!Kept'
    BY <2>1 DEF Reader!Kept, ReaderPlaces
  <2>3. ASSUME ~returned' PROVE ~returned
    BY <2>1, <2>3
  <2>4. ASSUME ~returned'
        PROVE  /\ <<"secure", FALSE>> \in past'
               /\ ~readerSecure' => \A t \in readerText' : ~t.secure
    <3>1. <<"secure", FALSE>> \in past /\ (~readerSecure => \A t \in readerText : ~t.secure)
      BY <2>1, <2>3, <2>4 DEF ReaderSteady
    <3>2. ASSUME ~readerSecure' PROVE ~readerSecure
      <4>1. <<"secure", FALSE>> \in Reader!Shown'
        <5>1. readerSecure' \in BOOLEAN
          BY <1>1, <1>t DEF ScreenMoves, Reader!Switch, Reader!Navigate, Reader!NavigateFrame,
             Reader!Refocus, Reader!Protect, Reader!Lock
        <5>2. readerSecure' = FALSE
          BY <3>2, <5>1
        <5> QED
          BY <5>2 DEF Reader!Shown
      <4> QED
        BY <4>1, <3>1, <2>1, <2>4, ShownItems
    <3> QED
      BY <3>1, <3>2, <2>1
  <2>5. ASSUME ~returned', readerPc \in Titled
        PROVE  /\ <<"title", window, title>> \in past'
               /\ (Reader!Title(page[window]) = title)' =>
                     \A t \in Body : Reader!Title(t.page) = title
    <3>1. /\ <<"title", window, title>> \in past /\ window \in Windows
          /\ Reader!Title(page[window]) = title => \A t \in Body : Reader!Title(t.page) = title
      BY <2>3, <2>5 DEF ReaderSteady, ReaderPlaces
    <3>2. ASSUME (Reader!Title(page[window]) = title)' PROVE Reader!Title(page[window]) = title
      <4>1. <<"title", window, title>> \in Reader!Shown'
        BY <3>1, <3>2, <2>1 DEF Reader!Shown
      <4> QED
        BY <4>1, <3>1, <2>1, <2>5, ShownItems
    <3> QED
      BY <3>1, <3>2, <2>1
  <2>6. ASSUME ~returned', readerPc \in Walking
        PROVE  /\ <<"urls", window, urls>> \in past'
               /\ (Reader!Observed(page[window]) = urls)' =>
                     \A t \in Body : Reader!Observed(t.page) = urls
    <3>1. /\ <<"urls", window, urls>> \in past /\ window \in Windows
          /\ Reader!Observed(page[window]) = urls =>
                \A t \in Body : Reader!Observed(t.page) = urls
      BY <2>3, <2>6 DEF ReaderSteady, ReaderPlaces
    <3>2. ASSUME (Reader!Observed(page[window]) = urls)'
          PROVE  Reader!Observed(page[window]) = urls
      <4>1. <<"urls", window, urls>> \in Reader!Shown'
        BY <3>1, <3>2, <2>1 DEF Reader!Shown
      <4> QED
        BY <4>1, <3>1, <2>1, <2>6, ShownItems
    <3> QED
      BY <3>1, <3>2, <2>1
  <2>7. ASSUME ~returned', readerPc \in Walking, Reader!NeedsUrl
        PROVE  /\ <<"undecided", window, FALSE>> \in past'
               /\ (~Reader!Undecided(page[window]))' => \A t \in Body : ~Reader!Undecided(t.page)
    <3>1. /\ <<"undecided", window, FALSE>> \in past /\ window \in Windows
          /\ ~Reader!Undecided(page[window]) => \A t \in Body : ~Reader!Undecided(t.page)
      BY <2>3, <2>7 DEF ReaderSteady, ReaderPlaces
    <3>2. ASSUME (~Reader!Undecided(page[window]))' PROVE ~Reader!Undecided(page[window])
      <4>1. <<"undecided", window, FALSE>> \in Reader!Shown'
        <5>1. Reader!Undecided(page'[window]) = FALSE
          BY <3>2, <2>1 DEF Reader!Undecided
        <5> QED
          BY <5>1, <3>1, <2>1 DEF Reader!Shown
      <4>2. <<"undecided", window, FALSE>> \in Reader!Shown
        BY <4>1, <3>1, <2>1, <2>7
      <4> QED
        BY <4>2, ShownItems
    <3> QED
      BY <3>1, <3>2, <2>1
  <2>8. ASSUME ~returned', readerPc = "retitle"
        PROVE  /\ urlsAgain = urls => \A t \in Body : Reader!Observed(t.page) = urls
               /\ Reader!NeedsUrl => \A t \in Body : ~Reader!Undecided(t.page)
    BY <2>3, <2>8 DEF ReaderSteady
  <2> QED
    BY <2>1, <2>2, <2>4, <2>5, <2>6, <2>7, <2>8 DEF ReaderSteady
<1>2. CASE Reader!Begin
  <2>1. /\ Reader!Shown' = Reader!Shown /\ past' = Reader!Shown
        /\ readerText' = {} /\ outcome' # "captured"
        /\ readerPc' \in {"over", "window"}
        /\ readerPc' = "window" => ~readerSecure
    BY <1>2 DEF Reader!Begin, Reader!Blocked, Reader!screen, Reader!Shown
  <2>2. readerPc' = "window" => <<"secure", FALSE>> \in past'
    <3>1. readerPc' = "window" => readerSecure = FALSE
      BY <2>1, <1>t
    <3> QED
      BY <2>1, <3>1 DEF Reader!Shown
  <2> QED
    BY <2>1, <2>2 DEF ReaderSteady, Reader!Kept
<1>3. CASE Reader!FindWindow
  <2>1. /\ UNCHANGED <<Reader!screen, Reader!seen, readerText>>
        /\ readerPc' \in {"shallow", "over"} /\ outcome' # "captured"
        /\ readerPc = "window"
    BY <1>3 DEF Reader!FindWindow, Reader!End, ReaderPlaces
  <2> QED
    BY <1>s, <2>1 DEF ReaderSteady, Reader!Kept
<1>4. CASE Reader!ReadShallow
  <2>1. /\ UNCHANGED <<Reader!screen, Reader!seen, window>> /\ readerPc' \in {"walk", "over"}
        /\ outcome' # "captured" /\ readerPc = "shallow" /\ window \in Windows
        /\ readerText = {} /\ readerText' = {}
        /\ readerPc' = "walk" => title' = Reader!Title(page[window])
    BY <1>4 DEF Reader!ReadShallow, Reader!End, ReaderPlaces, Reader!found
  <2>2. readerPc' = "walk" => <<"title", window, title'>> \in past
    BY <2>1, ShownItems DEF ReaderSteady
  <2> QED
    BY <1>s, <2>1, <2>2 DEF ReaderSteady, Reader!Kept, Body
<1>5. CASE Reader!Walk
  <2>1. /\ UNCHANGED <<Reader!screen, Reader!seen, window, title>>
        /\ readerPc' \in {"authorize", "over"}
        /\ outcome' # "captured" /\ readerPc = "walk" /\ window \in Windows
        /\ readerText = {} /\ readerText' = {}
        /\ readerPc' = "authorize" =>
              /\ urls' = Reader!Observed(page[window])
              /\ Reader!NeedsUrl => ~Reader!Undecided(page[window])
    BY <1>5 DEF Reader!Walk, Reader!End, ReaderPlaces, Reader!found, Reader!Excluded
  <2>2. readerPc' = "authorize" => <<"urls", window, urls'>> \in past
    BY <2>1, ShownItems DEF ReaderSteady
  <2>3. readerPc' = "authorize" /\ Reader!NeedsUrl => <<"undecided", window, FALSE>> \in past
    <3>1. readerPc' = "authorize" /\ Reader!NeedsUrl => Reader!Undecided(page[window]) = FALSE
      BY <2>1 DEF Reader!Undecided
    <3> QED
      BY <2>1, <3>1, ShownItems DEF ReaderSteady
  <2> QED
    BY <1>s, <2>1, <2>2, <2>3 DEF ReaderSteady, Reader!Kept, Body
<1>6. CASE Reader!Authorize \/ Reader!BeforeFields \/ Reader!AfterFields \/ Reader!Confirm
  <2>1. /\ UNCHANGED <<Reader!screen, Reader!seen, readerText, window, title, urls>>
        /\ readerPc' \in (Walking \cup {"over"}) /\ outcome' # "captured" /\ readerPc \in Walking
    BY <1>6 DEF Reader!Authorize, Reader!BeforeFields, Reader!AfterFields, Reader!Confirm,
       Reader!End, ReaderPlaces, Reader!found, Reader!Blocked, Reader!Rejected
  <2>2. readerPc' # "retitle"
    BY <2>1
  <2> QED
    BY <1>s, <2>1, <2>2 DEF ReaderSteady, Reader!Kept, Body
<1>7. CASE Reader!CopyText
  <2>1. /\ UNCHANGED <<Reader!screen, Reader!seen, window, title, urls>>
        /\ readerPc' = "after" /\ outcome' # "captured" /\ readerPc = "read"
        /\ readerText' = readerText \cup
                {[part |-> Reader!Parts[part], window |-> window, page |-> Reader!Node,
                  secure |-> readerSecure]}
    BY <1>7 DEF Reader!CopyText, ReaderPlaces, Reader!found
  <2>2. \A t \in Body' : t \in Body \/ t.page = page[window]
    BY <2>1 DEF Body, Reader!Node
  <2>3. \A t \in readerText' : t \in readerText \/ t.secure = readerSecure
    BY <2>1
  <2> QED
    BY <1>s, <2>1, <2>2, <2>3 DEF ReaderSteady, Reader!Kept
<1>8. CASE Reader!WalkAgain
  <2>1. /\ UNCHANGED <<Reader!screen, Reader!seen, readerText, window, title, urls>>
        /\ readerPc' \in {"retitle", "over"} /\ outcome' # "captured" /\ readerPc = "rewalk"
        /\ readerPc' = "retitle" =>
              /\ urlsAgain' = Reader!Observed(page[window])
              /\ Reader!NeedsUrl => ~Reader!Undecided(page[window])
    BY <1>8 DEF Reader!WalkAgain, Reader!End, ReaderPlaces, Reader!found, Reader!Excluded
  <2> QED
    BY <1>s, <2>1 DEF ReaderSteady, Reader!Kept, Body
<1>9. CASE Reader!Conclude
  <2>1. /\ UNCHANGED <<Reader!screen, Reader!seen, readerText, window, title, urls>>
        /\ readerPc' = "over" /\ readerPc = "retitle"
        /\ outcome' = "captured" =>
              ~readerSecure /\ urlsAgain = urls /\ Reader!Title(page[window]) = title
    BY <1>9 DEF Reader!Conclude, Reader!End, Reader!found, Reader!SameView, Reader!Blocked,
       Reader!Rejected
  <2> QED
    BY <1>s, <2>1 DEF ReaderSteady, Reader!Kept, Body
<1>10. CASE Reader!Fail
  <2>1. /\ UNCHANGED <<Reader!screen, Reader!seen>>
        /\ readerPc' = "over" /\ outcome' # "captured" /\ readerPc # "idle"
    BY <1>10 DEF Reader!Fail, Reader!End
  <2> QED
    BY <1>s, <2>1 DEF ReaderSteady, Reader!Kept
<1>11. CASE UNCHANGED Reader!vars
  BY <1>11, <1>s DEF Reader!vars, Reader!screen, Reader!seen, Reader!reader, Reader!found,
     ReaderSteady, Reader!Kept, Body
<1> QED
  BY <1>1, <1>2, <1>3, <1>4, <1>5, <1>6, <1>7, <1>8, <1>9, <1>10, <1>11 DEF Reader!Next,
     ScreenMoves

\* A reader that has read nothing.
LEMMA ReaderStarts == ASSUME ReaderBounds, Reader!Init PROVE ReaderInv
<1>1. Reader!TypeOK
  <2>1. 0 \in 0..Glances /\ 1 \in 1..Len(Reader!Parts)
    BY DEF ReaderBounds, Reader!Parts
  <2> QED
    BY <2>1 DEF Reader!Init, Reader!TypeOK
<1>2. ReaderPlaces /\ ReaderAimed
  BY DEF Reader!Init, ReaderPlaces, ReaderAimed, Titled, Walked
<1>3. ReaderSteady
  BY DEF Reader!Init, ReaderSteady, Titled, Walked, Walking, Reader!Kept, Reader!None
<1> QED
  BY <1>1, <1>2, <1>3 DEF ReaderInv

\* What is kept then is of the page that was decided about.
LEMMA ReaderShows ==
    ASSUME ReaderBounds, ReaderInv
    PROVE  Reader!ExcludedStaysOut /\ Reader!OnlyTheTarget
<1>1. ASSUME Reader!Kept, NEW t \in Body
      PROVE  /\ Reader!Title(t.page) = title /\ Reader!Observed(t.page) = urls
             /\ t.page \notin HostExcluded \cup TitleExcluded
             /\ Reader!NeedsUrl => t.page \notin Unlabelled
  <2>1. /\ Reader!Title(t.page) = title /\ Reader!Observed(t.page) = urls
        /\ (Reader!NeedsUrl => ~Reader!Undecided(t.page)) /\ readerText # {}
    BY <1>1 DEF ReaderInv, ReaderSteady, Body
  <2>2. t.page \notin TitleExcluded
    BY <2>1 DEF ReaderInv, ReaderAimed
  <2>3. t.page \notin HostExcluded
    <3>1. ASSUME t.page \in HostExcluded PROVE FALSE
      <4>1. Reader!NeedsUrl /\ t.page \in Web \ Deep
        BY <2>1, <3>1 DEF Reader!NeedsUrl, Reader!Undecided, ReaderBounds
      <4>2. urls = <<t.page>>
        BY <2>1, <4>1 DEF Reader!Observed
      <4>3. urls[1] = t.page /\ 1 \in DOMAIN urls
        BY <4>2
      <4> QED
        BY <2>1, <3>1, <4>3 DEF ReaderInv, ReaderAimed
    <3> QED
      BY <3>1
  <2> QED
    BY <2>1, <2>2, <2>3 DEF Reader!Undecided
<1>2. Reader!ExcludedStaysOut
  BY <1>1 DEF Reader!ExcludedStaysOut, ReaderInv, ReaderSteady, Body
<1>3. ASSUME target # Reader!Any, Reader!Kept, NEW t \in Body
      PROVE  Reader!Title(t.page) = target.title /\ (t.window \in Slack \/ t.page \in WhatsApp)
  <2>1. /\ Reader!Title(t.page) = title /\ Reader!Observed(t.page) = urls /\ t.window = window
        /\ target.title = title /\ Reader!Surface(window, urls)
    BY <1>1, <1>3 DEF ReaderInv, ReaderAimed, ReaderPlaces, Body
  <2>2. ASSUME urls # <<>>, \A i \in DOMAIN urls : urls[i] \in WhatsApp PROVE t.page \in WhatsApp
    <3>1. urls = <<t.page>>
      BY <2>1, <2>2 DEF Reader!Observed
    <3>2. urls[1] = t.page /\ 1 \in DOMAIN urls
      BY <3>1
    <3> QED
      BY <2>2, <3>2
  <2> QED
    BY <2>1, <2>2 DEF Reader!Surface
<1>4. Reader!OnlyTheTarget
  <2>1. ASSUME target # Reader!Any, NEW t \in readerText
        PROVE  target.process = Reader!Process(t.window) /\ target.id \in {Reader!None, t.window}
    BY <2>1 DEF ReaderInv, ReaderAimed, ReaderPlaces
  <2> QED
    BY <1>3, <2>1 DEF Reader!OnlyTheTarget, Body
<1> QED
  BY <1>2, <1>4

\* A capture that is kept is of one page, which its title and URL name and no rule excludes,
\* with no password typed meanwhile, and a contextual reply reads its target alone: however
\* often the user moves between any two questions, as long as the screen does not show
\* something for a second time (capture_sync_for_target, read_node,
\* browser_capture_metadata_is_stable).
THEOREM ReaderIsSound == PartsSpec => []ReaderSound
<1>1. PartsInit => ReaderInv
  BY ReaderBounds, ReaderStarts DEF PartsInit
<1>2. component = "reader" /\ [Step]_allvars =>
        [Reader!Next]_Reader!vars /\ (component = "reader")'
  BY DEF Step, allvars, readerVars, Reader!vars, Reader!screen, Reader!seen, Reader!reader,
     Reader!found
<1>3. ~(component = "reader") /\ [Step]_allvars => (~(component = "reader"))'
  BY DEF Step, allvars
<1>4. ReaderInv /\ [Reader!Next]_Reader!vars => ReaderInv'
  BY ReaderBounds, ReaderTyped, ReaderPlaced, ReaderAims, ReaderSteadies DEF ReaderInv
<1>5. ReaderInv => ReaderSound
  BY ReaderBounds, ReaderShows DEF ReaderInv, ReaderSound
<1>6. ~(component = "reader") => ReaderSound
  BY DEF ReaderSound
<1> QED
  BY <1>1, <1>2, <1>3, <1>4, <1>5, <1>6, PTL DEF PartsSpec

-----------------------------------------------------------------------------
(***************************************************************************)
(* The rewrite.  What makes an edit safe is a table of who may have        *)
(* written what stands in the composer: only a request for a reply, to an  *)
(* empty composer, shows frames, and the session knows which.              *)
(***************************************************************************)
Live(t) == submit[t].at \notin {"idle", "ended"}
OwnFrame(s) == rewriteText.by = "frame" /\ rewriteText.of = s

\* The session, and the frames that are its own.
SessionKept ==
    /\ rewriteActive.id \in {0, nextId}
    /\ rewriteActive.id = 0 => rewriteActive = Rewrite!NoSession
    /\ rewriteActive.progress => rewriteActive.task = "reply" /\ rewriteActive.inFlight
    /\ rewriteActive.task = "reply" => rewriteActive.original = Rewrite!Empty
    /\ \/ rewriteActive.expected = rewriteActive.original
       \/ rewriteActive.expected.by = "frame" /\ rewriteActive.expected.of = rewriteActive.id
    /\ OwnFrame(rewriteActive.id) =>
          rewriteActive.progress /\ rewriteText.n \in rewriteActive.owned
    /\ rewriteText.by = "frame" => rewriteText.of \in 1..nextId
    /\ \A r \in refusing : r[1] <= nextId

\* The requests: one at a time asks for a session, and knows what it did.
RequestsKept ==
    /\ \A t \in Submissions : submit[t].at # "idle" =>
          submit[t].of \in 1..nextId /\ prep[submit[t].of] = "done"
    /\ \A t \in Submissions : Live(t) /\ submit[t].of = rewriteActive.id => rewriteActive.inFlight
    /\ \A t, u \in Submissions :
          Live(t) /\ Live(u) /\ submit[t].of = rewriteActive.id
             /\ submit[u].of = rewriteActive.id => t = u
    /\ \A t \in Submissions : submit[t].at = "animating" /\ submit[t].of = rewriteActive.id =>
          rewriteActive.progress
    /\ \A t \in Submissions : submit[t].at = "prepared" /\ submit[t].of = rewriteActive.id =>
          ~rewriteActive.progress

RewriteInv ==
    /\ Rewrite!TypeOK /\ SessionKept /\ RequestsKept
    /\ Rewrite!MarkerAccounted /\ Rewrite!InFlightHasRequest

\* The fields of a session that is typed.
LEMMA SessionTyped ==
    ASSUME Rewrite!TypeOK
    PROVE  /\ rewriteActive.id \in 0..Rewrites /\ rewriteActive.task \in {"none", "reply", "draft", "dictation"}
           /\ rewriteActive.context \in BOOLEAN /\ rewriteActive.inFlight \in BOOLEAN
           /\ rewriteActive.original \in Rewrite!Texts /\ rewriteActive.expected \in Rewrite!Texts
           /\ rewriteActive.progress \in BOOLEAN /\ rewriteActive.frame \in 0..2
           /\ rewriteActive.owned \subseteq 0..2
BY DEF Rewrite!TypeOK, Rewrite!Frames

\* A text is the user's, a frame of a session, or its answer.
LEMMA TextsAre ==
    ASSUME NEW x \in Rewrite!Texts
    PROVE  /\ x.by = "frame" => x = Rewrite!Frame(x.of, x.n) /\ x.of \in 1..Rewrites /\ x.n \in 0..2
           /\ x.by = "answer" => x.of \in 1..Rewrites /\ x = Rewrite!Result(x.of)
           /\ x.by = "user" => x.of = 0
           /\ x.by \in {"user", "frame", "answer"}
BY DEF Rewrite!Texts, Rewrite!User, Rewrite!Frame, Rewrite!Result, Rewrite!Sessions, Rewrite!Frames

\* The texts a session can write are texts.
LEMMA TextsWith ==
    /\ Rewrite!Empty \in Rewrite!Texts /\ Rewrite!Empty.by = "user"
    /\ \A s \in 1..Rewrites, k \in 0..2 :
          /\ Rewrite!Frame(s, k) \in Rewrite!Texts /\ Rewrite!Frame(s, k).by = "frame"
          /\ Rewrite!Frame(s, k).of = s /\ Rewrite!Frame(s, k).n = k
    /\ \A s \in 1..Rewrites :
          /\ Rewrite!Result(s) \in Rewrite!Texts /\ Rewrite!Result(s).by = "answer"
          /\ Rewrite!Result(s).of = s
<1>1. Rewrite!Empty \in {Rewrite!User(n) : n \in 0..(Edits + 1)}
  BY RewriteBounds DEF Rewrite!Empty
<1>2. /\ Rewrite!Empty.by = "user"
      /\ \A s, k : /\ Rewrite!Frame(s, k).by = "frame" /\ Rewrite!Frame(s, k).of = s
                   /\ Rewrite!Frame(s, k).n = k
      /\ \A s : Rewrite!Result(s).by = "answer" /\ Rewrite!Result(s).of = s
  BY DEF Rewrite!User, Rewrite!Frame, Rewrite!Result, Rewrite!Empty
<1>3. /\ \A s \in 1..Rewrites, k \in 0..2 : Rewrite!Frame(s, k) \in Rewrite!Texts
      /\ \A s \in 1..Rewrites : Rewrite!Result(s) \in Rewrite!Texts
  BY DEF Rewrite!Texts, Rewrite!Sessions, Rewrite!Frames
<1> QED
  BY <1>1, <1>2, <1>3 DEF Rewrite!Texts

\* The bound of the failures is kept.
LEMMA Faulted ==
    /\ rewriteFaults \in 0..Failures /\ Rewrite!Fault => rewriteFaults' \in 0..Failures
    /\ rewriteFaults \in 0..Failures /\ Rewrite!NoFault => rewriteFaults' \in 0..Failures
BY RewriteBounds DEF Rewrite!Fault, Rewrite!NoFault

\* Frames are taken out, and nothing else; where they may be left, that is said.
LEMMA RestoreDoes ==
    ASSUME Rewrite!TypeOK, SessionKept, NEW ok \in BOOLEAN, Rewrite!Restore(rewriteActive, ok)
    PROVE  /\ rewriteText' = rewriteText \/
                 (OwnFrame(rewriteActive.id) /\ rewriteText' = Rewrite!Empty)
           /\ ok => ~(rewriteText'.by = "frame" /\ rewriteText'.of = rewriteActive.id)
           /\ ~ok => rewriteActive.progress
           /\ rewriteFaults' \in 0..Failures
           /\ rewriteText' \in Rewrite!Texts
<1> DEFINE s == rewriteActive
           owned == rewriteText \in {Rewrite!Frame(s.id, k) : k \in s.owned}
           clean == ~s.progress \/ rewriteText = s.original
<1>1. /\ rewriteText \in Rewrite!Texts /\ rewriteFaults \in 0..Failures
      /\ s.progress \in BOOLEAN /\ s.owned \subseteq 0..2 /\ s.id \in 0..Rewrites
  BY SessionTyped DEF Rewrite!TypeOK
<1>2. s.progress => s.original = Rewrite!Empty /\ s.id # 0
  BY DEF SessionKept, Rewrite!NoSession
<1>3. owned => OwnFrame(s.id)
  BY <1>1 DEF OwnFrame, Rewrite!Frame
<1>4. clean => ~OwnFrame(s.id)
  BY <1>2, TextsWith DEF SessionKept, OwnFrame
<1>5. OwnFrame(s.id) => owned
  BY <1>1, TextsAre DEF SessionKept, OwnFrame
<1>6. \/ clean /\ ok /\ rewriteText' = rewriteText /\ Rewrite!NoFault
      \/ ~clean /\ owned /\ ok /\ rewriteText' = s.original /\ Rewrite!NoFault
      \/ ~clean /\ ~ok /\ rewriteText' = rewriteText /\ Rewrite!NoFault
      \/ /\ s.progress /\ ~ok /\ Rewrite!Fault
         /\ rewriteText' \in {rewriteText} \cup (IF owned THEN {s.original} ELSE {})
  BY DEF Rewrite!Restore
<1>7. rewriteFaults' \in 0..Failures
  BY <1>1, <1>6, Faulted
<1>8. ~ok => s.progress
  BY <1>6
<1>9. rewriteText' = rewriteText \/ (OwnFrame(s.id) /\ rewriteText' = Rewrite!Empty)
  BY <1>6, <1>2, <1>3
<1>10. ok => ~(rewriteText'.by = "frame" /\ rewriteText'.of = s.id)
  BY <1>6, <1>2, <1>3, <1>4, TextsWith DEF OwnFrame
<1> HIDE DEF s, owned, clean
<1> QED
  BY <1>1, <1>7, <1>8, <1>9, <1>10, TextsWith DEF s

\* A preview writes over what was expected, or writes nothing; an unsure one may do either.
LEMMA PreviewDoes ==
    ASSUME Rewrite!TypeOK, SessionKept, rewriteActive.id # 0, NEW k \in 0..2, NEW shown,
           Rewrite!Preview(rewriteActive, k, shown)
    PROVE  /\ rewriteFaults' \in 0..Failures /\ rewriteText' \in Rewrite!Texts
           /\ shown \in {"refused", "unable"} => rewriteText' = rewriteText
           /\ shown = "written" => rewriteText' = Rewrite!Frame(rewriteActive.id, k)
           /\ rewriteText' \in {rewriteText, Rewrite!Frame(rewriteActive.id, k)}
           /\ rewriteText' # rewriteText => rewriteText = rewriteActive.expected
<1>1. rewriteText \in Rewrite!Texts /\ rewriteFaults \in 0..Failures
  BY DEF Rewrite!TypeOK
<1>2. Rewrite!Frame(rewriteActive.id, k) \in Rewrite!Texts
  BY SessionTyped, TextsWith
<1> QED
  BY <1>1, <1>2, Faulted DEF Rewrite!Preview

\* What a step that ends a session does to the composer: nothing, or a frame of its own is
\* taken out; where it may be left, that is known.
LEMMA CancelKeeps ==
    ASSUME Rewrite!TypeOK, SessionKept, NEW u \in BOOLEAN, Rewrite!Cancel(u)
    PROVE  /\ cancelled' \subseteq 1..Rewrites
           /\ rewriteText' = rewriteText \/
                 (OwnFrame(rewriteActive.id) /\ rewriteText' = Rewrite!Empty)
           /\ ~u => ~(rewriteText'.by = "frame" /\ rewriteText'.of = rewriteActive.id)
           /\ u => rewriteActive.progress
           /\ rewriteFaults' \in 0..Failures
           /\ rewriteText' \in Rewrite!Texts
<1>1. Rewrite!Restore(rewriteActive, ~u)
  BY Zenon DEF Rewrite!Cancel
<1>2. (~u) \in BOOLEAN
  OBVIOUS
<1>3. cancelled' \subseteq 1..Rewrites
  <2>1. cancelled \subseteq 1..Rewrites /\ cancelled' = cancelled \cup ({rewriteActive.id} \ {0})
    BY DEF Rewrite!Cancel, Rewrite!TypeOK, Rewrite!Sessions
  <2>2. rewriteActive.id # 0 => rewriteActive.id \in 1..Rewrites
    BY RewriteBounds, SessionTyped
  <2> QED
    BY <2>1, <2>2
<1> QED
  BY <1>1, <1>2, <1>3, RestoreDoes

\* A session that is cancelled is none any more.
LEMMA CancelDoes ==
    ASSUME Rewrite!TypeOK, SessionKept, NEW u \in BOOLEAN, Rewrite!CancelActive(u)
    PROVE  /\ rewriteActive' = Rewrite!NoSession
           /\ cancelled' \subseteq 1..Rewrites
           /\ rewriteText' = rewriteText \/
                 (OwnFrame(rewriteActive.id) /\ rewriteText' = Rewrite!Empty)
           /\ ~u => ~(rewriteText'.by = "frame" /\ rewriteText'.of = rewriteActive.id)
           /\ u => rewriteActive.progress
           /\ rewriteFaults' \in 0..Failures
           /\ rewriteText' \in Rewrite!Texts
<1>1. Rewrite!Cancel(u) /\ rewriteActive' = Rewrite!NoSession
  BY Zenon DEF Rewrite!CancelActive
<1> QED
  BY <1>1, CancelKeeps

\* A held key ends the session that is open, and may open one of dictation.
LEMMA HoldDoes ==
    ASSUME Rewrite!TypeOK, SessionKept, Rewrite!Hold
    PROVE  /\ UNCHANGED <<prep, submit, refusing, noticed, rewriteEvents>>
           /\ cancelled' \subseteq 1..Rewrites /\ rewriteFaults' \in 0..Failures
           /\ rewriteText' \in Rewrite!Texts
           /\ rewriteFocus' \in {"target", "controller", "other"}
           /\ rewriteText' = rewriteText \/
                 (OwnFrame(rewriteActive.id) /\ rewriteText' = Rewrite!Empty)
           /\ \/ /\ nextId < Rewrites /\ nextId' = nextId + 1 /\ overtaken' = overtaken
                 /\ rewriteActive' = [Rewrite!NoSession EXCEPT !.id = nextId + 1, !.task = "dictation",
                                        !.original = rewriteText', !.expected = rewriteText']
                 /\ ~(rewriteText'.by = "frame" /\ rewriteText'.of = rewriteActive.id)
              \/ /\ nextId' = nextId /\ rewriteActive' = Rewrite!NoSession /\ rewriteActive.id # 0
                 /\ overtaken' = overtaken
                 /\ ~(rewriteText'.by = "frame" /\ rewriteText'.of = rewriteActive.id)
              \/ /\ nextId' = nextId /\ rewriteActive' = Rewrite!NoSession /\ rewriteActive.id # 0
                 /\ overtaken' = overtaken \cup {rewriteActive.id}
<1>1. rewriteFocus \in {"target", "controller", "other"}
  BY DEF Rewrite!TypeOK
<1>2. ASSUME NEW u \in BOOLEAN, Rewrite!Cancel(u)
      PROVE  /\ cancelled' \subseteq 1..Rewrites /\ rewriteFaults' \in 0..Failures
             /\ rewriteText' \in Rewrite!Texts
             /\ rewriteText' = rewriteText \/
                   (OwnFrame(rewriteActive.id) /\ rewriteText' = Rewrite!Empty)
             /\ ~u => ~(rewriteText'.by = "frame" /\ rewriteText'.of = rewriteActive.id)
  BY <1>2, CancelKeeps
<1>3. \E u \in BOOLEAN :
         /\ Rewrite!Cancel(u)
         /\ \/ /\ ~u /\ nextId < Rewrites /\ nextId' = nextId + 1
               /\ rewriteActive' = [Rewrite!NoSession EXCEPT !.id = nextId + 1, !.task = "dictation",
                                      !.original = rewriteText', !.expected = rewriteText']
               /\ UNCHANGED <<rewriteFocus, overtaken>>
            \/ /\ ~u /\ rewriteActive.id # 0 /\ rewriteActive' = Rewrite!NoSession
               /\ UNCHANGED <<nextId, rewriteFocus, overtaken>>
            \/ /\ u /\ rewriteActive.id # 0 /\ rewriteActive' = Rewrite!NoSession
               /\ overtaken' = overtaken \cup {rewriteActive.id}
               /\ rewriteFocus' \in {rewriteFocus, "other"} /\ UNCHANGED nextId
  BY Zenon DEF Rewrite!Hold, Rewrite!CancelActive
<1>4. UNCHANGED <<prep, submit, refusing, noticed, rewriteEvents>>
  BY DEF Rewrite!Hold
<1> QED
  BY <1>1, <1>2, <1>3, <1>4

\* A dictation ends with its words in the composer it began at, or with nothing.
LEMMA DictationDoes ==
    ASSUME Rewrite!TypeOK, SessionKept, Rewrite!DictationEnds
    PROVE  /\ UNCHANGED <<nextId, rewriteFocus, prep, submit, refusing, noticed, overtaken,
                          rewriteEvents>>
           /\ rewriteActive' = Rewrite!NoSession /\ rewriteActive.id \in 1..Rewrites
           /\ ~rewriteActive.progress
           /\ cancelled' \subseteq 1..Rewrites /\ rewriteFaults' \in 0..Failures
           /\ rewriteText' \in Rewrite!Texts
           /\ \/ rewriteText' = rewriteText
              \/ /\ rewriteText = rewriteActive.expected
                 /\ rewriteText' = Rewrite!Result(rewriteActive.id)
<1>1. /\ UNCHANGED <<nextId, rewriteFocus, prep, submit, refusing, noticed, overtaken, rewriteEvents>>
      /\ rewriteActive' = Rewrite!NoSession /\ cancelled' = cancelled \cup {rewriteActive.id}
      /\ rewriteActive.task = "dictation"
  BY DEF Rewrite!DictationEnds
<1>2. rewriteActive.id \in 1..Rewrites /\ ~rewriteActive.progress
  <2>1. rewriteActive # Rewrite!NoSession
    BY <1>1 DEF Rewrite!NoSession
  <2>2. rewriteActive.id # 0 /\ ~rewriteActive.progress
    BY <1>1, <2>1 DEF SessionKept
  <2> QED
    BY <2>2, SessionTyped, RewriteBounds
<1>3. cancelled' \subseteq 1..Rewrites
  BY <1>1, <1>2 DEF Rewrite!TypeOK, Rewrite!Sessions
<1>4. rewriteText \in Rewrite!Texts /\ rewriteFaults \in 0..Failures
  BY DEF Rewrite!TypeOK
<1>5. Rewrite!Result(rewriteActive.id) \in Rewrite!Texts
  BY <1>2, TextsWith
<1>6. /\ \/ rewriteText' = rewriteText
         \/ /\ rewriteText = rewriteActive.expected
            /\ rewriteText' = Rewrite!Result(rewriteActive.id)
      /\ rewriteFaults' = rewriteFaults \/ Rewrite!NoFault \/ Rewrite!Fault
  BY DEF Rewrite!DictationEnds
<1>7. rewriteFaults' \in 0..Failures
  BY <1>4, <1>6, Faulted
<1> QED
  BY <1>1, <1>2, <1>3, <1>4, <1>5, <1>6, <1>7

Places == {"idle", "prepared", "running", "animating", "answered", "ready", "failing", "ended"}

\* A request goes to its next place, and the others stay where they are.
LEMMA RequestMoves ==
    ASSUME Rewrite!TypeOK, NEW t \in Submissions, NEW place \in Places, Rewrite!At(t, place)
    PROVE  /\ submit' \in [Submissions -> [of : 0..Rewrites, at : Places]]
           /\ submit'[t].of = submit[t].of /\ submit'[t].at = place
           /\ \A u \in Submissions : u # t => submit'[u] = submit[u]
           /\ \A u \in Submissions : submit'[u].of = submit[u].of
<1>1. submit \in [Submissions -> [of : 0..Rewrites, at : Places]]
  BY DEF Rewrite!TypeOK, Places
<1>2. submit' = [submit EXCEPT ![t] = [submit[t] EXCEPT !.at = place]]
  BY <1>1 DEF Rewrite!At
<1>3. [submit[t] EXCEPT !.at = place] \in [of : 0..Rewrites, at : Places]
  BY <1>1
<1>4. [submit[t] EXCEPT !.at = place].of = submit[t].of
      /\ [submit[t] EXCEPT !.at = place].at = place
  BY <1>1
<1> QED
  BY <1>1, <1>2, <1>3, <1>4

\* What a session can be.
Written == [id : 0..Rewrites, task : {"none", "reply", "draft", "dictation"}, context : BOOLEAN,
            inFlight : BOOLEAN, original : Rewrite!Texts, expected : Rewrite!Texts,
            progress : BOOLEAN, frame : 0..2, owned : SUBSET (0..2)]

\* A session whose frame is shown,
LEMMA ShownTyped ==
    ASSUME NEW r \in Written, NEW x \in Rewrite!Texts, NEW known \in SUBSET (0..2)
    PROVE  [r EXCEPT !.expected = x, !.progress = TRUE, !.owned = known] \in Written
BY DEF Written

\* one whose frame may be shown,
LEMMA UnsureTyped ==
    ASSUME NEW r \in Written, NEW known \in SUBSET (0..2)
    PROVE  /\ [r EXCEPT !.progress = TRUE, !.owned = known] \in Written
           /\ [r EXCEPT !.owned = known] \in Written
BY DEF Written

\* one that shows its next frame,
LEMMA NextTyped ==
    ASSUME NEW r \in Written, NEW x \in Rewrite!Texts, NEW k \in 0..2, NEW known \in SUBSET (0..2)
    PROVE  [r EXCEPT !.expected = x, !.frame = k, !.owned = known] \in Written
BY DEF Written

\* one that may be asked again,
LEMMA RetryTyped == ASSUME NEW r \in Written PROVE Rewrite!Retry(r) \in Written
<1> DEFINE q == [r EXCEPT !.progress = FALSE, !.frame = 0, !.owned = {}, !.expected = r.original]
<1>1. q = [r EXCEPT !.progress = FALSE, !.frame = 0, !.owned = {}, !.expected = r.original]
  OBVIOUS
<1>2. r.original \in Rewrite!Texts /\ {} \in SUBSET (0..2) /\ 0 \in 0..2
  BY DEF Written
<1> HIDE DEF q
<1>3. q \in Written
  BY <1>1, <1>2 DEF Written
<1>4. [q EXCEPT !.inFlight = FALSE] \in Written
  BY <1>3 DEF Written
<1> QED
  BY <1>1, <1>4 DEF Rewrite!Retry, Rewrite!Restored

\* and no session, are sessions.
LEMMA NoSessionTyped ==
    /\ Rewrite!NoSession \in Written /\ Rewrite!NoSession.id = 0
    /\ Rewrite!NoSession.progress = FALSE /\ Rewrite!NoSession.inFlight = FALSE
    /\ Rewrite!NoSession.task = "none" /\ Rewrite!NoSession.owned = {}
    /\ Rewrite!NoSession.original = Rewrite!Empty /\ Rewrite!NoSession.expected = Rewrite!Empty
BY RewriteBounds, TextsWith DEF Rewrite!NoSession, Written

\* What the steps leave of the types: the session, the composer, the requests, the word.
RewriteTypes ==
    /\ nextId \in 0..Rewrites /\ rewriteActive \in Written /\ cancelled \subseteq 1..Rewrites
    /\ rewriteText \in Rewrite!Texts /\ rewriteFocus \in {"target", "controller", "other"}
    /\ prep \in [1..Rewrites -> {"none", "fetch", "focus", "done"}]
    /\ submit \in [Submissions -> [of : 0..Rewrites, at : Places]]
    /\ refusing \subseteq (1..Rewrites) \X BOOLEAN
    /\ noticed \subseteq 1..Rewrites /\ overtaken \subseteq 1..Rewrites
    /\ rewriteEvents \in 0..Edits /\ rewriteFaults \in 0..Failures

\* The same types, of what the steps change together.
LEMMA SameTypes == Rewrite!TypeOK <=> RewriteTypes
BY DEF Rewrite!TypeOK, RewriteTypes, Written, Places, Rewrite!Frames, Rewrite!Sessions

\* A reply starts with a frame, or without, or with one that may be there.
LEMMA StartDoes ==
    ASSUME Rewrite!TypeOK, SessionKept, NEW t \in Submissions, Rewrite!Start(t)
    PROVE  /\ submit[t].at = "prepared"
           /\ UNCHANGED <<nextId, cancelled, rewriteFocus, prep, refusing, noticed, overtaken, rewriteEvents>>
           /\ rewriteFaults' \in 0..Failures
           /\ \E place \in {"running", "failing", "animating"} :
                 /\ Rewrite!At(t, place)
                 /\ \/ place # "animating" /\ UNCHANGED <<rewriteActive, rewriteText>>
                    \/ /\ rewriteActive.id = submit[t].of /\ rewriteActive.id # 0
                       /\ rewriteActive.task = "reply" /\ place # "running"
                       /\ rewriteText = rewriteActive.expected
                       /\ \/ /\ rewriteText' = Rewrite!Frame(rewriteActive.id, 0)
                             /\ rewriteActive' =
                                   [rewriteActive EXCEPT !.expected = Rewrite!Frame(rewriteActive.id, 0),
                                                         !.progress = TRUE, !.owned = {0}]
                          \/ /\ rewriteText' \in {rewriteText, Rewrite!Frame(rewriteActive.id, 0)}
                             /\ rewriteActive' = [rewriteActive EXCEPT !.progress = TRUE, !.owned = {0}]
                             /\ place = "failing"
<1> USE DEF Rewrite!Mine
<1>1. rewriteFaults \in 0..Failures
  BY DEF Rewrite!TypeOK
<1>2. /\ submit[t].at = "prepared"
      /\ UNCHANGED <<nextId, cancelled, rewriteFocus, prep, refusing, noticed, overtaken, rewriteEvents>>
  BY DEF Rewrite!Start
<1>3. CASE UNCHANGED <<rewriteActive, rewriteText, rewriteFaults>> /\
             (Rewrite!At(t, "running") \/ Rewrite!At(t, "failing"))
  BY <1>1, <1>2, <1>3
<1>4. CASE Rewrite!Mine(t) /\ rewriteActive.task = "reply" /\ rewriteActive.context
  <2>1. CASE Rewrite!Preview(rewriteActive, 0, "written") /\ Rewrite!At(t, "animating") /\
             rewriteActive' = [rewriteActive EXCEPT !.expected = Rewrite!Frame(rewriteActive.id, 0),
                                                    !.progress = TRUE, !.owned = {0}]
    <3>1. rewriteText = rewriteActive.expected
          /\ rewriteText' = Rewrite!Frame(rewriteActive.id, 0) /\ Rewrite!NoFault
      BY <2>1 DEF Rewrite!Preview
    <3> QED
      BY <1>1, <1>2, <1>4, <2>1, <3>1, Faulted
  <2>2. CASE /\ Rewrite!Preview(rewriteActive, 0, "refused") \/ Rewrite!Preview(rewriteActive, 0, "unable")
             /\ Rewrite!At(t, "running") \/ Rewrite!At(t, "failing")
             /\ UNCHANGED rewriteActive
    <3>1. UNCHANGED rewriteText /\ (Rewrite!Fault \/ Rewrite!NoFault)
      BY <2>2 DEF Rewrite!Preview
    <3> QED
      BY <1>1, <1>2, <2>2, <3>1, Faulted
  <2>3. CASE Rewrite!StartUnsure(t)
    <3>1. rewriteText = rewriteActive.expected /\ Rewrite!Fault
      BY <2>3 DEF Rewrite!StartUnsure
    <3>2. CASE UNCHANGED <<rewriteText, rewriteActive>> /\
                 (Rewrite!At(t, "running") \/ Rewrite!At(t, "failing"))
      BY <1>1, <1>2, <3>1, <3>2, Faulted
    <3>3. CASE /\ rewriteText' \in {rewriteText, Rewrite!Frame(rewriteActive.id, 0)}
               /\ rewriteActive' = [rewriteActive EXCEPT !.progress = TRUE, !.owned = {0}]
               /\ Rewrite!At(t, "failing")
      BY <1>1, <1>2, <1>4, <3>1, <3>3, Faulted
    <3> QED
      BY <2>3, <3>2, <3>3 DEF Rewrite!StartUnsure
  <2> QED
    BY <1>3, <1>4, <2>1, <2>2, <2>3 DEF Rewrite!Start
<1> QED
  BY <1>3, <1>4 DEF Rewrite!Start

\* A tick shows the next frame, gives up on one that is not there, or does nothing.
LEMMA TickDoes ==
    ASSUME Rewrite!TypeOK, SessionKept, NEW t \in Submissions, Rewrite!Tick(t)
    PROVE  /\ submit[t].at = "animating"
           /\ UNCHANGED <<nextId, rewriteFocus, prep, refusing, noticed, overtaken, rewriteEvents>>
           /\ rewriteFaults' \in 0..Failures
           /\ \/ submit' = submit /\ cancelled' = cancelled
              \/ Rewrite!At(t, "failing") /\ cancelled' = cancelled \cup {submit[t].of}
           /\ \/ rewriteActive' = rewriteActive /\ rewriteText' = rewriteText
              \/ /\ rewriteActive.id = submit[t].of /\ rewriteActive.id # 0
                 /\ \E next \in 0..2 :
                    \/ /\ rewriteText' = Rewrite!Frame(rewriteActive.id, next)
                       /\ rewriteText = rewriteActive.expected
                       /\ rewriteActive' =
                             [rewriteActive EXCEPT !.expected = Rewrite!Frame(rewriteActive.id, next),
                                                   !.frame = next, !.owned = {next}]
                    \/ /\ rewriteText' \in {rewriteText, Rewrite!Frame(rewriteActive.id, next)}
                       /\ rewriteText = rewriteActive.expected
                       /\ rewriteActive' =
                             [rewriteActive EXCEPT !.owned = rewriteActive.owned \cup {next}]
<1> DEFINE next == (rewriteActive.frame + 1) % 3
           givesUp == cancelled' = cancelled \cup {submit[t].of} /\ Rewrite!At(t, "failing")
<1>1. next \in 0..2 /\ rewriteFaults \in 0..Failures
  BY SessionTyped DEF Rewrite!TypeOK
<1>2. /\ submit[t].at = "animating"
      /\ \/ /\ Rewrite!Mine(t) /\ Rewrite!Preview(rewriteActive, next, "written")
            /\ rewriteActive' = [rewriteActive EXCEPT !.expected = Rewrite!Frame(rewriteActive.id, next),
                                   !.frame = next, !.owned = {next}]
            /\ UNCHANGED <<cancelled, submit>>
         \/ /\ Rewrite!Mine(t)
            /\ \/ Rewrite!Preview(rewriteActive, next, "refused")
               \/ Rewrite!Preview(rewriteActive, next, "unable")
            /\ givesUp /\ UNCHANGED rewriteActive
         \/ /\ Rewrite!Mine(t) /\ Rewrite!Preview(rewriteActive, next, "unsure")
            /\ rewriteActive' = [rewriteActive EXCEPT !.owned = rewriteActive.owned \cup {next}]
            /\ givesUp
         \/ ~Rewrite!Mine(t) /\ givesUp /\ UNCHANGED <<rewriteActive, rewriteText, rewriteFaults>>
      /\ UNCHANGED <<nextId, rewriteFocus, prep, refusing, noticed, overtaken, rewriteEvents>>
  BY DEF Rewrite!Tick
<1> HIDE DEF next
<1>3. ASSUME Rewrite!Mine(t), NEW o \in {"written", "refused", "unable", "unsure"},
             Rewrite!Preview(rewriteActive, next, o)
      PROVE  /\ rewriteFaults' \in 0..Failures
             /\ o \in {"refused", "unable"} => rewriteText' = rewriteText
             /\ o = "written" => rewriteText' = Rewrite!Frame(rewriteActive.id, next)
             /\ rewriteText' \in {rewriteText, Rewrite!Frame(rewriteActive.id, next)}
             /\ o \in {"written", "unsure"} => rewriteText = rewriteActive.expected
  <2>1. rewriteFaults' \in 0..Failures
    BY <1>1, <1>3, Faulted DEF Rewrite!Preview
  <2> QED
    BY <1>3, <2>1 DEF Rewrite!Preview
<1> QED
  BY <1>1, <1>2, <1>3 DEF Rewrite!Mine

\* A delivery ends the session: the answer is put in where it was asked for, or frames are
\* taken out; where it is not sure which, that is about to be said.
LEMMA DeliverDoes ==
    ASSUME Rewrite!TypeOK, SessionKept, NEW t \in Submissions, Rewrite!Deliver(t)
    PROVE  /\ submit[t].at = "ready" /\ rewriteActive.id = submit[t].of
           /\ rewriteActive.id \in 1..Rewrites /\ rewriteActive.id = nextId
           /\ Rewrite!At(t, "ended")
           /\ rewriteActive' = Rewrite!NoSession
           /\ cancelled' = cancelled \cup {rewriteActive.id} /\ cancelled' \subseteq 1..Rewrites
           /\ UNCHANGED <<nextId, prep, noticed, overtaken, rewriteEvents>>
           /\ rewriteFocus' \in {"target", "controller", "other"}
           /\ rewriteFaults' \in 0..Failures
           /\ rewriteText' \in Rewrite!Texts
           /\ \/ rewriteText' = rewriteText
              \/ OwnFrame(rewriteActive.id) /\ rewriteText' = Rewrite!Empty
              \/ /\ rewriteText = rewriteActive.expected
                 /\ rewriteText' = Rewrite!Result(rewriteActive.id)
           /\ \E u \in BOOLEAN : refusing' \in {refusing, refusing \cup {<<rewriteActive.id, u>>}}
           /\ (rewriteText'.by = "frame" /\ rewriteText'.of = rewriteActive.id) =>
                 <<rewriteActive.id, TRUE>> \in refusing'
<1> DEFINE id == rewriteActive.id
<1>1. /\ submit[t].at = "ready" /\ id = submit[t].of /\ id # 0
      /\ Rewrite!At(t, "ended") /\ rewriteActive' = Rewrite!NoSession
      /\ cancelled' = cancelled \cup {id}
      /\ UNCHANGED <<nextId, prep, noticed, overtaken, rewriteEvents>>
  BY DEF Rewrite!Deliver, Rewrite!Deliverable, Rewrite!Mine
<1>2. id \in 1..Rewrites /\ id = nextId /\ cancelled' \subseteq 1..Rewrites
  <2>1. id \in 0..Rewrites
    BY SessionTyped
  <2>2. id = nextId
    BY <1>1 DEF SessionKept
  <2>3. cancelled \subseteq 1..Rewrites
    BY DEF Rewrite!TypeOK, Rewrite!Sessions
  <2>4. id \in 1..Rewrites
    BY <1>1, <2>1, RewriteBounds
  <2> QED
    BY <1>1, <2>2, <2>3, <2>4
<1>3. rewriteFocus' \in {"target", "controller", "other"}
  BY DEF Rewrite!Deliver, Rewrite!TypeOK
<1>4. rewriteText \in Rewrite!Texts /\ rewriteFaults \in 0..Failures
  BY DEF Rewrite!TypeOK
<1>5. Rewrite!Result(id) \in Rewrite!Texts /\ Rewrite!Result(id).by = "answer"
  BY <1>2, TextsWith
<1> DEFINE Goal ==
           /\ rewriteFaults' \in 0..Failures
           /\ rewriteText' \in Rewrite!Texts
           /\ \/ rewriteText' = rewriteText
              \/ OwnFrame(id) /\ rewriteText' = Rewrite!Empty
              \/ /\ rewriteText = rewriteActive.expected
                 /\ rewriteText' = Rewrite!Result(id)
           /\ \E u \in BOOLEAN : refusing' \in {refusing, refusing \cup {<<id, u>>}}
           /\ (rewriteText'.by = "frame" /\ rewriteText'.of = id) => <<id, TRUE>> \in refusing'
<1>6. ASSUME NEW u \in BOOLEAN, Rewrite!Refuse(id, u)
      PROVE  refusing' = refusing \cup {<<id, u>>}
  BY <1>6 DEF Rewrite!Refuse
<1>7. ASSUME NEW ok \in BOOLEAN, Rewrite!Restore(rewriteActive, ok), Rewrite!Refuse(id, ~ok)
      PROVE  Goal
  <2>1. /\ rewriteText' = rewriteText \/ (OwnFrame(id) /\ rewriteText' = Rewrite!Empty)
        /\ ok => ~(rewriteText'.by = "frame" /\ rewriteText'.of = id)
        /\ rewriteFaults' \in 0..Failures
        /\ rewriteText' \in Rewrite!Texts
    BY <1>7, RestoreDoes
  <2>2. refusing' = refusing \cup {<<id, ~ok>>}
    BY <1>7 DEF Rewrite!Refuse
  <2>3. CASE ok = TRUE
    <3>1. refusing' = refusing \cup {<<id, FALSE>>}
      BY <2>2, <2>3
    <3> QED
      BY <2>1, <2>3, <3>1
  <2>4. CASE ok = FALSE
    <3>1. refusing' = refusing \cup {<<id, TRUE>>}
      BY <2>2, <2>4
    <3> QED
      BY <2>1, <3>1
  <2> QED
    BY <1>7, <2>3, <2>4
<1>8. ASSUME \E ok \in BOOLEAN : Rewrite!Restore(rewriteActive, ok) /\ Rewrite!Refuse(id, ~ok)
      PROVE  Goal
  BY <1>7, <1>8
<1>9. ASSUME Rewrite!Delivery(t) PROVE Goal
  <2>1. ASSUME rewriteText = rewriteActive.expected, rewriteText' = Rewrite!Result(id),
               Rewrite!NoFault, UNCHANGED refusing
        PROVE  Goal
    BY <1>4, <1>5, <2>1, Faulted
  <2>2. ASSUME rewriteText = rewriteActive.expected, Rewrite!Fault, Rewrite!Refuse(id, TRUE),
               rewriteText' \in {rewriteText, Rewrite!Result(id)}
        PROVE  Goal
    <3>1. refusing' = refusing \cup {<<id, TRUE>>}
      BY <1>6, <2>2
    <3> QED
      BY <1>4, <1>5, <2>2, <3>1, Faulted
  <2>3. ASSUME rewriteText = rewriteActive.expected, Rewrite!Fault, Rewrite!Refuse(id, FALSE),
               rewriteText' = Rewrite!Result(id)
        PROVE  Goal
    <3>1. refusing' = refusing \cup {<<id, FALSE>>}
      BY <1>6, <2>3
    <3> QED
      BY <1>4, <1>5, <2>3, <3>1, Faulted
  <2>4. \/ rewriteText = rewriteActive.expected /\ rewriteText' = Rewrite!Result(id)
              /\ Rewrite!NoFault /\ UNCHANGED refusing
        \/ \E ok \in BOOLEAN : Rewrite!Restore(rewriteActive, ok) /\ Rewrite!Refuse(id, ~ok)
        \/ rewriteText = rewriteActive.expected /\ Rewrite!Fault /\ Rewrite!Refuse(id, TRUE)
              /\ rewriteText' \in {rewriteText, Rewrite!Result(id)}
        \/ rewriteText = rewriteActive.expected /\ Rewrite!Fault /\ Rewrite!Refuse(id, FALSE)
              /\ rewriteText' = Rewrite!Result(id)
    BY <1>1, <1>9, Zenon DEF Rewrite!Delivery
  <2> HIDE DEF Goal
  <2> QED
    BY <1>8, <2>1, <2>2, <2>3, <2>4
<1>10. Goal
  <2> HIDE DEF Goal
  <2> QED
    BY <1>8, <1>9, Zenon DEF Rewrite!Deliver
<1> HIDE DEF id, Goal
<1> QED
  BY <1>1, <1>2, <1>3, <1>10 DEF id, Goal

\* A refusal is of a session.
LEMMA RefusalTyped ==
    ASSUME RewriteTypes, NEW s \in 1..Rewrites, NEW u \in BOOLEAN, Rewrite!Refuse(s, u)
    PROVE  refusing' \subseteq (1..Rewrites) \X BOOLEAN
<1>1. <<s, u>> \in (1..Rewrites) \X BOOLEAN
  OBVIOUS
<1> QED
  BY <1>1 DEF Rewrite!Refuse, RewriteTypes

\* Every step keeps the types.
LEMMA RewriteTyped ==
    ASSUME RewriteBounds, Rewrite!TypeOK, SessionKept, RequestsKept, Rewrite!Next
    PROVE  Rewrite!TypeOK'
<1> SUFFICES RewriteTypes'
  BY SameTypes, PTL
<1>s. RewriteTypes
  BY SameTypes
<1>n. rewriteActive.id # 0 => rewriteActive.id \in 1..Rewrites
  BY SessionTyped
<1> USE RewriteBounds
<1>1. CASE Rewrite!Close
  <2>1. PICK u \in BOOLEAN : Rewrite!CancelActive(u) /\
            IF u THEN Rewrite!Refuse(rewriteActive.id, TRUE) ELSE UNCHANGED refusing
    BY <1>1 DEF Rewrite!Close
  <2>2. refusing' \subseteq (1..Rewrites) \X BOOLEAN
    BY <1>1, <1>s, <1>n, <2>1, RefusalTyped DEF Rewrite!Close, RewriteTypes
  <2> QED
    BY <1>1, <1>s, <2>1, <2>2, CancelDoes, NoSessionTyped DEF Rewrite!Close, RewriteTypes
<1>2. CASE Rewrite!Trigger
  <2>1. PICK u \in BOOLEAN : Rewrite!CancelActive(u) /\
            noticed' = noticed \cup (IF u THEN {rewriteActive.id} ELSE {})
    BY <1>2 DEF Rewrite!Trigger
  <2>2. noticed' \subseteq 1..Rewrites
    BY <1>2, <1>s, <1>n, <2>1 DEF Rewrite!Trigger, RewriteTypes
  <2> QED
    BY <1>2, <1>s, <2>1, <2>2, CancelDoes, NoSessionTyped DEF Rewrite!Trigger, RewriteTypes
<1>3. CASE Rewrite!Begin
  <2>1. nextId + 1 \in 1..Rewrites
    BY <1>3, <1>s DEF Rewrite!Begin, RewriteTypes
  <2>2. rewriteActive' \in Written
    <3>1. rewriteText \in Rewrite!Texts /\ Rewrite!NoSession \in Written
      BY <1>s, NoSessionTyped DEF RewriteTypes
    <3>2. PICK kind \in {"reply", "draft"} :
              rewriteActive' = [Rewrite!NoSession EXCEPT !.id = nextId + 1, !.original = rewriteText,
                                  !.expected = rewriteText, !.task = kind]
      BY <1>3 DEF Rewrite!Begin
    <3>3. rewriteActive' = [Rewrite!NoSession EXCEPT !.id = nextId + 1, !.original = rewriteText,
                              !.expected = rewriteText, !.task = kind]
      BY <3>2
    <3>4. nextId + 1 \in 0..Rewrites /\ kind \in {"none", "reply", "draft", "dictation"}
      BY <2>1, <3>2, RewriteBounds
    <3> QED
      BY <3>1, <3>3, <3>4 DEF Written
  <2> QED
    BY <1>3, <1>s, <2>1, <2>2 DEF Rewrite!Begin, RewriteTypes
<1>4. ASSUME NEW s \in 1..Rewrites, Rewrite!Prepare(s) PROVE RewriteTypes'
  <2>1. \/ rewriteActive' = rewriteActive /\ UNCHANGED <<cancelled, rewriteText, rewriteFocus, refusing, rewriteFaults>>
        \/ /\ \E available \in BOOLEAN : rewriteActive' = [rewriteActive EXCEPT !.context = available]
           /\ rewriteFocus' \in {"controller", "target"}
           /\ UNCHANGED <<cancelled, rewriteText, refusing, rewriteFaults>>
        \/ /\ \E u \in BOOLEAN : Rewrite!CancelActive(u)
           /\ Rewrite!Refuse(s, FALSE) /\ UNCHANGED rewriteFocus
    BY <1>4 DEF Rewrite!Prepare
  <2>2. prep' \in [1..Rewrites -> {"none", "fetch", "focus", "done"}]
    BY <1>4, <1>s DEF Rewrite!Prepare, RewriteTypes
  <2>3. UNCHANGED <<nextId, submit, noticed, overtaken, rewriteEvents>>
    BY <1>4 DEF Rewrite!Prepare
  <2>4. CASE \E u \in BOOLEAN : Rewrite!CancelActive(u) /\ Rewrite!Refuse(s, FALSE) /\ UNCHANGED rewriteFocus
    <3>1. refusing' \subseteq (1..Rewrites) \X BOOLEAN
      BY <1>s, <2>4, RefusalTyped
    <3> QED
      BY <1>s, <2>2, <2>3, <2>4, <3>1, CancelDoes, NoSessionTyped DEF RewriteTypes
  <2>5. ASSUME NEW available \in BOOLEAN, rewriteActive' = [rewriteActive EXCEPT !.context = available]
        PROVE rewriteActive' \in Written
    BY <1>s, <2>5 DEF RewriteTypes, Written
  <2> QED
    BY <1>s, <2>1, <2>2, <2>3, <2>4, <2>5 DEF RewriteTypes
<1>5. ASSUME NEW s \in 1..Rewrites, Rewrite!AwaitFocus(s) PROVE RewriteTypes'
  <2>1. prep' \in [1..Rewrites -> {"none", "fetch", "focus", "done"}]
    BY <1>5, <1>s DEF Rewrite!AwaitFocus, RewriteTypes
  <2>2. CASE UNCHANGED <<rewriteActive, cancelled, rewriteText, refusing, rewriteFaults>>
    BY <1>5, <1>s, <2>1, <2>2 DEF Rewrite!AwaitFocus, RewriteTypes
  <2>3. CASE \E u \in BOOLEAN : Rewrite!CancelActive(u) /\ Rewrite!Refuse(s, FALSE)
    <3>1. refusing' \subseteq (1..Rewrites) \X BOOLEAN
      BY <1>s, <2>3, RefusalTyped
    <3> QED
      BY <1>5, <1>s, <2>1, <2>3, <3>1, CancelDoes, NoSessionTyped DEF Rewrite!AwaitFocus, RewriteTypes
  <2> QED
    BY <1>5, <2>2, <2>3 DEF Rewrite!AwaitFocus
<1>6. ASSUME NEW r \in (1..Rewrites) \X BOOLEAN, Rewrite!ShowRefusal(r) PROVE RewriteTypes'
  <2>1. noticed' \subseteq 1..Rewrites /\ refusing' \subseteq (1..Rewrites) \X BOOLEAN
    BY <1>6, <1>s DEF Rewrite!ShowRefusal, RewriteTypes
  <2> QED
    BY <1>6, <1>s, <2>1 DEF Rewrite!ShowRefusal, RewriteTypes
<1>7. ASSUME NEW t \in Submissions, Rewrite!Submit(t) PROVE RewriteTypes'
  <2>1. submit' \in [Submissions -> [of : 0..Rewrites, at : Places]]
    BY <1>7, <1>s, SessionTyped DEF Rewrite!Submit, RewriteTypes, Places
  <2>2. rewriteActive' \in Written
    BY <1>7, <1>s DEF Rewrite!Submit, RewriteTypes, Written
  <2> QED
    BY <1>7, <1>s, <2>1, <2>2 DEF Rewrite!Submit, RewriteTypes
<1>8. ASSUME NEW t \in Submissions, Rewrite!Start(t) PROVE RewriteTypes'
  <2>1. PICK place \in {"running", "failing", "animating"} :
          /\ Rewrite!At(t, place)
          /\ \/ UNCHANGED <<rewriteActive, rewriteText>>
             \/ /\ rewriteActive.id # 0
                /\ rewriteText' \in {rewriteText, Rewrite!Frame(rewriteActive.id, 0)}
                /\ \/ rewriteActive' =
                         [rewriteActive EXCEPT !.expected = Rewrite!Frame(rewriteActive.id, 0),
                                               !.progress = TRUE, !.owned = {0}]
                   \/ rewriteActive' = [rewriteActive EXCEPT !.progress = TRUE, !.owned = {0}]
    BY <1>8, StartDoes
  <2>2. submit' \in [Submissions -> [of : 0..Rewrites, at : Places]]
    BY <2>1, RequestMoves DEF Places
  <2>3. rewriteActive.id # 0 => Rewrite!Frame(rewriteActive.id, 0) \in Rewrite!Texts /\ {0} \subseteq 0..2
    BY <1>n, TextsWith
  <2>4. rewriteActive' \in Written
    <3>1. rewriteActive \in Written
      BY <1>s DEF RewriteTypes
    <3>2. rewriteActive.id # 0 =>
            /\ [rewriteActive EXCEPT !.expected = Rewrite!Frame(rewriteActive.id, 0),
                                     !.progress = TRUE, !.owned = {0}] \in Written
            /\ [rewriteActive EXCEPT !.progress = TRUE, !.owned = {0}] \in Written
      BY <2>3, <3>1, ShownTyped, UnsureTyped
    <3> QED
      BY <2>1, <3>1, <3>2
  <2>5. rewriteText' \in Rewrite!Texts
    BY <1>s, <2>1, <2>3 DEF RewriteTypes
  <2> QED
    BY <1>8, <1>s, <2>2, <2>4, <2>5, StartDoes DEF RewriteTypes
<1>9. ASSUME NEW t \in Submissions, Rewrite!Tick(t) PROVE RewriteTypes'
  <2>1. /\ submit[t].at = "animating"
        /\ UNCHANGED <<nextId, rewriteFocus, prep, refusing, noticed, overtaken, rewriteEvents>>
        /\ rewriteFaults' \in 0..Failures
        /\ \/ submit' = submit /\ cancelled' = cancelled
           \/ Rewrite!At(t, "failing") /\ cancelled' = cancelled \cup {submit[t].of}
    BY <1>9, TickDoes
  <2>2. \/ rewriteActive' = rewriteActive /\ rewriteText' = rewriteText
        \/ \E next \in 0..2 :
              /\ rewriteActive.id # 0
              /\ rewriteText' \in {rewriteText, Rewrite!Frame(rewriteActive.id, next)}
              /\ \/ rewriteActive' =
                       [rewriteActive EXCEPT !.expected = Rewrite!Frame(rewriteActive.id, next),
                                             !.frame = next, !.owned = {next}]
                 \/ rewriteActive' = [rewriteActive EXCEPT !.owned = rewriteActive.owned \cup {next}]
    BY <1>9, TickDoes
  <2>3. submit' \in [Submissions -> [of : 0..Rewrites, at : Places]]
    BY <1>s, <2>1, RequestMoves DEF Places, RewriteTypes
  <2>4. cancelled' \subseteq 1..Rewrites
    <3>1. submit[t].of \in 1..Rewrites
      BY <1>s, <2>1 DEF RewriteTypes, RequestsKept
    <3> QED
      BY <1>s, <2>1, <3>1 DEF RewriteTypes
  <2>5. rewriteActive' \in Written /\ rewriteText' \in Rewrite!Texts
    <3>1. CASE rewriteActive' = rewriteActive /\ rewriteText' = rewriteText
      BY <1>s, <3>1 DEF RewriteTypes
    <3>2. ASSUME NEW next \in 0..2, rewriteActive.id # 0,
                 rewriteText' \in {rewriteText, Rewrite!Frame(rewriteActive.id, next)},
                 \/ rewriteActive' =
                       [rewriteActive EXCEPT !.expected = Rewrite!Frame(rewriteActive.id, next),
                                             !.frame = next, !.owned = {next}]
                 \/ rewriteActive' = [rewriteActive EXCEPT !.owned = rewriteActive.owned \cup {next}]
          PROVE  rewriteActive' \in Written /\ rewriteText' \in Rewrite!Texts
      <4>1. Rewrite!Frame(rewriteActive.id, next) \in Rewrite!Texts
        BY <1>n, <3>2, TextsWith
      <4>2. rewriteActive.owned \cup {next} \in SUBSET (0..2) /\ {next} \in SUBSET (0..2)
        BY <3>2, SessionTyped
      <4>3. rewriteActive \in Written /\ rewriteText \in Rewrite!Texts
        BY <1>s DEF RewriteTypes
      <4>4. /\ [rewriteActive EXCEPT !.expected = Rewrite!Frame(rewriteActive.id, next),
                                     !.frame = next, !.owned = {next}] \in Written
            /\ [rewriteActive EXCEPT !.owned = rewriteActive.owned \cup {next}] \in Written
        BY <4>1, <4>2, <4>3, NextTyped, UnsureTyped
      <4> QED
        BY <3>2, <4>1, <4>3, <4>4
    <3> QED
      BY <2>2, <3>1, <3>2
  <2> QED
    BY <1>s, <2>1, <2>3, <2>4, <2>5 DEF RewriteTypes
<1>10. ASSUME NEW t \in Submissions, Rewrite!Generated(t) PROVE RewriteTypes'
  <2>1. submit' \in [Submissions -> [of : 0..Rewrites, at : Places]]
    BY <1>10, RequestMoves DEF Rewrite!Generated, Places
  <2>2. rewriteFaults' \in 0..Failures
    BY <1>10, <1>s, Faulted DEF Rewrite!Generated, RewriteTypes
  <2> QED
    BY <1>10, <1>s, <2>1, <2>2 DEF Rewrite!Generated, RewriteTypes
<1>11. ASSUME NEW t \in Submissions, Rewrite!Ready(t) \/ Rewrite!Stale(t) PROVE RewriteTypes'
  <2>1. submit' \in [Submissions -> [of : 0..Rewrites, at : Places]]
    BY <1>11, RequestMoves DEF Rewrite!Ready, Rewrite!Stale, Places
  <2> QED
    BY <1>11, <1>s, <2>1 DEF Rewrite!Ready, Rewrite!Stale, RewriteTypes
<1>12. ASSUME NEW t \in Submissions, Rewrite!RewriteFailed(t) PROVE RewriteTypes'
  <2>1. submit' \in [Submissions -> [of : 0..Rewrites, at : Places]]
    BY <1>12, RequestMoves DEF Rewrite!RewriteFailed, Places
  <2>2. UNCHANGED <<nextId, rewriteFocus, prep, noticed, overtaken, rewriteEvents>>
    BY <1>12 DEF Rewrite!RewriteFailed
  <2>3. CASE UNCHANGED <<rewriteActive, cancelled, rewriteText, refusing, rewriteFaults>>
    BY <1>s, <2>1, <2>2, <2>3 DEF RewriteTypes
  <2>4. ASSUME Rewrite!Mine(t), Rewrite!Restore(rewriteActive, TRUE),
               rewriteActive' = Rewrite!Retry(rewriteActive), UNCHANGED <<cancelled, refusing>>
        PROVE  RewriteTypes'
    <3>1. rewriteActive' \in Written
      BY <1>s, <2>4, RetryTyped DEF RewriteTypes
    <3> QED
      BY <1>s, <2>1, <2>2, <2>4, <3>1, RestoreDoes DEF RewriteTypes
  <2>5. ASSUME Rewrite!Mine(t), Rewrite!Restore(rewriteActive, FALSE),
               rewriteActive' = Rewrite!NoSession, cancelled' = cancelled \cup {rewriteActive.id},
               Rewrite!Refuse(rewriteActive.id, TRUE)
        PROVE  RewriteTypes'
    <3>1. rewriteActive.id \in 1..Rewrites
      BY <1>n, <2>5 DEF Rewrite!Mine
    <3>2. refusing' \subseteq (1..Rewrites) \X BOOLEAN /\ cancelled' \subseteq 1..Rewrites
      BY <1>s, <2>5, <3>1, RefusalTyped DEF RewriteTypes
    <3> QED
      BY <1>s, <2>1, <2>2, <2>5, <3>2, RestoreDoes, NoSessionTyped DEF RewriteTypes
  <2> QED
    BY <1>12, <2>3, <2>4, <2>5 DEF Rewrite!RewriteFailed
<1>13. ASSUME NEW t \in Submissions, Rewrite!Deliver(t) PROVE RewriteTypes'
  <2>1. submit' \in [Submissions -> [of : 0..Rewrites, at : Places]]
    BY <1>13, DeliverDoes, RequestMoves DEF Places
  <2>2. refusing' \subseteq (1..Rewrites) \X BOOLEAN
    <3>1. PICK u \in BOOLEAN : refusing' \in {refusing, refusing \cup {<<rewriteActive.id, u>>}}
      BY <1>13, DeliverDoes
    <3>2. <<rewriteActive.id, u>> \in (1..Rewrites) \X BOOLEAN
      BY <1>13, DeliverDoes
    <3> QED
      BY <1>s, <3>1, <3>2 DEF RewriteTypes
  <2>3. /\ rewriteActive' \in Written /\ cancelled' \subseteq 1..Rewrites
        /\ UNCHANGED <<nextId, prep, noticed, overtaken, rewriteEvents>>
        /\ rewriteFocus' \in {"target", "controller", "other"}
        /\ rewriteFaults' \in 0..Failures
        /\ rewriteText' \in Rewrite!Texts
    BY <1>13, DeliverDoes, NoSessionTyped
  <2> QED
    BY <1>s, <2>1, <2>2, <2>3 DEF RewriteTypes
<1>14. CASE Rewrite!UserTypes
  <2>1. rewriteEvents' \in 0..Edits /\ rewriteText' \in Rewrite!Texts
    BY <1>14, <1>s DEF Rewrite!UserTypes, RewriteTypes, Rewrite!Texts
  <2> QED
    BY <1>14, <1>s, <2>1 DEF Rewrite!UserTypes, RewriteTypes
<1>15. CASE Rewrite!UserSwitches
  <2>1. rewriteEvents' \in 0..Edits
    BY <1>15, <1>s DEF Rewrite!UserSwitches, RewriteTypes
  <2> QED
    BY <1>15, <1>s, <2>1 DEF Rewrite!UserSwitches, RewriteTypes
<1>16. CASE Rewrite!Hold
  <2>1. UNCHANGED <<prep, submit, refusing, noticed, rewriteEvents>>
    BY <1>16, HoldDoes
  <2>2. /\ cancelled' \subseteq 1..Rewrites /\ rewriteFaults' \in 0..Failures
        /\ rewriteText' \in Rewrite!Texts
        /\ rewriteFocus' \in {"target", "controller", "other"}
    BY <1>16, HoldDoes
  <2>3. overtaken' \subseteq 1..Rewrites
    <3>1. overtaken' = overtaken \/
             (rewriteActive.id # 0 /\ overtaken' = overtaken \cup {rewriteActive.id})
      BY <1>16, HoldDoes
    <3> QED
      BY <1>s, <1>n, <3>1 DEF RewriteTypes
  <2>4. rewriteActive' \in Written /\ nextId' \in 0..Rewrites
    <3>1. \/ nextId' = nextId /\ rewriteActive' = Rewrite!NoSession
          \/ /\ nextId < Rewrites /\ nextId' = nextId + 1
             /\ rewriteActive' = [Rewrite!NoSession EXCEPT !.id = nextId + 1, !.task = "dictation",
                                    !.original = rewriteText', !.expected = rewriteText']
      BY <1>16, HoldDoes
    <3>2. nextId < Rewrites => nextId + 1 \in 0..Rewrites
      BY <1>s DEF RewriteTypes
    <3>3. ASSUME nextId + 1 \in 0..Rewrites,
                 rewriteActive' = [Rewrite!NoSession EXCEPT !.id = nextId + 1, !.task = "dictation",
                                    !.original = rewriteText', !.expected = rewriteText']
          PROVE  rewriteActive' \in Written
      BY <2>2, <3>3, NoSessionTyped DEF Written
    <3> QED
      BY <1>s, <3>1, <3>2, <3>3, NoSessionTyped DEF RewriteTypes
  <2> QED
    BY <1>s, <2>1, <2>2, <2>3, <2>4 DEF RewriteTypes
<1>17. CASE Rewrite!DictationEnds
  BY <1>17, <1>s, DictationDoes, NoSessionTyped DEF RewriteTypes
<1> QED
  BY <1>1, <1>2, <1>3, <1>4, <1>5, <1>6, <1>7, <1>8, <1>9, <1>10, <1>11, <1>12, <1>13, <1>14, <1>15,
     <1>16, <1>17 DEF Rewrite!Next, Rewrite!Sessions

\* What every step needs of the types.
LEMMA WrittenNow == ASSUME Rewrite!TypeOK PROVE rewriteActive \in Written /\ nextId \in 0..Rewrites
BY SameTypes DEF RewriteTypes

\* The frames of the session are its own.
LEMMA FramesAre ==
    ASSUME Rewrite!TypeOK, SessionKept, NEW k \in 0..2, rewriteActive.id # 0
    PROVE  /\ Rewrite!Frame(rewriteActive.id, k).by = "frame"
           /\ Rewrite!Frame(rewriteActive.id, k).of = rewriteActive.id
           /\ Rewrite!Frame(rewriteActive.id, k).n = k
           /\ rewriteActive.id = nextId /\ nextId \in 1..nextId
<1>1. rewriteActive.id \in 1..Rewrites /\ rewriteActive.id = nextId
  BY SessionTyped, RewriteBounds DEF SessionKept
<1> QED
  BY <1>1, TextsWith, RewriteBounds

\* A session that ended has nothing to keep.
LEMMA EndsSession ==
    ASSUME Rewrite!TypeOK, SessionKept, rewriteActive' = Rewrite!NoSession, nextId' = nextId,
           rewriteText'.by = "frame" => rewriteText' = rewriteText,
           \A r \in refusing' : r[1] <= nextId
    PROVE  SessionKept'
<1>1. rewriteText.by = "frame" => rewriteText.of # 0
  BY WrittenNow DEF SessionKept
<1> QED
  BY <1>1, NoSessionTyped DEF SessionKept, OwnFrame

\* A session that is cancelled leaves what is kept of sessions true.
LEMMA CancelEnds ==
    ASSUME Rewrite!TypeOK, SessionKept, NEW u \in BOOLEAN, Rewrite!CancelActive(u),
           nextId' = nextId, \A r \in refusing' : r[1] <= nextId
    PROVE  SessionKept'
<1>1. rewriteText'.by = "frame" => rewriteText' = rewriteText
  BY CancelDoes, TextsWith
<1>2. rewriteActive' = Rewrite!NoSession
  BY CancelDoes
<1> QED
  BY <1>1, <1>2, EndsSession

\* A refusal is of a session there was.
LEMMA RefusalKnown ==
    ASSUME SessionKept, NEW s, s <= nextId, NEW u, Rewrite!Refuse(s, u)
    PROVE  \A r \in refusing' : r[1] <= nextId
BY DEF SessionKept, Rewrite!Refuse

\* Every step keeps what is known of the session and of its frames.
LEMMA SessionStep ==
    ASSUME RewriteInv, Rewrite!Next
    PROVE  SessionKept'
<1>s. Rewrite!TypeOK /\ SessionKept /\ RequestsKept /\ Rewrite!InFlightHasRequest
  BY DEF RewriteInv
<1>n. /\ rewriteActive \in Written /\ nextId \in 0..Rewrites
      /\ rewriteActive.id # 0 => rewriteActive.id <= nextId
  BY <1>s, WrittenNow, RewriteBounds DEF SessionKept
<1>k. \A r \in refusing : r[1] <= nextId
  BY <1>s DEF SessionKept
<1>1. CASE Rewrite!Close
  <2>1. PICK u \in BOOLEAN : Rewrite!CancelActive(u) /\
            IF u THEN Rewrite!Refuse(rewriteActive.id, TRUE) ELSE UNCHANGED refusing
    BY <1>1 DEF Rewrite!Close
  <2>2. \A r \in refusing' : r[1] <= nextId
    BY <1>1, <1>s, <1>n, <1>k, <2>1, RefusalKnown DEF Rewrite!Close
  <2>3. nextId' = nextId
    BY <1>1 DEF Rewrite!Close
  <2> QED
    BY <1>s, <2>1, <2>2, <2>3, CancelEnds
<1>2. CASE Rewrite!Trigger
  <2>1. PICK u \in BOOLEAN : Rewrite!CancelActive(u)
    BY <1>2 DEF Rewrite!Trigger
  <2>2. nextId' = nextId /\ refusing' = refusing
    BY <1>2 DEF Rewrite!Trigger
  <2> QED
    BY <1>s, <1>k, <2>1, <2>2, CancelEnds
<1>3. CASE Rewrite!Begin
  <2>1. PICK kind \in {"reply", "draft"} :
          /\ rewriteActive' = [Rewrite!NoSession EXCEPT !.id = nextId + 1, !.original = rewriteText,
                                 !.expected = rewriteText, !.task = kind]
          /\ kind = "reply" => rewriteText = Rewrite!Empty
    BY <1>3 DEF Rewrite!Begin
  <2>2. /\ rewriteActive'.id = nextId + 1 /\ rewriteActive'.progress = FALSE
        /\ rewriteActive'.original = rewriteText /\ rewriteActive'.expected = rewriteText
        /\ rewriteActive'.task = kind
    BY <2>1 DEF Rewrite!NoSession
  <2>3. nextId' = nextId + 1 /\ UNCHANGED <<rewriteText, refusing>>
    BY <1>3 DEF Rewrite!Begin
  <2>4. nextId + 1 # 0 /\ nextId \in Int
    BY <1>n
  <2>5. \A r \in refusing' : r[1] <= nextId'
    <3>1. \A r \in refusing : r[1] \in 1..Rewrites
      BY <1>s, SameTypes DEF RewriteTypes
    <3> QED
      BY <1>k, <2>3, <2>4, <3>1
  <2>6. rewriteText.by = "frame" => rewriteText.of \in 1..nextId
    BY <1>s DEF SessionKept
  <2> QED
    BY <2>1, <2>2, <2>3, <2>4, <2>5, <2>6 DEF SessionKept, OwnFrame
<1>4. ASSUME NEW s \in 1..Rewrites, Rewrite!Prepare(s) PROVE SessionKept'
  <2>1. nextId' = nextId
    BY <1>4 DEF Rewrite!Prepare
  <2>2. CASE UNCHANGED <<rewriteActive, rewriteText, refusing>>
    BY <1>s, <2>1, <2>2 DEF SessionKept, OwnFrame
  <2>3. ASSUME \E available \in BOOLEAN : rewriteActive' = [rewriteActive EXCEPT !.context = available],
               UNCHANGED <<rewriteText, refusing>>, rewriteActive.id = s
        PROVE  SessionKept'
    <3>1. /\ rewriteActive'.id = rewriteActive.id /\ rewriteActive'.task = rewriteActive.task
          /\ rewriteActive'.progress = rewriteActive.progress
          /\ rewriteActive'.inFlight = rewriteActive.inFlight
          /\ rewriteActive'.original = rewriteActive.original
          /\ rewriteActive'.expected = rewriteActive.expected
          /\ rewriteActive'.owned = rewriteActive.owned
      BY <1>n, <2>3 DEF Written
    <3>2. rewriteActive.id # 0
      BY <2>3
    <3> QED
      BY <1>s, <2>1, <2>3, <3>1, <3>2 DEF SessionKept, OwnFrame
  <2>4. ASSUME NEW u \in BOOLEAN, Rewrite!CancelActive(u), Rewrite!Refuse(s, FALSE), rewriteActive.id = s
        PROVE  SessionKept'
    <3>1. s <= nextId
      BY <1>n, <2>4
    <3> QED
      BY <1>s, <2>1, <2>4, <3>1, RefusalKnown, CancelEnds
  <2>5. \/ UNCHANGED <<rewriteActive, rewriteText, refusing>>
        \/ /\ \E available \in BOOLEAN : rewriteActive' = [rewriteActive EXCEPT !.context = available]
           /\ rewriteActive.id = s
           /\ UNCHANGED <<rewriteText, refusing>>
        \/ /\ \E u \in BOOLEAN : Rewrite!CancelActive(u)
           /\ rewriteActive.id = s /\ Rewrite!Refuse(s, FALSE)
    BY <1>4, Zenon DEF Rewrite!Prepare
  <2> QED
    BY <1>4, <2>2, <2>3, <2>4, <2>5
<1>5. ASSUME NEW s \in 1..Rewrites, Rewrite!AwaitFocus(s) PROVE SessionKept'
  <2>1. nextId' = nextId
    BY <1>5 DEF Rewrite!AwaitFocus
  <2>2. CASE UNCHANGED <<rewriteActive, rewriteText, refusing>>
    BY <1>s, <2>1, <2>2 DEF SessionKept, OwnFrame
  <2>4. ASSUME NEW u \in BOOLEAN, Rewrite!CancelActive(u), Rewrite!Refuse(s, FALSE), rewriteActive.id = s
        PROVE  SessionKept'
    <3>1. s <= nextId
      BY <1>n, <2>4
    <3> QED
      BY <1>s, <2>1, <2>4, <3>1, RefusalKnown, CancelEnds
  <2> QED
    BY <1>5, <2>2, <2>4 DEF Rewrite!AwaitFocus
<1>6. ASSUME NEW r \in (1..Rewrites) \X BOOLEAN, Rewrite!ShowRefusal(r) PROVE SessionKept'
  <2>1. UNCHANGED <<rewriteActive, rewriteText, nextId>> /\ refusing' \subseteq refusing
    BY <1>6 DEF Rewrite!ShowRefusal
  <2> QED
    BY <1>s, <2>1 DEF SessionKept, OwnFrame
<1>7. ASSUME NEW t \in Submissions, Rewrite!Submit(t) PROVE SessionKept'
  <2>1. /\ rewriteActive' = [rewriteActive EXCEPT !.inFlight = TRUE] /\ rewriteActive.id # 0
        /\ UNCHANGED <<rewriteText, nextId, refusing>>
    BY <1>7 DEF Rewrite!Submit
  <2>2. /\ rewriteActive'.id = rewriteActive.id /\ rewriteActive'.task = rewriteActive.task
        /\ rewriteActive'.progress = rewriteActive.progress
        /\ rewriteActive'.inFlight = TRUE
        /\ rewriteActive'.original = rewriteActive.original
        /\ rewriteActive'.expected = rewriteActive.expected
        /\ rewriteActive'.owned = rewriteActive.owned
    BY <1>n, <2>1 DEF Written
  <2> QED
    BY <1>s, <2>1, <2>2 DEF SessionKept, OwnFrame
<1>8. ASSUME NEW t \in Submissions, Rewrite!Start(t) PROVE SessionKept'
  <2>1. UNCHANGED <<nextId, refusing>> /\ submit[t].at = "prepared"
    BY <1>8, <1>s, StartDoes
  <2>2. CASE UNCHANGED <<rewriteActive, rewriteText>>
    BY <1>s, <2>1, <2>2 DEF SessionKept, OwnFrame
  <2>3. ASSUME rewriteActive.id = submit[t].of, rewriteActive.id # 0, rewriteActive.task = "reply",
               rewriteText = rewriteActive.expected,
               \/ /\ rewriteText' = Rewrite!Frame(rewriteActive.id, 0)
                  /\ rewriteActive' = [rewriteActive EXCEPT
                         !.expected = Rewrite!Frame(rewriteActive.id, 0), !.progress = TRUE, !.owned = {0}]
               \/ /\ rewriteText' \in {rewriteText, Rewrite!Frame(rewriteActive.id, 0)}
                  /\ rewriteActive' = [rewriteActive EXCEPT !.progress = TRUE, !.owned = {0}]
        PROVE  SessionKept'
    <3>1. rewriteActive.inFlight
      BY <1>s, <2>1, <2>3 DEF RequestsKept, Live
    <3>2. rewriteActive.original = Rewrite!Empty /\ Rewrite!Empty.by = "user"
      BY <1>s, <2>3, TextsWith DEF SessionKept
    <3> DEFINE f == Rewrite!Frame(rewriteActive.id, 0)
    <3>3. /\ f.by = "frame" /\ f.of = rewriteActive.id /\ f.n = 0
          /\ rewriteActive.id = nextId /\ nextId \in 1..nextId
      BY <1>s, <2>3, FramesAre
    <3>4. /\ rewriteActive'.id = rewriteActive.id /\ rewriteActive'.task = rewriteActive.task
          /\ rewriteActive'.progress = TRUE
          /\ rewriteActive'.inFlight = rewriteActive.inFlight
          /\ rewriteActive'.original = rewriteActive.original
          /\ rewriteActive'.expected \in {rewriteActive.expected, f}
          /\ rewriteActive'.owned = {0}
      BY <1>n, <2>3 DEF Written
    <3>5. ~(rewriteText.by = "frame" /\ rewriteText.of = rewriteActive.id)
      BY <1>s, <2>1, <2>3 DEF SessionKept, RequestsKept, OwnFrame
    <3>6. rewriteText' \in {rewriteText, f}
      BY <2>3
    <3> HIDE DEF f
    <3>7. /\ rewriteActive'.id \in {0, nextId'} /\ rewriteActive'.id # 0
          /\ rewriteActive'.progress => rewriteActive'.task = "reply" /\ rewriteActive'.inFlight
          /\ rewriteActive'.task = "reply" => rewriteActive'.original = Rewrite!Empty
          /\ \/ rewriteActive'.expected = rewriteActive'.original
             \/ rewriteActive'.expected.by = "frame" /\ rewriteActive'.expected.of = rewriteActive'.id
      BY <1>s, <2>1, <2>3, <3>1, <3>2, <3>3, <3>4 DEF SessionKept
    <3>8. /\ OwnFrame(rewriteActive.id)' => rewriteActive'.progress /\ rewriteText'.n \in rewriteActive'.owned
          /\ rewriteText'.by = "frame" => rewriteText'.of \in 1..nextId'
      BY <1>s, <2>1, <3>3, <3>4, <3>5, <3>6 DEF SessionKept, OwnFrame
    <3> QED
      BY <1>k, <2>1, <3>7, <3>8 DEF SessionKept
  <2> QED
    BY <1>8, <1>s, <2>2, <2>3, StartDoes
<1>9. ASSUME NEW t \in Submissions, Rewrite!Tick(t) PROVE SessionKept'
  <2>1. UNCHANGED <<nextId, refusing>> /\ submit[t].at = "animating"
    BY <1>9, <1>s, TickDoes
  <2>2. CASE rewriteActive' = rewriteActive /\ rewriteText' = rewriteText
    BY <1>s, <2>1, <2>2 DEF SessionKept, OwnFrame
  <2>3. ASSUME NEW next \in 0..2, rewriteActive.id = submit[t].of, rewriteActive.id # 0,
               \/ /\ rewriteText' = Rewrite!Frame(rewriteActive.id, next)
                  /\ rewriteActive' =
                        [rewriteActive EXCEPT !.expected = Rewrite!Frame(rewriteActive.id, next),
                                              !.frame = next, !.owned = {next}]
               \/ /\ rewriteText' \in {rewriteText, Rewrite!Frame(rewriteActive.id, next)}
                  /\ rewriteActive' =
                        [rewriteActive EXCEPT !.owned = rewriteActive.owned \cup {next}]
        PROVE  SessionKept'
    <3> DEFINE f == Rewrite!Frame(rewriteActive.id, next)
    <3>1. rewriteActive.progress
      BY <1>s, <2>1, <2>3 DEF RequestsKept
    <3>2. /\ f.by = "frame" /\ f.of = rewriteActive.id /\ f.n = next
          /\ rewriteActive.id = nextId /\ nextId \in 1..nextId
      BY <1>s, <2>3, FramesAre
    <3>3. /\ rewriteActive'.id = rewriteActive.id /\ rewriteActive'.task = rewriteActive.task
          /\ rewriteActive'.progress = rewriteActive.progress
          /\ rewriteActive'.inFlight = rewriteActive.inFlight
          /\ rewriteActive'.original = rewriteActive.original
          /\ rewriteActive'.expected \in {rewriteActive.expected, f}
          /\ next \in rewriteActive'.owned
          /\ rewriteText' = f \/
                (rewriteText' = rewriteText /\ rewriteActive.owned \subseteq rewriteActive'.owned)
      BY <1>n, <2>3 DEF Written
    <3> HIDE DEF f
    <3>4. /\ rewriteActive'.id \in {0, nextId'} /\ rewriteActive'.id # 0
          /\ rewriteActive'.progress => rewriteActive'.task = "reply" /\ rewriteActive'.inFlight
          /\ rewriteActive'.task = "reply" => rewriteActive'.original = Rewrite!Empty
          /\ \/ rewriteActive'.expected = rewriteActive'.original
             \/ rewriteActive'.expected.by = "frame" /\ rewriteActive'.expected.of = rewriteActive'.id
      BY <1>s, <2>1, <2>3, <3>2, <3>3 DEF SessionKept
    <3>5. /\ OwnFrame(rewriteActive.id)' => rewriteActive'.progress /\ rewriteText'.n \in rewriteActive'.owned
          /\ rewriteText'.by = "frame" => rewriteText'.of \in 1..nextId'
      BY <1>s, <2>1, <3>1, <3>2, <3>3 DEF SessionKept, OwnFrame
    <3> QED
      BY <1>k, <2>1, <3>4, <3>5 DEF SessionKept
  <2> QED
    BY <1>9, <1>s, <2>2, <2>3, TickDoes
<1>10. ASSUME UNCHANGED <<rewriteActive, rewriteText, nextId, refusing>> PROVE SessionKept'
  BY <1>s, <1>10 DEF SessionKept, OwnFrame
<1>11. ASSUME NEW t \in Submissions, Rewrite!Generated(t) \/ Rewrite!Ready(t) \/ Rewrite!Stale(t)
       PROVE  SessionKept'
  BY <1>10, <1>11 DEF Rewrite!Generated, Rewrite!Ready, Rewrite!Stale
<1>12. ASSUME NEW t \in Submissions, Rewrite!RewriteFailed(t) PROVE SessionKept'
  <2>1. nextId' = nextId
    BY <1>12 DEF Rewrite!RewriteFailed
  <2>2. CASE UNCHANGED <<rewriteActive, rewriteText, refusing>>
    BY <1>10, <2>1, <2>2
  <2>3. ASSUME Rewrite!Mine(t), Rewrite!Restore(rewriteActive, TRUE),
               rewriteActive' = Rewrite!Retry(rewriteActive), UNCHANGED refusing
        PROVE  SessionKept'
    <3>1. /\ rewriteText' = rewriteText \/ rewriteText' = Rewrite!Empty
          /\ ~(rewriteText'.by = "frame" /\ rewriteText'.of = rewriteActive.id)
      BY <1>s, <2>3, RestoreDoes
    <3>2. /\ rewriteActive'.id = rewriteActive.id /\ rewriteActive'.task = rewriteActive.task
          /\ rewriteActive'.progress = FALSE
          /\ rewriteActive'.original = rewriteActive.original
          /\ rewriteActive'.expected = rewriteActive.original
      BY <1>n, <2>3 DEF Written, Rewrite!Retry, Rewrite!Restored
    <3>3. rewriteActive.id # 0
      BY <2>3 DEF Rewrite!Mine
    <3> QED
      BY <1>s, <2>1, <2>3, <3>1, <3>2, <3>3, TextsWith DEF SessionKept, OwnFrame
  <2>4. ASSUME Rewrite!Mine(t), Rewrite!Restore(rewriteActive, FALSE),
               rewriteActive' = Rewrite!NoSession, Rewrite!Refuse(rewriteActive.id, TRUE)
        PROVE  SessionKept'
    <3>1. rewriteText'.by = "frame" => rewriteText' = rewriteText
      BY <1>s, <2>4, RestoreDoes, TextsWith
    <3>2. \A r \in refusing' : r[1] <= nextId
      BY <1>s, <1>n, <2>4, RefusalKnown DEF Rewrite!Mine
    <3> QED
      BY <1>s, <2>1, <2>4, <3>1, <3>2, EndsSession
  <2> QED
    BY <1>12, <2>2, <2>3, <2>4 DEF Rewrite!RewriteFailed
<1>13. ASSUME NEW t \in Submissions, Rewrite!Deliver(t) PROVE SessionKept'
  <2>1. /\ rewriteActive' = Rewrite!NoSession /\ nextId' = nextId /\ rewriteActive.id \in 1..Rewrites
        /\ rewriteActive.id = nextId
        /\ \/ rewriteText' = rewriteText \/ rewriteText' = Rewrite!Empty
           \/ rewriteText' = Rewrite!Result(rewriteActive.id)
        /\ \E u \in BOOLEAN : refusing' \in {refusing, refusing \cup {<<rewriteActive.id, u>>}}
    BY <1>13, <1>s, DeliverDoes
  <2>2. rewriteText'.by = "frame" => rewriteText' = rewriteText
    BY <2>1, TextsWith
  <2>3. \A r \in refusing' : r[1] <= nextId
    BY <1>k, <1>n, <2>1
  <2> QED
    BY <1>s, <2>1, <2>2, <2>3, EndsSession
<1>14. CASE Rewrite!UserTypes
  BY <1>14, <1>s DEF Rewrite!UserTypes, Rewrite!User, SessionKept, OwnFrame
<1>15. CASE Rewrite!UserSwitches
  BY <1>10, <1>15 DEF Rewrite!UserSwitches
<1>16. CASE Rewrite!Hold
  <2>1. refusing' = refusing
        /\ (rewriteText' = rewriteText \/ rewriteText' = Rewrite!Empty)
    BY <1>16, <1>s, HoldDoes
  <2>2. rewriteText'.by = "frame" => rewriteText' = rewriteText
    BY <2>1, TextsWith
  <2>3. CASE nextId' = nextId /\ rewriteActive' = Rewrite!NoSession
    BY <1>s, <1>k, <2>1, <2>2, <2>3, EndsSession
  <2>4. CASE /\ nextId' = nextId + 1
             /\ rewriteActive' = [Rewrite!NoSession EXCEPT !.id = nextId + 1, !.task = "dictation",
                                    !.original = rewriteText', !.expected = rewriteText']
    <3>1. /\ rewriteActive'.id = nextId + 1 /\ rewriteActive'.progress = FALSE
          /\ rewriteActive'.original = rewriteText' /\ rewriteActive'.expected = rewriteText'
          /\ rewriteActive'.task = "dictation"
      BY <2>4 DEF Rewrite!NoSession
    <3>2. nextId + 1 # 0 /\ nextId \in Int
      BY <1>n
    <3>3. \A r \in refusing' : r[1] <= nextId'
      <4>1. \A r \in refusing : r[1] \in 1..Rewrites
        BY <1>s, SameTypes DEF RewriteTypes
      <4> QED
        BY <1>k, <2>1, <2>4, <3>2, <4>1
    <3>4. rewriteText'.by = "frame" => rewriteText'.of \in 1..nextId
      BY <1>s, <2>2 DEF SessionKept
    <3> QED
      BY <2>4, <3>1, <3>2, <3>3, <3>4 DEF SessionKept, OwnFrame
  <2> QED
    BY <1>16, <1>s, <2>3, <2>4, HoldDoes
<1>17. CASE Rewrite!DictationEnds
  <2>1. /\ rewriteActive' = Rewrite!NoSession /\ nextId' = nextId /\ refusing' = refusing
        /\ rewriteText' = rewriteText \/ rewriteText' = Rewrite!Result(rewriteActive.id)
        /\ rewriteActive.id \in 1..Rewrites
    BY <1>17, <1>s, DictationDoes
  <2>2. rewriteText'.by = "frame" => rewriteText' = rewriteText
    BY <2>1, TextsWith
  <2> QED
    BY <1>s, <1>k, <2>1, <2>2, EndsSession
<1> QED
  BY <1>1, <1>2, <1>3, <1>4, <1>5, <1>6, <1>7, <1>8, <1>9, <1>11, <1>12, <1>13, <1>14, <1>15, <1>16,
     <1>17 DEF Rewrite!Next, Rewrite!Sessions

\* Requests that stay what they were, or end, of sessions that stay or end.
LEMMA SessionGone ==
    ASSUME Rewrite!TypeOK, RequestsKept, rewriteActive' = Rewrite!NoSession, nextId' = nextId,
           \A t \in Submissions : submit'[t].of = submit[t].of /\
               (submit'[t].at # "idle" => submit[t].at # "idle"),
           \A s \in 1..nextId : prep[s] = "done" => prep'[s] = "done"
    PROVE  RequestsKept' /\ Rewrite!InFlightHasRequest'
<1>1. \A t \in Submissions : submit'[t].at # "idle" =>
          submit'[t].of \in 1..nextId' /\ prep'[submit'[t].of] = "done"
  BY DEF RequestsKept
<1>2. \A t \in Submissions : submit'[t].at # "idle" => submit'[t].of # rewriteActive'.id
  BY <1>1, WrittenNow, NoSessionTyped
<1>3. ~rewriteActive'.inFlight
  BY NoSessionTyped
<1>4. RequestsKept'
  BY <1>1, <1>2 DEF RequestsKept, Live
<1> QED
  BY <1>3, <1>4 DEF Rewrite!InFlightHasRequest

\* What moves no request and does not touch what the requests know of a session.
LEMMA RequestsSame ==
    ASSUME RequestsKept, Rewrite!InFlightHasRequest,
           UNCHANGED <<submit, nextId>>, rewriteActive'.id = rewriteActive.id,
           rewriteActive'.inFlight = rewriteActive.inFlight,
           rewriteActive'.progress = rewriteActive.progress,
           \A s \in 1..nextId : prep[s] = "done" => prep'[s] = "done"
    PROVE  RequestsKept' /\ Rewrite!InFlightHasRequest'
BY DEF RequestsKept, Live, Rewrite!InFlightHasRequest

\* A request that is under way goes on.
LEMMA RequestMoved ==
    ASSUME Rewrite!TypeOK, RequestsKept, Rewrite!InFlightHasRequest,
           NEW t \in Submissions, Live(t), NEW place \in Places \ {"idle", "ended", "prepared"},
           Rewrite!At(t, place), UNCHANGED <<nextId, prep>>,
           rewriteActive'.id = rewriteActive.id, rewriteActive'.inFlight = rewriteActive.inFlight,
           rewriteActive'.progress = rewriteActive.progress \/ submit[t].of = rewriteActive.id,
           place = "animating" /\ submit[t].of = rewriteActive.id => rewriteActive'.progress
    PROVE  RequestsKept' /\ Rewrite!InFlightHasRequest'
<1>1. /\ submit'[t].of = submit[t].of /\ submit'[t].at = place
      /\ \A u \in Submissions : u # t => submit'[u] = submit[u]
      /\ \A u \in Submissions : submit'[u].of = submit[u].of
  BY RequestMoves
<1>2. Live(t)' /\ \A u \in Submissions : Live(u)' <=> Live(u)
  BY <1>1 DEF Live
<1>3. Rewrite!InFlightHasRequest'
  BY <1>1, <1>2 DEF Rewrite!InFlightHasRequest, Live
<1>4. \A u \in Submissions : submit'[u].at # "idle" =>
          submit'[u].of \in 1..nextId' /\ prep'[submit'[u].of] = "done"
  BY <1>1 DEF RequestsKept, Live
<1>5. \A u \in Submissions : Live(u)' /\ submit'[u].of = rewriteActive'.id => rewriteActive'.inFlight
  BY <1>1, <1>2 DEF RequestsKept
<1>6. \A u, v \in Submissions :
          Live(u)' /\ Live(v)' /\ submit'[u].of = rewriteActive'.id
             /\ submit'[v].of = rewriteActive'.id => u = v
  BY <1>1, <1>2 DEF RequestsKept
<1>7. ASSUME NEW u \in Submissions, submit'[u].of = rewriteActive'.id
      PROVE  /\ submit'[u].at = "animating" => rewriteActive'.progress
             /\ submit'[u].at = "prepared" => ~rewriteActive'.progress
  <2>1. CASE u = t
    BY <1>1, <1>7, <2>1
  <2>2. CASE u # t /\ submit'[u].at \in {"animating", "prepared"}
    <3>1. submit[u] = submit'[u] /\ Live(u) /\ submit[t].of # rewriteActive.id
      BY <1>1, <1>7, <2>2 DEF RequestsKept, Live
    <3> QED
      BY <1>7, <2>2, <3>1 DEF RequestsKept
  <2> QED
    BY <2>1, <2>2
<1> QED
  BY <1>3, <1>4, <1>5, <1>6, <1>7 DEF RequestsKept

\* A request ends that the session does not know, or that it gives up with its frames.
LEMMA RequestEnds ==
    ASSUME Rewrite!TypeOK, RequestsKept, Rewrite!InFlightHasRequest,
           NEW t \in Submissions, Live(t), Rewrite!At(t, "ended"), UNCHANGED <<nextId, prep>>,
           rewriteActive'.id = rewriteActive.id,
           \/ submit[t].of # rewriteActive.id /\ rewriteActive' = rewriteActive
           \/ /\ submit[t].of = rewriteActive.id
              /\ ~rewriteActive'.inFlight /\ ~rewriteActive'.progress
    PROVE  RequestsKept' /\ Rewrite!InFlightHasRequest'
<1>1. /\ submit'[t].of = submit[t].of /\ submit'[t].at = "ended"
      /\ \A u \in Submissions : u # t => submit'[u] = submit[u]
      /\ \A u \in Submissions : submit'[u].of = submit[u].of
  BY RequestMoves DEF Places
<1>2. ~Live(t)' /\ \A u \in Submissions : Live(u)' <=> (Live(u) /\ u # t)
  BY <1>1 DEF Live
<1>3. Rewrite!InFlightHasRequest'
  BY <1>1, <1>2 DEF Rewrite!InFlightHasRequest, Live
<1>4. \A u \in Submissions : submit'[u].at # "idle" =>
          submit'[u].of \in 1..nextId' /\ prep'[submit'[u].of] = "done"
  BY <1>1 DEF RequestsKept, Live
<1>5. \A u \in Submissions : Live(u)' /\ submit'[u].of = rewriteActive'.id => rewriteActive'.inFlight
  BY <1>1, <1>2 DEF RequestsKept
<1>6. \A u, v \in Submissions :
          Live(u)' /\ Live(v)' /\ submit'[u].of = rewriteActive'.id
             /\ submit'[v].of = rewriteActive'.id => u = v
  BY <1>1, <1>2 DEF RequestsKept
<1>7. ASSUME NEW u \in Submissions, submit'[u].of = rewriteActive'.id,
             submit'[u].at \in {"animating", "prepared"}
      PROVE  /\ submit'[u].at = "animating" => rewriteActive'.progress
             /\ submit'[u].at = "prepared" => ~rewriteActive'.progress
  <2>1. u # t /\ submit[u] = submit'[u] /\ Live(u)
    BY <1>1, <1>7 DEF Live
  <2> QED
    BY <1>7, <2>1 DEF RequestsKept
<1> QED
  BY <1>3, <1>4, <1>5, <1>6, <1>7 DEF RequestsKept

\* Every step keeps what is known of the requests.
LEMMA RequestsStep ==
    ASSUME RewriteInv, Rewrite!Next
    PROVE  RequestsKept' /\ Rewrite!InFlightHasRequest'
<1>s. Rewrite!TypeOK /\ SessionKept /\ RequestsKept /\ Rewrite!InFlightHasRequest
  BY DEF RewriteInv
<1>n. rewriteActive \in Written /\ nextId \in 0..Rewrites
  BY <1>s, WrittenNow
<1>p. prep \in [1..Rewrites -> {"none", "fetch", "focus", "done"}]
  BY <1>s, SameTypes DEF RewriteTypes
<1>1. CASE Rewrite!Close \/ Rewrite!Trigger
  <2>1. rewriteActive' = Rewrite!NoSession /\ UNCHANGED <<submit, nextId, prep>>
    BY <1>1 DEF Rewrite!Close, Rewrite!Trigger, Rewrite!CancelActive
  <2> QED
    BY <1>s, <2>1, SessionGone
<1>2. ASSUME UNCHANGED <<submit, nextId>>, rewriteActive' = rewriteActive,
             \A s \in 1..nextId : prep[s] = "done" => prep'[s] = "done"
      PROVE  RequestsKept' /\ Rewrite!InFlightHasRequest'
  BY <1>s, <1>2, RequestsSame
<1>3. CASE Rewrite!Begin
  <2>1. /\ rewriteActive'.id = nextId + 1 /\ rewriteActive'.progress = FALSE
        /\ rewriteActive'.inFlight = FALSE
    BY <1>3 DEF Rewrite!Begin, Rewrite!NoSession
  <2>2. /\ nextId' = nextId + 1 /\ submit' = submit
        /\ prep' = [prep EXCEPT ![nextId + 1] = "fetch"]
    BY <1>3 DEF Rewrite!Begin
  <2>3. \A t \in Submissions : submit[t].at # "idle" =>
            /\ submit[t].of \in 1..nextId' /\ submit[t].of # rewriteActive'.id
            /\ prep'[submit[t].of] = "done"
    <3>1. nextId \in Nat /\ nextId <= Rewrites /\ Rewrites \in Nat
      BY <1>n, RewriteBounds
    <3>2. \A s \in 1..nextId : prep'[s] = prep[s] /\ s \in 1..(nextId + 1) /\ s # nextId + 1
      BY <1>p, <2>2, <3>1
    <3> QED
      BY <1>s, <2>1, <2>2, <3>2 DEF RequestsKept
  <2> QED
    BY <2>1, <2>2, <2>3 DEF RequestsKept, Live, Rewrite!InFlightHasRequest
<1>4. ASSUME NEW s \in 1..Rewrites, Rewrite!Prepare(s) \/ Rewrite!AwaitFocus(s)
      PROVE  RequestsKept' /\ Rewrite!InFlightHasRequest'
  <2>1. /\ UNCHANGED <<nextId, submit>>
        /\ prep[s] # "done" /\ \E place : prep' = [prep EXCEPT ![s] = place]
    BY <1>4 DEF Rewrite!Prepare, Rewrite!AwaitFocus
  <2>2. \A r \in 1..nextId : prep[r] = "done" => prep'[r] = "done"
    BY <1>p, <1>n, <2>1, RewriteBounds
  <2>3. \/ rewriteActive' = rewriteActive
        \/ \E available \in BOOLEAN : rewriteActive' = [rewriteActive EXCEPT !.context = available]
        \/ rewriteActive' = Rewrite!NoSession
    BY <1>4 DEF Rewrite!Prepare, Rewrite!AwaitFocus, Rewrite!CancelActive
  <2>4. CASE rewriteActive' = Rewrite!NoSession
    BY <1>s, <2>1, <2>2, <2>4, SessionGone
  <2>5. CASE \E available \in BOOLEAN : rewriteActive' = [rewriteActive EXCEPT !.context = available]
    <3>1. /\ rewriteActive'.id = rewriteActive.id /\ rewriteActive'.inFlight = rewriteActive.inFlight
          /\ rewriteActive'.progress = rewriteActive.progress
      BY <1>n, <2>5 DEF Written
    <3> QED
      BY <1>s, <2>1, <2>2, <3>1, RequestsSame
  <2> QED
    BY <1>2, <2>1, <2>2, <2>3, <2>4, <2>5
<1>6. ASSUME NEW r \in (1..Rewrites) \X BOOLEAN, Rewrite!ShowRefusal(r)
      PROVE  RequestsKept' /\ Rewrite!InFlightHasRequest'
  BY <1>2, <1>6 DEF Rewrite!ShowRefusal
<1>7. ASSUME NEW t \in Submissions, Rewrite!Submit(t)
      PROVE  RequestsKept' /\ Rewrite!InFlightHasRequest'
  <2>1. /\ rewriteActive' = [rewriteActive EXCEPT !.inFlight = TRUE] /\ rewriteActive.id # 0
        /\ submit[t].at = "idle" /\ prep[rewriteActive.id] = "done" /\ ~rewriteActive.inFlight
        /\ submit' = [submit EXCEPT ![t] = [of |-> rewriteActive.id, at |-> "prepared"]]
        /\ UNCHANGED <<nextId, prep>>
    BY <1>7 DEF Rewrite!Submit
  <2>2. /\ rewriteActive'.id = rewriteActive.id /\ rewriteActive'.inFlight
        /\ rewriteActive'.progress = rewriteActive.progress
    BY <1>n, <2>1 DEF Written
  <2>3. /\ submit'[t].of = rewriteActive.id /\ submit'[t].at = "prepared"
        /\ \A u \in Submissions : u # t => submit'[u] = submit[u]
    <3>1. submit \in [Submissions -> [of : 0..Rewrites, at : Places]]
      BY <1>s, SameTypes DEF RewriteTypes
    <3> QED
      BY <2>1, <3>1
  <2>4. rewriteActive.id \in 1..nextId /\ ~rewriteActive.progress
    BY <1>s, <1>n, <2>1 DEF SessionKept
  <2>5. \A u \in Submissions : Live(u) => submit[u].of # rewriteActive.id
    BY <1>s, <2>1 DEF RequestsKept
  <2>6. Rewrite!InFlightHasRequest'
    BY <2>2, <2>3 DEF Rewrite!InFlightHasRequest
  <2>7. \A u \in Submissions : u # t => (Live(u)' <=> Live(u))
    BY <2>3 DEF Live
  <2>8. \A u \in Submissions : submit'[u].at # "idle" =>
            submit'[u].of \in 1..nextId' /\ prep'[submit'[u].of] = "done"
    BY <1>s, <2>1, <2>3, <2>4 DEF RequestsKept
  <2>9. \A u \in Submissions : u # t /\ submit'[u].at \in {"animating", "prepared"} =>
            submit'[u].of # rewriteActive'.id
    BY <2>2, <2>3, <2>5 DEF Live
  <2>10. \A u \in Submissions : Live(u)' /\ submit'[u].of = rewriteActive'.id => u = t
    BY <2>2, <2>3, <2>5, <2>7
  <2> QED
    BY <2>2, <2>3, <2>4, <2>6, <2>8, <2>9, <2>10 DEF RequestsKept
<1>8. ASSUME NEW t \in Submissions, Rewrite!Start(t)
      PROVE  RequestsKept' /\ Rewrite!InFlightHasRequest'
  <2>1. submit[t].at = "prepared" /\ UNCHANGED <<nextId, prep>>
    BY <1>8, <1>s, StartDoes
  <2>2. PICK place \in {"running", "failing", "animating"} :
           /\ Rewrite!At(t, place)
           /\ \/ place # "animating" /\ rewriteActive' = rewriteActive
              \/ /\ rewriteActive.id = submit[t].of
                 /\ \/ rewriteActive' = [rewriteActive EXCEPT
                          !.expected = Rewrite!Frame(rewriteActive.id, 0), !.progress = TRUE, !.owned = {0}]
                    \/ rewriteActive' = [rewriteActive EXCEPT !.progress = TRUE, !.owned = {0}]
    BY <1>8, <1>s, StartDoes
  <2>3. CASE place # "animating" /\ rewriteActive' = rewriteActive
    BY <1>s, <2>1, <2>2, <2>3, RequestMoved DEF Live, Places
  <2>4. CASE /\ rewriteActive.id = submit[t].of
             /\ \/ rewriteActive' = [rewriteActive EXCEPT
                      !.expected = Rewrite!Frame(rewriteActive.id, 0), !.progress = TRUE, !.owned = {0}]
                \/ rewriteActive' = [rewriteActive EXCEPT !.progress = TRUE, !.owned = {0}]
    <3>1. /\ rewriteActive'.id = rewriteActive.id /\ rewriteActive'.inFlight = rewriteActive.inFlight
          /\ rewriteActive'.progress
      BY <1>n, <2>4 DEF Written
    <3> QED
      BY <1>s, <2>1, <2>2, <2>4, <3>1, RequestMoved DEF Live, Places
  <2> QED
    BY <2>2, <2>3, <2>4
<1>9. ASSUME NEW t \in Submissions, Rewrite!Tick(t)
      PROVE  RequestsKept' /\ Rewrite!InFlightHasRequest'
  <2>1. submit[t].at = "animating" /\ UNCHANGED <<nextId, prep>>
    BY <1>9, <1>s, TickDoes
  <2>2. /\ rewriteActive'.id = rewriteActive.id /\ rewriteActive'.inFlight = rewriteActive.inFlight
        /\ rewriteActive'.progress = rewriteActive.progress
    <3>1. \/ rewriteActive' = rewriteActive
          \/ \E next \in 0..2 :
                \/ rewriteActive' = [rewriteActive EXCEPT
                       !.expected = Rewrite!Frame(rewriteActive.id, next), !.frame = next, !.owned = {next}]
                \/ rewriteActive' = [rewriteActive EXCEPT !.owned = rewriteActive.owned \cup {next}]
      BY <1>9, <1>s, TickDoes
    <3> QED
      BY <1>n, <3>1 DEF Written
  <2>3. CASE submit' = submit
    BY <1>s, <2>1, <2>2, <2>3, RequestsSame
  <2>4. CASE Rewrite!At(t, "failing")
    BY <1>s, <2>1, <2>2, <2>4, RequestMoved DEF Live, Places
  <2> QED
    BY <1>9, <1>s, <2>3, <2>4, TickDoes
<1>10. ASSUME NEW t \in Submissions, Rewrite!Generated(t) \/ Rewrite!Ready(t)
       PROVE  RequestsKept' /\ Rewrite!InFlightHasRequest'
  <2>1. /\ Live(t) /\ UNCHANGED <<nextId, prep, rewriteActive>>
        /\ \E place \in {"answered", "failing", "ready"} : Rewrite!At(t, place)
    BY <1>10 DEF Rewrite!Generated, Rewrite!Ready, Live
  <2> QED
    BY <1>s, <2>1, RequestMoved DEF Places
<1>11. ASSUME NEW t \in Submissions, Rewrite!Stale(t)
       PROVE  RequestsKept' /\ Rewrite!InFlightHasRequest'
  <2>1. /\ submit[t].at = "ready" /\ ~(Rewrite!Mine(t) /\ rewriteActive.inFlight)
        /\ Rewrite!At(t, "ended") /\ UNCHANGED <<nextId, prep, rewriteActive>>
    BY <1>11 DEF Rewrite!Stale
  <2>2. Live(t) /\ submit[t].of # rewriteActive.id
    BY <1>s, <2>1 DEF RequestsKept, Live, Rewrite!Mine
  <2> QED
    BY <1>s, <2>1, <2>2, RequestEnds
<1>12. ASSUME NEW t \in Submissions, Rewrite!RewriteFailed(t)
       PROVE  RequestsKept' /\ Rewrite!InFlightHasRequest'
  <2>1. Live(t) /\ Rewrite!At(t, "ended") /\ UNCHANGED <<nextId, prep>>
    BY <1>12 DEF Rewrite!RewriteFailed, Live
  <2>2. \/ ~Rewrite!Mine(t) /\ rewriteActive' = rewriteActive
        \/ Rewrite!Mine(t) /\ rewriteActive' = Rewrite!Retry(rewriteActive)
        \/ rewriteActive' = Rewrite!NoSession
    BY <1>12 DEF Rewrite!RewriteFailed
  <2>3. CASE ~Rewrite!Mine(t) /\ rewriteActive' = rewriteActive
    <3>1. submit[t].of # rewriteActive.id
      BY <1>s, <1>n, <2>1, <2>3 DEF Rewrite!Mine, RequestsKept, Live
    <3> QED
      BY <1>s, <2>1, <2>3, <3>1, RequestEnds
  <2>4. CASE Rewrite!Mine(t) /\ rewriteActive' = Rewrite!Retry(rewriteActive)
    <3>1. /\ rewriteActive'.id = rewriteActive.id /\ ~rewriteActive'.inFlight
          /\ ~rewriteActive'.progress
      BY <1>n, <2>4 DEF Written, Rewrite!Retry, Rewrite!Restored
    <3> QED
      BY <1>s, <2>1, <2>4, <3>1, RequestEnds DEF Rewrite!Mine
  <2>5. CASE rewriteActive' = Rewrite!NoSession
    <3>1. \A u \in Submissions : submit'[u].of = submit[u].of /\
               (submit'[u].at # "idle" => submit[u].at # "idle")
      BY <1>s, <2>1, RequestMoves DEF Places, Live
    <3> QED
      BY <1>s, <2>1, <2>5, <3>1, SessionGone
  <2> QED
    BY <2>2, <2>3, <2>4, <2>5
<1>13. ASSUME NEW t \in Submissions, Rewrite!Deliver(t)
       PROVE  RequestsKept' /\ Rewrite!InFlightHasRequest'
  <2>1. /\ submit[t].at = "ready" /\ Rewrite!At(t, "ended") /\ UNCHANGED <<nextId, prep>>
        /\ rewriteActive' = Rewrite!NoSession
    BY <1>13, <1>s, DeliverDoes
  <2>2. \A u \in Submissions : submit'[u].of = submit[u].of /\
             (submit'[u].at # "idle" => submit[u].at # "idle")
    BY <1>s, <2>1, RequestMoves DEF Places
  <2> QED
    BY <1>s, <2>1, <2>2, SessionGone
<1>14. CASE Rewrite!UserTypes \/ Rewrite!UserSwitches
  BY <1>2, <1>14 DEF Rewrite!UserTypes, Rewrite!UserSwitches
<1>15. CASE Rewrite!Hold
  <2>1. UNCHANGED <<submit, prep>>
    BY <1>15, <1>s, HoldDoes
  <2>2. CASE nextId' = nextId /\ rewriteActive' = Rewrite!NoSession
    BY <1>s, <2>1, <2>2, SessionGone
  <2>3. CASE /\ nextId' = nextId + 1
             /\ rewriteActive' = [Rewrite!NoSession EXCEPT !.id = nextId + 1, !.task = "dictation",
                                    !.original = rewriteText', !.expected = rewriteText']
    <3>1. /\ rewriteActive'.id = nextId + 1 /\ rewriteActive'.progress = FALSE
          /\ rewriteActive'.inFlight = FALSE
      BY <2>3 DEF Rewrite!NoSession
    <3>2. \A t \in Submissions : submit[t].at # "idle" =>
              /\ submit[t].of \in 1..nextId' /\ submit[t].of # rewriteActive'.id
              /\ prep'[submit[t].of] = "done"
      <4>1. nextId \in Nat
        BY <1>n, RewriteBounds
      <4>2. \A s \in 1..nextId : s \in 1..(nextId + 1) /\ s # nextId + 1
        BY <4>1
      <4> QED
        BY <1>s, <2>1, <2>3, <3>1, <4>2 DEF RequestsKept
    <3> QED
      BY <2>1, <3>1, <3>2 DEF RequestsKept, Live, Rewrite!InFlightHasRequest
  <2> QED
    BY <1>15, <1>s, <2>2, <2>3, HoldDoes
<1>16. CASE Rewrite!DictationEnds
  <2>1. rewriteActive' = Rewrite!NoSession /\ UNCHANGED <<submit, nextId, prep>>
    BY <1>16, <1>s, DictationDoes
  <2> QED
    BY <1>s, <2>1, SessionGone
<1> QED
  BY <1>1, <1>3, <1>4, <1>6, <1>7, <1>8, <1>9, <1>10, <1>11, <1>12, <1>13, <1>14, <1>15, <1>16
     DEF Rewrite!Next, Rewrite!Sessions

\* A frame of a session that ended is accounted for, if it was that of a newer one, or
\* announced, or about to be, or if a held key ended its session.
LEMMA MarkerStep ==
    ASSUME RewriteInv, Rewrite!Next
    PROVE  Rewrite!MarkerAccounted'
<1>s. Rewrite!TypeOK /\ SessionKept /\ RequestsKept /\ Rewrite!MarkerAccounted
      /\ Rewrite!InFlightHasRequest
  BY DEF RewriteInv
<1>n. /\ rewriteActive \in Written /\ nextId \in 0..Rewrites
      /\ rewriteText.by = "frame" => rewriteText.of \in 1..nextId
  BY <1>s, WrittenNow DEF SessionKept
\* Where nothing is taken back and no frame appears, all is as before.
<1>a. ASSUME rewriteText'.by = "frame" =>
                 /\ rewriteText' = rewriteText
                 /\ rewriteActive.id = rewriteText.of =>
                       \/ rewriteActive'.id = rewriteActive.id
                       \/ rewriteText.of \in noticed' \/ <<rewriteText.of, TRUE>> \in refusing'
                       \/ rewriteText.of \in overtaken',
             nextId' \in {nextId, nextId + 1}, noticed \subseteq noticed', refusing \subseteq refusing',
             overtaken \subseteq overtaken'
      PROVE  Rewrite!MarkerAccounted'
  <2> SUFFICES ASSUME rewriteText'.by = "frame", rewriteActive'.id # rewriteText'.of
               PROVE  \/ rewriteText'.of \in noticed' \/ <<rewriteText'.of, TRUE>> \in refusing'
                      \/ nextId' > rewriteText'.of \/ rewriteText'.of \in overtaken'
    BY DEF Rewrite!MarkerAccounted
  <2>1. rewriteText' = rewriteText
    BY <1>a
  <2>2. CASE rewriteActive.id = rewriteText.of
    BY <1>a, <2>1, <2>2
  <2>3. CASE rewriteActive.id # rewriteText.of
    <3>1. \/ rewriteText.of \in noticed \/ <<rewriteText.of, TRUE>> \in refusing
          \/ nextId > rewriteText.of \/ rewriteText.of \in overtaken
      BY <1>s, <2>1, <2>3 DEF Rewrite!MarkerAccounted
    <3>2. nextId > rewriteText.of => nextId' > rewriteText.of
      <4>1. nextId \in Int /\ rewriteText.of \in Int /\ nextId' \in {nextId, nextId + 1}
        BY <1>a, <1>n, <2>1
      <4> QED
        BY <4>1
    <3> QED
      BY <1>a, <2>1, <3>1, <3>2
  <2> QED
    BY <2>2, <2>3
\* A session that is cancelled, with what is said about it.
<1>c. ASSUME NEW u \in BOOLEAN, Rewrite!CancelActive(u), nextId' = nextId,
             noticed \subseteq noticed', refusing \subseteq refusing', overtaken' = overtaken,
             u => rewriteActive.id \in noticed' \/ <<rewriteActive.id, TRUE>> \in refusing'
      PROVE  Rewrite!MarkerAccounted'
  <2>1. /\ rewriteText' = rewriteText \/ rewriteText'.by # "frame"
        /\ ~u => ~(rewriteText'.by = "frame" /\ rewriteText'.of = rewriteActive.id)
    BY <1>s, <1>c, CancelDoes, TextsWith
  <2>2. nextId' \in {nextId, nextId + 1}
    BY <1>c, <1>n
  <2>3. rewriteText'.by = "frame" =>
                 /\ rewriteText' = rewriteText
                 /\ rewriteActive.id = rewriteText.of =>
                       rewriteText.of \in noticed' \/ <<rewriteText.of, TRUE>> \in refusing'
    BY <1>c, <2>1
  <2> QED
    BY <1>a, <1>c, <2>2, <2>3
<1>1. CASE Rewrite!Close
  <2>1. PICK u \in BOOLEAN : Rewrite!CancelActive(u) /\
            IF u THEN Rewrite!Refuse(rewriteActive.id, TRUE) ELSE UNCHANGED refusing
    BY <1>1 DEF Rewrite!Close
  <2>2. nextId' = nextId /\ noticed' = noticed /\ overtaken' = overtaken
    BY <1>1 DEF Rewrite!Close
  <2>3. refusing \subseteq refusing' /\ (u => <<rewriteActive.id, TRUE>> \in refusing')
    BY <2>1 DEF Rewrite!Refuse
  <2> QED
    BY <1>c, <2>1, <2>2, <2>3
<1>2. CASE Rewrite!Trigger
  <2>1. PICK u \in BOOLEAN : Rewrite!CancelActive(u) /\
            noticed' = noticed \cup (IF u THEN {rewriteActive.id} ELSE {})
    BY <1>2 DEF Rewrite!Trigger
  <2>2. nextId' = nextId /\ refusing' = refusing /\ overtaken' = overtaken
    BY <1>2 DEF Rewrite!Trigger
  <2>3. noticed \subseteq noticed' /\ (u => rewriteActive.id \in noticed')
    BY <2>1
  <2> QED
    BY <1>c, <2>1, <2>2, <2>3
<1>3. CASE Rewrite!Begin
  <2>1. /\ rewriteActive.id = 0 /\ nextId' = nextId + 1
        /\ UNCHANGED <<rewriteText, noticed, refusing, overtaken>>
    BY <1>3 DEF Rewrite!Begin
  <2>2. nextId' \in {nextId, nextId + 1} /\ (rewriteText.by = "frame" => rewriteText.of # 0)
    BY <1>n, <2>1
  <2> QED
    BY <1>a, <2>1, <2>2
<1>4. ASSUME NEW s \in 1..Rewrites, Rewrite!Prepare(s) \/ Rewrite!AwaitFocus(s)
      PROVE  Rewrite!MarkerAccounted'
  <2>1. UNCHANGED <<nextId, noticed, overtaken>> /\ prep[s] # "done"
    BY <1>4 DEF Rewrite!Prepare, Rewrite!AwaitFocus
  <2>2. \/ /\ UNCHANGED <<rewriteText, refusing>>
           /\ \/ rewriteActive' = rewriteActive
              \/ \E available \in BOOLEAN : rewriteActive' = [rewriteActive EXCEPT !.context = available]
        \/ /\ \E u \in BOOLEAN : Rewrite!CancelActive(u)
           /\ Rewrite!Refuse(s, FALSE) /\ rewriteActive.id = s
    BY <1>4 DEF Rewrite!Prepare, Rewrite!AwaitFocus
  <2>3. CASE /\ UNCHANGED <<rewriteText, refusing>>
             /\ \/ rewriteActive' = rewriteActive
                \/ \E available \in BOOLEAN : rewriteActive' = [rewriteActive EXCEPT !.context = available]
    <3>1. rewriteActive'.id = rewriteActive.id /\ nextId' \in {nextId, nextId + 1}
      BY <1>n, <2>1, <2>3 DEF Written
    <3> QED
      BY <1>a, <2>1, <2>3, <3>1
  <2>4. ASSUME NEW u \in BOOLEAN, Rewrite!CancelActive(u), Rewrite!Refuse(s, FALSE),
               rewriteActive.id = s
        PROVE  Rewrite!MarkerAccounted'
    \* Nothing was shown yet.
    <3>1. ~rewriteActive.progress
      BY <1>s, <2>1, <2>4 DEF SessionKept, RequestsKept, Rewrite!InFlightHasRequest
    <3>2. ~u
      BY <1>s, <2>4, <3>1, CancelDoes
    <3>3. refusing \subseteq refusing'
      BY <2>4 DEF Rewrite!Refuse
    <3> QED
      BY <1>c, <2>1, <2>4, <3>2, <3>3
  <2> QED
    BY <2>2, <2>3, <2>4
<1>6. ASSUME NEW r \in (1..Rewrites) \X BOOLEAN, Rewrite!ShowRefusal(r)
      PROVE  Rewrite!MarkerAccounted'
  <2>1. /\ r \in refusing /\ refusing' = refusing \ {r} /\ noticed \subseteq noticed'
        /\ nextId = r[1] /\ rewriteActive.id = 0 /\ r[2] => r[1] \in noticed'
        /\ UNCHANGED <<rewriteText, rewriteActive, nextId, overtaken>>
    BY <1>6 DEF Rewrite!ShowRefusal
  <2> SUFFICES ASSUME rewriteText.by = "frame", rewriteActive.id # rewriteText.of
               PROVE  \/ rewriteText.of \in noticed' \/ <<rewriteText.of, TRUE>> \in refusing'
                      \/ nextId > rewriteText.of \/ rewriteText.of \in overtaken
    BY <2>1 DEF Rewrite!MarkerAccounted
  <2>2. \/ rewriteText.of \in noticed \/ <<rewriteText.of, TRUE>> \in refusing
        \/ nextId > rewriteText.of \/ rewriteText.of \in overtaken
    BY <1>s DEF Rewrite!MarkerAccounted
  <2>3. CASE r = <<rewriteText.of, TRUE>>
    <3>1. r[1] = rewriteText.of /\ r[2] = TRUE
      BY <2>3
    <3>2. rewriteActive.id \in {0, nextId} /\ rewriteText.of \in 1..nextId
      BY <1>s DEF SessionKept
    <3>3. CASE nextId = rewriteText.of
      <4>1. rewriteActive.id = 0
        BY <3>2, <3>3
      <4> QED
        BY <2>1, <3>1, <3>3, <4>1
    <3>4. CASE nextId # rewriteText.of
      BY <1>n, <3>2, <3>4
    <3> QED
      BY <3>3, <3>4
  <2>4. CASE r # <<rewriteText.of, TRUE>>
    BY <2>1, <2>2, <2>4
  <2> QED
    BY <2>3, <2>4
<1>7. ASSUME NEW t \in Submissions, Rewrite!Submit(t)
      PROVE  Rewrite!MarkerAccounted'
  <2>1. /\ rewriteActive' = [rewriteActive EXCEPT !.inFlight = TRUE]
        /\ UNCHANGED <<rewriteText, nextId, noticed, refusing, overtaken>>
    BY <1>7 DEF Rewrite!Submit
  <2>2. rewriteActive'.id = rewriteActive.id /\ nextId' \in {nextId, nextId + 1}
    BY <1>n, <2>1 DEF Written
  <2> QED
    BY <1>a, <2>1, <2>2
\* A frame that is written is of the session that goes on.
<1>f. ASSUME NEW k \in 0..2, rewriteActive.id # 0, rewriteActive'.id = rewriteActive.id,
             rewriteText' \in {rewriteText, Rewrite!Frame(rewriteActive.id, k)},
             UNCHANGED <<nextId, noticed, refusing, overtaken>>
      PROVE  Rewrite!MarkerAccounted'
  <2>1. Rewrite!Frame(rewriteActive.id, k).of = rewriteActive.id
    BY <1>s, <1>f, FramesAre
  <2>2. CASE rewriteText' = rewriteText
    <3>1. nextId' \in {nextId, nextId + 1}
      BY <1>n, <1>f
    <3> QED
      BY <1>a, <1>f, <2>2, <3>1
  <2>3. CASE rewriteText' = Rewrite!Frame(rewriteActive.id, k)
    BY <1>f, <2>1, <2>3 DEF Rewrite!MarkerAccounted
  <2> QED
    BY <1>f, <2>2, <2>3
<1>u. ASSUME UNCHANGED <<rewriteActive, rewriteText, nextId, noticed, refusing, overtaken>>
      PROVE  Rewrite!MarkerAccounted'
  BY <1>s, <1>u DEF Rewrite!MarkerAccounted
<1>8. ASSUME NEW t \in Submissions, Rewrite!Start(t)
      PROVE  Rewrite!MarkerAccounted'
  <2>1. UNCHANGED <<nextId, noticed, refusing, overtaken>>
    BY <1>8, <1>s, StartDoes
  <2>2. \/ UNCHANGED <<rewriteActive, rewriteText>>
        \/ /\ rewriteActive.id # 0
           /\ rewriteText' \in {rewriteText, Rewrite!Frame(rewriteActive.id, 0)}
           /\ \/ rewriteActive' = [rewriteActive EXCEPT
                    !.expected = Rewrite!Frame(rewriteActive.id, 0), !.progress = TRUE, !.owned = {0}]
              \/ rewriteActive' = [rewriteActive EXCEPT !.progress = TRUE, !.owned = {0}]
    BY <1>8, <1>s, StartDoes
  <2>3. rewriteActive'.id = rewriteActive.id
    BY <1>n, <2>2 DEF Written
  <2> QED
    BY <1>f, <1>u, <2>1, <2>2, <2>3
<1>9. ASSUME NEW t \in Submissions, Rewrite!Tick(t)
      PROVE  Rewrite!MarkerAccounted'
  <2>1. UNCHANGED <<nextId, noticed, refusing, overtaken>>
    BY <1>9, <1>s, TickDoes
  <2>2. \/ UNCHANGED <<rewriteActive, rewriteText>>
        \/ \E next \in 0..2 :
           /\ rewriteActive.id # 0
           /\ rewriteText' \in {rewriteText, Rewrite!Frame(rewriteActive.id, next)}
           /\ \/ rewriteActive' = [rewriteActive EXCEPT
                    !.expected = Rewrite!Frame(rewriteActive.id, next), !.frame = next, !.owned = {next}]
              \/ rewriteActive' = [rewriteActive EXCEPT !.owned = rewriteActive.owned \cup {next}]
    BY <1>9, <1>s, TickDoes
  <2>3. rewriteActive'.id = rewriteActive.id
    BY <1>n, <2>2 DEF Written
  <2> QED
    BY <1>f, <1>u, <2>1, <2>2, <2>3
<1>10. ASSUME NEW t \in Submissions, Rewrite!Generated(t) \/ Rewrite!Ready(t) \/ Rewrite!Stale(t)
       PROVE  Rewrite!MarkerAccounted'
  BY <1>u, <1>10 DEF Rewrite!Generated, Rewrite!Ready, Rewrite!Stale
<1>12. ASSUME NEW t \in Submissions, Rewrite!RewriteFailed(t)
       PROVE  Rewrite!MarkerAccounted'
  <2>1. UNCHANGED <<nextId, noticed, overtaken>> /\ nextId' \in {nextId, nextId + 1}
    BY <1>12, <1>n DEF Rewrite!RewriteFailed
  <2>2. CASE UNCHANGED <<rewriteActive, rewriteText, refusing>>
    BY <1>u, <2>1, <2>2
  <2>3. ASSUME Rewrite!Restore(rewriteActive, TRUE),
               rewriteActive' = Rewrite!Retry(rewriteActive), UNCHANGED refusing
        PROVE  Rewrite!MarkerAccounted'
    <3>1. rewriteText' = rewriteText \/ rewriteText'.by # "frame"
      BY <1>s, <2>3, RestoreDoes, TextsWith
    <3>2. rewriteActive'.id = rewriteActive.id
      BY <1>n, <2>3 DEF Written, Rewrite!Retry, Rewrite!Restored
    <3> QED
      BY <1>a, <2>1, <2>3, <3>1, <3>2
  <2>4. ASSUME Rewrite!Restore(rewriteActive, FALSE), Rewrite!Refuse(rewriteActive.id, TRUE)
        PROVE  Rewrite!MarkerAccounted'
    <3>1. rewriteText' = rewriteText \/ rewriteText'.by # "frame"
      BY <1>s, <2>4, RestoreDoes, TextsWith
    <3>2. <<rewriteActive.id, TRUE>> \in refusing' /\ refusing \subseteq refusing'
      BY <2>4 DEF Rewrite!Refuse
    <3> QED
      BY <1>a, <2>1, <3>1, <3>2
  <2> QED
    BY <1>12, <2>2, <2>3, <2>4 DEF Rewrite!RewriteFailed
<1>13. ASSUME NEW t \in Submissions, Rewrite!Deliver(t)
       PROVE  Rewrite!MarkerAccounted'
  <2>1. /\ UNCHANGED <<nextId, noticed, overtaken>> /\ nextId' \in {nextId, nextId + 1}
        /\ rewriteActive.id \in 1..Rewrites
        /\ (rewriteText'.by = "frame" /\ rewriteText'.of = rewriteActive.id) =>
                 <<rewriteActive.id, TRUE>> \in refusing'
        /\ \/ rewriteText' = rewriteText
           \/ rewriteText' = Rewrite!Empty \/ rewriteText' = Rewrite!Result(rewriteActive.id)
    BY <1>13, <1>s, DeliverDoes
  <2>3. refusing \subseteq refusing'
    <3>1. \E u \in BOOLEAN : refusing' \in {refusing, refusing \cup {<<rewriteActive.id, u>>}}
      BY <1>13, <1>s, DeliverDoes
    <3> QED
      BY <3>1
  <2>2. rewriteText'.by = "frame" =>
                 /\ rewriteText' = rewriteText
                 /\ rewriteActive.id = rewriteText.of => <<rewriteText.of, TRUE>> \in refusing'
    BY <2>1, TextsWith
  <2> QED
    BY <1>a, <2>1, <2>2, <2>3
<1>14. CASE Rewrite!UserTypes
  BY <1>14 DEF Rewrite!UserTypes, Rewrite!User, Rewrite!MarkerAccounted
<1>15. CASE Rewrite!UserSwitches
  BY <1>u, <1>15 DEF Rewrite!UserSwitches
<1>16. CASE Rewrite!Hold
  <2>1. UNCHANGED <<noticed, refusing>>
        /\ (rewriteText' = rewriteText \/ rewriteText' = Rewrite!Empty)
    BY <1>16, <1>s, HoldDoes
  <2>2. rewriteText'.by = "frame" => rewriteText' = rewriteText
    BY <2>1, TextsWith
  <2>3. nextId' \in {nextId, nextId + 1} /\ overtaken \subseteq overtaken'
    BY <1>16, <1>s, HoldDoes
  <2>4. \/ ~(rewriteText'.by = "frame" /\ rewriteText'.of = rewriteActive.id)
        \/ rewriteActive.id \in overtaken'
    BY <1>16, <1>s, HoldDoes
  <2> QED
    BY <1>a, <2>1, <2>2, <2>3, <2>4
<1>17. CASE Rewrite!DictationEnds
  <2>1. /\ UNCHANGED <<nextId, noticed, refusing, overtaken>>
        /\ rewriteText' = rewriteText \/ rewriteText' = Rewrite!Result(rewriteActive.id)
        /\ rewriteActive.id \in 1..Rewrites /\ ~rewriteActive.progress
    BY <1>17, <1>s, DictationDoes
  <2>2. rewriteText'.by = "frame" =>
           rewriteText' = rewriteText /\ rewriteActive.id # rewriteText.of
    BY <1>s, <2>1, TextsWith DEF SessionKept, OwnFrame
  <2>3. nextId' \in {nextId, nextId + 1}
    BY <1>n, <2>1
  <2> QED
    BY <1>a, <2>1, <2>2, <2>3
<1> QED
  BY <1>1, <1>2, <1>3, <1>4, <1>6, <1>7, <1>8, <1>9, <1>10, <1>12, <1>13, <1>14, <1>15, <1>16, <1>17
     DEF Rewrite!Next, Rewrite!Sessions

\* What a step of woof replaces is what the session had found, or a frame of its own.
EditKeeps ==
    rewriteText' # rewriteText =>
          \/ rewriteEvents' # rewriteEvents
          \/ /\ rewriteText = rewriteActive.original
                \/ (rewriteText.by = "frame" /\ rewriteText.of = rewriteActive.id)
             /\ rewriteText'.by = "answer" => rewriteText'.of = rewriteActive.id

\* A step that changes the composer is the user's, or replaces the original or an own frame.
LEMMA EditStep ==
    ASSUME RewriteInv, Rewrite!Next
    PROVE  EditKeeps
<1>s. Rewrite!TypeOK /\ SessionKept /\ RequestsKept
  BY DEF RewriteInv
<1>x. rewriteText = rewriteActive.expected =>
         rewriteText = rewriteActive.original \/ OwnFrame(rewriteActive.id)
  BY <1>s DEF SessionKept, OwnFrame
<1>a. ASSUME rewriteText' = rewriteText PROVE EditKeeps
  BY <1>a DEF EditKeeps
<1>c. ASSUME rewriteText' = rewriteText \/ (OwnFrame(rewriteActive.id) /\ rewriteText' = Rewrite!Empty)
      PROVE  EditKeeps
  BY <1>c, TextsWith DEF EditKeeps, OwnFrame
<1>1. CASE Rewrite!Close \/ Rewrite!Trigger
  <2>1. \E u \in BOOLEAN : Rewrite!CancelActive(u)
    BY <1>1 DEF Rewrite!Close, Rewrite!Trigger
  <2> QED
    BY <1>s, <1>c, <2>1, CancelDoes
<1>4. ASSUME NEW s \in 1..Rewrites, Rewrite!Prepare(s) \/ Rewrite!AwaitFocus(s) PROVE EditKeeps
  <2>1. rewriteText' = rewriteText \/ \E u \in BOOLEAN : Rewrite!CancelActive(u)
    BY <1>4 DEF Rewrite!Prepare, Rewrite!AwaitFocus
  <2> QED
    BY <1>s, <1>c, <2>1, CancelDoes
<1>f. ASSUME NEW k \in 0..2, rewriteActive.id # 0, rewriteText = rewriteActive.expected,
             rewriteText' \in {rewriteText, Rewrite!Frame(rewriteActive.id, k)}
      PROVE  EditKeeps
  <2>1. Rewrite!Frame(rewriteActive.id, k).by = "frame"
    BY <1>s, <1>f, FramesAre
  <2> QED
    BY <1>f, <1>x, <2>1 DEF EditKeeps, OwnFrame
<1>8. ASSUME NEW t \in Submissions, Rewrite!Start(t) PROVE EditKeeps
  <2>1. \/ rewriteText' = rewriteText
        \/ /\ rewriteActive.id # 0 /\ rewriteText = rewriteActive.expected
           /\ rewriteText' \in {rewriteText, Rewrite!Frame(rewriteActive.id, 0)}
    BY <1>8, <1>s, StartDoes
  <2> QED
    BY <1>a, <1>f, <2>1
<1>9. ASSUME NEW t \in Submissions, Rewrite!Tick(t) PROVE EditKeeps
  <2>1. \/ rewriteText' = rewriteText
        \/ \E next \in 0..2 :
           /\ rewriteActive.id # 0 /\ rewriteText = rewriteActive.expected
           /\ rewriteText' \in {rewriteText, Rewrite!Frame(rewriteActive.id, next)}
    BY <1>9, <1>s, TickDoes
  <2> QED
    BY <1>a, <1>f, <2>1
<1>10. ASSUME NEW t \in Submissions, Rewrite!Submit(t) \/ Rewrite!Generated(t) \/ Rewrite!Ready(t) \/ Rewrite!Stale(t)
       PROVE  EditKeeps
  BY <1>a, <1>10 DEF Rewrite!Submit, Rewrite!Generated, Rewrite!Ready, Rewrite!Stale
<1>12. ASSUME NEW t \in Submissions, Rewrite!RewriteFailed(t) PROVE EditKeeps
  <2>1. rewriteText' = rewriteText \/ \E ok \in BOOLEAN : Rewrite!Restore(rewriteActive, ok)
    BY <1>12 DEF Rewrite!RewriteFailed
  <2> QED
    BY <1>s, <1>c, <2>1, RestoreDoes
<1>13. ASSUME NEW t \in Submissions, Rewrite!Deliver(t) PROVE EditKeeps
  <2>1. /\ \/ rewriteText' = rewriteText
           \/ OwnFrame(rewriteActive.id) /\ rewriteText' = Rewrite!Empty
           \/ rewriteText = rewriteActive.expected /\ rewriteText' = Rewrite!Result(rewriteActive.id)
        /\ rewriteActive.id \in 1..Rewrites
    BY <1>13, <1>s, DeliverDoes
  <2> QED
    BY <1>c, <1>x, <2>1, TextsWith DEF EditKeeps, OwnFrame
<1>14. CASE Rewrite!UserTypes
  <2>1. rewriteEvents' # rewriteEvents
    BY <1>14, <1>s DEF Rewrite!UserTypes, Rewrite!TypeOK
  <2> QED
    BY <2>1 DEF EditKeeps
<1>15. CASE Rewrite!UserSwitches \/ Rewrite!Begin \/ \E r \in (1..Rewrites) \X BOOLEAN : Rewrite!ShowRefusal(r)
  BY <1>a, <1>15 DEF Rewrite!UserSwitches, Rewrite!Begin, Rewrite!ShowRefusal
<1>16. CASE Rewrite!Hold
  BY <1>16, <1>s, <1>c, HoldDoes
<1>17. CASE Rewrite!DictationEnds
  <2>1. /\ \/ rewriteText' = rewriteText
           \/ rewriteText = rewriteActive.expected /\ rewriteText' = Rewrite!Result(rewriteActive.id)
        /\ rewriteActive.id \in 1..Rewrites
    BY <1>17, <1>s, DictationDoes
  <2> QED
    BY <1>x, <2>1, TextsWith DEF EditKeeps, OwnFrame
<1> QED
  BY <1>1, <1>4, <1>8, <1>9, <1>10, <1>12, <1>13, <1>14, <1>15, <1>16, <1>17 DEF Rewrite!Next, Rewrite!Sessions

\* At the start there is no session.
LEMMA RewriteStarts == ASSUME Rewrite!Init PROVE RewriteInv
<1>1. /\ rewriteActive = Rewrite!NoSession /\ nextId = 0 /\ rewriteText.by = "user" /\ refusing = {}
      /\ \A t \in Submissions : submit[t].at = "idle"
  BY TextsWith DEF Rewrite!Init, Rewrite!User
<1>2. RewriteTypes
  <2>1. rewriteText \in Rewrite!Texts
    <3>1. 0 \in 0..(Edits + 1) /\ 1 \in 0..(Edits + 1)
      BY RewriteBounds
    <3> QED
      BY <3>1 DEF Rewrite!Init, Rewrite!Empty, Rewrite!Texts
  <2>2. submit \in [Submissions -> [of : 0..Rewrites, at : Places]]
    BY RewriteBounds DEF Rewrite!Init, Places
  <2> QED
    BY <1>1, <2>1, <2>2, NoSessionTyped, RewriteBounds DEF Rewrite!Init, RewriteTypes, Rewrite!Sessions
<1>3. SessionKept
  BY <1>1, NoSessionTyped DEF SessionKept, OwnFrame
<1>4. RequestsKept
  BY <1>1 DEF RequestsKept, Live
<1>5. Rewrite!MarkerAccounted /\ Rewrite!InFlightHasRequest
  BY <1>1, NoSessionTyped DEF Rewrite!MarkerAccounted, Rewrite!InFlightHasRequest
<1> QED
  BY <1>2, <1>3, <1>4, <1>5, SameTypes DEF RewriteInv

\* A step of another part changes nothing here.
LEMMA RewriteStutters ==
    ASSUME RewriteInv, UNCHANGED Rewrite!vars
    PROVE  RewriteInv'
<1> USE DEF Rewrite!vars
<1>1. Rewrite!TypeOK'
  BY DEF RewriteInv, Rewrite!TypeOK
<1>2. SessionKept' /\ RequestsKept'
  BY DEF RewriteInv, SessionKept, RequestsKept, OwnFrame, Live
<1>3. Rewrite!MarkerAccounted' /\ Rewrite!InFlightHasRequest'
  BY DEF RewriteInv, Rewrite!MarkerAccounted, Rewrite!InFlightHasRequest
<1> QED
  BY <1>1, <1>2, <1>3 DEF RewriteInv

\* RewriteSound: whatever is closed, cancelled, refused, asked again or dictated while a rewrite
\* is under way, an edit of the application's replaces the original or a frame of its own
\* session; a marker that may be left in the composer is removed or reported, unless a held key
\* ended its session and could not remove it; and a session that waits has a request that will
\* answer (InlineState, submit, animate, restore, begin_with).
THEOREM RewriteIsSound == PartsSpec => RewriteSound
<1>1. PartsInit => RewriteInv
  BY RewriteStarts DEF PartsInit
<1>2. RewriteInv /\ [Rewrite!Next]_Rewrite!vars => RewriteInv'
  BY RewriteBounds, RewriteTyped, SessionStep, RequestsStep, MarkerStep, RewriteStutters DEF RewriteInv
<1>3. [Step]_allvars => [Rewrite!Next]_Rewrite!vars
  BY DEF Step, allvars, rewriteVars, Rewrite!vars
<1>4. RewriteInv /\ [Rewrite!Next]_Rewrite!vars => [EditKeeps]_Rewrite!vars
  BY EditStep DEF RewriteInv
<1>5. RewriteInv => Rewrite!TypeOK /\ Rewrite!MarkerAccounted /\ Rewrite!InFlightHasRequest
  BY DEF RewriteInv
<1>6. [EditKeeps]_Rewrite!vars => [rewriteText' # rewriteText =>
          \/ rewriteEvents' # rewriteEvents
          \/ /\ rewriteText = rewriteActive.original
                \/ (rewriteText.by = "frame" /\ rewriteText.of = rewriteActive.id)
             /\ rewriteText'.by = "answer" => rewriteText'.of = rewriteActive.id]_Rewrite!vars
  BY DEF EditKeeps
<1> QED
  BY <1>1, <1>2, <1>3, <1>4, <1>5, <1>6, PTL DEF PartsSpec, RewriteSound, Rewrite!EditKept
=============================================================================
