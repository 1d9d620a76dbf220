---------------------------- MODULE ChatProofs ----------------------------
(***************************************************************************)
(* What a chat promises, for any number of messages, attempts, rounds of   *)
(* tools, pieces of text and faults: an answer shows every piece of its    *)
(* own text once and in order, and one request lives at a time.            *)
(***************************************************************************)
EXTENDS Chat, TLAPS

\* Hypothesis of the lemmas: the bounds are numbers, and there is an attempt.
ChatBounds ==
    /\ MAX_ATTEMPTS \in Nat \ {0} /\ MAX_TOOL_ROUNDS \in Nat
    /\ MaxRequests \in Nat /\ MaxChunks \in Nat /\ MaxFaults \in Nat

Calls == [at : Stages, token : BOOLEAN, attempt : 1..MAX_ATTEMPTS,
          round : 0..MAX_TOOL_ROUNDS, base : Nat, chunks : 0..MaxChunks, emitted : BOOLEAN]
Answers == [shown : Seq(Chunk), typing : BOOLEAN, answered : BOOLEAN, stopped : BOOLEAN,
            crossed : BOOLEAN]
Words == [kind : {"delta", "ok", "error"}, of : 1..Len(requests), piece : Nat]

\* The number of the last piece of text that request i has passed on.
Told(i) == requests[i].base + (IF requests[i].at = "open" THEN 0 ELSE requests[i].chunks)
Pieces(i, n) == [k \in 1..n |-> <<i, k>>]
MaxPiece == (MAX_TOOL_ROUNDS + 1) * MaxChunks

ChatTyped ==
    /\ sending \in BOOLEAN /\ received \in BOOLEAN
    /\ requests \in Seq(Calls) /\ responses \in Seq(Answers) /\ events \in Seq(Words)
    /\ Len(requests) = Len(responses) /\ Len(requests) <= MaxRequests
    /\ active \in 0..Len(responses) /\ current \in 0..Len(requests)
    /\ cancelling \in {"no", "asked", "done"}
    /\ faults \in 0..MaxFaults

\* The pieces of n rounds.
Budget(n) == n * MaxChunks

\* Rounds and pieces are counted; a retry repeats no text.
Counted ==
    /\ \A i \in DOMAIN requests :
          /\ requests[i].base <= Budget(requests[i].round)
          /\ requests[i].at = "tools" => requests[i].round # MAX_TOOL_ROUNDS
          /\ requests[i].at \in {"sent", "context"} => requests[i].chunks = 0
          /\ requests[i].at = "stream" /\ ~requests[i].emitted => requests[i].chunks = 0
    /\ \A k \in DOMAIN events :
          events[k].kind = "delta" => events[k].piece \in 1..MaxPiece

\* The text that arrives is for the one response that can still be whole.
Open1(i) == ~responses[i].stopped /\ ~responses[i].crossed /\ ~responses[i].answered
OneOpen ==
    /\ sending <=> active # 0
    /\ \A i \in DOMAIN responses :
          /\ Open1(i) => active = i
          /\ active = i => ~responses[i].answered

\* An answer or an error is the last that is heard of a request.
LastWord ==
    /\ \A k \in DOMAIN events : events[k].kind # "delta" =>
          /\ requests[events[k].of].at = "answered"
          /\ \A l \in DOMAIN events : l > k => events[l].of # events[k].of
    /\ \A i \in DOMAIN responses : responses[i].typing \/ responses[i].answered =>
          /\ requests[i].at = "answered"
          /\ \A k \in DOMAIN events : events[k].of # i

Failing(i) == \E k \in DOMAIN events : events[k].of = i /\ events[k].kind = "error"
DeltaOf(k, i) == events[k].of = i /\ events[k].kind = "delta"

\* What is shown and what is on its way are the pieces so far, in order.
InPieces(i) ==
    LET s == Len(responses[i].shown) IN
    /\ responses[i].shown = Pieces(i, s) /\ s <= Told(i)
    /\ received <=> s # 0
    /\ \A k \in DOMAIN events : DeltaOf(k, i) => events[k].piece \in (s + 1)..Told(i)
    /\ \A m \in (s + 1)..Told(i) : \E k \in DOMAIN events : DeltaOf(k, i) /\ events[k].piece = m
    /\ \A k, l \in DOMAIN events :
          k < l /\ DeltaOf(k, i) /\ DeltaOf(l, i) => events[k].piece < events[l].piece

ShownSoFar ==
    \A i \in DOMAIN responses : Open1(i) /\ ~Failing(i) =>
        IF responses[i].typing THEN responses[i].shown = Pieces(i, Told(i)) ELSE InPieces(i)

ChatInv == ChatTyped /\ Counted /\ OneLive /\ OneOpen /\ LastWord /\ ShownSoFar /\ AnswerWhole

-----------------------------------------------------------------------------
(***************************************************************************)
(* The calls of chat_send.                                                 *)
(***************************************************************************)
\* Arithmetic of rounds: products grow with their first factor.
LEMMA TimesGrow ==
    ASSUME NEW r \in Nat, NEW s \in Nat, NEW c \in Nat, r <= s
    PROVE  /\ r * c \in Nat /\ s * c \in Nat /\ r * c <= s * c
           /\ (r + 1) * c = r * c + c
<1>1. PICK d \in Nat : s = r + d
  <2>1. s - r \in Nat /\ s = r + (s - r)
    OBVIOUS
  <2> QED
    BY <2>1
<1>2. (r + d) * c = r * c + d * c /\ d * c \in Nat /\ r * c \in Nat
  OBVIOUS
<1>3. (r + 1) * c = r * c + c
  OBVIOUS
<1>4. s * c = r * c + d * c
  BY <1>1, <1>2
<1> QED
  BY <1>1, <1>2, <1>3, <1>4

\* One call of chat_send moves on.
CallCounted(r) ==
    /\ r.base <= Budget(r.round)
    /\ r.at = "tools" => r.round # MAX_TOOL_ROUNDS
    /\ r.at \in {"sent", "context"} => r.chunks = 0
    /\ r.at = "stream" /\ ~r.emitted => r.chunks = 0

\* Nothing but the token differs.
Same(a, b) == a.at = b.at /\ a.base = b.base /\ a.chunks = b.chunks

\* Raising the token of a call changes nothing else of it.
LEMMA TokenFields ==
    ASSUME NEW r \in Calls
    PROVE  /\ [r EXCEPT !.token = TRUE] \in Calls /\ [r EXCEPT !.token = TRUE].token
           /\ Same([r EXCEPT !.token = TRUE], r)
           /\ CallCounted(r) => CallCounted([r EXCEPT !.token = TRUE])
<1>1. [r EXCEPT !.token = TRUE] \in Calls /\ [r EXCEPT !.token = TRUE].token
  BY DEF Calls
<1> QED
  BY <1>1 DEF Calls, Same, CallCounted

\* Replacing one call keeps the type and the counts of all.
LEMMA CallMoves ==
    ASSUME NEW rs \in Seq(Calls), \A j \in DOMAIN rs : CallCounted(rs[j]),
           NEW i \in DOMAIN rs, NEW new \in Calls, CallCounted(new),
           NEW ss, ss = [rs EXCEPT ![i] = new]
    PROVE  /\ ss \in Seq(Calls) /\ Len(ss) = Len(rs) /\ DOMAIN ss = DOMAIN rs
           /\ ss[i] = new /\ \A j \in DOMAIN rs : j # i => ss[j] = rs[j]
           /\ \A j \in DOMAIN ss : CallCounted(ss[j])
<1>1. DOMAIN ss = 1..Len(rs) /\ \A j \in DOMAIN rs : ss[j] \in Calls
  OBVIOUS
<1>2. ss = [j \in 1..Len(rs) |-> ss[j]]
  BY <1>1
<1>3. ss \in Seq(Calls) /\ Len(ss) = Len(rs)
  BY <1>1, <1>2
<1> QED
  BY <1>1, <1>3

\* CancelToken: the calls are as before but for one token, which is raised.
LEMMA TokenTaken ==
    ASSUME NEW rs \in Seq(Calls), \A j \in DOMAIN rs : CallCounted(rs[j]),
           NEW i \in 0..Len(rs), NEW ss, ss = CancelToken(rs, i)
    PROVE  /\ ss \in Seq(Calls) /\ Len(ss) = Len(rs) /\ DOMAIN ss = DOMAIN rs
           /\ i # 0 => ss[i] = [rs[i] EXCEPT !.token = TRUE]
           /\ \A j \in DOMAIN rs : j # i => ss[j] = rs[j]
           /\ \A j \in DOMAIN ss : CallCounted(ss[j])
<1>1. CASE i = 0
  BY <1>1 DEF CancelToken
<1>2. CASE i # 0
  <2>0. i \in DOMAIN rs /\ rs[i] \in Calls /\ CallCounted(rs[i])
    BY <1>2
  <2> DEFINE new == [rs[i] EXCEPT !.token = TRUE]
  <2>1. new \in Calls /\ CallCounted(new)
    BY <2>0 DEF Calls, CallCounted
  <2>2. ss = [rs EXCEPT ![i] = new]
    BY <1>2 DEF CancelToken
  <2> HIDE DEF new
  <2>3. /\ ss \in Seq(Calls) /\ Len(ss) = Len(rs) /\ DOMAIN ss = DOMAIN rs
        /\ ss[i] = new /\ \A j \in DOMAIN rs : j # i => ss[j] = rs[j]
        /\ \A j \in DOMAIN ss : CallCounted(ss[j])
    BY <2>0, <2>1, <2>2, CallMoves
  <2> QED
    BY <2>3 DEF new
<1> QED
  BY <1>1, <1>2

\* What a step of call i does: nothing is said, a piece of text, or the end.
Quiet(i) == events' = events /\ requests'[i].at # "answered" /\ Told(i)' = Told(i)
Passes(i) ==
    /\ requests'[i].at # "answered" /\ Told(i)' = Told(i) + 1 /\ Told(i) + 1 \in 1..MaxPiece
    /\ events' = Append(events, Event("delta", i, Told(i) + 1))
Ends(i) ==
    /\ requests'[i].at = "answered"
    /\ \/ events' = Append(events, Event("error", i, 0))
       \/ events' = Append(events, Event("ok", i, 0)) /\ Told(i)' = Told(i)

CallsOn(i) ==
    /\ requests' \in Seq(Calls) /\ Len(requests') = Len(requests)
    /\ DOMAIN requests' = DOMAIN requests
    /\ \A j \in DOMAIN requests' : CallCounted(requests'[j])
    /\ \A j \in DOMAIN requests : j # i => Same(requests'[j], requests[j])
    /\ requests[i].at # "answered"
    /\ Quiet(i) \/ Passes(i) \/ Ends(i)

\* Counted, call by call.
LEMMA CountedCalls ==
    Counted <=> /\ \A j \in DOMAIN requests : CallCounted(requests[j])
                /\ \A k \in DOMAIN events :
                      events[k].kind = "delta" => events[k].piece \in 1..MaxPiece
BY DEF Counted, CallCounted

\* The next piece of a stream is within the bound of the pieces.
LEMMA PieceBound ==
    ASSUME ChatBounds,
           NEW r \in Calls, CallCounted(r)
    PROVE  /\ r.base + r.chunks <= MaxPiece /\ MaxPiece \in Nat
           /\ r.round # MAX_TOOL_ROUNDS => r.base + r.chunks <= Budget(r.round + 1)
<1>1. /\ r.round \in Nat /\ r.round <= MAX_TOOL_ROUNDS /\ r.base \in Nat
      /\ r.chunks \in Nat /\ r.chunks <= MaxChunks
  BY DEF ChatBounds, Calls
<1>2. /\ r.round * MaxChunks <= MAX_TOOL_ROUNDS * MaxChunks
      /\ r.round * MaxChunks \in Nat /\ MAX_TOOL_ROUNDS * MaxChunks \in Nat
      /\ (r.round + 1) * MaxChunks = r.round * MaxChunks + MaxChunks
  BY <1>1, TimesGrow DEF ChatBounds
<1>3. MaxPiece = MAX_TOOL_ROUNDS * MaxChunks + MaxChunks
  BY TimesGrow DEF ChatBounds, MaxPiece
<1>4. r.base <= r.round * MaxChunks
  BY DEF CallCounted, Budget
<1> QED
  BY <1>1, <1>2, <1>3, <1>4 DEF ChatBounds, Budget

\* Fields of a call that was changed.
LEMMA CallFields ==
    ASSUME NEW r \in Calls, NEW s \in Stages
    PROVE  /\ r.at \in Stages /\ r.token \in BOOLEAN /\ r.attempt \in 1..MAX_ATTEMPTS
           /\ r.round \in 0..MAX_TOOL_ROUNDS /\ r.base \in Nat /\ r.chunks \in 0..MaxChunks
           /\ r.emitted \in BOOLEAN
           /\ LET x == [r EXCEPT !.at = s] IN
              x \in Calls /\ x.at = s /\ x.token = r.token /\ x.round = r.round
              /\ x.base = r.base /\ x.chunks = r.chunks /\ x.emitted = r.emitted
BY DEF Calls

\* A call, field by field.
IsCall(r, a, t, n, o, b, c, e) ==
    r = [at |-> a, token |-> t, attempt |-> n, round |-> o, base |-> b, chunks |-> c, emitted |-> e]

\* A call, taken apart.
LEMMA CallParts ==
    ASSUME NEW r \in Calls
    PROVE  \E a \in Stages, t \in BOOLEAN, n \in 1..MAX_ATTEMPTS, o \in 0..MAX_TOOL_ROUNDS,
              b \in Nat, c \in 0..MaxChunks, e \in BOOLEAN : IsCall(r, a, t, n, o, b, c, e)
<1>1. /\ r.at \in Stages /\ r.token \in BOOLEAN /\ r.attempt \in 1..MAX_ATTEMPTS
      /\ r.round \in 0..MAX_TOOL_ROUNDS /\ r.base \in Nat /\ r.chunks \in 0..MaxChunks
      /\ r.emitted \in BOOLEAN
      /\ IsCall(r, r.at, r.token, r.attempt, r.round, r.base, r.chunks, r.emitted)
  BY DEF Calls, IsCall
<1> QED
  BY <1>1

\* A call, put together.
LEMMA CallMade ==
    ASSUME NEW x, NEW a \in Stages, NEW t \in BOOLEAN, NEW n \in 1..MAX_ATTEMPTS,
           NEW o \in 0..MAX_TOOL_ROUNDS, NEW b \in Nat, NEW c \in 0..MaxChunks,
           NEW e \in BOOLEAN, IsCall(x, a, t, n, o, b, c, e)
    PROVE  x \in Calls /\ x.at = a /\ x.attempt = n /\ x.chunks = c /\ x.base = b
           /\ x.round = o
BY DEF Calls, IsCall

\* Open: a new attempt starts from no piece.
LEMMA CallOpened ==
    ASSUME ChatBounds,
           NEW r \in Calls, NEW x, x = [r EXCEPT !.at = "stream", !.chunks = 0, !.emitted = FALSE]
    PROVE  x \in Calls /\ x.at = "stream" /\ x.chunks = 0 /\ x.base = r.base /\ x.round = r.round
<1>1. PICK a \in Stages, t \in BOOLEAN, n \in 1..MAX_ATTEMPTS, o \in 0..MAX_TOOL_ROUNDS,
           b \in Nat, c \in 0..MaxChunks, e \in BOOLEAN : IsCall(r, a, t, n, o, b, c, e)
  BY CallParts
<1>t. /\ a \in Stages /\ t \in BOOLEAN /\ n \in 1..MAX_ATTEMPTS /\ o \in 0..MAX_TOOL_ROUNDS
      /\ b \in Nat /\ c \in 0..MaxChunks /\ e \in BOOLEAN
  OBVIOUS
<1>2. IsCall(x, "stream", t, n, o, b, 0, FALSE)
  BY <1>1 DEF IsCall
<1>3. /\ r.at = a /\ r.attempt = n /\ r.chunks = c /\ r.base = b /\ r.round = o
  BY <1>1, CallMade
<1>4. "stream" \in Stages /\ 0 \in 0..MaxChunks
  BY <1>3 DEF ChatBounds, Stages
<1>5. x \in Calls /\ x.at = "stream" /\ x.attempt = n /\ x.round = o /\ x.base = b /\ x.chunks = 0
  BY ONLY <1>2, <1>4, <1>t DEF IsCall, Calls
<1> QED
  BY <1>3, <1>5

\* Delta: one more piece of this round.
LEMMA CallTold ==
    ASSUME ChatBounds,
           NEW r \in Calls, r.at = "stream", r.chunks < MaxChunks,
           NEW x, x = [r EXCEPT !.chunks = @ + 1, !.emitted = TRUE]
    PROVE  x \in Calls /\ x.at = "stream" /\ x.chunks = r.chunks + 1 /\ x.base = r.base
           /\ x.round = r.round /\ x.emitted
<1>1. PICK a \in Stages, t \in BOOLEAN, n \in 1..MAX_ATTEMPTS, o \in 0..MAX_TOOL_ROUNDS,
           b \in Nat, c \in 0..MaxChunks, e \in BOOLEAN : IsCall(r, a, t, n, o, b, c, e)
  BY CallParts
<1>t. /\ a \in Stages /\ t \in BOOLEAN /\ n \in 1..MAX_ATTEMPTS /\ o \in 0..MAX_TOOL_ROUNDS
      /\ b \in Nat /\ c \in 0..MaxChunks /\ e \in BOOLEAN
  OBVIOUS
<1>2. IsCall(x, a, t, n, o, b, c + 1, TRUE)
  BY <1>1 DEF IsCall
<1>3. /\ r.at = a /\ r.attempt = n /\ r.chunks = c /\ r.base = b /\ r.round = o
  BY <1>1, CallMade
<1>4. a = "stream" /\ c + 1 \in 0..MaxChunks
  BY <1>3 DEF ChatBounds, Stages
<1>5. /\ x \in Calls /\ x.at = a /\ x.attempt = n /\ x.round = o /\ x.base = b
      /\ x.chunks = c + 1 /\ x.emitted
  BY ONLY <1>2, <1>4, <1>t DEF IsCall, Calls
<1> QED
  BY <1>3, <1>5

\* Tools: the pieces of the round join those of the earlier ones.
LEMMA CallRounds ==
    ASSUME ChatBounds,
           NEW r \in Calls, r.round # MAX_TOOL_ROUNDS,
           NEW x,
           x = [r EXCEPT !.at = "open", !.attempt = 1, !.round = @ + 1, !.base = @ + r.chunks]
    PROVE  x \in Calls /\ x.at = "open" /\ x.base = r.base + r.chunks /\ x.round = r.round + 1
<1>1. PICK a \in Stages, t \in BOOLEAN, n \in 1..MAX_ATTEMPTS, o \in 0..MAX_TOOL_ROUNDS,
           b \in Nat, c \in 0..MaxChunks, e \in BOOLEAN : IsCall(r, a, t, n, o, b, c, e)
  BY CallParts
<1>t. /\ a \in Stages /\ t \in BOOLEAN /\ n \in 1..MAX_ATTEMPTS /\ o \in 0..MAX_TOOL_ROUNDS
      /\ b \in Nat /\ c \in 0..MaxChunks /\ e \in BOOLEAN
  OBVIOUS
<1>2. IsCall(x, "open", t, 1, o + 1, b + c, c, e)
  BY <1>1 DEF IsCall
<1>3. /\ r.at = a /\ r.attempt = n /\ r.chunks = c /\ r.base = b /\ r.round = o
  BY <1>1, CallMade
<1>4. /\ "open" \in Stages /\ 1 \in 1..MAX_ATTEMPTS /\ o + 1 \in 0..MAX_TOOL_ROUNDS
      /\ b + c \in Nat
  BY <1>3 DEF ChatBounds, Stages
<1>5. /\ x \in Calls /\ x.at = "open" /\ x.attempt = 1 /\ x.round = o + 1 /\ x.base = b + c
      /\ x.chunks = c
  BY ONLY <1>2, <1>4, <1>t DEF IsCall, Calls
<1> QED
  BY <1>3, <1>5

\* Retry: the attempt is one of those allowed.
LEMMA CallRetried ==
    ASSUME ChatBounds,
           NEW r \in Calls, r.attempt < MAX_ATTEMPTS,
           NEW x, x = [r EXCEPT !.at = "open", !.attempt = @ + 1]
    PROVE  x \in Calls /\ x.at = "open" /\ x.base = r.base /\ x.round = r.round
<1>1. PICK a \in Stages, t \in BOOLEAN, n \in 1..MAX_ATTEMPTS, o \in 0..MAX_TOOL_ROUNDS,
           b \in Nat, c \in 0..MaxChunks, e \in BOOLEAN : IsCall(r, a, t, n, o, b, c, e)
  BY CallParts
<1>t. /\ a \in Stages /\ t \in BOOLEAN /\ n \in 1..MAX_ATTEMPTS /\ o \in 0..MAX_TOOL_ROUNDS
      /\ b \in Nat /\ c \in 0..MaxChunks /\ e \in BOOLEAN
  OBVIOUS
<1>2. IsCall(x, "open", t, n + 1, o, b, c, e)
  BY <1>1 DEF IsCall
<1>3. /\ r.at = a /\ r.attempt = n /\ r.chunks = c /\ r.base = b /\ r.round = o
  BY <1>1, CallMade
<1>4. "open" \in Stages /\ n + 1 \in 1..MAX_ATTEMPTS
  BY <1>3 DEF ChatBounds, Stages
<1>5. x \in Calls /\ x.at = "open" /\ x.attempt = n + 1 /\ x.round = o /\ x.base = b /\ x.chunks = c
  BY ONLY <1>2, <1>4, <1>t DEF IsCall, Calls
<1> QED
  BY <1>3, <1>5

\* What a step of a call does to that call, to the others and to the queue: it ends with
\* an answer or an error, passes on the next piece, or is silent and repeats no text.
LEMMA CallSteps ==
    ASSUME ChatBounds,
           ChatTyped, Counted, NEW i \in DOMAIN requests, Step(i) \/ Broken(i)
    PROVE  /\ CallsOn(i) /\ UNCHANGED window
           /\ current' \in {current, i} /\ faults' \in 0..MaxFaults
<1> DEFINE r == requests[i]
<1>c. ChatBounds
  OBVIOUS
<1>1. /\ requests \in Seq(Calls) /\ r \in Calls /\ CallCounted(r)
      /\ \A j \in DOMAIN requests : CallCounted(requests[j])
      /\ faults \in 0..MaxFaults /\ current \in 0..Len(requests)
  BY CountedCalls DEF ChatTyped
<1>b. r.base + r.chunks <= MaxPiece /\ MaxPiece \in Nat
  BY <1>1, PieceBound
<1> DEFINE Moved(new) ==
      /\ requests' \in Seq(Calls) /\ Len(requests') = Len(requests)
      /\ DOMAIN requests' = DOMAIN requests
      /\ requests'[i] = new /\ \A j \in DOMAIN requests : j # i => requests'[j] = requests[j]
      /\ \A j \in DOMAIN requests' : CallCounted(requests'[j])
<1>m. ASSUME NEW new \in Calls, CallCounted(new), requests' = [requests EXCEPT ![i] = new]
      PROVE  Moved(new)
  BY <1>1, <1>m, CallMoves
<1>g. ASSUME NEW s \in Stages, Goto(i, s), s = "tools" => r.round # MAX_TOOL_ROUNDS,
             s \in {"sent", "context"} => r.chunks = 0,
             s = "stream" => r.at = "stream"
      PROVE  Moved([r EXCEPT !.at = s])
  <2>1. [r EXCEPT !.at = s] \in Calls /\ CallCounted([r EXCEPT !.at = s])
    BY <1>1, <1>g DEF Calls, CallCounted
  <2>2. requests' = [requests EXCEPT ![i] = [r EXCEPT !.at = s]]
    BY <1>g DEF Goto
  <2> QED
    BY <2>1, <2>2, <1>m
<1>f. ASSUME Fail(i), r.at # "answered"
      PROVE  CallsOn(i)
  <2>1. Moved([r EXCEPT !.at = "answered"])
    BY <1>f, <1>g DEF Fail, Stages
  <2>2. requests'[i].at = "answered"
    BY <2>1, <1>1 DEF Calls
  <2> QED
    BY <2>1, <2>2, <1>f DEF Fail, Tell, CallsOn, Ends, Same
<1>q. ASSUME NEW s \in Stages \ {"answered", "open"}, Goto(i, s), UNCHANGED events,
             s = "tools" => r.round # MAX_TOOL_ROUNDS,
             s \in {"sent", "context"} => r.chunks = 0,
             s = "stream" => r.at = "stream", r.at \notin {"answered", "open"}
      PROVE  CallsOn(i)
  <2>1. Moved([r EXCEPT !.at = s])
    BY <1>q, <1>g
  <2>2. requests'[i].at = s /\ requests'[i].base = r.base /\ requests'[i].chunks = r.chunks
    BY <2>1, <1>1 DEF Calls
  <2> QED
    BY <2>1, <2>2, <1>q DEF Quiet, CallsOn, Told, Same
<1>2. CASE Register(i)
  <2>1. CASE Fail(i) /\ faults < MaxFaults /\ faults' = faults + 1 /\ UNCHANGED current
    BY <1>2, <2>1, <1>f, <1>1 DEF ChatBounds, Register, At
  <2>2. CASE /\ current' = i /\ UNCHANGED <<events, faults>>
             /\ requests' = [CancelToken(requests, current) EXCEPT ![i].at = "context"]
    <3> DEFINE rs == CancelToken(requests, current)
               new == [rs[i] EXCEPT !.at = "context"]
    <3>1. /\ rs \in Seq(Calls) /\ Len(rs) = Len(requests) /\ DOMAIN rs = DOMAIN requests
          /\ current # 0 => rs[current] = [requests[current] EXCEPT !.token = TRUE]
          /\ \A j \in DOMAIN requests : j # current => rs[j] = requests[j]
          /\ \A j \in DOMAIN rs : CallCounted(rs[j])
      BY <1>1, TokenTaken
    <3>2. ASSUME NEW j \in DOMAIN requests PROVE rs[j] \in Calls /\ Same(rs[j], requests[j])
      <4>1. requests[j] \in Calls /\ rs[j] \in Calls
        BY <1>1, <3>1
      <4>2. CASE j = current
        <5>1. rs[j] = [requests[j] EXCEPT !.token = TRUE]
          BY <3>1, <4>2, <1>1
        <5> HIDE DEF rs
        <5> QED
          BY <4>1, <5>1, TokenFields
      <4>3. CASE j # current
        BY <3>1, <4>1, <4>3 DEF Same
      <4> QED
        BY <4>2, <4>3
    <3>3. requests' = [rs EXCEPT ![i] = new]
      BY <2>2
    <3>4. rs[i] \in Calls /\ rs[i].chunks = 0 /\ CallCounted(rs[i])
      BY <3>1, <3>2, <1>1, <1>2 DEF Same, CallCounted, Register, At
    <3>5. new \in Calls /\ CallCounted(new) /\ new.at = "context"
          /\ new.base = requests[i].base /\ new.chunks = 0
      BY <3>4, <3>2 DEF Calls, CallCounted, Stages, Same
    <3> HIDE DEF new, rs
    <3>6. /\ requests' \in Seq(Calls) /\ Len(requests') = Len(rs) /\ DOMAIN requests' = DOMAIN rs
          /\ requests'[i] = new /\ \A j \in DOMAIN rs : j # i => requests'[j] = rs[j]
          /\ \A j \in DOMAIN requests' : CallCounted(requests'[j])
      BY <3>1, <3>3, <3>5, CallMoves
    <3>7. Quiet(i)
      BY <3>6, <3>5, <3>4, <3>2, <2>2, <1>1, <1>2 DEF Quiet, Told, Same, Register, At
    <3>8. \A j \in DOMAIN requests : j # i => Same(requests'[j], requests[j])
      BY <3>6, <3>2, <3>1
    <3>9. CallsOn(i)
      BY <3>1, <3>6, <3>7, <3>8, <1>2 DEF CallsOn, Register, At
    <3> QED
      BY <3>9, <2>2, <1>1, <1>2 DEF Register
  <2> QED
    BY <1>2, <2>1, <2>2 DEF Register
<1>3. CASE Context(i)
  <2>1. CASE r.token
    BY <1>3, <2>1, <1>f, <1>1 DEF Context, At
  <2>2. CASE ~r.token
    <3>1. Moved([r EXCEPT !.at = "open"]) /\ events' = events
      BY <1>3, <2>2, <1>g DEF Context, Stages
    <3>2. requests'[i].at = "open" /\ requests'[i].base = r.base /\ r.chunks = 0 /\ r.at = "context"
      BY <3>1, <1>1, <1>3 DEF Calls, CallCounted, Context, At
    <3>3. CallsOn(i)
      BY <3>1, <3>2, <1>1 DEF CallsOn, Quiet, Told, Same, Calls
    <3> QED
      BY <3>3, <1>3, <1>1 DEF Context
  <2> QED
    BY <2>1, <2>2
<1>4. CASE Open(i)
  <2>1. CASE r.token
    BY <1>4, <2>1, <1>f, <1>1 DEF Open, At
  <2>2. CASE ~r.token
    <3>0. r \in Calls
      BY <1>1
    <3> DEFINE new == [r EXCEPT !.at = "stream", !.chunks = 0, !.emitted = FALSE]
    <3>1. requests' = [requests EXCEPT ![i] = new] /\ events' = events /\ r.at = "open"
      BY <1>4, <2>2 DEF Open, At
    <3>e. new = [r EXCEPT !.at = "stream", !.chunks = 0, !.emitted = FALSE]
      OBVIOUS
    <3> HIDE DEF new
    <3>4. new \in Calls /\ new.at = "stream" /\ new.chunks = 0 /\ new.base = r.base
          /\ new.round = r.round
      BY ONLY <1>c, <3>0, <3>e, CallOpened, Zenon
    <3>2. CallCounted(new)
      BY <1>1, <3>4 DEF CallCounted
    <3>3. Moved(new)
      BY <3>1, <3>2, <3>4, <1>m
    <3>5. r.base \in Nat
      BY <3>0 DEF Calls
    <3>6. CallsOn(i)
      BY <3>1, <3>4, <3>3, <3>5 DEF CallsOn, Quiet, Told, Same
    <3> QED
      BY <3>6, <1>4, <1>1 DEF Open
  <2> QED
    BY <2>1, <2>2
<1>5. CASE Delta(i)
  <2> DEFINE new == [r EXCEPT !.chunks = @ + 1, !.emitted = TRUE]
  <2>1. requests' = [requests EXCEPT ![i] = new] /\ r.at = "stream" /\ r.chunks < MaxChunks
        /\ events' = Append(events, Event("delta", i, r.base + r.chunks + 1))
    BY <1>5 DEF Delta, At, Tell
  <2>0. r \in Calls
    BY <1>1
  <2>e. new = [r EXCEPT !.chunks = @ + 1, !.emitted = TRUE]
    OBVIOUS
  <2> HIDE DEF new
  <2>a. new \in Calls /\ new.at = "stream" /\ new.chunks = r.chunks + 1 /\ new.base = r.base
        /\ new.round = r.round /\ new.emitted
    BY ONLY <1>c, <2>0, <2>1, <2>e, CallTold, Zenon
  <2>2. CallCounted(new)
    BY <1>1, <2>a DEF CallCounted
  <2>3. Moved(new)
    BY <2>1, <2>2, <2>a, <1>m
  <2>4. new.base + new.chunks <= MaxPiece
    BY <2>2, <2>a, PieceBound
  <2>5. r.base \in Nat /\ r.chunks \in Nat
    BY <2>0 DEF ChatBounds, Calls
  <2>7. Told(i) = r.base + r.chunks /\ Told(i)' = r.base + (r.chunks + 1)
    BY <2>1, <2>a, <2>3 DEF Told
  <2>8. Told(i) + 1 \in 1..MaxPiece /\ Told(i)' = Told(i) + 1
    BY <2>7, <2>4, <2>a, <2>5, <1>b
  <2>6. Passes(i)
    BY <2>1, <2>a, <2>3, <2>7, <2>8 DEF Passes
  <2> QED
    BY <2>1, <2>3, <2>6, <1>5, <1>1 DEF CallsOn, Same, Delta
<1>6. CASE Interrupted(i)
  BY <1>6, <1>f, <1>1 DEF Interrupted, At
<1>7. CASE Completed(i)
  <2>1. CASE Goto(i, "save") /\ UNCHANGED events
    BY <1>7, <2>1, <1>q, <1>1 DEF Completed, At, Stages
  <2>2. CASE r.round = MAX_TOOL_ROUNDS /\ Fail(i)
    BY <1>7, <2>2, <1>f, <1>1 DEF Completed, At
  <2>3. CASE r.round # MAX_TOOL_ROUNDS /\ Goto(i, "tools") /\ UNCHANGED events
    BY <1>7, <2>3, <1>q, <1>1 DEF Completed, At, Stages
  <2> QED
    BY <1>7, <2>1, <2>2, <2>3 DEF Completed
<1>8. CASE Tools(i)
  <2>1. CASE r.token
    BY <1>8, <2>1, <1>f, <1>1 DEF Tools, At
  <2>2. CASE ~r.token
    <3> DEFINE new == [r EXCEPT !.at = "open", !.attempt = 1, !.round = @ + 1,
                                !.base = @ + r.chunks]
    <3>1. requests' = [requests EXCEPT ![i] = new] /\ events' = events /\ r.at = "tools"
      BY <1>8, <2>2 DEF Tools, At
    <3>2. r.round # MAX_TOOL_ROUNDS /\ r.base + r.chunks <= Budget(r.round + 1)
      BY <1>1, <3>1, PieceBound DEF CallCounted
    <3>0. r \in Calls
      BY <1>1
    <3>e. new = [r EXCEPT !.at = "open", !.attempt = 1, !.round = @ + 1, !.base = @ + r.chunks]
      OBVIOUS
    <3> HIDE DEF new
    <3>3. new \in Calls /\ new.at = "open" /\ new.base = r.base + r.chunks
          /\ new.round = r.round + 1
      BY ONLY <1>c, <3>0, <3>2, <3>e, CallRounds, Zenon
    <3>4. CallCounted(new)
      BY <3>2, <3>3 DEF CallCounted
    <3>5. Moved(new)
      BY <3>1, <3>3, <3>4, <1>m
    <3>7. r.base \in Nat /\ r.chunks \in Nat
      BY <3>0 DEF ChatBounds, Calls
    <3>6. CallsOn(i)
      BY <3>1, <3>3, <3>5, <3>7 DEF CallsOn, Quiet, Told, Same
    <3> QED
      BY <3>6, <1>8, <1>1 DEF Tools
  <2> QED
    BY <2>1, <2>2
<1>9. CASE Save(i)
  <2>1. Moved([r EXCEPT !.at = "answered"]) /\ r.at = "save"
    BY <1>9, <1>g DEF Save, Stages, At
  <2>2. /\ requests'[i].at = "answered" /\ requests'[i].base = r.base
        /\ requests'[i].chunks = r.chunks
    BY <2>1, <1>1 DEF Calls
  <2> QED
    BY <2>1, <2>2, <1>9, <1>1 DEF Save, Tell, CallsOn, Ends, Told, Same
<1>10. CASE Broken(i)
  <2>1. CASE r.attempt < MAX_ATTEMPTS /\ ~r.emitted
    <3> DEFINE new == [r EXCEPT !.at = "open", !.attempt = @ + 1]
    <3>1. requests' = [requests EXCEPT ![i] = new] /\ events' = events /\ r.at = "stream"
      BY <1>10, <2>1 DEF Broken, Retry, At
    <3>0. r \in Calls /\ r.chunks = 0
      BY <1>1, <2>1, <3>1 DEF CallCounted
    <3>e. new = [r EXCEPT !.at = "open", !.attempt = @ + 1]
      OBVIOUS
    <3> HIDE DEF new
    <3>5. new \in Calls /\ new.at = "open" /\ new.base = r.base /\ new.round = r.round
      BY ONLY <1>c, <3>0, <2>1, <3>e, CallRetried, Zenon
    <3>2. CallCounted(new)
      BY <1>1, <3>5 DEF CallCounted
    <3>3. Moved(new)
      BY <3>1, <3>2, <3>5, <1>m
    <3>6. r.base \in Nat
      BY <3>0 DEF Calls
    <3>4. CallsOn(i)
      BY <3>1, <3>0, <3>5, <3>3, <3>6 DEF CallsOn, Quiet, Told, Same
    <3> QED
      BY <3>4, <1>10, <1>1 DEF ChatBounds, Broken
  <2>2. CASE ~(r.attempt < MAX_ATTEMPTS /\ ~r.emitted)
    BY <1>10, <2>2, <1>f, <1>1 DEF ChatBounds, Broken, At
  <2> QED
    BY <2>1, <2>2
<1> QED
  BY <1>2, <1>3, <1>4, <1>5, <1>6, <1>7, <1>8, <1>9, <1>10 DEF Step

\* OneLive is kept by the steps of a call.
LEMMA LiveCalls ==
    ASSUME ChatTyped, OneLive, NEW i \in DOMAIN requests, Step(i) \/ Broken(i)
    PROVE  OneLive'
<1>0. /\ requests \in Seq(Calls) /\ DOMAIN requests = 1..Len(requests)
      /\ current \in 0..Len(requests)
      /\ \A j \in DOMAIN requests : requests[j] \in Calls
  BY DEF ChatTyped
<1>1. ASSUME current' = current, requests[i].at # "sent", DOMAIN requests' = DOMAIN requests,
             requests'[i].token = requests[i].token, requests[i].at # "answered",
             \A j \in DOMAIN requests : j # i => requests'[j] = requests[j]
      PROVE  OneLive'
  BY <1>1 DEF OneLive
<1>2. ASSUME current' = current, DOMAIN requests' = DOMAIN requests,
             requests'[i].at = "answered",
             \A j \in DOMAIN requests : j # i => requests'[j] = requests[j]
      PROVE  OneLive'
  BY <1>2 DEF OneLive
<1>3. ASSUME NEW s \in Stages, Goto(i, s)
      PROVE  /\ DOMAIN requests' = DOMAIN requests /\ requests'[i].at = s
             /\ requests'[i].token = requests[i].token
             /\ \A j \in DOMAIN requests : j # i => requests'[j] = requests[j]
  <2>1. requests' = [requests EXCEPT ![i] = [requests[i] EXCEPT !.at = s]]
    BY <1>3 DEF Goto
  <2>2. requests'[i] = [requests[i] EXCEPT !.at = s]
    BY <2>1, <1>0
  <2>3. requests'[i].at = s /\ requests'[i].token = requests[i].token
    BY <2>2, <1>0, CallFields
  <2> QED
    BY <2>1, <2>3, <1>0
<1>f. ASSUME Fail(i), current' = current
      PROVE  OneLive'
  BY <1>f, <1>2, <1>3 DEF Fail, Stages
<1>g. ASSUME NEW s \in Stages, Goto(i, s), current' = current, requests[i].at \notin {"sent", "answered"}
      PROVE  OneLive'
  BY <1>g, <1>1, <1>3
<1>4. CASE Register(i)
  <2>1. CASE Fail(i) /\ UNCHANGED current
    BY <2>1, <1>f
  <2>2. CASE current' = i /\ requests' = [CancelToken(requests, current) EXCEPT ![i].at = "context"]
    <3>1. CASE current = 0
      BY <2>2, <3>1, <1>0 DEF CancelToken, OneLive
    <3>2. CASE current # 0
      <4> DEFINE rs == [requests EXCEPT ![current].token = TRUE]
      <4>1. requests' = [rs EXCEPT ![i].at = "context"]
        BY <2>2, <3>2 DEF CancelToken
      <4>2. /\ DOMAIN requests' = DOMAIN requests
            /\ \A j \in DOMAIN requests : j \notin {i, current} => requests'[j] = requests[j]
        BY <4>1, <1>0
      <4>0. current \in DOMAIN requests
        BY <3>2, <1>0
      <4>3. rs[current] = [requests[current] EXCEPT !.token = TRUE] /\ current \in DOMAIN rs
        BY <4>0
      <4>5. rs[current].token
        BY <4>3, <3>2, <1>0, TokenFields
      <4>4. current # i => requests'[current].token
        BY <4>1, <4>3, <4>5
      <4> QED
        BY <2>2, <4>2, <4>4 DEF OneLive
    <3> QED
      BY <3>1, <3>2
  <2> QED
    BY <1>4, <2>1, <2>2 DEF Register
<1>5. CASE Context(i)
  BY <1>5, <1>f, <1>g DEF Context, At, Stages
<1>6. CASE Open(i)
  <2>1. CASE Fail(i)
    BY <2>1, <1>6, <1>f DEF Open
  <2>2. CASE requests' = [requests EXCEPT ![i].at = "stream", ![i].chunks = 0,
                                          ![i].emitted = FALSE]
    BY <2>2, <1>6, <1>0, <1>1 DEF Open, At, Calls
  <2> QED
    BY <1>6, <2>1, <2>2 DEF Open
<1>7. CASE Delta(i)
  BY <1>7, <1>0, <1>1 DEF Delta, At, Calls
<1>8. CASE Interrupted(i)
  BY <1>8, <1>f DEF Interrupted
<1>9. CASE Completed(i)
  BY <1>9, <1>f, <1>g DEF Completed, At, Stages
<1>10. CASE Tools(i)
  <2>1. CASE Fail(i)
    BY <2>1, <1>10, <1>f DEF Tools
  <2>2. CASE ~requests[i].token
    BY <2>2, <1>10, <1>0, <1>1 DEF Tools, At, Calls
  <2> QED
    BY <1>10, <2>1, <2>2 DEF Tools
<1>11. CASE Save(i)
  BY <1>11, <1>g DEF Save, At, Stages
<1>12. CASE Broken(i)
  <2>1. CASE Fail(i)
    BY <2>1, <1>12, <1>f DEF Broken
  <2>2. CASE requests' = Retry(i)
    BY <2>2, <1>12, <1>0, <1>1 DEF Broken, At, Calls, Retry
  <2> QED
    BY <1>12, <2>1, <2>2 DEF Broken
<1> QED
  BY <1>4, <1>5, <1>6, <1>7, <1>8, <1>9, <1>10, <1>11, <1>12 DEF Step

\* Appending to a sequence.
LEMMA Appended ==
    ASSUME NEW S, NEW q \in Seq(S), NEW e \in S, NEW qq, qq = Append(q, e)
    PROVE  /\ qq \in Seq(S) /\ Len(qq) = Len(q) + 1 /\ DOMAIN qq = 1..(Len(q) + 1)
           /\ qq[Len(q) + 1] = e /\ \A k \in 1..Len(q) : qq[k] = q[k]
           /\ DOMAIN q = 1..Len(q) /\ Len(q) \in Nat
OBVIOUS

\* What a step of a call means for the queue of events.
LEMMA EventsGrow ==
    ASSUME ChatBounds,
           ChatTyped, NEW i \in DOMAIN requests, CallsOn(i)
    PROVE  /\ events' \in Seq(Words)' /\ DOMAIN events = 1..Len(events) /\ Len(events) \in Nat
           /\ \A k \in DOMAIN events : k \in DOMAIN events' /\ events'[k] = events[k]
           /\ \/ DOMAIN events' = DOMAIN events /\ Quiet(i)
              \/ /\ DOMAIN events' = 1..(Len(events) + 1) /\ events'[Len(events) + 1].of = i
                 /\ \/ Passes(i) /\ events'[Len(events) + 1].kind = "delta"
                       /\ events'[Len(events) + 1].piece = Told(i) + 1
                    \/ Ends(i) /\ events'[Len(events) + 1].kind = "error"
                    \/ Ends(i) /\ events'[Len(events) + 1].kind = "ok" /\ Told(i)' = Told(i)
<1>1. events \in Seq(Words) /\ Words' = Words /\ requests[i] \in Calls /\ i \in 1..Len(requests)
  BY DEF ChatTyped, CallsOn, Words
<1>2. Told(i) \in Nat
  BY <1>1 DEF ChatBounds, Told, Calls
<1>3. CASE Quiet(i)
  BY <1>1, <1>3 DEF Quiet
<1>4. CASE Passes(i)
  <2> DEFINE e == Event("delta", i, Told(i) + 1)
  <2>1. e \in Words /\ e.of = i /\ e.kind = "delta" /\ e.piece = Told(i) + 1
    BY <1>1, <1>2 DEF Words, Event
  <2>2. events' = Append(events, e)
    BY <1>4 DEF Passes
  <2> HIDE DEF e
  <2> QED
    BY <1>1, <1>4, <2>1, <2>2, Appended
<1>5. CASE Ends(i)
  <2>1. PICK e \in {Event("error", i, 0), Event("ok", i, 0)} :
           events' = Append(events, e) /\ (e = Event("ok", i, 0) => Told(i)' = Told(i))
    BY <1>5 DEF Ends, Event
  <2>2. e \in Words /\ e.of = i /\ e.kind \in {"error", "ok"}
        /\ (e.kind = "ok" => Told(i)' = Told(i))
    BY <1>1, <2>1 DEF Words, Event
  <2> QED
    BY <1>1, <1>5, <2>1, <2>2, Appended
<1> QED
  BY <1>3, <1>4, <1>5 DEF CallsOn

\* The steps of a call keep what is shown, and what is on its way, in order.
LEMMA CallsKeepRest ==
    ASSUME ChatBounds,
           ChatTyped, Counted, OneOpen, LastWord, ShownSoFar, AnswerWhole,
           NEW i \in DOMAIN requests, CallsOn(i), UNCHANGED window,
           current' \in {current, i}, faults' \in 0..MaxFaults
    PROVE  ChatTyped' /\ Counted' /\ OneOpen' /\ LastWord' /\ ShownSoFar' /\ AnswerWhole'
<1>0. /\ requests \in Seq(Calls) /\ responses \in Seq(Answers) /\ events \in Seq(Words)
      /\ DOMAIN requests = 1..Len(requests) /\ DOMAIN responses = DOMAIN requests
      /\ UNCHANGED responses /\ active' = active /\ received' = received
      /\ \A j \in DOMAIN requests : requests[j] \in Calls /\ requests'[j] \in Calls
      /\ \A k \in DOMAIN events : events[k] \in Words
      /\ DOMAIN requests' = DOMAIN requests
  BY DEF ChatTyped, window, CallsOn
<1>e. /\ events' \in Seq(Words)' /\ DOMAIN events = 1..Len(events) /\ Len(events) \in Nat
      /\ \A k \in DOMAIN events : k \in DOMAIN events' /\ events'[k] = events[k]
      /\ \/ DOMAIN events' = DOMAIN events /\ Quiet(i)
         \/ /\ DOMAIN events' = 1..(Len(events) + 1) /\ events'[Len(events) + 1].of = i
            /\ \/ Passes(i) /\ events'[Len(events) + 1].kind = "delta"
                  /\ events'[Len(events) + 1].piece = Told(i) + 1
               \/ Ends(i) /\ events'[Len(events) + 1].kind = "error"
               \/ Ends(i) /\ events'[Len(events) + 1].kind = "ok" /\ Told(i)' = Told(i)
  BY EventsGrow
<1>l. DOMAIN events = 1..Len(events) /\ Len(events) \in Nat
  BY <1>e
<1>s. \A j \in DOMAIN requests : j # i => Same(requests'[j], requests[j])
  BY DEF CallsOn
<1>t. ASSUME NEW j \in DOMAIN requests PROVE Told(j) \in Nat
  <2>1. requests[j] \in Calls
    BY <1>0
  <2>2. requests[j].base \in Nat /\ requests[j].chunks \in 0..MaxChunks
    BY <2>1 DEF Calls
  <2> QED
    BY <2>2 DEF ChatBounds, Told
<1>1. ChatTyped'
  BY <1>0, <1>e DEF ChatTyped, CallsOn, window
<1>2. Counted'
  <2>1. \A k \in DOMAIN events' : events'[k].kind = "delta" => events'[k].piece \in 1..MaxPiece
    BY <1>e DEF Passes, Counted
  <2>2. \A j \in DOMAIN requests' : CallCounted(requests'[j])
    BY DEF CallsOn
  <2> QED
    BY <2>1, <2>2 DEF Counted, CallCounted
<1>3. OneOpen'
  BY <1>0 DEF OneOpen, Open1, window
<1>n. requests[i].at # "answered"
  BY DEF CallsOn
<1>4. LastWord'
  <2>1. \A k \in DOMAIN events : events[k].of = i => events[k].kind = "delta"
    BY <1>n DEF LastWord
  <2>2. ~responses[i].typing /\ ~responses[i].answered
    BY <1>n, <1>0 DEF LastWord
  <2>3. ASSUME NEW k \in DOMAIN events', events'[k].kind # "delta"
        PROVE  /\ requests'[events'[k].of].at = "answered"
               /\ \A l \in DOMAIN events' : l > k => events'[l].of # events'[k].of
    <3>1. CASE k \in DOMAIN events
      <4>1. events[k].of # i /\ events[k].of \in DOMAIN requests
        BY <2>1, <2>3, <3>1, <1>e, <1>0 DEF Words
      <4> QED
        BY <4>1, <2>3, <3>1, <1>e, <1>s DEF LastWord, Same
    <3>2. CASE k \notin DOMAIN events
      <4>1. k = Len(events) + 1 /\ events'[k].of = i /\ Ends(i) /\ DOMAIN events' = 1..k
        BY <3>2, <2>3, <1>e
      <4>2. \A l \in DOMAIN events' : ~(l > k)
        BY ONLY <4>1, <1>l
      <4>3. requests'[i].at = "answered"
        BY <4>1 DEF Ends
      <4> QED
        BY <4>1, <4>2, <4>3
    <3> QED
      BY <3>1, <3>2
  <2>4. ASSUME NEW j \in DOMAIN responses, responses[j].typing \/ responses[j].answered
        PROVE  requests'[j].at = "answered" /\ \A k \in DOMAIN events' : events'[k].of # j
    <3>1. j # i /\ requests[j].at = "answered" /\ \A k \in DOMAIN events : events[k].of # j
      BY <2>2, <2>4 DEF LastWord
    <3>2. requests'[j].at = "answered"
      BY <3>1, <1>s, <1>0 DEF Same
    <3> QED
      BY <3>1, <3>2, <1>e
  <2> QED
    BY <2>3, <2>4, <1>0 DEF LastWord
<1>5. ShownSoFar'
  <2> SUFFICES ASSUME NEW j \in DOMAIN responses, Open1(j), ~Failing(j)'
               PROVE  IF responses[j].typing THEN responses[j].shown = Pieces(j, Told(j)')
                      ELSE InPieces(j)'
    BY <1>0 DEF ShownSoFar, Open1, Pieces
  <2>0. ~Failing(j) /\ j \in DOMAIN requests
    BY <1>e, <1>0 DEF Failing
  <2>1. CASE j # i
    <3>1. Told(j)' = Told(j)
      BY <1>s, <2>0, <2>1 DEF Same, Told
    <3>2. \A k \in DOMAIN events' : DeltaOf(k, j)' => k \in DOMAIN events /\ DeltaOf(k, j)
      BY <1>e, <2>1 DEF DeltaOf
    <3>3. \A k \in DOMAIN events : DeltaOf(k, j)' <=> DeltaOf(k, j)
      BY <1>e DEF DeltaOf
    <3>4. CASE ~responses[j].typing
      <4>1. InPieces(j)
        BY <2>0, <3>4 DEF ShownSoFar
      <4> QED
        BY <4>1, <3>1, <3>2, <3>3, <1>0, <1>e, <3>4 DEF InPieces, Pieces
    <3> QED
      BY <3>1, <3>4, <2>0 DEF ShownSoFar
  <2>2. CASE j = i
    <3>1. ~responses[i].typing
      BY <1>n, <1>0 DEF LastWord
    <3>2. InPieces(i)
      BY <2>0, <2>2, <3>1 DEF ShownSoFar
    <3>3. \A k \in DOMAIN events : k \in DOMAIN events' /\ (DeltaOf(k, i)' <=> DeltaOf(k, i))
      BY <1>e DEF DeltaOf
    <3> DEFINE s == Len(responses[i].shown)
    <3>4. s \in Nat /\ Told(i) \in Nat /\ s <= Told(i)
      BY <1>0, <1>t, <3>2 DEF InPieces, Answers
    <3>5. CASE Told(i)' = Told(i) /\ \A k \in DOMAIN events' : DeltaOf(k, i)' => k \in DOMAIN events
      <4>1. \A k \in DOMAIN events' : DeltaOf(k, i)' =>
               k \in DOMAIN events /\ DeltaOf(k, i) /\ events'[k] = events[k]
        BY <3>3, <3>5, <1>e
      <4>2. \A k \in DOMAIN events' : DeltaOf(k, i)' => events'[k].piece \in (s + 1)..Told(i)
        BY <4>1, <3>2 DEF InPieces
      <4>3. \A m \in (s + 1)..Told(i) :
               \E k \in DOMAIN events' : DeltaOf(k, i)' /\ events'[k].piece = m
        BY <3>2, <3>3, <1>e DEF InPieces
      <4>4. \A k, l \in DOMAIN events' :
               k < l /\ DeltaOf(k, i)' /\ DeltaOf(l, i)' => events'[k].piece < events'[l].piece
        BY <4>1, <3>2 DEF InPieces
      <4>5. responses[i].shown = Pieces(i, s) /\ s <= Told(i) /\ (received <=> s # 0)
        BY <3>2 DEF InPieces
      <4> HIDE DEF s
      <4>6. InPieces(i)'
        BY <4>2, <4>3, <4>4, <4>5, <3>5, <1>0 DEF InPieces, Pieces, s
      <4> QED
        BY <4>6, <3>1, <2>2
    <3>6. CASE Passes(i) /\ DOMAIN events' = 1..(Len(events) + 1)
               /\ events'[Len(events) + 1].kind = "delta"
               /\ events'[Len(events) + 1].of = i
               /\ events'[Len(events) + 1].piece = Told(i) + 1
      <4> DEFINE n == Told(i)
      <4>1. Told(i)' = n + 1
        BY <3>6 DEF Passes
      <4>2. \A k \in DOMAIN events' : DeltaOf(k, i)' =>
               \/ k \in DOMAIN events /\ DeltaOf(k, i) /\ events'[k].piece = events[k].piece
               \/ k = Len(events) + 1 /\ events'[k].piece = n + 1
        BY <3>6, <3>3, <1>e DEF DeltaOf
      <4>3. \A k \in DOMAIN events : DeltaOf(k, i) => events[k].piece \in (s + 1)..n
        BY <3>2 DEF InPieces
      <4>4. \A k \in DOMAIN events' : DeltaOf(k, i)' => events'[k].piece \in (s + 1)..(n + 1)
        BY <4>2, <4>3, <3>4
      <4>5. \A m \in (s + 1)..(n + 1) :
               \E k \in DOMAIN events' : DeltaOf(k, i)' /\ events'[k].piece = m
        <5> SUFFICES ASSUME NEW m \in (s + 1)..(n + 1)
                     PROVE  \E k \in DOMAIN events' : DeltaOf(k, i)' /\ events'[k].piece = m
          OBVIOUS
        <5>1. CASE m = n + 1
          <6>1. PICK z \in DOMAIN events' : z = Len(events) + 1
            BY <3>6, <1>e
          <6>2. DeltaOf(z, i)' /\ events'[z].piece = n + 1
            BY <3>6, <6>1 DEF DeltaOf
          <6> QED
            BY <5>1, <6>2
        <5>2. CASE m # n + 1
          <6>1. m \in (s + 1)..n
            BY <5>2, <3>4
          <6>2. PICK k \in DOMAIN events : DeltaOf(k, i) /\ events[k].piece = m
            BY <6>1, <3>2 DEF InPieces
          <6> QED
            BY <6>2, <3>3, <1>e
        <5> QED
          BY <5>1, <5>2
      <4>6. \A k, l \in DOMAIN events' :
               k < l /\ DeltaOf(k, i)' /\ DeltaOf(l, i)' => events'[k].piece < events'[l].piece
        <5> SUFFICES ASSUME NEW k \in DOMAIN events', NEW l \in DOMAIN events', k < l,
                            DeltaOf(k, i)', DeltaOf(l, i)'
                     PROVE  events'[k].piece < events'[l].piece
          OBVIOUS
        <5>1. CASE l \in DOMAIN events
          <6>1. k \in DOMAIN events
            BY <5>1, <1>e, <3>6
          <6> QED
            BY <5>1, <6>1, <3>3, <3>2, <1>e DEF InPieces
        <5>2. CASE l \notin DOMAIN events
          <6>1. l = Len(events) + 1 /\ k \in DOMAIN events
            BY <5>2, <1>e, <3>6
          <6>2. events'[k].piece \in (s + 1)..n /\ events'[l].piece = n + 1
            BY <6>1, <4>2, <4>3, <3>6
          <6> QED
            BY <6>2, <3>4
        <5> QED
          BY <5>1, <5>2
      <4>7. responses[i].shown = Pieces(i, s) /\ s <= n + 1 /\ (received <=> s # 0)
        BY <3>2, <3>4 DEF InPieces
      <4> HIDE DEF n, s
      <4>8. InPieces(i)'
        BY <4>1, <4>4, <4>5, <4>6, <4>7, <1>0 DEF InPieces, Pieces, s
      <4> QED
        BY <4>8, <3>1, <2>2
    <3>7. CASE Ends(i) /\ DOMAIN events' = 1..(Len(events) + 1)
               /\ events'[Len(events) + 1].kind # "delta" /\ events'[Len(events) + 1].of = i
      <4>0. PICK z \in DOMAIN events' : z = Len(events) + 1
        BY <3>7, <1>l
      <4>3. events'[z].kind # "error"
        BY <4>0, <3>7, <2>2 DEF Failing
      <4>1. Told(i)' = Told(i)
        BY <4>0, <4>3, <3>7, <1>e DEF Quiet, Passes, Ends
      <4>2. ASSUME NEW k \in DOMAIN events', DeltaOf(k, i)' PROVE k \in DOMAIN events
        <5>1. k # z
          BY <4>0, <4>2, <3>7 DEF DeltaOf
        <5>2. k \in 1..(Len(events) + 1)
          BY <4>2, <3>7
        <5> QED
          BY ONLY <5>1, <5>2, <4>0, <1>l
      <4> QED
        BY <4>1, <4>2, <3>5
    <3> QED
      BY <3>5, <3>6, <3>7, <1>e DEF Quiet
  <2> QED
    BY <2>1, <2>2
<1>6. AnswerWhole'
  <2> SUFFICES ASSUME NEW j \in DOMAIN responses, responses[j].answered, ~responses[j].stopped,
                      ~responses[j].crossed
               PROVE  responses[j].shown =
                        [k \in 1..(requests'[j].base + requests'[j].chunks) |-> <<j, k>>]
    BY <1>0 DEF AnswerWhole
  <2>1. j # i /\ j \in DOMAIN requests
    BY <1>n, <1>0 DEF LastWord
  <2> QED
    BY <2>1, <1>s DEF AnswerWhole, Same
<1> QED
  BY <1>1, <1>2, <1>3, <1>4, <1>5, <1>6

\* The window takes events from the front of the queue.
EventsFall == events' = events \/ (events # <<>> /\ events' = Tail(events))

-----------------------------------------------------------------------------
(***************************************************************************)
(* What the window hears.                                                  *)
(***************************************************************************)
\* Tail of a sequence: every later element moves one place forward.
LEMMA TailOf ==
    ASSUME NEW S, NEW q \in Seq(S), q # <<>>, NEW qq, qq = Tail(q)
    PROVE  /\ qq \in Seq(S) /\ Len(qq) = Len(q) - 1 /\ DOMAIN q = 1..Len(q) /\ Len(q) \in Nat
           /\ DOMAIN qq = 1..(Len(q) - 1) /\ 1 \in DOMAIN q /\ q[1] = Head(q) /\ q[1] \in S
           /\ \A k \in DOMAIN qq : k + 1 \in DOMAIN q /\ qq[k] = q[k + 1]
           /\ \A k \in DOMAIN q : k # 1 => k - 1 \in DOMAIN qq /\ qq[k - 1] = q[k]
OBVIOUS

\* Every event that is still to be heard was there before, at this place or the next one.
LEMMA FallingEvents ==
    ASSUME ChatTyped, EventsFall, requests' = requests
    PROVE  /\ events' \in Seq(Words)'
           /\ \E d \in {0, 1} : /\ \A k \in DOMAIN events' : k + d \in DOMAIN events
                                                           /\ events'[k] = events[k + d]
                                /\ \A k \in DOMAIN events' : k \in Nat
<1>1. events \in Seq(Words) /\ Words' = Words
  BY DEF ChatTyped, Words
<1>2. CASE events' = events
  <2>1. \A k \in DOMAIN events' : k \in Nat /\ k + 0 \in DOMAIN events /\ events'[k] = events[k + 0]
    BY <1>1, <1>2
  <2> QED
    BY <1>1, <1>2, <2>1
<1>3. CASE events # <<>> /\ events' = Tail(events)
  <2>1. /\ events' \in Seq(Words)
        /\ \A k \in DOMAIN events' : k + 1 \in DOMAIN events /\ events'[k] = events[k + 1]
        /\ DOMAIN events' = 1..(Len(events) - 1)
    BY <1>1, <1>3, TailOf
  <2> QED
    BY <1>1, <2>1
<1> QED
  BY <1>2, <1>3 DEF EventsFall

ChatRest == ChatTyped /\ Counted /\ OneOpen /\ LastWord /\ ShownSoFar /\ AnswerWhole

\* After a step: response j is as before, but for marks; or its last event was heard.
Untouched(j) ==
    /\ responses'[j].typing = responses[j].typing
    /\ responses'[j].answered = responses[j].answered
    /\ responses'[j].shown = responses[j].shown
    /\ responses[j].stopped => responses'[j].stopped
    /\ responses[j].crossed => responses'[j].crossed

Over(j) ==
    /\ responses'[j].typing \/ responses'[j].answered =>
          /\ requests[j].at = "answered"
          /\ \A k \in DOMAIN events' : events'[k].of # j
    /\ ~responses'[j].stopped /\ ~responses'[j].crossed =>
          responses'[j].shown =
             [k \in 1..(requests[j].base + requests[j].chunks) |-> <<j, k>>]

\* Steps after which no response can take text.
LEMMA ClosedKeeps ==
    ASSUME ChatRest, EventsFall, UNCHANGED <<received, requests, current, faults>>,
           cancelling' \in {"no", "asked", "done"},
           responses' \in Seq(Answers), Len(responses') = Len(responses),
           sending' = FALSE, active' = 0,
           \A j \in DOMAIN responses :
              responses'[j].stopped \/ responses'[j].crossed \/ responses'[j].answered,
           \A j \in DOMAIN responses : Untouched(j) \/ Over(j)
    PROVE  ChatRest'
<1> USE DEF Untouched, Over
<1>0. /\ responses \in Seq(Answers) /\ DOMAIN responses' = DOMAIN responses
      /\ DOMAIN responses = 1..Len(responses) /\ requests' = requests
  BY DEF ChatRest, ChatTyped
<1>e. /\ events' \in Seq(Words)'
      /\ \E d \in {0, 1} : /\ \A k \in DOMAIN events' : k + d \in DOMAIN events
                                                      /\ events'[k] = events[k + d]
                           /\ \A k \in DOMAIN events' : k \in Nat
  BY FallingEvents DEF ChatRest
<1>d. PICK d \in {0, 1} :
         \A k \in DOMAIN events' : k \in Nat /\ k + d \in DOMAIN events /\ events'[k] = events[k + d]
  BY <1>e
<1>1. ChatTyped'
  <2>1. /\ sending \in BOOLEAN /\ received \in BOOLEAN
        /\ requests \in Seq(Calls) /\ Len(requests) = Len(responses) /\ Len(requests) <= MaxRequests
        /\ current \in 0..Len(requests) /\ faults \in 0..MaxFaults
    BY DEF ChatRest, ChatTyped
  <2>2. events' \in Seq(Words)'
    BY <1>e
  <2>3. active' \in 0..Len(responses')
    BY <1>0
  <2> QED
    BY <1>0, <2>1, <2>2, <2>3 DEF ChatTyped
<1>2. Counted'
  BY <1>0, <1>d DEF ChatRest, Counted
<1>3. OneOpen' /\ ShownSoFar'
  BY <1>0 DEF OneOpen, ShownSoFar, Open1
<1>4. LastWord'
  <2>1. ASSUME NEW k \in DOMAIN events', events'[k].kind # "delta"
        PROVE  /\ requests[events'[k].of].at = "answered"
               /\ \A l \in DOMAIN events' : l > k => events'[l].of # events'[k].of
    <3>1. k + d \in DOMAIN events /\ events'[k] = events[k + d] /\ k \in Nat
      BY <1>d
    <3>2. /\ requests[events[k + d].of].at = "answered"
          /\ \A l \in DOMAIN events : l > k + d => events[l].of # events[k + d].of
      BY <2>1, <3>1 DEF ChatRest, LastWord
    <3>3. ASSUME NEW l \in DOMAIN events', l > k PROVE events'[l].of # events'[k].of
      <4>1. l + d \in DOMAIN events /\ events'[l] = events[l + d] /\ l + d > k + d
        BY <1>d, <3>1, <3>3
      <4> QED
        BY <3>1, <3>2, <4>1
    <3> QED
      BY <3>1, <3>2, <3>3
  <2>2. ASSUME NEW j \in DOMAIN responses, responses'[j].typing \/ responses'[j].answered
        PROVE  requests[j].at = "answered" /\ \A k \in DOMAIN events' : events'[k].of # j
    <3>1. CASE responses[j].typing \/ responses[j].answered
      <4>1. requests[j].at = "answered" /\ \A k \in DOMAIN events : events[k].of # j
        BY <3>1 DEF ChatRest, LastWord
      <4> QED
        BY <4>1, <1>d
    <3>2. CASE ~(responses[j].typing \/ responses[j].answered)
      BY <2>2, <3>2
    <3> QED
      BY <3>1, <3>2
  <2> QED
    BY <2>1, <2>2, <1>0 DEF LastWord
<1>5. AnswerWhole'
  BY <1>0 DEF ChatRest, AnswerWhole
<1> QED
  BY <1>1, <1>2, <1>3, <1>4, <1>5 DEF ChatRest

\* A response, field by field.
IsAnswer(r, s, t, a, p, c) ==
    r = [shown |-> s, typing |-> t, answered |-> a, stopped |-> p, crossed |-> c]

\* A response, taken apart.
LEMMA AnswerParts ==
    ASSUME NEW r \in Answers
    PROVE  \E s \in Seq(Chunk), t \in BOOLEAN, a \in BOOLEAN, p \in BOOLEAN, c \in BOOLEAN :
              IsAnswer(r, s, t, a, p, c)
<1>1. /\ r.shown \in Seq(Chunk) /\ r.typing \in BOOLEAN /\ r.answered \in BOOLEAN
      /\ r.stopped \in BOOLEAN /\ r.crossed \in BOOLEAN
      /\ IsAnswer(r, r.shown, r.typing, r.answered, r.stopped, r.crossed)
  BY DEF Answers, IsAnswer
<1> QED
  BY <1>1

\* A response, put together.
LEMMA AnswerMade ==
    ASSUME NEW x, NEW s \in Seq(Chunk), NEW t \in BOOLEAN, NEW a \in BOOLEAN, NEW p \in BOOLEAN,
           NEW c \in BOOLEAN, IsAnswer(x, s, t, a, p, c)
    PROVE  x \in Answers /\ x.shown = s /\ x.typing = t /\ x.answered = a /\ x.stopped = p
           /\ x.crossed = c
BY DEF Answers, IsAnswer

\* A response that takes a piece, and one that is typed out.
Takes(r, d, b) == [r EXCEPT !.shown = Append(@, d), !.crossed = b]
Types(r, m) == [r EXCEPT !.typing = TRUE, !.shown = @ \o m]

\* A piece appended to a response.
LEMMA AnswerTakes ==
    ASSUME NEW r \in Answers, NEW d \in Chunk, NEW b \in BOOLEAN,
           NEW x, x = Takes(r, d, b)
    PROVE  x \in Answers /\ x.shown = Append(r.shown, d) /\ x.crossed = b
           /\ x.stopped = r.stopped /\ x.typing = r.typing /\ x.answered = r.answered
<1>1. PICK s \in Seq(Chunk), t \in BOOLEAN, a \in BOOLEAN, p \in BOOLEAN, c \in BOOLEAN :
         IsAnswer(r, s, t, a, p, c)
  BY AnswerParts
<1>2. PICK z \in Seq(Chunk) : z = Append(s, d)
  <2>1. Append(s, d) \in Seq(Chunk)
    OBVIOUS
  <2> QED
    BY <2>1
<1>m. z \in Seq(Chunk) /\ t \in BOOLEAN /\ a \in BOOLEAN /\ p \in BOOLEAN /\ b \in BOOLEAN
  OBVIOUS
<1>3. /\ r.shown = s /\ r.typing = t /\ r.answered = a /\ r.stopped = p
  BY <1>1, AnswerMade
<1>4. IsAnswer(x, z, t, a, p, b)
  BY <1>1, <1>2 DEF IsAnswer, Takes
<1>5. x \in Answers /\ x.shown = z /\ x.typing = t /\ x.answered = a /\ x.stopped = p /\ x.crossed = b
  BY ONLY <1>4, <1>m DEF IsAnswer, Answers
<1> QED
  BY <1>2, <1>3, <1>5

\* A text typed out from the result.
LEMMA AnswerTypes ==
    ASSUME NEW r \in Answers, NEW m \in Seq(Chunk),
           NEW x, x = Types(r, m)
    PROVE  x \in Answers /\ x.shown = r.shown \o m /\ x.typing = TRUE
           /\ x.stopped = r.stopped /\ x.crossed = r.crossed /\ x.answered = r.answered
<1>1. PICK s \in Seq(Chunk), t \in BOOLEAN, a \in BOOLEAN, p \in BOOLEAN, c \in BOOLEAN :
         IsAnswer(r, s, t, a, p, c)
  BY AnswerParts
<1>2. PICK z \in Seq(Chunk) : z = s \o m
  <2>1. s \o m \in Seq(Chunk)
    OBVIOUS
  <2> QED
    BY <2>1
<1>t. PICK y \in BOOLEAN : y = TRUE
  OBVIOUS
<1>m. z \in Seq(Chunk) /\ t \in BOOLEAN /\ a \in BOOLEAN /\ p \in BOOLEAN /\ c \in BOOLEAN
      /\ y \in BOOLEAN
  OBVIOUS
<1>3. /\ r.shown = s /\ r.crossed = c /\ r.answered = a /\ r.stopped = p
  BY <1>1, AnswerMade
<1>4. IsAnswer(x, z, y, a, p, c)
  BY <1>1, <1>2, <1>t DEF IsAnswer, Types
<1>5. x \in Answers /\ x.shown = z /\ x.typing = y /\ x.answered = a /\ x.stopped = p /\ x.crossed = c
  BY ONLY <1>4, <1>m DEF IsAnswer, Answers
<1> QED
  BY <1>2, <1>3, <1>5, <1>t

\* A response is marked as crossed; nothing else of it changes.
LEMMA AnswerCrossed ==
    ASSUME NEW a \in Answers
    PROVE  LET x == [a EXCEPT !.crossed = TRUE] IN
           x \in Answers /\ x.typing = a.typing /\ x.answered = a.answered
           /\ x.shown = a.shown /\ x.stopped = a.stopped /\ x.crossed
BY DEF Answers

\* A response is marked as given up; nothing else of it changes.
LEMMA AnswerStopped ==
    ASSUME NEW a \in Answers
    PROVE  LET x == [a EXCEPT !.stopped = TRUE] IN
           x \in Answers /\ x.typing = a.typing /\ x.answered = a.answered
           /\ x.shown = a.shown /\ x.crossed = a.crossed /\ x.stopped
BY DEF Answers

\* The finally of send.
LEMMA Closing ==
    ASSUME ChatTyped, OneOpen, NEW i \in DOMAIN responses, NEW new \in Answers,
           Finally(i, [responses EXCEPT ![i] = new])
    PROVE  /\ responses' \in Seq(Answers) /\ Len(responses') = Len(responses)
           /\ sending' = FALSE /\ active' = 0 /\ responses'[i] = new
           /\ \A j \in DOMAIN responses : j # i =>
                 /\ responses'[j].typing = responses[j].typing
                 /\ responses'[j].answered = responses[j].answered
                 /\ responses'[j].shown = responses[j].shown
                 /\ responses'[j].stopped = responses[j].stopped
                 /\ responses[j].crossed => responses'[j].crossed
                 /\ responses'[j].stopped \/ responses'[j].crossed \/ responses'[j].answered
<1>0. /\ responses \in Seq(Answers) /\ DOMAIN responses = 1..Len(responses)
      /\ \A j \in DOMAIN responses : responses[j] \in Answers
      /\ active \in 0..Len(responses)
  BY DEF ChatTyped
<1>1. CASE active \in {0, i}
  <2>1. responses' = [responses EXCEPT ![i] = new] /\ sending' = FALSE /\ active' = 0
    BY <1>1 DEF Finally, Crossed
  <2>2. \A j \in DOMAIN responses : j # i => responses'[j] = responses[j] /\ ~Open1(j)
    BY <1>0, <1>1, <2>1 DEF OneOpen
  <2>3. responses' \in Seq(Answers) /\ Len(responses') = Len(responses) /\ responses'[i] = new
    BY <1>0, <2>1
  <2> QED
    BY <2>1, <2>2, <2>3 DEF Open1
<1>2. CASE active \notin {0, i}
  <2> DEFINE old == [responses[active] EXCEPT !.crossed = TRUE]
  <2>1. responses' = [[responses EXCEPT ![i] = new] EXCEPT ![active] = old]
        /\ sending' = FALSE /\ active' = 0
    BY <1>0, <1>2 DEF Finally, Crossed
  <2>2. active \in DOMAIN responses /\ old \in Answers
        /\ old.typing = responses[active].typing /\ old.answered = responses[active].answered
        /\ old.shown = responses[active].shown /\ old.stopped = responses[active].stopped
        /\ old.crossed
    <3>1. active \in DOMAIN responses
      BY <1>0, <1>2
    <3>2. responses[active] \in Answers
      BY <1>0, <3>1
    <3> QED
      BY <3>1, <3>2, AnswerCrossed
  <2> HIDE DEF old
  <2>3. responses' \in Seq(Answers) /\ Len(responses') = Len(responses)
    BY <1>0, <2>1, <2>2
  <2>4. responses'[i] = new /\ responses'[active] = old
        /\ \A j \in DOMAIN responses : j \notin {i, active} =>
              responses'[j] = responses[j] /\ ~Open1(j)
    BY <1>0, <1>2, <2>1, <2>2 DEF OneOpen
  <2> QED
    BY <2>1, <2>2, <2>3, <2>4 DEF Open1
<1> QED
  BY <1>1, <1>2

\* The end of a call that nobody can hear of any more.
LEMMA HeardOut ==
    ASSUME ChatBounds,
           ChatRest, NEW i \in DOMAIN responses, Open1(i), ~responses[i].typing,
           requests[i].at = "answered", ~Failing(i), \A k \in DOMAIN events : ~DeltaOf(k, i)
    PROVE  /\ responses[i].shown =
                [k \in 1..(requests[i].base + requests[i].chunks) |-> <<i, k>>]
           /\ ~received => requests[i].base + requests[i].chunks = 0
<1>1. InPieces(i)
  BY DEF ChatRest, ShownSoFar
<1>2. responses[i] \in Answers /\ requests[i] \in Calls
  BY DEF ChatRest, ChatTyped
<1>3. Told(i) = requests[i].base + requests[i].chunks /\ Told(i) \in Nat
  BY <1>2 DEF ChatBounds, Told, Calls
<1> DEFINE s == Len(responses[i].shown)
<1>4. s \in Nat /\ s <= Told(i) /\ responses[i].shown = Pieces(i, s) /\ (received <=> s # 0)
  BY <1>1, <1>2 DEF InPieces, Answers
<1>5. s = Told(i)
  <2>1. ASSUME s < Told(i) PROVE FALSE
    <3>1. s + 1 \in (s + 1)..Told(i)
      BY <1>3, <1>4, <2>1
    <3> QED
      BY <3>1, <1>1 DEF InPieces
  <2> QED
    BY <2>1, <1>3, <1>4
<1> QED
  BY <1>3, <1>4, <1>5 DEF Pieces

-----------------------------------------------------------------------------
(***************************************************************************)
(* An event of the backend.                                                *)
(***************************************************************************)
\* What is shown as an event arrives is a sequence of pieces.
LEMMA Heard ==
    ASSUME ChatBounds,
           ChatRest, Hear
    PROVE  ChatRest'
<1> DEFINE e == Head(events)
           o == e.of
<1>0. /\ events \in Seq(Words) /\ responses \in Seq(Answers) /\ requests \in Seq(Calls)
      /\ DOMAIN responses = 1..Len(responses) /\ DOMAIN requests = DOMAIN responses
      /\ \A j \in DOMAIN responses : responses[j] \in Answers /\ requests[j] \in Calls
      /\ active \in 0..Len(responses) /\ cancelling \in {"no", "asked", "done"}
      /\ events # <<>> /\ events' = Tail(events) /\ UNCHANGED <<cancelling, requests, current, faults>>
  <2>1. /\ events \in Seq(Words) /\ responses \in Seq(Answers) /\ requests \in Seq(Calls)
        /\ Len(requests) = Len(responses)
        /\ active \in 0..Len(responses) /\ cancelling \in {"no", "asked", "done"}
    BY DEF ChatRest, ChatTyped
  <2>2. /\ DOMAIN responses = 1..Len(responses) /\ DOMAIN requests = DOMAIN responses
        /\ \A j \in DOMAIN responses : responses[j] \in Answers /\ requests[j] \in Calls
    BY <2>1
  <2>3. events # <<>> /\ events' = Tail(events) /\ UNCHANGED <<cancelling, requests, current, faults>>
    BY DEF Hear
  <2> QED
    BY <2>1, <2>2, <2>3
<1>e. /\ events' \in Seq(Words) /\ DOMAIN events = 1..Len(events) /\ Len(events) \in Nat
      /\ DOMAIN events' = 1..(Len(events) - 1) /\ 1 \in DOMAIN events /\ events[1] = e
      /\ e \in Words
      /\ \A k \in DOMAIN events' : k + 1 \in DOMAIN events /\ events'[k] = events[k + 1]
      /\ \A k \in DOMAIN events : k # 1 => k - 1 \in DOMAIN events' /\ events'[k - 1] = events[k]
  BY <1>0, TailOf
<1>o. o \in DOMAIN responses /\ e.kind \in {"delta", "ok", "error"}
  BY <1>0, <1>e DEF Words, ChatRest, ChatTyped
<1>f. EventsFall
  BY <1>0 DEF EventsFall
<1>t. ~responses[o].typing /\ ~responses[o].answered
  BY <1>e, <1>o DEF ChatRest, LastWord
<1>l. e.kind # "delta" => /\ requests[o].at = "answered"
                          /\ \A k \in DOMAIN events : k # 1 => events[k].of # o
                          /\ \A k \in DOMAIN events' : events'[k].of # o
  <2> SUFFICES ASSUME e.kind # "delta"
               PROVE  /\ requests[o].at = "answered"
                      /\ \A k \in DOMAIN events : k # 1 => events[k].of # o
                      /\ \A k \in DOMAIN events' : events'[k].of # o
    OBVIOUS
  <2>1. requests[o].at = "answered" /\ \A k \in DOMAIN events : k > 1 => events[k].of # o
    BY <1>e DEF ChatRest, LastWord
  <2>2. \A k \in DOMAIN events : k # 1 => events[k].of # o
    BY <2>1, <1>e
  <2>3. ASSUME NEW k \in DOMAIN events' PROVE events'[k].of # o
    <3>1. k + 1 \in DOMAIN events /\ k + 1 # 1 /\ events'[k] = events[k + 1]
      BY <1>e
    <3> QED
      BY <3>1, <2>2
  <2> QED
    BY <2>1, <2>2, <2>3
<1>w. ASSUME NEW k \in DOMAIN events', events'[k].kind # "delta"
      PROVE  /\ requests[events'[k].of].at = "answered"
             /\ \A l \in DOMAIN events' : l > k => events'[l].of # events'[k].of
  <2>1. k + 1 \in DOMAIN events /\ events'[k] = events[k + 1] /\ k \in Nat
    BY <1>e
  <2>2. /\ requests[events[k + 1].of].at = "answered"
        /\ \A l \in DOMAIN events : l > k + 1 => events[l].of # events[k + 1].of
    BY <1>w, <2>1 DEF ChatRest, LastWord
  <2>3. ASSUME NEW l \in DOMAIN events', l > k PROVE events'[l].of # events'[k].of
    <3>1. l + 1 \in DOMAIN events /\ events'[l] = events[l + 1] /\ l + 1 > k + 1
      BY <1>e, <2>1, <2>3
    <3> QED
      BY <2>1, <2>2, <3>1
  <2> QED
    BY <2>1, <2>2, <2>3
<1>5. CASE e.kind = "delta"
  <2>1. CASE active = 0
    <3>1. UNCHANGED <<sending, active, received, responses>>
      BY <1>5, <2>1 DEF Hear
    <3>2. sending = FALSE /\ \A j \in DOMAIN responses : ~Open1(j)
      BY <2>1, <1>0 DEF ChatRest, OneOpen, ChatTyped
    <3> QED
      BY <3>1, <3>2, <2>1, <1>0, <1>f, ClosedKeeps DEF Open1, Untouched
  <2>2. CASE active # 0
    <3> DEFINE a == active
               new == [responses[a] EXCEPT !.shown = Append(@, <<o, e.piece>>),
                                           !.crossed = @ \/ a # o]
    <3>0. a \in DOMAIN responses /\ responses[a] \in Answers /\ ~responses[a].answered
      BY <1>0, <2>2 DEF ChatRest, OneOpen
    <3>1. e.piece \in 1..MaxPiece
      BY <1>e, <1>5 DEF ChatRest, Counted
    <3>2. <<o, e.piece>> \in Chunk
      <4>1. o \in 1..MaxRequests
        BY <1>o, <1>0 DEF ChatBounds, ChatRest, ChatTyped
      <4> QED
        BY <4>1, <3>1 DEF Chunk, MaxPiece
    <3>3. /\ new \in Answers /\ new.shown = Append(responses[a].shown, <<o, e.piece>>)
          /\ new.crossed <=> (responses[a].crossed \/ a # o)
          /\ new.stopped = responses[a].stopped
          /\ new.typing = responses[a].typing /\ ~new.answered
      <4>1. PICK b \in BOOLEAN : b = (responses[a].crossed \/ a # o)
        OBVIOUS
      <4>2. PICK d \in Chunk : d = <<o, e.piece>>
        BY <3>2
      <4>m. b \in BOOLEAN /\ d \in Chunk
        OBVIOUS
      <4>3. new = Takes(responses[a], d, b)
        BY <4>1, <4>2 DEF Takes
      <4> HIDE DEF new
      <4>4. new \in Answers /\ new.shown = Append(responses[a].shown, d) /\ new.crossed = b
            /\ new.stopped = responses[a].stopped /\ new.typing = responses[a].typing
            /\ new.answered = responses[a].answered
        BY ONLY <3>0, <4>3, <4>m, AnswerTakes
      <4> QED
        BY <4>1, <4>2, <4>4, <3>0
    <3>4. responses' = [responses EXCEPT ![a] = new] /\ received' = TRUE
          /\ sending' = sending /\ active' = active
      <4>1. received' = TRUE /\ UNCHANGED <<sending, active>>
            /\ responses' = Crossed([responses EXCEPT ![a].shown = Append(@, <<o, e.piece>>)], o)
        BY <1>5, <2>2 DEF Hear
      <4>2. CASE a = o
        BY <4>1, <4>2, <3>0 DEF Crossed, Answers
      <4>3. CASE a # o
        BY <4>1, <4>3, <3>0, <2>2 DEF Crossed, Answers
      <4> QED
        BY <4>1, <4>2, <4>3
    <3> HIDE DEF new
    <3>5. /\ responses' \in Seq(Answers) /\ Len(responses') = Len(responses)
          /\ responses'[a] = new /\ \A j \in DOMAIN responses : j # a => responses'[j] = responses[j]
          /\ DOMAIN responses' = DOMAIN responses
      BY <1>0, <3>0, <3>3, <3>4
    <3>6. ChatTyped'
      BY <1>0, <1>e, <3>4, <3>5 DEF ChatRest, ChatTyped, Words
    <3>7. Counted'
      BY <1>0, <1>e DEF ChatRest, Counted
    <3>8. OneOpen'
      <4>1. \A j \in DOMAIN responses : Open1(j)' => Open1(j)
        <5> SUFFICES ASSUME NEW j \in DOMAIN responses, Open1(j)' PROVE Open1(j)
          OBVIOUS
        <5>1. CASE j = a
          <6>1. responses'[a] = new /\ ~responses'[a].stopped /\ ~responses'[a].crossed
            BY <5>1, <3>5 DEF Open1
          <6>2. ~responses[a].stopped /\ ~responses[a].crossed
            BY <6>1, <3>3
          <6> QED
            BY <5>1, <6>2, <3>0 DEF Open1
        <5>2. CASE j # a
          BY <5>2, <3>5 DEF Open1
        <5> QED
          BY <5>1, <5>2
      <4>2. \A j \in DOMAIN responses : j = a => ~responses'[j].answered
        BY <3>5, <3>3
      <4> QED
        BY <4>1, <4>2, <3>4, <3>5 DEF ChatRest, OneOpen
    <3>9. LastWord'
      <4>1. ASSUME NEW k \in DOMAIN events', events'[k].kind # "delta"
            PROVE  /\ requests[events'[k].of].at = "answered"
                   /\ \A l \in DOMAIN events' : l > k => events'[l].of # events'[k].of
        BY <4>1, <1>w
      <4>2. ASSUME NEW j \in DOMAIN responses, responses'[j].typing \/ responses'[j].answered
            PROVE  requests[j].at = "answered" /\ \A k \in DOMAIN events' : events'[k].of # j
        <5>1. responses[j].typing \/ responses[j].answered
          BY <4>2, <3>5, <3>3
        <5> QED
          BY <5>1, <1>e DEF ChatRest, LastWord
      <4> QED
        BY <4>1, <4>2, <1>0, <3>5 DEF LastWord
    <3>10. ShownSoFar'
      <4> SUFFICES ASSUME NEW j \in DOMAIN responses, Open1(j)', ~Failing(j)'
                   PROVE  IF responses'[j].typing THEN (responses[j].shown = Pieces(j, Told(j)))'
                          ELSE InPieces(j)'
        BY <3>5 DEF ShownSoFar
      <4>1. j = a /\ a = o /\ Open1(a)
        <5>1. active' = j /\ j = a
          BY <3>8, <3>4, <3>5 DEF OneOpen, Open1
        <5>2. ~new.stopped /\ ~new.crossed
          BY <5>1, <3>5 DEF Open1
        <5>3. a = o /\ ~responses[a].stopped /\ ~responses[a].crossed
          BY <5>2, <3>3
        <5> QED
          BY <5>1, <5>3, <3>0 DEF Open1
      <4>2. ~Failing(a)
        <5>1. ASSUME NEW k \in DOMAIN events, events[k].of = a, events[k].kind = "error"
              PROVE  FALSE
          <6>1. k - 1 \in DOMAIN events' /\ events'[k - 1] = events[k]
            BY <5>1, <1>e, <1>5
          <6> QED
            BY <6>1, <5>1, <4>1 DEF Failing
        <5> QED
          BY <5>1 DEF Failing
      <4>3. InPieces(a) /\ ~new.typing
        BY <4>1, <4>2, <1>t, <3>3, <3>0 DEF ChatRest, ShownSoFar
      <4> DEFINE s == Len(responses[a].shown)
                 n == Told(a)
      <4>4. s \in Nat /\ n \in Nat /\ s <= n
        <5>1. requests[a] \in Calls /\ responses[a] \in Answers
          BY <3>0, <1>0
        <5>2. responses[a].shown \in Seq(Chunk)
          BY <5>1 DEF Answers
        <5>3. requests[a].base \in Nat /\ requests[a].chunks \in 0..MaxChunks
          BY <5>1 DEF Calls
        <5>4. n \in Nat
          BY <5>3 DEF ChatBounds, Told
        <5> QED
          BY <4>3, <5>2, <5>4 DEF InPieces
      <4>5. e.piece = s + 1
        <5>1. DeltaOf(1, a) /\ e.piece \in (s + 1)..n
          BY <1>5, <1>e, <4>1, <4>3 DEF DeltaOf, InPieces
        <5>2. s + 1 \in (s + 1)..n
          BY <5>1, <4>4
        <5>3. PICK k \in DOMAIN events : DeltaOf(k, a) /\ events[k].piece = s + 1
          BY <5>2, <4>3 DEF InPieces
        <5>4. k # 1 => events[1].piece < events[k].piece
          <6>1. \A l \in DOMAIN events : 1 < l /\ DeltaOf(1, a) /\ DeltaOf(l, a)
                                            => events[1].piece < events[l].piece
            BY <4>3, <1>e DEF InPieces
          <6>2. k # 1 => 1 < k
            BY <1>e
          <6> QED
            BY <6>1, <6>2, <5>1, <5>3
        <5> QED
          BY <5>1, <5>3, <5>4, <1>e, <4>4
      <4>6. n' = n /\ s + 1 <= n
        <5>1. n' = n
          BY <1>0, <3>4 DEF Told
        <5>2. DeltaOf(1, a) /\ e.piece \in (s + 1)..n
          BY <1>5, <1>e, <4>1, <4>3 DEF DeltaOf, InPieces
        <5> QED
          BY <5>1, <5>2, <4>4
      <4>7. responses'[a].shown = Pieces(a, s + 1) /\ Len(responses'[a].shown) = s + 1
        <5>1. responses[a].shown \in Seq(Chunk) /\ responses[a].shown = Pieces(a, s)
          BY <3>0, <4>3 DEF Answers, InPieces
        <5>2. Append(Pieces(a, s), <<a, s + 1>>) = Pieces(a, s + 1)
          <6>1. Pieces(a, s) \in Seq(Nat \X Nat) /\ Len(Pieces(a, s)) = s
            BY <4>4, <1>0, <3>0 DEF Pieces
          <6>2. \A k \in 1..(s + 1) : Append(Pieces(a, s), <<a, s + 1>>)[k] = <<a, k>>
            BY <6>1, <4>4 DEF Pieces
          <6>3. DOMAIN Append(Pieces(a, s), <<a, s + 1>>) = 1..(s + 1)
            BY <6>1, <4>4
          <6>4. Append(Pieces(a, s), <<a, s + 1>>) =
                  [k \in 1..(s + 1) |-> Append(Pieces(a, s), <<a, s + 1>>)[k]]
            BY <6>1, <6>3
          <6> QED
            BY <6>2, <6>4 DEF Pieces
        <5>3. responses'[a].shown = Append(responses[a].shown, <<a, s + 1>>)
          BY <3>5, <3>3, <4>1, <4>5
        <5>4. Len(responses'[a].shown) = s + 1
          BY <5>1, <5>3
        <5> QED
          BY <5>1, <5>2, <5>3, <5>4
      <4>8. \A k \in DOMAIN events' : DeltaOf(k, a)' <=> DeltaOf(k + 1, a)
        BY <1>e, <3>4 DEF DeltaOf
      <4> HIDE DEF s, n
      <4>9. \A k \in DOMAIN events' : DeltaOf(k, a)' => events'[k].piece \in (s + 2)..n
        <5> SUFFICES ASSUME NEW k \in DOMAIN events', DeltaOf(k, a)'
                     PROVE  events'[k].piece \in (s + 2)..n
          OBVIOUS
        <5>1. /\ k + 1 \in DOMAIN events /\ DeltaOf(k + 1, a) /\ events'[k] = events[k + 1]
              /\ DeltaOf(1, a) /\ 1 \in DOMAIN events /\ 1 < k + 1 /\ events[1].piece = s + 1
          BY <4>8, <1>e, <4>5, <1>5, <4>1 DEF DeltaOf
        <5>2. events[k + 1].piece \in (s + 1)..n /\ events[1].piece < events[k + 1].piece
          BY <5>1, <4>3 DEF InPieces, s, n
        <5> QED
          BY <5>1, <5>2, <4>4
      <4>10. \A m \in (s + 2)..n : \E k \in DOMAIN events' : DeltaOf(k, a)' /\ events'[k].piece = m
        <5> SUFFICES ASSUME NEW m \in (s + 2)..n
                     PROVE  \E k \in DOMAIN events' : DeltaOf(k, a)' /\ events'[k].piece = m
          OBVIOUS
        <5>1. m \in (s + 1)..n /\ m # s + 1
          BY <4>4 DEF s
        <5>2. PICK k \in DOMAIN events : DeltaOf(k, a) /\ events[k].piece = m
          BY <5>1, <4>3 DEF InPieces, s, n
        <5>3. k # 1
          BY <5>1, <5>2, <4>5, <1>e
        <5> QED
          BY <5>2, <5>3, <1>e, <4>8 DEF DeltaOf
      <4>11. \A k, l \in DOMAIN events' :
                k < l /\ DeltaOf(k, a)' /\ DeltaOf(l, a)' => events'[k].piece < events'[l].piece
        <5> SUFFICES ASSUME NEW k \in DOMAIN events', NEW l \in DOMAIN events', k < l,
                            DeltaOf(k, a)', DeltaOf(l, a)'
                     PROVE  events'[k].piece < events'[l].piece
          OBVIOUS
        <5>1. /\ k + 1 \in DOMAIN events /\ l + 1 \in DOMAIN events /\ k + 1 < l + 1
              /\ DeltaOf(k + 1, a) /\ DeltaOf(l + 1, a)
              /\ events'[k] = events[k + 1] /\ events'[l] = events[l + 1]
          BY <4>8, <1>e
        <5> QED
          BY <5>1, <4>3 DEF InPieces
      <4>12. InPieces(a)'
        <5>1. (s + 1) + 1 = s + 2 /\ s + 1 # 0
          BY <4>4
        <5>2. Told(a)' = n /\ s + 1 <= n
          BY <4>6 DEF n
        <5> QED
          BY <4>7, <4>9, <4>10, <4>11, <5>1, <5>2, <3>4 DEF InPieces, Pieces
      <4> QED
        BY <4>1, <4>3, <4>12, <3>5, <3>4
    <3>11. AnswerWhole'
      <4> SUFFICES ASSUME NEW j \in DOMAIN responses, responses'[j].answered,
                          ~responses'[j].stopped, ~responses'[j].crossed
                   PROVE  responses'[j].shown =
                            [k \in 1..(requests[j].base + requests[j].chunks) |-> <<j, k>>]
        BY <1>0, <3>5 DEF AnswerWhole
      <4>1. j # a
        BY <3>3, <3>5
      <4> QED
        BY <4>1, <3>5 DEF ChatRest, AnswerWhole
    <3> QED
      BY <3>6, <3>7, <3>8, <3>9, <3>10, <3>11 DEF ChatRest
  <2> QED
    BY <2>1, <2>2
<1>h. ASSUME Open1(o), e.kind = "ok"
      PROVE  /\ responses[o].shown =
                  [k \in 1..(requests[o].base + requests[o].chunks) |-> <<o, k>>]
             /\ ~received => requests[o].base + requests[o].chunks = 0
  <2>1. ~Failing(o) /\ \A k \in DOMAIN events : ~DeltaOf(k, o)
    BY <1>h, <1>l, <1>e DEF Failing, DeltaOf
  <2> QED
    BY <2>1, <1>h, <1>t, <1>l, <1>o, HeardOut
<1>6. CASE e.kind = "ok" /\ received
  <2> DEFINE new == [responses[o] EXCEPT !.answered = TRUE]
  <2>1. Finally(o, [responses EXCEPT ![o].answered = TRUE]) /\ UNCHANGED received
    BY <1>6 DEF Hear
  <2>2. Finally(o, [responses EXCEPT ![o] = new])
    BY <2>1, <1>o
  <2>3. new \in Answers /\ new.answered /\ new.shown = responses[o].shown /\ ~new.typing
        /\ new.stopped = responses[o].stopped /\ new.crossed = responses[o].crossed
    BY <1>0, <1>o, <1>t DEF Answers
  <2> HIDE DEF new
  <2>4. /\ responses' \in Seq(Answers) /\ Len(responses') = Len(responses)
        /\ sending' = FALSE /\ active' = 0 /\ responses'[o] = new
        /\ \A j \in DOMAIN responses : j # o =>
              /\ responses'[j].typing = responses[j].typing
              /\ responses'[j].answered = responses[j].answered
              /\ responses'[j].shown = responses[j].shown
              /\ responses'[j].stopped = responses[j].stopped
              /\ responses[j].crossed => responses'[j].crossed
              /\ responses'[j].stopped \/ responses'[j].crossed \/ responses'[j].answered
    BY <2>2, <2>3, <1>o, Closing DEF ChatRest
  <2>5. ~new.stopped /\ ~new.crossed =>
           new.shown = [k \in 1..(requests[o].base + requests[o].chunks) |-> <<o, k>>]
    BY <1>h, <1>6, <2>3, <1>t DEF Open1
  <2>6. \A j \in DOMAIN responses :
           responses'[j].stopped \/ responses'[j].crossed \/ responses'[j].answered
    BY <2>3, <2>4
  <2>7. Over(o)
    BY <1>6, <1>l, <2>4, <2>5 DEF Over
  <2>8. \A j \in DOMAIN responses : j # o => Untouched(j)
    BY <2>4 DEF Untouched
  <2> QED
    BY <2>1, <2>4, <2>6, <2>7, <2>8, <1>0, <1>f, ClosedKeeps
<1>7. CASE e.kind = "ok" /\ ~received
  <2> DEFINE more == [k \in 1..requests[o].chunks |-> <<o, requests[o].base + k>>]
             new == [responses[o] EXCEPT !.typing = TRUE, !.shown = @ \o more]
  <2>1. responses' = [responses EXCEPT ![o] = new] /\ UNCHANGED <<sending, active, received>>
    BY <1>7, <1>o DEF Hear
  <2>0. requests[o] \in Calls /\ responses[o] \in Answers
    BY <1>0, <1>o
  <2>2. more \in Seq(Chunk)
    <3>1. CallCounted(requests[o])
      BY <1>o, <1>0, CountedCalls DEF ChatRest
    <3>2. requests[o].base + requests[o].chunks <= MaxPiece /\ MaxPiece \in Nat
      BY <2>0, <3>1, PieceBound
    <3>3. requests[o].base \in Nat /\ requests[o].chunks \in Nat /\ o \in 1..MaxRequests
      <4>1. requests[o].base \in Nat /\ requests[o].chunks \in 0..MaxChunks
        BY <2>0 DEF Calls
      <4>2. Len(responses) <= MaxRequests /\ Len(responses) \in Nat
        BY <1>0 DEF ChatRest, ChatTyped
      <4> QED
        BY <4>1, <4>2, <1>o, <1>0 DEF ChatBounds
    <3>4. \A k \in 1..requests[o].chunks : <<o, requests[o].base + k>> \in Chunk
      BY <3>2, <3>3 DEF Chunk, MaxPiece
    <3> QED
      BY <3>3, <3>4
  <2>3. /\ new \in Answers /\ new.typing /\ ~new.answered
        /\ new.stopped = responses[o].stopped /\ new.crossed = responses[o].crossed
        /\ new.shown = responses[o].shown \o more
    <3> HIDE DEF more
    <3>r. PICK r \in Answers : r = responses[o]
      BY <2>0
    <3>m. PICK m \in Seq(Chunk) : m = more
      BY <2>2
    <3>1. new = Types(r, m)
      BY <3>r, <3>m DEF Types
    <3> HIDE DEF new
    <3>2. new \in Answers /\ new.shown = r.shown \o m /\ new.typing = TRUE
          /\ new.stopped = r.stopped /\ new.crossed = r.crossed /\ new.answered = r.answered
      BY <3>1, AnswerTypes
    <3> QED
      BY <3>2, <3>r, <3>m, <1>t
  <2>4. Open1(o) => new.shown = Pieces(o, requests[o].base + requests[o].chunks)
    <3> SUFFICES ASSUME Open1(o) PROVE new.shown = Pieces(o, requests[o].base + requests[o].chunks)
      OBVIOUS
    <3>1. /\ responses[o].shown = Pieces(o, requests[o].base + requests[o].chunks)
          /\ requests[o].base + requests[o].chunks = 0
      BY <1>h, <1>7 DEF Pieces
    <3>2. requests[o].chunks = 0
      BY <3>1, <2>0 DEF ChatBounds, Calls
    <3>3. more = << >>
      BY <3>2
    <3>4. responses[o].shown \in Seq(Chunk)
      BY <2>0 DEF Answers
    <3>5. responses[o].shown \o << >> = responses[o].shown
      BY <3>4
    <3> QED
      BY <3>1, <3>3, <3>5, <2>3
  <2> HIDE DEF new, more
  <2>5. /\ responses' \in Seq(Answers) /\ Len(responses') = Len(responses)
        /\ responses'[o] = new /\ \A j \in DOMAIN responses : j # o => responses'[j] = responses[j]
        /\ DOMAIN responses' = DOMAIN responses
    <3>1. responses \in Seq(Answers) /\ o \in DOMAIN responses /\ new \in Answers
          /\ responses' = [responses EXCEPT ![o] = new]
      BY <1>0, <1>o, <2>1, <2>3
    <3> QED
      BY ONLY <3>1
  <2>6. ChatTyped'
    BY <1>0, <1>e, <2>1, <2>5 DEF ChatRest, ChatTyped, Words
  <2>7. Counted'
    BY <1>0, <1>e DEF ChatRest, Counted
  <2>8. OneOpen'
    <3>1. \A j \in DOMAIN responses :
             (Open1(j)' <=> Open1(j)) /\ (responses'[j].answered <=> responses[j].answered)
      <4> SUFFICES ASSUME NEW j \in DOMAIN responses
                   PROVE  (Open1(j)' <=> Open1(j))
                          /\ (responses'[j].answered <=> responses[j].answered)
        OBVIOUS
      <4>1. CASE j = o
        BY <4>1, <2>5, <2>3, <1>t DEF Open1
      <4>2. CASE j # o
        BY <4>2, <2>5 DEF Open1
      <4> QED
        BY <4>1, <4>2
    <3> QED
      BY <3>1, <2>1, <2>5 DEF ChatRest, OneOpen
  <2>9. LastWord'
    <3>1. ASSUME NEW k \in DOMAIN events', events'[k].kind # "delta"
          PROVE  /\ requests[events'[k].of].at = "answered"
                 /\ \A l \in DOMAIN events' : l > k => events'[l].of # events'[k].of
      BY <3>1, <1>w
    <3>2. ASSUME NEW j \in DOMAIN responses, responses'[j].typing \/ responses'[j].answered
          PROVE  requests[j].at = "answered" /\ \A k \in DOMAIN events' : events'[k].of # j
      <4>1. CASE j = o
        BY <4>1, <1>7, <1>l
      <4>2. CASE j # o
        BY <4>2, <3>2, <2>5, <1>e DEF ChatRest, LastWord
      <4> QED
        BY <4>1, <4>2
    <3> QED
      BY <3>1, <3>2, <1>0, <2>5 DEF LastWord
  <2>10. ShownSoFar'
    <3> SUFFICES ASSUME NEW j \in DOMAIN responses, Open1(j)', ~Failing(j)'
                 PROVE  IF responses'[j].typing THEN (responses[j].shown = Pieces(j, Told(j)))'
                        ELSE InPieces(j)'
      BY <2>5 DEF ShownSoFar
    <3>0. Told(j)' = Told(j)
      BY <1>0 DEF Told
    <3>1. CASE j = o
      <4>1. Open1(o) /\ Told(o) = requests[o].base + requests[o].chunks
        BY <3>1, <2>5, <2>3, <1>t, <1>7, <1>l DEF Open1, Told
      <4>2. responses'[j] = new /\ new.typing
        BY <3>1, <2>3, <2>5
      <4>3. new.shown = Pieces(j, Told(j))
        BY <4>1, <3>1, <2>4
      <4>4. (responses[j].shown = Pieces(j, Told(j)))'
        BY <4>2, <4>3, <3>0 DEF Pieces
      <4> QED
        BY <4>2, <4>4
    <3>2. CASE j # o
      <4>1. Open1(j) /\ responses'[j] = responses[j]
        BY <3>2, <2>5 DEF Open1
      <4>2. ~Failing(j)
        <5>1. ASSUME NEW k \in DOMAIN events, events[k].of = j, events[k].kind = "error"
              PROVE  FALSE
          <6>1. k - 1 \in DOMAIN events' /\ events'[k - 1] = events[k]
            BY <5>1, <1>e, <1>7
          <6> QED
            BY <6>1, <5>1 DEF Failing
        <5> QED
          BY <5>1 DEF Failing
      <4>3. CASE responses[j].typing
        BY <4>1, <4>2, <4>3, <3>0 DEF ChatRest, ShownSoFar, Pieces
      <4>4. CASE ~responses[j].typing
        <5>1. InPieces(j)
          BY <4>1, <4>2, <4>4 DEF ChatRest, ShownSoFar
        <5>2. \A k \in DOMAIN events' : /\ k + 1 \in DOMAIN events /\ events'[k] = events[k + 1]
                                        /\ DeltaOf(k, j)' <=> DeltaOf(k + 1, j)
          BY <1>e DEF DeltaOf
        <5>3. \A k \in DOMAIN events : DeltaOf(k, j) =>
                 k - 1 \in DOMAIN events' /\ events'[k - 1] = events[k] /\ DeltaOf(k - 1, j)'
          BY <1>e, <1>7 DEF DeltaOf
        <5> DEFINE s == Len(responses[j].shown)
                   n == Told(j)
        <5>4. \A k \in DOMAIN events' : DeltaOf(k, j)' => events'[k].piece \in (s + 1)..n
          BY <5>1, <5>2 DEF InPieces
        <5>5. \A m \in (s + 1)..n : \E k \in DOMAIN events' : DeltaOf(k, j)' /\ events'[k].piece = m
          BY <5>1, <5>3 DEF InPieces
        <5>6. \A k, l \in DOMAIN events' :
                 k < l /\ DeltaOf(k, j)' /\ DeltaOf(l, j)' => events'[k].piece < events'[l].piece
          <6> SUFFICES ASSUME NEW k \in DOMAIN events', NEW l \in DOMAIN events', k < l,
                              DeltaOf(k, j)', DeltaOf(l, j)'
                       PROVE  events'[k].piece < events'[l].piece
            OBVIOUS
          <6>1. k + 1 < l + 1
            BY <1>e
          <6> QED
            BY <6>1, <5>2, <5>1 DEF InPieces
        <5>7. responses[j].shown = Pieces(j, s) /\ s <= n /\ (received <=> s # 0)
          BY <5>1 DEF InPieces
        <5> HIDE DEF s, n
        <5>8. InPieces(j)'
          BY <5>4, <5>5, <5>6, <5>7, <4>1, <3>0, <2>1 DEF InPieces, Pieces, s, n
        <5> QED
          BY <5>8, <4>1, <4>4
      <4> QED
        BY <4>3, <4>4
    <3> QED
      BY <3>1, <3>2
  <2>11. AnswerWhole'
    <3> SUFFICES ASSUME NEW j \in DOMAIN responses, responses'[j].answered,
                        ~responses'[j].stopped, ~responses'[j].crossed
                 PROVE  responses'[j].shown =
                          [k \in 1..(requests[j].base + requests[j].chunks) |-> <<j, k>>]
      BY <1>0, <2>5 DEF AnswerWhole
    <3>1. j # o
      BY <2>3, <2>5
    <3> QED
      BY <3>1, <2>5 DEF ChatRest, AnswerWhole
  <2> QED
    BY <2>6, <2>7, <2>8, <2>9, <2>10, <2>11 DEF ChatRest
<1>8. CASE e.kind = "error"
  <2> DEFINE new == IF active = o THEN [responses[o] EXCEPT !.stopped = TRUE] ELSE responses[o]
  <2>1. Finally(o, IF active = o THEN Stopped(o) ELSE responses) /\ UNCHANGED received
    BY <1>8 DEF Hear
  <2>2. Finally(o, [responses EXCEPT ![o] = new])
    <3>1. (IF active = o THEN Stopped(o) ELSE responses) = [responses EXCEPT ![o] = new]
      <4>1. CASE active = o
        <5>1. Stopped(o) = [responses EXCEPT ![o].stopped = TRUE]
          BY <1>o, <1>0 DEF Stopped
        <5> QED
          BY <4>1, <5>1
      <4>2. CASE active # o
        <5>1. responses = [j \in DOMAIN responses |-> responses[j]]
          BY <1>0
        <5>2. [responses EXCEPT ![o] = responses[o]] = responses
          BY <5>1, <1>o
        <5> QED
          BY <4>2, <5>2
      <4> QED
        BY <4>1, <4>2
    <3> QED
      BY <2>1, <3>1
  <2>3. /\ new \in Answers /\ new.shown = responses[o].shown
        /\ new.typing = responses[o].typing /\ new.answered = responses[o].answered
        /\ ~new.typing /\ ~new.answered
        /\ responses[o].stopped => new.stopped
        /\ new.crossed = responses[o].crossed
    BY <1>0, <1>o, <1>t DEF Answers
  <2>4. new.stopped \/ new.crossed
    <3>1. CASE active = o
      BY <3>1, <1>0, <1>o DEF Answers
    <3>2. CASE active # o
      BY <3>2, <1>t, <1>o DEF ChatRest, OneOpen, Open1
    <3> QED
      BY <3>1, <3>2
  <2> HIDE DEF new
  <2>5. /\ responses' \in Seq(Answers) /\ Len(responses') = Len(responses)
        /\ sending' = FALSE /\ active' = 0 /\ responses'[o] = new
        /\ \A j \in DOMAIN responses : j # o =>
              /\ responses'[j].typing = responses[j].typing
              /\ responses'[j].answered = responses[j].answered
              /\ responses'[j].shown = responses[j].shown
              /\ responses'[j].stopped = responses[j].stopped
              /\ responses[j].crossed => responses'[j].crossed
              /\ responses'[j].stopped \/ responses'[j].crossed \/ responses'[j].answered
    BY <2>2, <2>3, <1>o, Closing DEF ChatRest
  <2>6. Untouched(o)
    BY <2>3, <2>5 DEF Untouched
  <2>7. \A j \in DOMAIN responses : j # o => Untouched(j)
    BY <2>5 DEF Untouched
  <2>8. \A j \in DOMAIN responses :
           responses'[j].stopped \/ responses'[j].crossed \/ responses'[j].answered
    BY <2>4, <2>5
  <2> QED
    BY <2>1, <2>5, <2>6, <2>7, <2>8, <1>0, <1>f, ClosedKeeps
<1> QED
  BY <1>5, <1>6, <1>7, <1>8, <1>o

-----------------------------------------------------------------------------
(***************************************************************************)
(* The window's own steps.                                                 *)
(***************************************************************************)
\* Typed keeps the invariant.
LEMMA TypedOut ==
    ASSUME ChatRest, NEW i \in DOMAIN responses, Typed(i)
    PROVE  ChatRest'
<1>0. /\ responses \in Seq(Answers) /\ responses[i] \in Answers /\ responses[i].typing
      /\ UNCHANGED <<received, cancelling, requests, current, events, faults>>
      /\ cancelling \in {"no", "asked", "done"}
      /\ requests[i].at = "answered" /\ \A k \in DOMAIN events : events[k].of # i
  BY DEF Typed, ChatRest, ChatTyped, LastWord
<1> DEFINE new == [responses[i] EXCEPT !.typing = FALSE, !.answered = TRUE]
<1>1. Finally(i, [responses EXCEPT ![i] = new])
  BY DEF Typed
<1>2. /\ new \in Answers /\ new.shown = responses[i].shown /\ ~new.typing /\ new.answered
      /\ new.stopped = responses[i].stopped /\ new.crossed = responses[i].crossed
  BY <1>0 DEF Answers
<1>3. ~new.stopped /\ ~new.crossed =>
         new.shown = [k \in 1..(requests[i].base + requests[i].chunks) |-> <<i, k>>]
  <2>1. CASE responses[i].answered
    BY <2>1, <1>2 DEF ChatRest, AnswerWhole
  <2>2. CASE ~responses[i].answered
    BY <2>2, <1>0, <1>2 DEF ChatRest, ShownSoFar, Open1, Failing, Pieces, Told
  <2> QED
    BY <2>1, <2>2
<1> HIDE DEF new
<1>4. /\ responses' \in Seq(Answers) /\ Len(responses') = Len(responses)
      /\ sending' = FALSE /\ active' = 0 /\ responses'[i] = new
      /\ \A j \in DOMAIN responses : j # i =>
            /\ responses'[j].typing = responses[j].typing
            /\ responses'[j].answered = responses[j].answered
            /\ responses'[j].shown = responses[j].shown
            /\ responses'[j].stopped = responses[j].stopped
            /\ responses[j].crossed => responses'[j].crossed
            /\ responses'[j].stopped \/ responses'[j].crossed \/ responses'[j].answered
  BY <1>1, <1>2, Closing DEF ChatRest
<1>5. EventsFall
  BY <1>0 DEF EventsFall
<1>6. ASSUME NEW j \in DOMAIN responses
      PROVE  /\ responses'[j].stopped \/ responses'[j].crossed \/ responses'[j].answered
             /\ Untouched(j) \/ Over(j)
  <2>1. CASE j = i
    BY <2>1, <1>0, <1>2, <1>3, <1>4 DEF Over
  <2>2. CASE j # i
    BY <2>2, <1>4 DEF Untouched
  <2> QED
    BY <2>1, <2>2
<1>7. responses' \in Seq(Answers) /\ Len(responses') = Len(responses) /\ sending' = FALSE
      /\ active' = 0 /\ cancelling' \in {"no", "asked", "done"}
      /\ UNCHANGED <<received, requests, current, faults>>
  BY <1>0, <1>4
<1> QED
  BY <1>5, <1>6, <1>7, ClosedKeeps

\* Cancelled and NewChat keep the invariant.
LEMMA GivenUp ==
    ASSUME ChatRest, Cancelled \/ NewChat
    PROVE  ChatRest'
<1>0. /\ responses \in Seq(Answers) /\ DOMAIN responses = 1..Len(responses)
      /\ \A j \in DOMAIN responses : responses[j] \in Answers
      /\ active \in 0..Len(responses) /\ cancelling \in {"no", "asked", "done"}
  BY DEF ChatRest, ChatTyped
<1>1. /\ UNCHANGED <<received, requests, current, events, faults>>
      /\ sending' = FALSE /\ active' = 0 /\ cancelling' \in {"no", "asked", "done"}
  BY <1>0 DEF Cancelled, NewChat
<1>2. /\ responses' \in Seq(Answers) /\ Len(responses') = Len(responses)
      /\ \A j \in DOMAIN responses :
            /\ responses'[j].typing = responses[j].typing
            /\ responses'[j].answered = responses[j].answered
            /\ responses'[j].shown = responses[j].shown
            /\ responses[j].stopped => responses'[j].stopped
            /\ responses'[j].crossed = responses[j].crossed
            /\ responses'[j].stopped \/ ~Open1(j)
  <2>1. CASE NewChat
    <3> DEFINE new(j) == [responses[j] EXCEPT !.stopped = TRUE]
    <3>1. responses' = [j \in DOMAIN responses |-> new(j)]
      BY <2>1 DEF NewChat
    <3>2. \A j \in DOMAIN responses :
             /\ new(j) \in Answers /\ new(j).stopped /\ new(j).typing = responses[j].typing
             /\ new(j).answered = responses[j].answered /\ new(j).shown = responses[j].shown
             /\ new(j).crossed = responses[j].crossed
      BY <1>0 DEF Answers
    <3> HIDE DEF new
    <3> QED
      BY <3>1, <3>2, <1>0
  <2>2. CASE Cancelled
    <3>1. CASE active = 0
      BY <2>2, <3>1, <1>0 DEF Cancelled, Stopped, ChatRest, OneOpen
    <3>2. CASE active # 0
      <4> DEFINE new == [responses[active] EXCEPT !.stopped = TRUE]
      <4>1. responses' = [responses EXCEPT ![active] = new]
        BY <2>2, <3>2 DEF Cancelled, Stopped
      <4>2. active \in DOMAIN responses /\ new \in Answers /\ new.stopped
            /\ new.typing = responses[active].typing /\ new.answered = responses[active].answered
            /\ new.shown = responses[active].shown /\ new.crossed = responses[active].crossed
        <5>1. active \in DOMAIN responses
          BY <1>0, <3>2
        <5>2. responses[active] \in Answers
          BY <1>0, <5>1
        <5> QED
          BY <5>1, <5>2, AnswerStopped
      <4> HIDE DEF new
      <4>3. \A j \in DOMAIN responses : j # active => ~Open1(j)
        BY <3>2 DEF ChatRest, OneOpen
      <4> QED
        BY <4>1, <4>2, <4>3, <1>0
    <3> QED
      BY <3>1, <3>2
  <2> QED
    BY <2>1, <2>2
<1>3. EventsFall
  BY <1>1 DEF EventsFall
<1> QED
  BY <1>0, <1>1, <1>2, <1>3, ClosedKeeps DEF Open1, Untouched

\* Send keeps the invariant: the new response is the one that can be whole.
LEMMA Sent ==
    ASSUME ChatBounds,
           ChatRest, OneLive, Send
    PROVE  ChatRest' /\ OneLive'
<1>p. PICK n \in Nat : n = Len(requests) + 1
  BY DEF ChatRest, ChatTyped
<1>0. /\ responses \in Seq(Answers) /\ requests \in Seq(Calls) /\ events \in Seq(Words)
      /\ Len(responses) = Len(requests) /\ Len(requests) < MaxRequests /\ ~sending
      /\ Len(requests) \in Nat /\ DOMAIN requests = 1..Len(requests)
      /\ DOMAIN responses = DOMAIN requests
      /\ sending' = TRUE /\ active' = n /\ received' = FALSE
      /\ UNCHANGED <<cancelling, current, events, faults>>
      /\ current \in 0..Len(requests)
      /\ \A k \in DOMAIN events : events[k] \in Words
  BY <1>p DEF ChatRest, ChatTyped, Send
<1>1. Request \in Calls /\ CallCounted(Request) /\ Request.at = "sent" /\ Request.base = 0
      /\ Request.chunks = 0
  <2>1. Budget(0) = 0
    BY DEF ChatBounds, Budget
  <2>2. /\ "sent" \in Stages /\ FALSE \in BOOLEAN /\ 1 \in 1..MAX_ATTEMPTS
        /\ 0 \in 0..MAX_TOOL_ROUNDS /\ 0 \in Nat /\ 0 \in 0..MaxChunks
    BY DEF ChatBounds, Stages
  <2>3. Request \in Calls
    BY ONLY <2>2 DEF Request, Calls
  <2>4. Request.at = "sent" /\ Request.base = 0 /\ Request.chunks = 0 /\ Request.round = 0
    BY DEF Request
  <2> QED
    BY <2>1, <2>3, <2>4 DEF CallCounted
<1>2. /\ Response \in Answers /\ Response.shown = << >> /\ ~Response.typing
      /\ ~Response.answered /\ ~Response.stopped /\ ~Response.crossed
  BY DEF Response, Answers
<1>3. /\ requests' \in Seq(Calls) /\ Len(requests') = n /\ DOMAIN requests' = 1..n
      /\ requests'[n] = Request /\ \A j \in DOMAIN requests : requests'[j] = requests[j]
  BY <1>0, <1>p, <1>1, Appended DEF Send
<1>4. /\ responses' \in Seq(Answers) /\ Len(responses') = n /\ DOMAIN responses' = 1..n
      /\ responses'[n] = Response /\ \A j \in DOMAIN responses : responses'[j] = responses[j]
  BY <1>0, <1>p, <1>2, Appended DEF Send
<1>n. n \in Nat /\ n <= MaxRequests /\ n # 0 /\ n \notin DOMAIN requests
      /\ \A j \in 1..n : j = n \/ j \in DOMAIN requests
  BY <1>0, <1>p DEF ChatBounds
<1>a. active = 0 /\ \A j \in DOMAIN responses : ~Open1(j)
  BY <1>0 DEF ChatRest, OneOpen
<1>e. \A k \in DOMAIN events : events[k].of \in DOMAIN requests /\ events[k].of # n
  BY <1>0, <1>n DEF Words
<1>5. ChatTyped'
  <2>1. events' \in Seq(Words)'
    <3>1. Words \subseteq Words'
      BY <1>0, <1>p, <1>3 DEF Words
    <3> QED
      BY <3>1, <1>0
  <2>2. faults' \in 0..MaxFaults /\ cancelling' \in {"no", "asked", "done"}
    BY <1>0 DEF ChatRest, ChatTyped
  <2>3. current' \in 0..Len(requests') /\ active' \in 0..Len(responses')
    BY <1>0, <1>3, <1>4, <1>n, <1>p
  <2> QED
    BY <2>1, <2>2, <2>3, <1>0, <1>3, <1>4, <1>n DEF ChatTyped
<1>6. Counted'
  <2>1. \A j \in DOMAIN requests' : CallCounted(requests'[j])
    BY <1>1, <1>3, <1>n, CountedCalls DEF ChatRest
  <2> QED
    BY <2>1, <1>0 DEF ChatRest, Counted, CallCounted
<1>7. OneOpen'
  BY <1>0, <1>2, <1>4, <1>a, <1>n DEF OneOpen, Open1
<1>8. LastWord'
  <2>1. ASSUME NEW k \in DOMAIN events', events'[k].kind # "delta"
        PROVE  /\ requests'[events'[k].of].at = "answered"
               /\ \A l \in DOMAIN events' : l > k => events'[l].of # events'[k].of
    <3>1. k \in DOMAIN events /\ events' = events /\ events[k].of \in DOMAIN requests
      BY <2>1, <1>0, <1>e
    <3>2. /\ requests[events[k].of].at = "answered"
          /\ \A l \in DOMAIN events : l > k => events[l].of # events[k].of
      BY <2>1, <3>1 DEF ChatRest, LastWord
    <3> QED
      BY <3>1, <3>2, <1>3
  <2>2. ASSUME NEW j \in DOMAIN responses', responses'[j].typing \/ responses'[j].answered
        PROVE  requests'[j].at = "answered" /\ \A k \in DOMAIN events' : events'[k].of # j
    <3>1. j \in DOMAIN responses /\ responses'[j] = responses[j] /\ requests'[j] = requests[j]
      BY <2>2, <1>2, <1>3, <1>4, <1>n, <1>0
    <3> QED
      BY <3>1, <2>2, <1>0 DEF ChatRest, LastWord
  <2> QED
    BY <2>1, <2>2 DEF LastWord
<1>9. ShownSoFar'
  <2> SUFFICES ASSUME NEW j \in DOMAIN responses', Open1(j)'
               PROVE  ~responses'[j].typing /\ InPieces(j)'
    BY DEF ShownSoFar
  <2>1. j = n
    BY <1>a, <1>4, <1>n, <1>0 DEF Open1
  <2>2. Told(n)' = 0
    BY <1>3, <1>1 DEF Told
  <2>3. \A k \in DOMAIN events' : ~DeltaOf(k, n)'
    BY <1>0, <1>e DEF DeltaOf
  <2>4. responses'[n].shown = Pieces(n, 0) /\ Len(responses'[n].shown) = 0
    BY <1>2, <1>4 DEF Pieces
  <2>5. InPieces(n)'
    BY <2>2, <2>3, <2>4, <1>0 DEF InPieces, Pieces
  <2> QED
    BY <2>1, <2>5, <1>2, <1>4
<1>10. AnswerWhole'
  <2> SUFFICES ASSUME NEW j \in DOMAIN responses', responses'[j].answered,
                      ~responses'[j].stopped, ~responses'[j].crossed
               PROVE  responses'[j].shown =
                        [k \in 1..(requests'[j].base + requests'[j].chunks) |-> <<j, k>>]
    BY DEF AnswerWhole
  <2>1. j \in DOMAIN responses /\ responses'[j] = responses[j] /\ requests'[j] = requests[j]
    BY <1>2, <1>3, <1>4, <1>n, <1>0
  <2> QED
    BY <2>1 DEF ChatRest, AnswerWhole
<1>11. OneLive'
  BY <1>0, <1>1, <1>3, <1>n DEF OneLive
<1> QED
  BY <1>5, <1>6, <1>7, <1>8, <1>9, <1>10, <1>11 DEF ChatRest

\* Nothing but tokens changes in the calls.
LEMMA Asked ==
    ASSUME ChatRest, OneLive, Cancel \/ ChatCancel
    PROVE  ChatRest' /\ OneLive'
<1>0. /\ requests \in Seq(Calls) /\ current \in 0..Len(requests) /\ events \in Seq(Words)
      /\ DOMAIN requests = 1..Len(requests) /\ DOMAIN responses = DOMAIN requests
      /\ \A j \in DOMAIN requests : requests[j] \in Calls /\ CallCounted(requests[j])
      /\ UNCHANGED <<sending, active, received, responses, events, faults>>
      /\ cancelling' \in {"no", "asked", "done"}
  BY CountedCalls DEF ChatRest, ChatTyped, Cancel, ChatCancel
<1>1. /\ requests' \in Seq(Calls) /\ Len(requests') = Len(requests)
      /\ DOMAIN requests' = DOMAIN requests
      /\ \A j \in DOMAIN requests' : CallCounted(requests'[j])
      /\ \A j \in DOMAIN requests : Same(requests'[j], requests[j])
      /\ \A j \in DOMAIN requests : requests'[j] = requests[j] \/ requests'[j].token
      /\ (current' = current /\ requests' = requests) \/ current' = 0
      /\ current' = 0 => cancelling' = "done" \/ current = 0
  <2>1. CASE Cancel
    BY <2>1, <1>0 DEF Cancel, Same
  <2>2. CASE ChatCancel
    <3>0. requests' = CancelToken(requests, current)
      BY <2>2 DEF ChatCancel
    <3>1. /\ requests' \in Seq(Calls) /\ Len(requests') = Len(requests)
          /\ DOMAIN requests' = DOMAIN requests
          /\ current # 0 => requests'[current] = [requests[current] EXCEPT !.token = TRUE]
          /\ \A j \in DOMAIN requests : j # current => requests'[j] = requests[j]
          /\ \A j \in DOMAIN requests' : CallCounted(requests'[j])
      <4>1. /\ \A j \in DOMAIN requests : CallCounted(requests[j])
            /\ requests \in Seq(Calls) /\ current \in 0..Len(requests)
        BY <1>0
      <4>2. requests' \in Seq(Calls) /\ Len(requests') = Len(requests)
            /\ DOMAIN requests' = DOMAIN requests
        BY ONLY <4>1, <3>0, TokenTaken
      <4>3. /\ current # 0 => requests'[current] = [requests[current] EXCEPT !.token = TRUE]
            /\ \A j \in DOMAIN requests : j # current => requests'[j] = requests[j]
        BY ONLY <4>1, <3>0, TokenTaken
      <4>4. \A j \in DOMAIN requests' : CallCounted(requests'[j])
        BY ONLY <4>1, <3>0, TokenTaken
      <4> QED
        BY <4>2, <4>3, <4>4
    <3>2. ASSUME NEW j \in DOMAIN requests
          PROVE  Same(requests'[j], requests[j])
                 /\ (requests'[j] = requests[j] \/ requests'[j].token)
      <4>0. requests[j] \in Calls
        BY <1>0
      <4>1. CASE j = current
        <5>1. requests'[j] = [requests[j] EXCEPT !.token = TRUE]
          BY <4>1, <3>1, <1>0
        <5> QED
          BY <4>0, <5>1, TokenFields
      <4>2. CASE j # current
        BY <4>2, <3>1 DEF Same
      <4> QED
        BY <4>1, <4>2
    <3> QED
      BY <2>2, <3>1, <3>2 DEF ChatCancel
  <2> QED
    BY <2>1, <2>2
<1>2. OneLive'
  <2>1. CASE Cancel
    BY <2>1 DEF Cancel, OneLive
  <2>2. CASE ChatCancel
    <3>0. /\ \A j \in DOMAIN requests : CallCounted(requests[j])
          /\ requests \in Seq(Calls) /\ current \in 0..Len(requests)
      BY <1>0
    <3>1. current' = 0 /\ requests' = CancelToken(requests, current)
      BY <2>2 DEF ChatCancel
    <3>2. /\ current # 0 => requests'[current] = [requests[current] EXCEPT !.token = TRUE]
          /\ \A j \in DOMAIN requests : j # current => requests'[j] = requests[j]
      BY ONLY <3>0, <3>1, TokenTaken
    <3>3. ASSUME current # 0 PROVE requests'[current].token
      <4>1. current \in DOMAIN requests
        BY <3>3, <1>0
      <4>2. requests[current] \in Calls
        BY <4>1, <1>0
      <4> QED
        BY <3>2, <3>3, <4>2, TokenFields
    <3>4. ASSUME NEW j \in DOMAIN requests, requests'[j].at \notin {"sent", "answered"},
                 ~requests'[j].token
          PROVE  FALSE
      <4>1. CASE j = current
        BY <4>1, <3>3, <3>4, <1>0
      <4>2. CASE j # current
        <5>1. requests'[j] = requests[j]
          BY <4>2, <3>2
        <5> QED
          BY <4>2, <5>1, <3>4 DEF OneLive
      <4> QED
        BY <4>1, <4>2
    <3>5. DOMAIN requests' = DOMAIN requests
      BY <1>1
    <3> QED
      BY <3>4, <3>5 DEF OneLive
  <2> QED
    BY <2>1, <2>2
<1>3. \A j \in DOMAIN requests : Told(j)' = Told(j)
  BY <1>1 DEF Told, Same
<1>4. ChatTyped'
  BY <1>0, <1>1 DEF ChatRest, ChatTyped, Words
<1>5. Counted'
  BY <1>0, <1>1 DEF ChatRest, Counted, CallCounted
<1>6. OneOpen'
  BY <1>0 DEF ChatRest, OneOpen, Open1
<1>7. LastWord'
  <2>1. \A k \in DOMAIN events : events[k].of \in DOMAIN requests
    <3>1. \A k \in DOMAIN events : events[k] \in Words
      BY <1>0
    <3> QED
      BY <3>1, <1>0 DEF Words
  <2>2. LastWord
    BY DEF ChatRest
  <2>3. /\ \A j \in DOMAIN requests : requests'[j].at = requests[j].at
        /\ DOMAIN responses = DOMAIN requests /\ UNCHANGED <<responses, events>>
    BY <1>0, <1>1 DEF Same
  <2> QED
    BY ONLY <2>1, <2>2, <2>3 DEF LastWord
<1>8. ShownSoFar'
  <2> SUFFICES ASSUME NEW j \in DOMAIN responses, Open1(j), ~Failing(j)
               PROVE  IF responses[j].typing THEN (responses[j].shown = Pieces(j, Told(j)))'
                      ELSE InPieces(j)'
    BY <1>0 DEF ShownSoFar, Open1, Failing
  <2>1. \A k \in DOMAIN events : DeltaOf(k, j)' <=> DeltaOf(k, j)
    BY <1>0 DEF DeltaOf
  <2>2. CASE responses[j].typing
    BY <2>2, <1>0, <1>3 DEF ChatRest, ShownSoFar, Pieces
  <2>3. CASE ~responses[j].typing
    <3>1. InPieces(j)
      BY <2>3 DEF ChatRest, ShownSoFar
    <3>2. InPieces(j)'
      BY <3>1, <2>1, <1>0, <1>3 DEF InPieces, Pieces
    <3> QED
      BY <2>3, <3>2
  <2> QED
    BY <2>2, <2>3
<1>9. AnswerWhole'
  BY <1>0, <1>1 DEF ChatRest, AnswerWhole, Same
<1> QED
  BY <1>2, <1>4, <1>5, <1>6, <1>7, <1>8, <1>9 DEF ChatRest

-----------------------------------------------------------------------------
(***************************************************************************)
(* The invariant.                                                          *)
(***************************************************************************)
\* Every step keeps the invariant.
LEMMA ChatInvKept ==
    ASSUME ChatBounds,
           ChatInv, [Next]_vars
    PROVE  ChatInv'
<1>0. ChatRest /\ OneLive
  BY DEF ChatInv, ChatRest
<1> SUFFICES ChatRest' /\ OneLive'
  BY DEF ChatInv, ChatRest
<1>1. CASE Send \/ Cancel \/ ChatCancel
  BY <1>0, <1>1, Sent, Asked
<1>2. CASE Cancelled \/ NewChat
  BY <1>0, <1>2, GivenUp DEF Cancelled, NewChat, OneLive
<1>3. CASE Hear
  <2>1. requests' = requests /\ current' = current
    BY <1>3 DEF Hear
  <2> QED
    BY <1>0, <1>3, <2>1, Heard DEF OneLive
<1>4. ASSUME NEW i \in 1..MaxRequests, StepOf(i) \/ BreakOf(i)
      PROVE  ChatRest' /\ OneLive'
  <2>1. i \in DOMAIN requests /\ (Step(i) \/ Broken(i))
    BY <1>4 DEF StepOf, BreakOf
  <2>2. /\ CallsOn(i) /\ UNCHANGED window
        /\ current' \in {current, i} /\ faults' \in 0..MaxFaults
    BY <1>0, <2>1, CallSteps DEF ChatRest
  <2>3. ChatRest'
    BY <1>0, <2>1, <2>2, CallsKeepRest DEF ChatRest
  <2> QED
    BY <1>0, <2>1, <2>3, LiveCalls DEF ChatRest
<1>5. ASSUME NEW i \in 1..MaxRequests, TypedOf(i)
      PROVE  ChatRest' /\ OneLive'
  <2>1. requests' = requests /\ current' = current
    BY <1>5 DEF TypedOf, Typed
  <2> QED
    BY <1>0, <1>5, <2>1, TypedOut DEF TypedOf, OneLive
<1>6. CASE UNCHANGED vars
  <2>1. OneLive'
    BY <1>0, <1>6 DEF vars, OneLive
  <2>2. ChatTyped' /\ Counted' /\ AnswerWhole'
    BY <1>0, <1>6 DEF vars, ChatRest, ChatTyped, Words, Counted, AnswerWhole
  <2>4. OneOpen' /\ LastWord'
    BY <1>0, <1>6 DEF vars, ChatRest, OneOpen, Open1, LastWord
  <2>3. ShownSoFar'
    BY <1>0, <1>6 DEF vars, ChatRest, ShownSoFar, Open1, Failing, InPieces, Told, DeltaOf, Pieces
  <2> QED
    BY <2>1, <2>2, <2>3, <2>4 DEF ChatRest
<1> QED
  BY <1>1, <1>2, <1>3, <1>4, <1>5, <1>6 DEF Next

\* The invariant holds at first.
LEMMA ChatInvInit ==
    ASSUME ChatBounds
    PROVE  Init => ChatInv
<1> SUFFICES ASSUME Init PROVE ChatInv
  OBVIOUS
<1>1. ChatTyped
  <2>1. requests = << >> /\ responses = << >> /\ events = << >>
    BY DEF Init
  <2>2. /\ requests \in Seq(Calls) /\ responses \in Seq(Answers) /\ events \in Seq(Words)
        /\ Len(requests) = 0 /\ Len(responses) = 0
    BY <2>1
  <2>3. 0 \in 0..MaxFaults /\ 0 <= MaxRequests /\ 0 \in 0..0
    BY DEF ChatBounds
  <2>4. active = 0 /\ current = 0 /\ faults = 0 /\ sending = FALSE /\ received = FALSE
        /\ cancelling = "no"
    BY DEF Init
  <2> QED
    BY ONLY <2>2, <2>3, <2>4 DEF ChatTyped
<1> QED
  BY <1>1 DEF Init, ChatInv, Counted, OneLive, OneOpen, LastWord, ShownSoFar, AnswerWhole

\* The types of the proofs are those of the model.
LEMMA ChatInvTypes == ChatInv => TypeOK
<1> SUFFICES ASSUME ChatInv PROVE TypeOK
  OBVIOUS
<1>1. /\ requests \in Seq(Calls) /\ responses \in Seq(Answers) /\ events \in Seq(Words)
      /\ DOMAIN requests = 1..Len(requests) /\ DOMAIN responses = DOMAIN requests
  BY DEF ChatInv, ChatTyped
<1>2. \A i \in DOMAIN requests : requests[i] \in Calls /\ responses[i] \in Answers
  BY <1>1
<1>3. \A k \in DOMAIN events : events[k] \in Words
  BY <1>1
<1> QED
  BY <1>1, <1>2, <1>3 DEF ChatInv, ChatTyped, TypeOK, Calls, Answers, Words

\* An answer that was neither given up nor met by an older request shows every piece of its
\* own text once and in order, and at most one request can still be cancelled, for every
\* value of the bounds (Companion.svelte: send; chat_send, stream_chat).
THEOREM ChatIsSound ==
    ASSUME ChatBounds
    PROVE  Spec => [](TypeOK /\ AnswerWhole /\ OneLive)
<1>1. ChatInv => TypeOK /\ AnswerWhole /\ OneLive
  BY ChatInvTypes DEF ChatInv
<1> QED
  BY <1>1, ChatInvInit, ChatInvKept, PTL DEF Spec
=============================================================================
