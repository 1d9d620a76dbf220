-------------------------- MODULE DesktopEdgesProofs --------------------------
(***************************************************************************)
(* The theorems about the edges of the desktop, where others speak first:  *)
(* the MCP bridge, whose state is the composition's own, the modifier keys *)
(* and the companion panel, for the parts side by side.                    *)
(***************************************************************************)
EXTENDS MCDesktopParts, FiniteSetTheorems, TLAPS

-----------------------------------------------------------------------------
(***************************************************************************)
(* The MCP bridge, for any methods, any number of frames and any padding,  *)
(* any timeouts and any change of who listens on the daemon's port: what   *)
(* is read is what was written, in its own framing; every request that is  *)
(* handled is answered once and in order; the token is sent only in a call *)
(* that saw the daemon's proof; and only an initialize opens the session.  *)
(***************************************************************************)

Frames == [mode : Modes, method : Methods, asks : BOOLEAN]
Lines == [is : {"blank", "length", "header", "text"}, of : Nat]
Results == {"invalid", "ok", "params", "uninitialized", "unknown", "launch", "late", "result",
            "error"}
Answers == [of : Nat, mode : Modes, result : Results]
Calling == Waiting \cup {"launch", "answer"}

Typed ==
    /\ TypeOK
    /\ wire \in Seq(Lines)
    /\ closed \in BOOLEAN /\ mode \in Modes /\ proved \in BOOLEAN /\ launches \in 0..1
    /\ answers \in Seq(Answers)
    /\ tokens \in Seq([of : Nat, proved : BOOLEAN])

\* The kind of a line on the wire; what was read just before it is in pc.
Kind(p) ==
    CASE p >= 1 -> wire[p].is
      [] p = 0  -> (CASE pc = "header" -> "length" [] pc = "body" -> "blank" [] OTHER -> "text")
      [] OTHER  -> IF pc = "body" THEN "header" ELSE "text"

\* A line after which more headers follow, and the one that ends them.
Opens(p) == Kind(p) \in {"length", "header"}
Separates(p) == Kind(p) = "blank" /\ Opens(p - 1)

\* A body follows the headers that announce it, a text in a line of its own does not; and
\* the client has written whole frames.
Framed ==
    pc # "ended" =>
       /\ \A p \in 1..Len(wire) :
             /\ wire[p].is = "header" => Opens(p - 1)
             /\ wire[p].is \in {"length", "text"} => ~Opens(p - 1)
             /\ Separates(p - 1) => wire[p].is = "text"
             /\ wire[p].is = "text" => (sent[wire[p].of].mode = "length" <=> Separates(p - 1))
       /\ ~Opens(Len(wire)) /\ ~Separates(Len(wire))

\* The frames on the wire are those that were not read yet, in the order sent.
InOrder ==
    /\ \A p \in 1..Len(wire) : wire[p].is = "text" => wire[p].of \in (current + 1)..Len(sent)
    /\ \A p, q \in 1..Len(wire) :
          wire[p].is = "text" /\ wire[q].is = "text" /\ p < q => wire[p].of < wire[q].of
    /\ \A i \in (current + 1)..Len(sent) :
          \E p \in 1..Len(wire) : wire[p].is = "text" /\ wire[p].of = i

\* The frame that is handled was read in its own framing.
Reading ==
    /\ pc \in {"header", "body"} => mode = "length"
    /\ Underway => current >= 1 /\ mode = sent[current].mode

Answering ==
    /\ \A k \in DOMAIN answers :
          /\ answers[k].of \in 1..current
          /\ Underway => answers[k].of < current
          /\ Owed(answers[k].of)
          /\ answers[k].mode = sent[answers[k].of].mode
    /\ \A j, k \in DOMAIN answers : j < k => answers[j].of < answers[k].of
    /\ \A i \in Handled : Owed(i) => \E k \in DOMAIN answers : answers[k].of = i

\* A call is one of an initialized session, and has no proof until it asks.
Gated ==
    /\ pc \in Calling => /\ sent[current].method = "call" /\ sent[current].asks
                         /\ initialized
    /\ pc \in {"probe", "launch", "poll", "sleep"} => ~proved
    /\ pc = "ask" => proved
    /\ pc \in {"probe", "launch"} => launches = 0
    /\ \A k \in DOMAIN tokens : /\ tokens[k].proved /\ tokens[k].of \in 1..current
                                /\ sent[tokens[k].of].method = "call"

\* Whoever initialized the session was told so.
Session ==
    /\ initialized => \E j \in DOMAIN answers : sent[answers[j].of].method = "initialize"
    /\ InitializedFirst

Inductive == Typed /\ Framed /\ InOrder /\ Reading /\ Answering /\ Gated /\ Session

-----------------------------------------------------------------------------
\* What may be read next.
LEMMA NextLine ==
    ASSUME Typed, Framed, InOrder, pc \in {"line", "header", "body"}, wire # <<>>
    PROVE  /\ Head(wire) = wire[1] /\ wire[1] \in Lines /\ 1 \in 1..Len(wire)
           /\ pc = "line" => wire[1].is \in {"blank", "length", "text"}
           /\ pc = "header" => wire[1].is \in {"blank", "header"}
           /\ pc = "body" => wire[1].is = "text"
           /\ wire[1].is = "text" =>
                 /\ wire[1].of = current + 1 /\ current + 1 \in 1..Len(sent)
                 /\ sent[current + 1].mode = "length" <=> pc = "body"
<1>1. Head(wire) = wire[1] /\ wire[1] \in Lines /\ 1 \in 1..Len(wire)
  BY DEF Typed
<1>2. /\ Opens(0) <=> pc = "header"
      /\ Separates(0) <=> pc = "body"
  BY DEF Opens, Separates, Kind
<1>3. /\ wire[1].is = "header" => Opens(0)
      /\ wire[1].is \in {"length", "text"} => ~Opens(0)
      /\ Separates(0) => wire[1].is = "text"
      /\ wire[1].is = "text" => (sent[wire[1].of].mode = "length" <=> Separates(0))
  BY <1>1 DEF Framed
<1>4. ASSUME wire[1].is = "text" PROVE wire[1].of = current + 1 /\ current + 1 \in 1..Len(sent)
  <2>1. current \in Nat /\ Len(sent) \in Nat /\ wire[1].of \in (current + 1)..Len(sent)
    BY <1>1, <1>4 DEF InOrder, Typed, TypeOK
  <2>2. current + 1 \in (current + 1)..Len(sent)
    BY <2>1
  <2>3. PICK q \in 1..Len(wire) : wire[q].is = "text" /\ wire[q].of = current + 1
    BY <2>2 DEF InOrder
  <2>4. q = 1
    BY <1>1, <1>4, <2>1, <2>3 DEF InOrder
  <2> QED
    BY <2>1, <2>3, <2>4
<1> QED
  BY <1>1, <1>2, <1>3, <1>4 DEF Lines

\* A read passes a line that holds no frame, or takes the next frame.
Passes ==
    /\ pc' \in {"line", "header", "body", "ended"} /\ current' = current
    /\ wire[1].is # "text"
    /\ pc' \in {"header", "body"} => mode' = "length"
    /\ mode' \in Modes
Handles ==
    /\ pc' = "handle" /\ current' = current + 1 /\ current + 1 \in 1..Len(sent)
    /\ wire[1].is = "text" /\ wire[1].of = current + 1
    /\ mode' = sent[current + 1].mode
Read ==
    /\ pc \in {"line", "header", "body"} /\ wire # <<>> /\ wire' = Tail(wire)
    /\ pc' # "ended" => /\ Opens(0)' = Opens(1) /\ Separates(0)' = Separates(1)
    /\ Passes \/ Handles
    /\ UNCHANGED <<client, initialized, gate, answers, world, tokens>>

LEMMA ReadSteps ==
    ASSUME Typed, Framed, InOrder, Reading, ReadLine \/ ReadHeader \/ ReadBody
    PROVE  Read
<1>0. sent \in Seq(Frames) /\ current \in Nat /\ mode \in Modes
  BY DEF Typed, TypeOK, Frames
<1>1. CASE ReadLine
  <2>1. /\ pc = "line" /\ wire # <<>> /\ wire' = Tail(wire)
        /\ UNCHANGED <<client, initialized, gate, answers, world, tokens>>
    BY <1>1 DEF ReadLine
  <2>2. CASE wire[1].is = "blank"
    <3>1. pc' \in {"line", "ended"} /\ mode' = mode /\ current' = current
      BY <1>1, <2>1, <2>2, NextLine DEF ReadLine
    <3> QED
      BY <1>0, <2>1, <2>2, <3>1 DEF Read, Passes, Opens, Separates, Kind
  <2>3. CASE wire[1].is = "length"
    <3>1. pc' = "header" /\ mode' = "length" /\ current' = current
      BY <1>1, <2>1, <2>3, NextLine DEF ReadLine
    <3> QED
      BY <1>0, <2>1, <2>3, <3>1 DEF Read, Passes, Opens, Separates, Kind, Modes
  <2>4. CASE wire[1].is = "text"
    <3>1. pc' = "handle" /\ mode' = "newline" /\ current' = wire[1].of
      BY <1>1, <2>1, <2>4, NextLine DEF ReadLine
    <3>a. /\ wire[1].of = current + 1 /\ current + 1 \in 1..Len(sent)
          /\ sent[current + 1].mode # "length"
      BY <2>1, <2>4, NextLine
    <3>b. sent[current + 1] \in Frames
      BY <1>0, <3>a
    <3>2. sent[current + 1].mode = "newline"
      BY <3>a, <3>b DEF Frames, Modes
    <3> QED
      BY <1>0, <2>1, <2>4, <3>1, <3>a, <3>2 DEF Read, Handles, Opens, Separates, Kind
  <2> QED
    BY <2>1, <2>2, <2>3, <2>4, NextLine
<1>2. CASE ReadHeader
  <2>1. /\ pc = "header" /\ wire # <<>> /\ wire' = Tail(wire) /\ mode' = mode /\ current' = current
        /\ UNCHANGED <<client, initialized, gate, answers, world, tokens>>
        /\ mode = "length" /\ wire[1].is \in {"blank", "header"}
    BY <1>2, NextLine DEF ReadHeader, Reading
  <2>2. pc' \in {"ended", IF wire[1].is = "blank" THEN "body" ELSE "header"}
    BY <1>2, <2>1, NextLine DEF ReadHeader
  <2> QED
    BY <1>0, <2>1, <2>2 DEF Read, Passes, Opens, Separates, Kind
<1>3. CASE ReadBody
  <2>1. /\ pc = "body" /\ wire # <<>> /\ wire' = Tail(wire) /\ mode' = mode /\ current' = current + 1
        /\ UNCHANGED <<client, initialized, gate, answers, world, tokens>> /\ pc' = "handle"
        /\ mode = "length" /\ wire[1].is = "text" /\ sent[current + 1].mode = "length"
        /\ wire[1].of = current + 1 /\ current + 1 \in 1..Len(sent)
    BY <1>3, NextLine DEF ReadBody, Reading
  <2> QED
    BY <1>0, <2>1 DEF Read, Handles, Opens, Separates, Kind
<1> QED
  BY <1>1, <1>2, <1>3

-----------------------------------------------------------------------------
\* What a frame is written as: its lines, and the kind of each.
Size(m, blanks, headers) == IF m = "newline" THEN blanks + 1 ELSE blanks + headers + 3
Role(m, blanks, headers, i) ==
    IF i <= blanks THEN "blank"
    ELSE IF m = "newline" \/ i = blanks + headers + 3 THEN "text"
    ELSE IF i = blanks + 1 THEN "length"
    ELSE IF i = blanks + headers + 2 THEN "blank" ELSE "header"

Join(s, t) == s \o t

LEMMA Joined ==
    ASSUME NEW s \in Seq(Lines), NEW t \in Seq(Lines)
    PROVE  /\ Join(s, t) \in Seq(Lines)
           /\ Len(Join(s, t)) = Len(s) + Len(t)
           /\ \A i \in 1..Len(s) : Join(s, t)[i] = s[i]
           /\ \A i \in 1..Len(t) : Join(s, t)[Len(s) + i] = t[i]
BY DEF Join

Single(s) == Len(s) = 1

LEMMA JoinedFirst ==
    ASSUME NEW s \in Seq(Lines), NEW t \in Seq(Lines), Single(s)
    PROVE  /\ Join(s, t) \in Seq(Lines)
           /\ Len(Join(s, t)) = 1 + Len(t)
           /\ Join(s, t)[1] = s[1]
           /\ \A i \in 1..Len(t) : Join(s, t)[1 + i] = t[i]
<1>1. PICK one \in Nat : one = 1
  OBVIOUS
<1>2. Len(s) = one
  BY <1>1 DEF Single
<1>3. /\ Join(s, t) \in Seq(Lines)
      /\ Len(Join(s, t)) = one + Len(t)
      /\ \A i \in 1..one : Join(s, t)[i] = s[i]
      /\ \A i \in 1..Len(t) : Join(s, t)[one + i] = t[i]
  BY <1>2, Joined
<1>4. Join(s, t)[1] = s[1]
  BY <1>1, <1>3
<1> QED
  BY <1>1, <1>3, <1>4

LEMMA JoinedLast ==
    ASSUME NEW s \in Seq(Lines), NEW t \in Seq(Lines), Single(t)
    PROVE  /\ Join(s, t) \in Seq(Lines)
           /\ Len(Join(s, t)) = Len(s) + 1
           /\ \A i \in 1..Len(s) : Join(s, t)[i] = s[i]
           /\ Join(s, t)[Len(s) + 1] = t[1]
<1>1. PICK one \in Nat : one = 1
  OBVIOUS
<1>2. Len(t) = one
  BY <1>1 DEF Single
<1>3. /\ Join(s, t) \in Seq(Lines)
      /\ Len(Join(s, t)) = Len(s) + one
      /\ \A i \in 1..Len(s) : Join(s, t)[i] = s[i]
      /\ \A i \in 1..one : Join(s, t)[Len(s) + i] = t[i]
  BY <1>2, Joined
<1>4. Join(s, t)[Len(s) + 1] = t[1]
  BY <1>1, <1>3
<1> QED
  BY <1>1, <1>3, <1>4

LEMMA Padded ==
    ASSUME NEW kind \in {"blank", "length", "header", "text"}, NEW n \in Nat
    PROVE  /\ Padding(kind, n) \in Seq(Lines) /\ Len(Padding(kind, n)) = n
           /\ \A i \in 1..n : Padding(kind, n)[i].is = kind
<1>1. /\ Padding(kind, n) \in Seq(Lines) /\ Len(Padding(kind, n)) = n
      /\ \A i \in 1..n : Padding(kind, n)[i] = [is |-> kind, of |-> 0]
  BY DEF Padding, Lines
<1> QED
  BY <1>1

LEMMA PaddedOnce ==
    ASSUME NEW kind \in {"blank", "length", "header", "text"}
    PROVE  /\ Padding(kind, 1) \in Seq(Lines) /\ Single(Padding(kind, 1))
           /\ Padding(kind, 1)[1].is = kind
<1>0. PICK one \in Nat : one = 1
  OBVIOUS
<1>a. /\ Padding(kind, one) \in Seq(Lines) /\ Len(Padding(kind, one)) = one
      /\ \A i \in 1..one : Padding(kind, one)[i].is = kind
  BY Padded
<1>1. /\ Padding(kind, 1) \in Seq(Lines) /\ Len(Padding(kind, 1)) = 1
      /\ \A i \in 1..1 : Padding(kind, 1)[i].is = kind
  BY <1>0, <1>a
<1>2. Padding(kind, 1)[1].is = kind
  BY <1>1
<1> QED
  BY <1>1, <1>2 DEF Single

\* A frame after its headers.
Headed(h, body) ==
    Join(Join(Join(Padding("length", 1), Padding("header", h)), Padding("blank", 1)), body)

HeadersLead(whole, h, body) ==
    /\ whole \in Seq(Lines) /\ Len(whole) = h + 3
    /\ whole[1].is = "length" /\ whole[h + 2].is = "blank" /\ whole[h + 3] = body[1]
    /\ \A i \in 2..(h + 1) : whole[i].is = "header"

LEMMA WrittenHeaders ==
    ASSUME NEW h \in Nat, NEW body \in Seq(Lines), Single(body)
    PROVE  HeadersLead(Headed(h, body), h, body)
<1>0. PICK whole : whole = Headed(h, body)
  OBVIOUS
<1>1. PICK x \in Seq(Lines) : x = Padding("length", 1) /\ Single(x) /\ x[1].is = "length"
  BY PaddedOnce
<1>2. PICK y \in Seq(Lines) : y = Padding("header", h) /\ Len(y) = h /\ \A i \in 1..h : y[i].is = "header"
  <2>1. PICK kind \in {"blank", "length", "header", "text"} : kind = "header"
    OBVIOUS
  <2>2. /\ Padding(kind, h) \in Seq(Lines) /\ Len(Padding(kind, h)) = h
        /\ \A i \in 1..h : Padding(kind, h)[i].is = kind
    BY Padded
  <2> QED
    BY <2>1, <2>2
<1>3. PICK z \in Seq(Lines) : z = Padding("blank", 1) /\ Single(z) /\ z[1].is = "blank"
  BY PaddedOnce
<1>4. PICK u \in Seq(Lines) :
         u = Join(x, y) /\ Len(u) = 1 + h /\ u[1] = x[1] /\ \A i \in 1..h : u[1 + i] = y[i]
  <2>1. /\ Join(x, y) \in Seq(Lines) /\ Len(Join(x, y)) = 1 + Len(y)
        /\ Join(x, y)[1] = x[1] /\ \A i \in 1..Len(y) : Join(x, y)[1 + i] = y[i]
    BY <1>1, JoinedFirst
  <2> QED
    BY <1>2, <2>1
<1>5. PICK v \in Seq(Lines) :
         v = Join(u, z) /\ Len(v) = h + 2 /\ v[h + 2] = z[1] /\ \A i \in 1..(h + 1) : v[i] = u[i]
  <2>1. /\ Join(u, z) \in Seq(Lines) /\ Len(Join(u, z)) = Len(u) + 1
        /\ \A i \in 1..Len(u) : Join(u, z)[i] = u[i]
        /\ Join(u, z)[Len(u) + 1] = z[1]
    BY <1>3, JoinedLast
  <2>2. Len(u) = h + 1 /\ Len(u) + 1 = h + 2
    BY <1>4
  <2> QED
    BY <2>1, <2>2
<1>6. /\ whole \in Seq(Lines) /\ Len(whole) = h + 3 /\ whole[h + 3] = body[1]
      /\ \A i \in 1..(h + 2) : whole[i] = v[i]
  <2>1. whole = Join(v, body)
    BY <1>0, <1>1, <1>2, <1>3, <1>4, <1>5 DEF Headed
  <2>2. /\ Join(v, body) \in Seq(Lines) /\ Len(Join(v, body)) = Len(v) + 1
        /\ \A i \in 1..Len(v) : Join(v, body)[i] = v[i]
        /\ Join(v, body)[Len(v) + 1] = body[1]
    BY JoinedLast
  <2>3. Len(v) = h + 2 /\ Len(v) + 1 = h + 3
    BY <1>5
  <2> QED
    BY <2>1, <2>2, <2>3
<1>7. ASSUME NEW i \in 2..(h + 1) PROVE whole[i].is = "header"
  <2>1. PICK k \in 1..h : i = 1 + k
    <3>1. i - 1 \in 1..h /\ i = 1 + (i - 1)
      OBVIOUS
    <3> QED
      BY <3>1
  <2>2. i \in 1..(h + 1) /\ i \in 1..(h + 2)
    OBVIOUS
  <2>3. whole[i] = v[i] /\ v[i] = u[i]
    BY <1>5, <1>6, <2>2
  <2>4. u[i] = y[k]
    BY <1>4, <2>1
  <2> QED
    BY <1>2, <2>3, <2>4
<1>8. 1 \in 1..(h + 2) /\ 1 \in 1..(h + 1) /\ h + 2 \in 1..(h + 2)
  OBVIOUS
<1>9. whole[1].is = "length"
  BY <1>1, <1>4, <1>5, <1>6, <1>8
<1>10. whole[h + 2].is = "blank"
  BY <1>3, <1>5, <1>6, <1>8
<1> QED
  BY <1>0, <1>6, <1>7, <1>9, <1>10 DEF HeadersLead

LEMMA WrittenLines ==
    ASSUME Typed, NEW m \in Modes, NEW method \in Methods, NEW asks \in BOOLEAN,
           NEW b \in 0..MaxPadding, NEW h \in 0..MaxPadding, Write(m, method, asks, b, h)
    PROVE  /\ wire' \in Seq(Lines)
           /\ Len(wire') = Len(wire) + Size(m, b, h)
           /\ \A p \in 1..Len(wire) : wire'[p] = wire[p]
           /\ \A i \in 1..Size(m, b, h) :
                 /\ wire'[Len(wire) + i].is = Role(m, b, h, i)
                 /\ Role(m, b, h, i) = "text" => wire'[Len(wire) + i].of = Len(sent) + 1
<1>0. b \in Nat /\ h \in Nat /\ wire \in Seq(Lines) /\ Len(sent) \in Nat
  BY BridgeBounds DEF Typed, TypeOK
<1>1. PICK body \in Seq(Lines) :
         body = <<[is |-> "text", of |-> Len(sent) + 1]>> /\ Single(body)
         /\ body[1].is = "text" /\ body[1].of = Len(sent) + 1
  <2>1. <<[is |-> "text", of |-> Len(sent) + 1]>> \in Seq(Lines)
    BY <1>0 DEF Lines
  <2> QED
    BY <2>1 DEF Single
<1>2. PICK n \in Nat : n = Len(wire)
  BY <1>0
<1>3. PICK x \in Seq(Lines) : x = Padding("blank", b) /\ Len(x) = b /\ \A i \in 1..b : x[i].is = "blank"
  BY <1>0, Padded
<1>4. PICK blanks \in Seq(Lines) :
         /\ blanks = Join(wire, x) /\ Len(blanks) = n + b
         /\ \A p \in 1..n : blanks[p] = wire[p]
         /\ \A i \in 1..b : blanks[n + i] = x[i]
  <2>1. wire \in Seq(Lines) /\ Len(wire) = n /\ b \in Nat /\ Len(x) = b
    BY <1>0, <1>2, <1>3
  <2>2. /\ Join(wire, x) \in Seq(Lines) /\ Len(Join(wire, x)) = n + b
        /\ \A p \in 1..n : Join(wire, x)[p] = wire[p]
        /\ \A i \in 1..b : Join(wire, x)[n + i] = x[i]
    BY <2>1, Joined
  <2> QED
    BY <2>2
<1>5. CASE m = "newline"
  <2>1. wire' = Join(blanks, body)
    BY <1>1, <1>3, <1>4, <1>5 DEF Write, Join
  <2>a. /\ Join(blanks, body) \in Seq(Lines) /\ Len(Join(blanks, body)) = Len(blanks) + 1
        /\ \A p \in 1..Len(blanks) : Join(blanks, body)[p] = blanks[p]
        /\ Join(blanks, body)[Len(blanks) + 1] = body[1]
    BY <1>1, JoinedLast
  <2>2. Len(blanks) = n + b
    BY <1>4
  <2>3. /\ wire' \in Seq(Lines) /\ Len(wire') = (n + b) + 1
        /\ \A p \in 1..(n + b) : wire'[p] = blanks[p]
        /\ wire'[(n + b) + 1] = body[1]
    BY <2>1, <2>2, <2>a
  <2>4. ASSUME NEW i \in 1..(b + 1)
        PROVE  /\ wire'[n + i].is = Role(m, b, h, i)
               /\ Role(m, b, h, i) = "text" => wire'[n + i].of = Len(sent) + 1
    <3>1. CASE i <= b
      <4>1. i \in 1..b /\ n + i \in 1..(n + b)
        BY <1>0, <3>1
      <4>a. wire'[n + i] = blanks[n + i]
        BY <2>3, <4>1
      <4>b. blanks[n + i] = x[i]
        BY <1>4, <4>1
      <4>2. wire'[n + i].is = "blank"
        BY <1>3, <4>1, <4>a, <4>b
      <4> QED
        BY <3>1, <4>2 DEF Role
    <3>2. CASE i = b + 1
      <4>1. n + i = (n + b) + 1 /\ ~(i <= b)
        BY <1>0, <3>2
      <4>2. Role(m, b, h, i) = "text"
        BY <1>5, <4>1 DEF Role
      <4> QED
        BY <1>1, <2>3, <4>1, <4>2
    <3> QED
      BY <1>0, <3>1, <3>2
  <2>5. Size(m, b, h) = b + 1 /\ Len(wire') = n + (b + 1)
    BY <1>0, <1>5, <2>3 DEF Size
  <2>6. \A p \in 1..n : wire'[p] = wire[p]
    BY <1>0, <1>4, <2>3
  <2> QED
    BY <1>2, <2>3, <2>4, <2>5, <2>6
<1>6. CASE m # "newline"
  <2>1. PICK whole \in Seq(Lines) :
           /\ whole = Headed(h, body) /\ Len(whole) = h + 3
           /\ whole[1].is = "length" /\ whole[h + 2].is = "blank" /\ whole[h + 3] = body[1]
           /\ \A i \in 2..(h + 1) : whole[i].is = "header"
    <3>1. h \in Nat /\ body \in Seq(Lines) /\ Single(body)
      BY <1>0, <1>1
    <3>2. HeadersLead(Headed(h, body), h, body)
      BY <3>1, WrittenHeaders
    <3> QED
      BY <3>2 DEF HeadersLead
  <2>2. wire' = Join(blanks, whole)
    BY <1>1, <1>3, <1>4, <1>6, <2>1 DEF Write, Join, Headed
  <2>0. n + b \in Nat /\ h + 3 \in Nat /\ Len(blanks) = n + b /\ Len(whole) = h + 3
    BY <1>0, <1>4, <2>1
  <2>3. /\ wire' \in Seq(Lines) /\ Len(wire') = (n + b) + (h + 3)
        /\ \A p \in 1..(n + b) : wire'[p] = blanks[p]
        /\ \A i \in 1..(h + 3) : wire'[(n + b) + i] = whole[i]
    <3>1. /\ Join(blanks, whole) \in Seq(Lines)
          /\ Len(Join(blanks, whole)) = Len(blanks) + Len(whole)
          /\ \A p \in 1..Len(blanks) : Join(blanks, whole)[p] = blanks[p]
          /\ \A i \in 1..Len(whole) : Join(blanks, whole)[Len(blanks) + i] = whole[i]
      BY Joined
    <3> QED
      BY <2>0, <2>2, <3>1
  <2>6. ASSUME NEW i \in 1..(b + h + 3)
        PROVE  /\ wire'[n + i].is = Role(m, b, h, i)
               /\ Role(m, b, h, i) = "text" => wire'[n + i].of = Len(sent) + 1
    <3>1. CASE i <= b
      <4>1. i \in 1..b /\ n + i \in 1..(n + b)
        BY <1>0, <3>1
      <4>a. wire'[n + i] = blanks[n + i]
        BY <2>3, <4>1
      <4>b. blanks[n + i] = x[i]
        BY <1>4, <4>1
      <4>2. wire'[n + i].is = "blank"
        BY <1>3, <4>1, <4>a, <4>b
      <4> QED
        BY <3>1, <4>2 DEF Role
    <3>2. CASE i > b
      <4>1. PICK k \in 1..(h + 3) : i = b + k
        <5>1. i - b \in 1..(h + 3) /\ i = b + (i - b)
          BY <1>0, <3>2
        <5> QED
          BY <5>1
      <4>2. wire'[n + i] = whole[k]
        <5>1. n + i = (n + b) + k
          BY <1>0, <4>1
        <5> QED
          BY <2>3, <4>1, <5>1
      <4>3. k = 1 \/ k = h + 2 \/ k = h + 3 \/ k \in 2..(h + 1)
        BY <1>0, <4>1
      <4>4. CASE k = 1
        <5>1. Role(m, b, h, i) = "length"
          BY <1>0, <1>6, <4>1, <4>4 DEF Role
        <5> QED
          BY <2>1, <4>2, <4>4, <5>1
      <4>5. CASE k = h + 2
        <5>1. Role(m, b, h, i) = "blank"
          BY <1>0, <1>6, <4>1, <4>5 DEF Role
        <5> QED
          BY <2>1, <4>2, <4>5, <5>1
      <4>6. CASE k = h + 3
        <5>1. Role(m, b, h, i) = "text"
          BY <1>0, <1>6, <4>1, <4>6 DEF Role
        <5> QED
          BY <1>1, <2>1, <4>2, <4>6, <5>1
      <4>7. CASE k \in 2..(h + 1)
        <5>1. Role(m, b, h, i) = "header"
          BY <1>0, <1>6, <4>1, <4>7 DEF Role
        <5> QED
          BY <2>1, <4>2, <4>7, <5>1
      <4> QED
        BY <4>3, <4>4, <4>5, <4>6, <4>7
    <3> QED
      BY <1>0, <3>1, <3>2
  <2>5. Size(m, b, h) = b + h + 3 /\ Len(wire') = n + (b + h + 3)
    BY <1>0, <1>6, <2>3 DEF Size
  <2>7. \A p \in 1..n : wire'[p] = wire[p]
    BY <1>0, <1>4, <2>3
  <2> QED
    BY <1>2, <2>3, <2>5, <2>6, <2>7
<1> QED
  BY <1>5, <1>6

-----------------------------------------------------------------------------
\* The kinds of step, besides a write, a read and the handling of a frame: the session
\* ends, the call goes on or is answered, and what touches neither the reader nor the call.
Writes == \E m \in Modes, method \in Methods, asks \in BOOLEAN, b, h \in 0..MaxPadding :
             Write(m, method, asks, b, h)

Ends ==
    /\ pc \in {"line", "header", "body", "handle"} /\ closed /\ pc' = "ended"
    /\ UNCHANGED <<client, wire, mode, counted, current, initialized, gate, answers, world,
                   tokens>>

Advances ==
    /\ pc \in Calling /\ pc' \in Calling
    /\ pc' \in {"probe", "launch", "poll", "sleep"} => ~proved'
    /\ pc' = "ask" => proved'
    /\ pc' \in {"probe", "launch"} => launches' = 0
    /\ proved' \in BOOLEAN /\ launches' \in 0..1
    /\ waited' \in 0..DAEMON_STARTUP_TIMEOUT /\ elapsed' \in 0..DAEMON_STARTUP_TIMEOUT
    /\ tokens' = tokens \/ tokens' = Append(tokens, [of |-> current, proved |-> TRUE])
    /\ UNCHANGED <<client, wire, mode, current, initialized, answers>>

Fails ==
    /\ pc \in Calling
    /\ \E result \in {"launch", "late", "result", "error"} : Fail(result)

Idles ==
    /\ closed' \in {closed, TRUE}
    /\ UNCHANGED <<sent, wire, reader, initialized, gate, answers, tokens>>

LEMMA TimePasses ==
    ASSUME Typed, Gated, Tick
    PROVE  Advances
<1>1. /\ pc \in {"probe", "poll", "sleep"} /\ pc' = pc /\ waited < Limit /\ waited' = waited + 1
      /\ elapsed' = IF pc = "probe" THEN elapsed ELSE elapsed + 1
      /\ UNCHANGED <<client, wire, mode, current, initialized, proved, launches, answers, tokens>>
  BY DEF Tick, Deadline, reader
<1>2. /\ waited \in Nat /\ elapsed \in Nat /\ elapsed <= DAEMON_STARTUP_TIMEOUT
      /\ DAEMON_STARTUP_TIMEOUT \in Nat /\ DAEMON_HEALTH_PROBE_TIMEOUT \in Nat
      /\ DAEMON_HEALTH_POLL_INTERVAL \in Nat
      /\ DAEMON_HEALTH_POLL_INTERVAL <= DAEMON_HEALTH_PROBE_TIMEOUT
      /\ DAEMON_HEALTH_PROBE_TIMEOUT <= DAEMON_STARTUP_TIMEOUT
  BY BridgeBounds DEF Typed, TypeOK
<1>3. waited' \in 0..DAEMON_STARTUP_TIMEOUT
  BY <1>1, <1>2 DEF Limit
<1>4. elapsed' \in 0..DAEMON_STARTUP_TIMEOUT
  <2>1. CASE pc = "probe"
    BY <1>1, <1>2, <2>1
  <2>2. CASE pc # "probe"
    <3>1. Limit <= (DAEMON_STARTUP_TIMEOUT - elapsed) + waited
      BY <1>2, <2>2 DEF Limit
    <3>2. Limit \in Int
      BY <1>2 DEF Limit
    <3> QED
      BY <1>1, <1>2, <2>2, <3>1, <3>2
  <2> QED
    BY <2>1, <2>2
<1>5. /\ pc' \in Calling /\ pc \in Calling /\ pc' # "ask" /\ ~proved' /\ proved' \in BOOLEAN
      /\ launches' \in 0..1 /\ (pc' \in {"probe", "launch"} => launches' = 0)
  BY <1>1 DEF Typed, Gated, Calling, Waiting
<1> QED
  BY <1>1, <1>3, <1>4, <1>5 DEF Advances

LEMMA CallSteps ==
    ASSUME Typed, Gated, Proven \/ Refuted \/ Launch \/ Repeat \/ GiveUp \/ Ask \/ AskEnds
    PROVE  Advances \/ Fails
<1>0. /\ waited \in 0..DAEMON_STARTUP_TIMEOUT /\ elapsed \in 0..DAEMON_STARTUP_TIMEOUT
      /\ 0 \in 0..DAEMON_STARTUP_TIMEOUT /\ proved \in BOOLEAN /\ launches \in 0..1
  BY BridgeBounds DEF Typed, TypeOK
<1>1. CASE Proven
  <2>1. /\ pc \in {"probe", "poll"} /\ pc' = "ask" /\ proved' = TRUE /\ launches' = launches
        /\ waited' = 0 /\ elapsed' = elapsed
        /\ UNCHANGED <<client, wire, mode, current, initialized, answers, tokens>>
    BY <1>1 DEF Proven, GoOn, Healthy
  <2> QED
    BY <1>0, <2>1 DEF Advances, Calling, Waiting
<1>2. CASE Refuted
  <2>1. /\ pc \in {"probe", "poll"} /\ pc' = IF pc = "probe" THEN "launch" ELSE "sleep"
        /\ proved' = proved /\ launches' = launches /\ waited' = 0 /\ elapsed' = elapsed
        /\ UNCHANGED <<client, wire, mode, current, initialized, answers, tokens>>
    BY <1>2 DEF Refuted, GoOn
  <2>2. ~proved /\ (pc = "probe" => launches = 0)
    BY <2>1 DEF Gated
  <2> QED
    BY <1>0, <2>1, <2>2 DEF Advances, Calling, Waiting
<1>3. CASE Launch
  <2>1. pc = "launch" /\ ~proved /\ launches = 0
    BY <1>3 DEF Launch, Gated
  <2>2. CASE Fail("launch")
    BY <2>1, <2>2 DEF Fails, Calling
  <2>3. CASE launches' = launches + 1 /\ UNCHANGED proved /\ GoOn("poll")
    <3>1. /\ pc' = "poll" /\ proved' = proved /\ launches' = 1 /\ waited' = 0 /\ elapsed' = elapsed
          /\ UNCHANGED <<client, wire, mode, current, initialized, answers, tokens>>
      BY <2>1, <2>3 DEF GoOn
    <3> QED
      BY <1>0, <2>1, <3>1 DEF Advances, Calling, Waiting
  <2> QED
    BY <1>3, <2>2, <2>3 DEF Launch
<1>4. CASE Repeat
  <2>1. /\ pc = "sleep" /\ pc' = "poll" /\ proved' = proved /\ launches' = launches
        /\ waited' = 0 /\ elapsed' = elapsed
        /\ UNCHANGED <<client, wire, mode, current, initialized, answers, tokens>>
    BY <1>4 DEF Repeat, GoOn
  <2>2. ~proved
    BY <2>1 DEF Gated
  <2> QED
    BY <1>0, <2>1, <2>2 DEF Advances, Calling, Waiting
<1>5. CASE GiveUp
  BY <1>5 DEF GiveUp, Late, Fails, Calling, Waiting
<1>6. CASE Ask
  <2>1. /\ pc = "ask" /\ pc' = "answer" /\ tokens' = Append(tokens, [of |-> current, proved |-> proved])
        /\ proved' = proved /\ launches' = launches /\ waited' = waited /\ elapsed' = elapsed
        /\ UNCHANGED <<client, wire, mode, current, initialized, answers>>
    BY <1>6 DEF Ask, gate
  <2>2. proved = TRUE
    BY <1>0, <2>1 DEF Gated
  <2> QED
    BY <1>0, <2>1, <2>2 DEF Advances, Calling, Waiting
<1>7. CASE AskEnds
  BY <1>7 DEF AskEnds, Fails, Calling
<1> QED
  BY <1>1, <1>2, <1>3, <1>4, <1>5, <1>6, <1>7

LEMMA StepKinds ==
    ASSUME Inductive, [Next]_vars
    PROVE  Writes \/ Read \/ Ends \/ Handle \/ Advances \/ Fails \/ Idles
<1>0. Typed /\ Framed /\ InOrder /\ Reading /\ Gated
  BY DEF Inductive
<1>1. CASE UNCHANGED vars
  BY <1>1 DEF vars, Idles, client
<1>2. CASE Peer
  <2>1. CASE Close
    BY <2>1 DEF Close, Idles
  <2>2. CASE \E to \in Listeners : Change(to)
    BY <2>2 DEF Change, Idles, client
  <2> QED
    BY <1>2, <2>1, <2>2 DEF Peer, Writes
<1>3. CASE Serve
  <2>1. CASE ReadLine \/ ReadHeader \/ ReadBody
    BY <1>0, <2>1, ReadSteps
  <2>2. CASE EndOfInput
    BY <2>2 DEF EndOfInput, Ends
  <2>3. CASE Proven \/ Refuted \/ Launch \/ Repeat \/ GiveUp \/ Ask \/ AskEnds
    BY <1>0, <2>3, CallSteps
  <2> QED
    BY <1>3, <2>1, <2>2, <2>3 DEF Serve
<1>4. CASE OutputFails
  BY <1>4 DEF OutputFails, Ends
<1>5. CASE Tick
  BY <1>0, <1>5, TimePasses
<1> QED
  BY <1>1, <1>2, <1>3, <1>4, <1>5 DEF Next

-----------------------------------------------------------------------------
\* A write adds one fr at the end of those sent.
Sends(m, method, asks) ==
    /\ sent' \in Seq(Frames) /\ Len(sent') = Len(sent) + 1
    /\ \A i \in 1..Len(sent) : sent'[i] = sent[i]
    /\ sent'[Len(sent) + 1] = [mode |-> m, method |-> method, asks |-> asks]
    /\ UNCHANGED <<closed, reader, initialized, gate, answers, world, tokens>>

LEMMA Sending ==
    ASSUME Typed, NEW m \in Modes, NEW method \in Methods, NEW asks \in BOOLEAN,
           NEW b \in 0..MaxPadding, NEW h \in 0..MaxPadding, Write(m, method, asks, b, h)
    PROVE  Sends(m, method, asks)
<1>1. PICK fr : fr = [mode |-> m, method |-> method, asks |-> asks]
  OBVIOUS
<1>2. fr \in Frames
  BY <1>1 DEF Frames
<1>3. sent \in Seq(Frames) /\ sent' = Append(sent, fr)
  BY <1>1 DEF Write, Typed, TypeOK, Frames
<1>4. /\ sent' \in Seq(Frames) /\ Len(sent') = Len(sent) + 1
      /\ \A i \in 1..Len(sent) : sent'[i] = sent[i]
      /\ sent'[Len(sent) + 1] = fr
  BY <1>2, <1>3
<1> QED
  BY <1>1, <1>4 DEF Write, Sends

\* An answer adds one at the end of those written.
LEMMA OneMoreAnswer ==
    ASSUME Typed, NEW result \in Results, Answered(result)
    PROVE  /\ answers' \in Seq(Answers) /\ Len(answers') = Len(answers) + 1
           /\ \A k \in 1..Len(answers) : answers'[k] = answers[k]
           /\ answers'[Len(answers) + 1] = [of |-> current, mode |-> mode, result |-> result]
<1>1. PICK line : line = [of |-> current, mode |-> mode, result |-> result]
  OBVIOUS
<1>2. line \in Answers
  BY <1>1 DEF Answers, Typed, TypeOK
<1>3. answers \in Seq(Answers) /\ answers' = Append(answers, line)
  BY <1>1 DEF Answered, Typed
<1>4. /\ answers' \in Seq(Answers) /\ Len(answers') = Len(answers) + 1
      /\ \A k \in 1..Len(answers) : answers'[k] = answers[k]
      /\ answers'[Len(answers) + 1] = line
  BY <1>2, <1>3
<1> QED
  BY <1>1, <1>4

\* What the handling of a fr does.
Replies ==
    /\ pc = "handle" /\ pc' \in {"line", "probe"}
    /\ proved' = FALSE /\ launches' = 0 /\ waited' = 0 /\ elapsed' = 0
    /\ UNCHANGED <<client, wire, mode, counted, current, world, tokens>>
    /\ initialized' = (initialized \/ (sent[current].asks /\ sent[current].method = "initialize"))
    /\ \/ pc' = "line" /\ answers' = answers /\ ~Owed(current)
       \/ /\ pc' = "probe" /\ answers' = answers
          /\ sent[current].method = "call" /\ sent[current].asks /\ initialized
       \/ /\ pc' = "line" /\ Owed(current)
          /\ \E result \in Results :
                /\ Answered(result)
                /\ (result \in {"ok", "result", "launch", "late", "error"}
                    /\ sent[current].method \notin {"initialize", "ping"}) => initialized

LEMMA ReplyCases ==
    ASSUME NEW fr \in Frames, initialized \in BOOLEAN
    PROVE  \/ Reply(fr) = "none" /\ ~fr.asks /\ fr.method \notin {"garbage", "shapeless"}
           \/ Reply(fr) = "invalid" /\ fr.method \in {"garbage", "shapeless"}
           \/ Reply(fr) = "gate" /\ fr.asks /\ fr.method = "call" /\ initialized
           \/ /\ fr.asks /\ Reply(fr) \in {"ok", "params", "uninitialized", "unknown"}
              /\ Reply(fr) = "ok" => fr.method \in {"initialize", "ping"} \/ initialized
<1>1. fr.method \in KnownMethods /\ fr.asks \in BOOLEAN
  BY MethodsKnown DEF Frames
<1>2. CASE fr.method \in {"garbage", "shapeless"}
  <2>1. Reply(fr) = "invalid"
    BY <1>1, <1>2 DEF Reply
  <2> QED
    BY <1>2, <2>1
<1>3. CASE fr.method \notin {"garbage", "shapeless"} /\ ~fr.asks
  <2>1. Reply(fr) = "none"
    BY <1>1, <1>3 DEF Reply
  <2> QED
    BY <1>3, <2>1
<1>4. CASE fr.method = "initialize" /\ fr.asks
  BY <1>4 DEF Reply
<1>a. CASE fr.method = "badinit" /\ fr.asks
  BY <1>a DEF Reply
<1>b. CASE fr.method = "ping" /\ fr.asks
  BY <1>b DEF Reply
<1>5. CASE /\ fr.method \notin {"garbage", "shapeless", "initialize", "badinit", "ping"}
           /\ fr.asks /\ ~initialized
  <2>1. Reply(fr) = "uninitialized"
    BY <1>1, <1>5 DEF Reply
  <2> QED
    BY <1>5, <2>1
<1>6. CASE fr.method = "list" /\ fr.asks /\ initialized
  BY <1>6 DEF Reply
<1>7. CASE fr.method = "unknown" /\ fr.asks /\ initialized
  BY <1>7 DEF Reply
<1>c. CASE fr.method = "badcall" /\ fr.asks /\ initialized
  BY <1>c DEF Reply
<1>8. CASE fr.method = "call" /\ fr.asks /\ initialized
  BY <1>8 DEF Reply
<1> QED
  BY <1>1, <1>2, <1>3, <1>4, <1>5, <1>6, <1>7, <1>8, <1>a, <1>b, <1>c DEF KnownMethods

LEMMA Handling ==
    ASSUME Typed, Reading, Handle
    PROVE  Replies /\ current \in 1..Len(sent)
<1>1. current \in 1..Len(sent) /\ sent \in Seq(Frames)
  BY DEF Handle, Reading, Underway, Typed, TypeOK, Frames
<1>2. sent[current] \in Frames
  BY <1>1
<1>3. /\ sent[current].asks \in BOOLEAN /\ sent[current].method \in KnownMethods
      /\ initialized \in BOOLEAN
  BY <1>2, MethodsKnown DEF Frames, Typed, TypeOK
<1>a. \/ /\ Reply(sent[current]) = "none" /\ ~sent[current].asks
         /\ sent[current].method \notin {"garbage", "shapeless"}
      \/ Reply(sent[current]) = "invalid" /\ sent[current].method \in {"garbage", "shapeless"}
      \/ /\ Reply(sent[current]) = "gate" /\ sent[current].asks
         /\ sent[current].method = "call" /\ initialized
      \/ /\ sent[current].asks
         /\ Reply(sent[current]) \in {"ok", "params", "uninitialized", "unknown"}
         /\ Reply(sent[current]) = "ok" =>
               sent[current].method \in {"initialize", "ping"} \/ initialized
  BY <1>2, <1>3, ReplyCases
<1>4. Reply(sent[current]) = "none" => ~Owed(current)
  BY <1>a DEF Owed
<1>5. Reply(sent[current]) = "gate" =>
         sent[current].method = "call" /\ sent[current].asks /\ initialized
  BY <1>a
<1>6. ASSUME Reply(sent[current]) \notin {"none", "gate"}
      PROVE  /\ Owed(current) /\ Reply(sent[current]) \in Results
             /\ (Reply(sent[current]) \in {"ok", "result", "launch", "late", "error"}
                 /\ sent[current].method \notin {"initialize", "ping"}) => initialized
  BY <1>a, <1>6 DEF Owed, Results
<1>7. CASE Reply(sent[current]) = "none"
  <2>1. pc' = "line" /\ answers' = answers
    BY <1>7 DEF Handle
  <2> QED
    BY <1>1, <1>4, <1>7, <2>1 DEF Handle, Replies
<1>8. CASE Reply(sent[current]) = "gate"
  <2>1. pc' = "probe" /\ answers' = answers
    BY <1>8 DEF Handle
  <2> QED
    BY <1>1, <1>5, <1>8, <2>1 DEF Handle, Replies
<1>9. CASE Reply(sent[current]) \notin {"none", "gate"}
  <2>1. pc' = "line" /\ Answered(Reply(sent[current]))
    BY <1>9 DEF Handle
  <2> QED
    BY <1>1, <1>6, <1>9, <2>1 DEF Handle, Replies
<1> QED
  BY <1>7, <1>8, <1>9

-----------------------------------------------------------------------------
LEMMA TypedKept ==
    ASSUME Inductive, [Next]_vars
    PROVE  Typed'
<1>0. /\ Typed /\ Reading /\ Gated
      /\ sent \in Seq(Frames) /\ wire \in Seq(Lines) /\ answers \in Seq(Answers)
      /\ current \in 0..Len(sent) /\ Len(sent) \in Nat
      /\ 0 \in 0..DAEMON_STARTUP_TIMEOUT
  BY BridgeBounds DEF Inductive, Typed, TypeOK, Frames
<1>1. CASE Writes
  <2>1. PICK m \in Modes, method \in Methods, asks \in BOOLEAN, b, h \in 0..MaxPadding :
           Write(m, method, asks, b, h)
    BY <1>1 DEF Writes
  <2>2. Sends(m, method, asks) /\ wire' \in Seq(Lines)
    BY <1>0, <2>1, Sending, WrittenLines
  <2>3. current' \in 0..Len(sent')
    BY <1>0, <2>2 DEF Sends, reader
  <2> QED
    BY <1>0, <2>2, <2>3 DEF Sends, Typed, TypeOK, Frames, reader, gate
<1>2. CASE Read
  <2>1. Tail(wire) \in Seq(Lines)
    BY <1>0, <1>2 DEF Read
  <2>2. /\ pc' \in {"line", "header", "body", "ended", "handle"}
        /\ current' \in 0..Len(sent) /\ mode' \in Modes
    <3>1. CASE Passes
      BY <1>0, <3>1 DEF Passes
    <3>2. CASE Handles
      <4>1. sent[current + 1] \in Frames /\ current + 1 \in 0..Len(sent)
        BY <1>0, <3>2 DEF Handles
      <4> QED
        BY <3>2, <4>1 DEF Handles, Frames
    <3> QED
      BY <1>2, <3>1, <3>2 DEF Read
  <2> QED
    BY <1>0, <1>2, <2>1, <2>2 DEF Read, Typed, TypeOK, client, gate
<1>3. CASE Ends
  BY <1>0, <1>3 DEF Ends, Typed, TypeOK, client, gate
<1>4. CASE Handle
  <2>1. Replies
    BY <1>0, <1>4, Handling
  <2>2. answers' \in Seq(Answers)
    BY <1>0, <2>1, OneMoreAnswer DEF Replies
  <2>3. initialized' \in BOOLEAN
    BY <2>1 DEF Replies
  <2>4. pc' \in Waiting \cup {"line"}
    BY <2>1 DEF Replies, Waiting
  <2>5. /\ proved' = FALSE /\ launches' = 0 /\ waited' = 0 /\ elapsed' = 0
        /\ sent' = sent /\ closed' = closed /\ wire' = wire /\ mode' = mode
        /\ current' = current /\ tokens' = tokens
    BY <2>1 DEF Replies, client
  <2>6. TypeOK'
    BY <1>0, <2>3, <2>4, <2>5 DEF Typed, TypeOK
  <2>7. closed' \in BOOLEAN /\ mode' \in Modes /\ tokens' \in Seq([of : Nat, proved : BOOLEAN])
    BY <1>0, <2>5 DEF Typed
  <2>8. wire' \in Seq(Lines) /\ launches' \in 0..1
    BY <1>0, <2>5
  <2>9. proved' \in BOOLEAN
    BY <2>5, Zenon
  <2> QED
    BY <2>2, <2>6, <2>7, <2>8, <2>9 DEF Typed
<1>5. CASE Advances
  <2>1. tokens' \in Seq([of : Nat, proved : BOOLEAN])
    <3>1. PICK token : token = [of |-> current, proved |-> TRUE]
      OBVIOUS
    <3>2. token \in [of : Nat, proved : BOOLEAN]
      BY <1>0, <3>1
    <3>3. tokens \in Seq([of : Nat, proved : BOOLEAN])
      BY <1>0 DEF Typed
    <3>4. Append(tokens, token) \in Seq([of : Nat, proved : BOOLEAN])
      BY <3>2, <3>3
    <3> QED
      BY <1>5, <3>1, <3>3, <3>4 DEF Advances
  <2> QED
    BY <1>0, <1>5, <2>1 DEF Advances, Typed, TypeOK, client, Calling
<1>6. CASE Fails
  <2>1. PICK result \in {"launch", "late", "result", "error"} : Fail(result)
    BY <1>6 DEF Fails
  <2>2. answers' \in Seq(Answers)
    BY <1>0, <2>1, OneMoreAnswer DEF Fail, Results
  <2> QED
    BY <1>0, <2>1, <2>2 DEF Fail, Typed, TypeOK, client
<1>7. CASE Idles
  BY <1>0, <1>7 DEF Idles, Typed, TypeOK, reader, gate
<1> QED
  BY <1>1, <1>2, <1>3, <1>4, <1>5, <1>6, <1>7, StepKinds

\* What the handled frame and the reading of the next need.
LEMMA ReadingKept ==
    ASSUME Inductive, [Next]_vars
    PROVE  Reading'
<1>0. Typed /\ Reading
  BY DEF Inductive
<1>1. CASE Writes
  <2>1. PICK m \in Modes, method \in Methods, asks \in BOOLEAN, b, h \in 0..MaxPadding :
           Write(m, method, asks, b, h)
    BY <1>1 DEF Writes
  <2>2. Sends(m, method, asks)
    BY <1>0, <2>1, Sending
  <2>3. current >= 1 => sent'[current] = sent[current]
    <3>1. current \in 0..Len(sent) /\ Len(sent) \in Nat
      BY <1>0 DEF Typed, TypeOK
    <3>2. \A i \in 1..Len(sent) : sent'[i] = sent[i]
      BY <2>2 DEF Sends
    <3> QED
      BY <3>1, <3>2
  <2>4. pc' = pc /\ mode' = mode /\ current' = current /\ (Underway' <=> Underway)
    BY <2>2 DEF Sends, reader, Underway
  <2> QED
    BY <1>0, <2>3, <2>4 DEF Reading
<1>2. CASE Read
  <2>1. CASE Passes
    BY <2>1 DEF Passes, Reading, Underway, Waiting
  <2>2. CASE Handles
    <3>1. current' >= 1 /\ sent' = sent
      BY <1>0, <1>2, <2>2 DEF Handles, Typed, TypeOK, Read, client
    <3> QED
      BY <2>2, <3>1 DEF Handles, Reading
  <2> QED
    BY <1>2, <2>1, <2>2 DEF Read
<1>3. CASE Ends
  BY <1>3 DEF Ends, Reading, Underway, Waiting
<1>4. CASE Handle
  <2>1. Replies
    BY <1>0, <1>4, Handling
  <2> QED
    BY <1>0, <2>1 DEF Replies, Reading, Underway, client
<1>5. CASE Advances
  BY <1>0, <1>5 DEF Advances, Reading, Underway, Calling, client, Waiting
<1>6. CASE Fails
  BY <1>6 DEF Fails, Fail, Reading, Underway, Waiting
<1>7. CASE Idles
  BY <1>0, <1>7 DEF Idles, Reading, Underway, reader
<1> QED
  BY <1>1, <1>2, <1>3, <1>4, <1>5, <1>6, <1>7, StepKinds

-----------------------------------------------------------------------------
\* The token.
LEMMA GatedKept ==
    ASSUME Inductive, [Next]_vars
    PROVE  Gated'
<1>0. /\ Typed /\ Reading /\ Gated /\ current \in 0..Len(sent) /\ Len(sent) \in Nat
      /\ sent \in Seq(Frames)
  BY DEF Inductive, Typed, TypeOK, Frames
<1>a. pc \in Calling => Underway /\ current \in 1..Len(sent)
  BY <1>0 DEF Reading, Underway, Calling
<1>1. CASE Writes
  <2>1. PICK m \in Modes, method \in Methods, asks \in BOOLEAN, b, h \in 0..MaxPadding :
           Write(m, method, asks, b, h)
    BY <1>1 DEF Writes
  <2>2. Sends(m, method, asks)
    BY <1>0, <2>1, Sending
  <2>3. /\ pc' = pc /\ current' = current /\ initialized' = initialized /\ proved' = proved
        /\ launches' = launches /\ tokens' = tokens
    BY <2>2 DEF Sends, reader, gate
  <2>4. \A i \in 1..current : sent'[i] = sent[i]
    BY <1>0, <2>2 DEF Sends
  <2>5. pc \in Calling => sent'[current] = sent[current]
    BY <1>0, <1>a, <2>4
  <2>6. ASSUME NEW k \in DOMAIN tokens
        PROVE  /\ tokens[k].proved /\ tokens[k].of \in 1..current
               /\ sent'[tokens[k].of].method = "call"
    BY <1>0, <2>4, <2>6 DEF Gated
  <2> QED
    BY <1>0, <2>3, <2>5, <2>6 DEF Gated
<1>2. CASE Read
  <2>1. /\ pc' \notin Calling /\ sent' = sent /\ tokens' = tokens
        /\ current' \in {current, current + 1}
    BY <1>2 DEF Read, Passes, Handles, Calling, Waiting, client
  <2>2. 1..current \subseteq 1..current'
    BY <1>0, <2>1
  <2> QED
    BY <1>0, <2>1, <2>2 DEF Gated, Calling, Waiting
<1>3. CASE Ends
  BY <1>0, <1>3 DEF Ends, Gated, Calling, Waiting, client
<1>4. CASE Handle
  <2>1. Replies
    BY <1>0, <1>4, Handling
  <2>2. /\ sent' = sent /\ current' = current /\ tokens' = tokens /\ ~proved' /\ launches' = 0
        /\ pc' \in {"line", "probe"}
    BY <2>1 DEF Replies, client
  <2>3. pc' = "probe" =>
           sent[current].method = "call" /\ sent[current].asks /\ initialized'
    BY <2>1 DEF Replies
  <2> QED
    BY <1>0, <2>2, <2>3 DEF Gated, Calling, Waiting
<1>5. CASE Advances
  <2>1. /\ sent' = sent /\ current' = current /\ initialized' = initialized /\ pc \in Calling
        /\ pc' \in {"probe", "launch", "poll", "sleep"} => ~proved'
    BY <1>5 DEF Advances, client
  <2>2. ASSUME NEW k \in DOMAIN tokens'
        PROVE  /\ tokens'[k].proved /\ tokens'[k].of \in 1..current
               /\ sent[tokens'[k].of].method = "call"
    <3>1. CASE tokens' = tokens
      BY <1>0, <2>2, <3>1 DEF Gated
    <3>2. CASE tokens' = Append(tokens, [of |-> current, proved |-> TRUE])
      <4>1. PICK token : token = [of |-> current, proved |-> TRUE]
        OBVIOUS
      <4>2. tokens \in Seq([of : Nat, proved : BOOLEAN])
        BY <1>0 DEF Typed
      <4>3. tokens' = Append(tokens, token)
        BY <3>2, <4>1
      <4>4. (k \in DOMAIN tokens /\ tokens'[k] = tokens[k]) \/ tokens'[k] = token
        BY <2>2, <4>2, <4>3
      <4>5. CASE k \in DOMAIN tokens /\ tokens'[k] = tokens[k]
        BY <1>0, <4>5 DEF Gated
      <4>6. CASE tokens'[k] = token
        <5>1. token.proved /\ token.of = current
          BY <4>1
        <5> QED
          BY <1>0, <1>a, <2>1, <4>6, <5>1 DEF Gated
      <4> QED
        BY <4>4, <4>5, <4>6
    <3> QED
      BY <1>5, <3>1, <3>2 DEF Advances
  <2>3. /\ pc' \in {"probe", "launch", "poll", "sleep"} => ~proved'
        /\ pc' = "ask" => proved'
        /\ pc' \in {"probe", "launch"} => launches' = 0
    BY <1>5 DEF Advances
  <2> QED
    BY <1>0, <2>1, <2>2, <2>3 DEF Gated
<1>6. CASE Fails
  BY <1>0, <1>6 DEF Fails, Fail, Gated, Calling, Waiting, client
<1>7. CASE Idles
  BY <1>0, <1>7 DEF Idles, Gated, reader, gate
<1> QED
  BY <1>1, <1>2, <1>3, <1>4, <1>5, <1>6, <1>7, StepKinds

-----------------------------------------------------------------------------
\* The answers: what one more answer, to the frame under way, leaves.
Saying(result) ==
    /\ Answered(result) /\ Underway /\ pc' = "line" /\ Owed(current)
    /\ sent' = sent /\ current' = current /\ mode' = mode

LEMMA AnsweringTold ==
    ASSUME Typed, Reading, Answering, NEW result \in Results, Saying(result)
    PROVE  Answering'
<1>0. /\ current \in 1..Len(sent) /\ Len(sent) \in Nat /\ mode = sent[current].mode
      /\ answers \in Seq(Answers) /\ Len(answers) \in Nat
  BY DEF Saying, Reading, Typed, TypeOK
<1>1. PICK n \in Nat : n = Len(answers) /\ DOMAIN answers = 1..n
  BY <1>0
<1>2. /\ answers' \in Seq(Answers) /\ Len(answers') = n + 1
      /\ \A k \in 1..n : answers'[k] = answers[k]
      /\ answers'[n + 1] = [of |-> current, mode |-> mode, result |-> result]
  BY <1>1, OneMoreAnswer DEF Saying
<1>3. DOMAIN answers' = 1..(n + 1) /\ n + 1 \in 1..(n + 1)
  BY <1>1, <1>2
<1>4. answers'[n + 1].of = current /\ answers'[n + 1].mode = mode
  BY <1>2
<1>5. /\ sent' = sent /\ current' = current /\ ~Underway' /\ Handled' = 1..current
      /\ Handled = 1..(current - 1) /\ Owed(current) /\ Underway
      /\ \A i : Owed(i)' <=> Owed(i)
  BY DEF Saying, Underway, Handled, Owed, Waiting
<1>6. ASSUME NEW k \in 1..(n + 1)
      PROVE  /\ answers'[k].of \in 1..current /\ Owed(answers'[k].of)
             /\ answers'[k].mode = sent[answers'[k].of].mode
             /\ k # n + 1 => k \in 1..n /\ answers'[k].of < current
  <2>1. CASE k = n + 1
    BY <1>0, <1>4, <1>5, <2>1
  <2>2. CASE k # n + 1
    <3>1. k \in 1..n
      BY <2>2
    <3>2. answers'[k] = answers[k]
      BY <1>2, <3>1
    <3> QED
      BY <1>1, <1>5, <3>1, <3>2 DEF Answering
  <2> QED
    BY <2>1, <2>2
<1>7. ASSUME NEW j \in 1..(n + 1), NEW k \in 1..(n + 1), j < k
      PROVE  answers'[j].of < answers'[k].of
  <2>1. CASE k = n + 1
    BY <1>4, <1>6, <1>7, <2>1
  <2>2. CASE k # n + 1
    <3>1. j \in 1..n /\ k \in 1..n
      BY <1>7, <2>2
    <3>2. answers'[j] = answers[j] /\ answers'[k] = answers[k]
      BY <1>2, <3>1
    <3> QED
      BY <1>1, <1>7, <3>1, <3>2 DEF Answering
  <2> QED
    BY <2>1, <2>2
<1>8. ASSUME NEW i \in 1..current, Owed(i)
      PROVE  \E k \in 1..(n + 1) : answers'[k].of = i
  <2>1. CASE i = current
    BY <1>3, <1>4, <2>1
  <2>2. CASE i # current
    <3>1. i \in 1..(current - 1)
      BY <1>0, <2>2
    <3>2. PICK k \in 1..n : answers[k].of = i
      BY <1>1, <1>5, <1>8, <3>1 DEF Answering
    <3>3. k \in 1..(n + 1) /\ answers'[k] = answers[k]
      BY <1>2
    <3> QED
      BY <3>2, <3>3
  <2> QED
    BY <2>1, <2>2
<1> QED
  BY <1>3, <1>5, <1>6, <1>7, <1>8 DEF Answering

LEMMA AnsweringKept ==
    ASSUME Inductive, [Next]_vars
    PROVE  Answering'
<1>0. /\ Typed /\ Reading /\ Gated /\ Answering /\ current \in 0..Len(sent) /\ Len(sent) \in Nat
      /\ sent \in Seq(Frames)
  BY DEF Inductive, Typed, TypeOK, Frames
<1>a. Handled \in {1..(current - 1), 1..current}
  BY DEF Handled
<1>1. CASE Writes
  <2>1. PICK m \in Modes, method \in Methods, asks \in BOOLEAN, b, h \in 0..MaxPadding :
           Write(m, method, asks, b, h)
    BY <1>1 DEF Writes
  <2>2. Sends(m, method, asks)
    BY <1>0, <2>1, Sending
  <2>3. /\ pc' = pc /\ current' = current /\ closed' = closed /\ answers' = answers
        /\ (Underway' <=> Underway) /\ Handled' = Handled
    BY <2>2 DEF Sends, reader, Underway, Handled
  <2>4. \A i \in 1..current : sent'[i] = sent[i] /\ (Owed(i)' <=> Owed(i))
    BY <1>0, <2>2 DEF Sends, Owed
  <2>5. \A i \in Handled : i \in 1..current
    BY <1>0, <1>a
  <2>6. \A k \in DOMAIN answers : answers[k].of \in 1..current
    BY <1>0 DEF Answering
  <2>7. \A k \in DOMAIN answers :
           /\ Owed(answers[k].of)' /\ answers[k].mode = sent'[answers[k].of].mode
    BY <1>0, <2>3, <2>4, <2>6 DEF Answering, Owed
  <2>8. \A i \in Handled : Owed(i)' => \E k \in DOMAIN answers : answers[k].of = i
    BY <1>0, <2>4, <2>5 DEF Answering
  <2> QED
    BY <1>0, <2>3, <2>7, <2>8 DEF Answering, Owed
<1>2. CASE Read
  <2>1. /\ sent' = sent /\ answers' = answers /\ ~Underway /\ Handled = 1..current
        /\ current' \in {current, current + 1} /\ (Underway' => current' = current + 1)
    BY <1>2 DEF Read, Passes, Handles, Underway, Waiting, client, Handled
  <2>2. \A i \in Handled' : i \in 1..current
    <3>1. Handled' \in {1..(current' - 1), 1..current'}
      BY DEF Handled
    <3>2. CASE current' = current
      BY <1>0, <3>1, <3>2
    <3>3. CASE Handles
      <4>1. Underway' /\ current' = current + 1
        BY <3>3 DEF Handles, Underway
      <4>2. Handled' = 1..(current' - 1)
        BY <4>1 DEF Handled
      <4> QED
        BY <1>0, <4>1, <4>2
    <3> QED
      BY <1>2, <3>2, <3>3 DEF Read, Passes
  <2>3. ASSUME NEW k \in DOMAIN answers
        PROVE  answers[k].of \in 1..current' /\ (Underway' => answers[k].of < current')
    <3>1. answers[k].of \in 1..current
      BY <1>0 DEF Answering
    <3> QED
      BY <1>0, <2>1, <3>1
  <2> QED
    BY <1>0, <2>1, <2>2, <2>3 DEF Answering, Owed
<1>3. CASE Ends
  <2>1. /\ sent' = sent /\ answers' = answers /\ current' = current /\ ~Underway'
    BY <1>3 DEF Ends, Underway, Waiting, client
  <2>2. \A i \in Handled' : i \in Handled
    BY <1>0, <1>3 DEF Ends, Handled, client
  <2> QED
    BY <1>0, <2>1, <2>2 DEF Answering, Owed
<1>4. CASE Handle
  <2>1. Replies
    BY <1>0, <1>4, Handling
  <2>2. /\ sent' = sent /\ current' = current /\ mode' = mode /\ closed' = closed
        /\ Underway /\ Handled = 1..(current - 1)
    BY <2>1 DEF Replies, client, Underway, Handled
  <2>3. CASE pc' = "line" /\ answers' = answers /\ ~Owed(current)
    <3>1. ~Underway' /\ Handled' = 1..current
      BY <2>2, <2>3 DEF Underway, Handled, Waiting
    <3>2. \A i \in 1..current : Owed(i) => i \in 1..(current - 1)
      BY <1>0, <2>3
    <3> QED
      BY <1>0, <2>2, <2>3, <3>1, <3>2 DEF Answering, Owed
  <2>4. CASE pc' = "probe" /\ answers' = answers
    <3>1. Underway' /\ Handled' = 1..(current - 1)
      BY <2>2, <2>4 DEF Underway, Handled, Waiting
    <3> QED
      BY <1>0, <2>2, <2>4, <3>1 DEF Answering, Owed
  <2>5. CASE pc' = "line" /\ Owed(current) /\ \E result \in Results : Answered(result)
    <3>1. PICK result \in Results : Answered(result)
      BY <2>5
    <3>2. Saying(result)
      BY <2>2, <2>5, <3>1 DEF Saying
    <3> QED
      BY <1>0, <3>1, <3>2, AnsweringTold
  <2> QED
    BY <2>1, <2>3, <2>4, <2>5 DEF Replies
<1>5. CASE Advances
  <2>1. /\ sent' = sent /\ answers' = answers /\ current' = current /\ Underway' /\ Underway
    BY <1>5 DEF Advances, Underway, Calling, client
  <2>2. Handled' = Handled
    BY <2>1 DEF Handled
  <2> QED
    BY <1>0, <2>1, <2>2 DEF Answering, Owed
<1>6. CASE Fails
  <2>1. PICK result \in {"launch", "late", "result", "error"} : Fail(result)
    BY <1>6 DEF Fails
  <2>2. pc \in Calling /\ Underway /\ Owed(current) /\ result \in Results
    BY <1>0, <1>6, <2>1 DEF Fails, Gated, Underway, Calling, Owed, Results
  <2>3. Saying(result)
    BY <2>1, <2>2 DEF Fail, Saying, client
  <2> QED
    BY <1>0, <2>2, <2>3, AnsweringTold
<1>7. CASE Idles
  <2>1. /\ sent' = sent /\ answers' = answers /\ current' = current /\ pc' = pc
        /\ (Underway' <=> Underway)
    BY <1>7 DEF Idles, Underway, reader
  <2>2. \A i \in Handled' : i \in Handled
    <3>1. CASE Underway \/ (pc = "ended" /\ closed)
      <4>1. Underway' \/ (pc' = "ended" /\ closed')
        <5>1. closed => closed'
          BY <1>7, Zenon DEF Idles
        <5> QED
          BY <2>1, <3>1, <5>1
      <4> QED
        BY <2>1, <3>1, <4>1 DEF Handled
    <3>2. CASE ~(Underway \/ (pc = "ended" /\ closed))
      <4>1. Handled = 1..current /\ Handled' \in {1..(current - 1), 1..current}
        BY <2>1, <3>2 DEF Handled
      <4> QED
        BY <1>0, <4>1
    <3> QED
      BY <3>1, <3>2
  <2> QED
    BY <1>0, <2>1, <2>2 DEF Answering, Owed
<1> QED
  BY <1>1, <1>2, <1>3, <1>4, <1>5, <1>6, <1>7, StepKinds

-----------------------------------------------------------------------------
\* The session.
Successes == {"ok", "result", "launch", "late", "error"}
Grants(result) == result \in Successes /\ sent[current].method \notin {"initialize", "ping"}

LEMMA SessionTold ==
    ASSUME Typed, Session, NEW result \in Results, Answered(result), sent' = sent,
           Grants(result) => initialized,
           initialized' => initialized \/ sent[current].method = "initialize"
    PROVE  Session'
<1>0. answers \in Seq(Answers) /\ Len(answers) \in Nat
  BY DEF Typed
<1>1. PICK n \in Nat : n = Len(answers) /\ DOMAIN answers = 1..n
  BY <1>0
<1>2. /\ answers' \in Seq(Answers) /\ Len(answers') = n + 1
      /\ \A k \in 1..n : answers'[k] = answers[k]
      /\ answers'[n + 1] = [of |-> current, mode |-> mode, result |-> result]
  BY <1>1, OneMoreAnswer
<1>3. DOMAIN answers' = 1..(n + 1) /\ n + 1 \in 1..(n + 1)
  BY <1>1, <1>2
<1>4. answers'[n + 1].of = current /\ answers'[n + 1].result = result
  BY <1>2
<1>5. initialized' => \E j \in 1..(n + 1) : sent[answers'[j].of].method = "initialize"
  <2>1. CASE sent[current].method = "initialize"
    BY <1>3, <1>4, <2>1
  <2>2. ASSUME initialized PROVE \E j \in 1..(n + 1) : sent[answers'[j].of].method = "initialize"
    <3>1. PICK j \in 1..n : sent[answers[j].of].method = "initialize"
      BY <1>1, <2>2 DEF Session
    <3>2. j \in 1..(n + 1) /\ answers'[j] = answers[j]
      BY <1>2
    <3> QED
      BY <3>1, <3>2
  <2> QED
    BY <2>1, <2>2
<1>6. ASSUME NEW k \in 1..(n + 1), answers'[k].result \in Successes,
             sent[answers'[k].of].method \notin {"initialize", "ping"}
      PROVE  \E j \in 1..(k - 1) : sent[answers'[j].of].method = "initialize"
  <2>1. CASE k = n + 1
    <3>1. initialized
      BY <1>4, <1>6, <2>1 DEF Grants
    <3>2. PICK j \in 1..n : sent[answers[j].of].method = "initialize"
      BY <1>1, <3>1 DEF Session
    <3>3. j \in 1..(k - 1) /\ answers'[j] = answers[j]
      BY <1>2, <2>1
    <3> QED
      BY <3>2, <3>3
  <2>2. CASE k # n + 1
    <3>1. k \in 1..n /\ answers'[k] = answers[k]
      BY <1>2, <2>2
    <3>2. PICK j \in 1..(k - 1) : sent[answers[j].of].method = "initialize"
      BY <1>1, <1>6, <3>1 DEF Session, InitializedFirst, Successes
    <3>3. j \in 1..n /\ answers'[j] = answers[j]
      BY <1>2, <3>1
    <3> QED
      BY <3>2, <3>3
  <2> QED
    BY <2>1, <2>2
<1> QED
  BY <1>3, <1>5, <1>6 DEF Session, InitializedFirst, Successes

LEMMA SessionKept ==
    ASSUME Inductive, [Next]_vars
    PROVE  Session'
<1>0. /\ Typed /\ Reading /\ Gated /\ Answering /\ Session /\ current \in 0..Len(sent)
      /\ Len(sent) \in Nat
  BY DEF Inductive, Typed, TypeOK
<1>1. CASE Writes
  <2>1. PICK m \in Modes, method \in Methods, asks \in BOOLEAN, b, h \in 0..MaxPadding :
           Write(m, method, asks, b, h)
    BY <1>1 DEF Writes
  <2>2. Sends(m, method, asks)
    BY <1>0, <2>1, Sending
  <2>3. initialized' = initialized /\ answers' = answers
    BY <2>2 DEF Sends
  <2>4. answers \in Seq(Answers)
    BY <1>0 DEF Typed
  <2>5. \A k \in DOMAIN answers : sent'[answers[k].of] = sent[answers[k].of]
    BY <1>0, <2>2 DEF Answering, Sends
  <2>6. \A k \in DOMAIN answers : \A j \in 1..(k - 1) : j \in DOMAIN answers
    BY <2>4
  <2> QED
    BY <1>0, <2>3, <2>5, <2>6 DEF Session, InitializedFirst
<1>2. CASE sent' = sent /\ initialized' = initialized /\ answers' = answers
  BY <1>0, <1>2 DEF Session, InitializedFirst
<1>3. CASE Handle
  <2>1. Replies
    BY <1>0, <1>3, Handling
  <2>2. /\ sent' = sent
        /\ initialized' = (initialized \/ (sent[current].asks /\ sent[current].method = "initialize"))
    BY <2>1 DEF Replies, client
  <2>3. CASE answers' = answers /\ (~Owed(current) \/ sent[current].method = "call")
    <3>1. initialized' => initialized
      BY <2>2, <2>3 DEF Owed
    <3> QED
      BY <1>0, <2>2, <2>3, <3>1 DEF Session, InitializedFirst
  <2>4. ASSUME NEW result \in Results, Answered(result),
               (result \in {"ok", "result", "launch", "late", "error"}
                /\ sent[current].method \notin {"initialize", "ping"}) => initialized
        PROVE  Session'
    BY <1>0, <2>2, <2>4, SessionTold DEF Grants, Successes
  <2> QED
    BY <2>1, <2>3, <2>4 DEF Replies
<1>4. CASE Fails
  <2>1. PICK result \in {"launch", "late", "result", "error"} : Fail(result)
    BY <1>4 DEF Fails
  <2>2. initialized /\ result \in Results
    BY <1>0, <1>4, <2>1 DEF Fails, Gated, Results
  <2>3. Answered(result) /\ sent' = sent
    BY <2>1 DEF Fail, client
  <2> QED
    BY <1>0, <2>2, <2>3, SessionTold
<1>5. Read \/ Ends \/ Advances \/ Idles =>
         sent' = sent /\ initialized' = initialized /\ answers' = answers
  BY DEF Read, Ends, Advances, Idles, client
<1> QED
  BY <1>1, <1>2, <1>3, <1>4, <1>5, StepKinds

-----------------------------------------------------------------------------
\* The wire: what a read leaves of it.
LEMMA Shifted ==
    ASSUME Typed, Read
    PROVE  /\ wire' \in Seq(Lines) /\ Len(wire) >= 1 /\ Len(wire') = Len(wire) - 1
           /\ \A p \in 1..(Len(wire) - 1) : wire'[p] = wire[p + 1]
BY DEF Typed, Read

LEMMA InOrderRead ==
    ASSUME Typed, InOrder, Read
    PROVE  InOrder'
<1>0. current \in Nat /\ Len(sent) \in Nat /\ wire \in Seq(Lines) /\ sent' = sent
  BY DEF Typed, TypeOK, Read, client
<1>1. PICK n \in Nat : n = Len(wire) /\ n >= 1
  BY <1>0, Shifted
<1>2. Len(wire') = n - 1 /\ \A p \in 1..(n - 1) : wire'[p] = wire[p + 1]
  BY <1>1, Shifted
<1>3. \A p \in 1..(n - 1) : p + 1 \in 1..n /\ p + 1 # 1 /\ 1 < p + 1 /\ 1 \in 1..n
  BY <1>1
<1>4. \/ current' = current /\ wire[1].is # "text"
      \/ current' = current + 1 /\ wire[1].is = "text" /\ wire[1].of = current + 1
  BY DEF Read, Passes, Handles
<1>5. ASSUME NEW q \in 1..(n - 1), wire[q + 1].is = "text"
      PROVE  wire[q + 1].of \in (current' + 1)..Len(sent)
  <2>1. wire[q + 1].of \in (current + 1)..Len(sent)
    BY <1>1, <1>3, <1>5 DEF InOrder
  <2>2. CASE current' = current + 1 /\ wire[1].is = "text" /\ wire[1].of = current + 1
    <3>1. wire[1].of < wire[q + 1].of
      BY <1>1, <1>3, <1>5, <2>2 DEF InOrder
    <3> QED
      BY <1>0, <2>1, <2>2, <3>1
  <2> QED
    BY <1>4, <2>1, <2>2
<1>6. ASSUME NEW p \in 1..(n - 1), NEW q \in 1..(n - 1), wire[p + 1].is = "text",
             wire[q + 1].is = "text", p < q
      PROVE  wire[p + 1].of < wire[q + 1].of
  <2>1. p + 1 < q + 1
    BY <1>6
  <2> QED
    BY <1>1, <1>3, <1>6, <2>1 DEF InOrder
<1>7. ASSUME NEW i \in (current' + 1)..Len(sent)
      PROVE  \E p \in 1..(n - 1) : wire[p + 1].is = "text" /\ wire[p + 1].of = i
  <2>1. i \in (current + 1)..Len(sent) /\ (current' = current + 1 => i # current + 1)
    BY <1>0, <1>4
  <2>2. PICK q \in 1..n : wire[q].is = "text" /\ wire[q].of = i
    BY <1>1, <2>1 DEF InOrder
  <2>3. q # 1
    BY <1>4, <2>1, <2>2
  <2>4. q - 1 \in 1..(n - 1) /\ (q - 1) + 1 = q
    BY <1>1, <2>3
  <2> QED
    BY <2>2, <2>4
<1>8. \A p \in 1..(n - 1) : wire'[p].is = "text" => wire'[p].of \in (current' + 1)..Len(sent')
  BY <1>0, <1>2, <1>5
<1>9. \A p, q \in 1..(n - 1) :
         wire'[p].is = "text" /\ wire'[q].is = "text" /\ p < q => wire'[p].of < wire'[q].of
  BY <1>2, <1>6
<1>10. \A i \in (current' + 1)..Len(sent') :
          \E p \in 1..(n - 1) : wire'[p].is = "text" /\ wire'[p].of = i
  BY ZenonT(40), <1>0, <1>2, <1>7
<1> QED
  BY <1>2, <1>8, <1>9, <1>10 DEF InOrder

LEMMA FramedRead ==
    ASSUME Typed, InOrder, Framed, Read
    PROVE  Framed'
<1> SUFFICES ASSUME pc' # "ended"
             PROVE  /\ \A p \in 1..Len(wire') :
                          /\ wire'[p].is = "header" => Opens(p - 1)'
                          /\ wire'[p].is \in {"length", "text"} => ~Opens(p - 1)'
                          /\ Separates(p - 1)' => wire'[p].is = "text"
                          /\ wire'[p].is = "text" =>
                                (sent'[wire'[p].of].mode = "length" <=> Separates(p - 1)')
                    /\ ~Opens(Len(wire))' /\ ~Separates(Len(wire))'
  BY DEF Framed
<1>0. wire \in Seq(Lines) /\ sent' = sent /\ pc # "ended"
  BY DEF Typed, Read, client
<1>1. PICK n \in Nat : n = Len(wire) /\ n >= 1
  BY <1>0, Shifted
<1>2. Len(wire') = n - 1 /\ \A p \in 1..(n - 1) : wire'[p] = wire[p + 1]
  BY <1>1, Shifted
<1>3. Opens(0)' = Opens(1) /\ Separates(0)' = Separates(1)
  BY DEF Read
<1>4. ASSUME NEW p \in 1..(n - 1) PROVE Kind(p)' = Kind(p + 1)
  <2>1. p >= 1 /\ p + 1 >= 1
    OBVIOUS
  <2> QED
    BY <1>2, <2>1 DEF Kind
<1>5. ASSUME NEW p \in 0..(n - 1) PROVE Opens(p)' = Opens(p + 1)
  <2>1. CASE p = 0
    BY <1>3, <2>1
  <2>2. CASE p # 0
    <3>1. p \in 1..(n - 1)
      BY <2>2
    <3> QED
      BY <1>4, <3>1 DEF Opens
  <2> QED
    BY <2>1, <2>2
<1>6. ASSUME NEW p \in 0..(n - 1) PROVE Separates(p)' = Separates(p + 1)
  <2>1. CASE p = 0
    BY <1>3, <2>1
  <2>2. CASE p # 0
    <3>1. p \in 1..(n - 1) /\ p - 1 \in 0..(n - 1) /\ (p - 1) + 1 = p /\ (p + 1) - 1 = p
      BY <2>2
    <3>2. Kind(p)' = Kind(p + 1) /\ Opens(p - 1)' = Opens(p)
      BY <1>4, <1>5, <3>1
    <3> QED
      BY <3>1, <3>2 DEF Separates
  <2> QED
    BY <2>1, <2>2
<1>7. ASSUME NEW p \in 1..(n - 1)
      PROVE  /\ wire'[p].is = "header" => Opens(p - 1)'
             /\ wire'[p].is \in {"length", "text"} => ~Opens(p - 1)'
             /\ Separates(p - 1)' => wire'[p].is = "text"
             /\ wire'[p].is = "text" =>
                   (sent'[wire'[p].of].mode = "length" <=> Separates(p - 1)')
  <2>1. p - 1 \in 0..(n - 1) /\ (p - 1) + 1 = p /\ p + 1 \in 1..n /\ (p + 1) - 1 = p
    BY <1>1
  <2>2. Opens(p - 1)' = Opens(p) /\ Separates(p - 1)' = Separates(p) /\ wire'[p] = wire[p + 1]
    BY <1>2, <1>5, <1>6, <2>1
  <2>3. /\ wire[p + 1].is = "header" => Opens(p)
        /\ wire[p + 1].is \in {"length", "text"} => ~Opens(p)
        /\ Separates(p) => wire[p + 1].is = "text"
        /\ wire[p + 1].is = "text" => (sent[wire[p + 1].of].mode = "length" <=> Separates(p))
    BY <1>0, <1>1, <2>1 DEF Framed
  <2> QED
    BY <1>0, <2>2, <2>3
<1>8. ~Opens(n - 1)' /\ ~Separates(n - 1)'
  <2>1. n - 1 \in 0..(n - 1) /\ (n - 1) + 1 = n
    BY <1>1
  <2>2. ~Opens(n) /\ ~Separates(n)
    BY <1>0, <1>1 DEF Framed
  <2> QED
    BY <1>5, <1>6, <2>1, <2>2
<1>9. ~Opens(Len(wire))' /\ ~Separates(Len(wire))'
  BY <1>2, <1>8
<1> QED
  BY <1>2, <1>7, <1>9

-----------------------------------------------------------------------------
\* The wire: what a write adds to it.
LEMMA Roles ==
    ASSUME NEW m \in Modes, NEW b \in Nat, NEW h \in Nat, NEW i \in 1..Size(m, b, h)
    PROVE  /\ Role(m, b, h, i) = "text" <=> i = Size(m, b, h)
           /\ Role(m, b, h, i) \in {"length", "header"} <=>
                 m = "length" /\ b + 1 <= i /\ i <= b + h + 1
           /\ Role(m, b, h, i) = "length" => i = b + 1
           /\ Role(m, b, h, i) = "header" => i # b + 1
           /\ m = "length" => (Role(m, b, h, i) = "blank" <=> i <= b \/ i = b + h + 2)
           /\ m = "newline" => (Role(m, b, h, i) = "blank" <=> i <= b)
<1>1. CASE m = "newline"
  <2>1. i \in 1..(b + 1) /\ Size(m, b, h) = b + 1
    BY <1>1 DEF Size
  <2>2. CASE i <= b
    <3>1. Role(m, b, h, i) = "blank"
      BY <2>2 DEF Role
    <3> QED
      BY <1>1, <2>1, <2>2, <3>1
  <2>3. CASE i = b + 1
    <3>1. Role(m, b, h, i) = "text"
      BY <1>1, <2>3 DEF Role
    <3> QED
      BY <1>1, <2>1, <2>3, <3>1
  <2> QED
    BY <2>1, <2>2, <2>3
<1>2. CASE m = "length"
  <2>1. i \in 1..(b + h + 3) /\ Size(m, b, h) = b + h + 3
    BY <1>2 DEF Size
  <2>2. CASE i <= b
    <3>1. Role(m, b, h, i) = "blank"
      BY <2>2 DEF Role
    <3> QED
      BY <1>2, <2>1, <2>2, <3>1
  <2>3. CASE i = b + h + 3
    <3>1. Role(m, b, h, i) = "text"
      BY <1>2, <2>3 DEF Role
    <3> QED
      BY <1>2, <2>1, <2>3, <3>1
  <2>4. CASE i = b + 1
    <3>1. Role(m, b, h, i) = "length"
      BY <1>2, <2>4 DEF Role
    <3> QED
      BY <1>2, <2>1, <2>4, <3>1
  <2>5. CASE i = b + h + 2
    <3>1. Role(m, b, h, i) = "blank"
      BY <1>2, <2>5 DEF Role
    <3> QED
      BY <1>2, <2>1, <2>5, <3>1
  <2>6. CASE b + 1 < i /\ i < b + h + 2
    <3>1. Role(m, b, h, i) = "header"
      BY <1>2, <2>6 DEF Role
    <3> QED
      BY <1>2, <2>1, <2>6, <3>1
  <2> QED
    BY <2>1, <2>2, <2>3, <2>4, <2>5, <2>6
<1> QED
  BY <1>1, <1>2 DEF Modes

LEMMA InOrderWritten ==
    ASSUME Typed, InOrder, NEW m \in Modes, NEW method \in Methods, NEW asks \in BOOLEAN,
           NEW b \in 0..MaxPadding, NEW h \in 0..MaxPadding, Write(m, method, asks, b, h)
    PROVE  InOrder'
<1>0. b \in Nat /\ h \in Nat /\ current \in Nat /\ Len(sent) \in Nat /\ current <= Len(sent)
  BY BridgeBounds DEF Typed, TypeOK
<1>1. PICK n \in Nat, k \in Nat : n = Len(wire) /\ k = Size(m, b, h) /\ k >= 1
  BY <1>0 DEF Size, Typed
<1>2. /\ Len(wire') = n + k
      /\ \A p \in 1..n : wire'[p] = wire[p]
      /\ \A i \in 1..k : /\ wire'[n + i].is = "text" <=> i = k
                         /\ i = k => wire'[n + i].of = Len(sent) + 1
  <2>1. /\ Len(wire') = n + k
        /\ \A p \in 1..n : wire'[p] = wire[p]
        /\ \A i \in 1..k :
              /\ wire'[n + i].is = Role(m, b, h, i)
              /\ Role(m, b, h, i) = "text" => wire'[n + i].of = Len(sent) + 1
    BY <1>1, WrittenLines
  <2>2. \A i \in 1..k : Role(m, b, h, i) = "text" <=> i = k
    BY <1>0, <1>1, Roles
  <2> QED
    BY <2>1, <2>2
<1>3. Len(sent') = Len(sent) + 1 /\ current' = current
  BY Sending DEF Sends, reader
<1>4. ASSUME NEW p \in 1..(n + k), wire'[p].is = "text"
      PROVE  \/ p \in 1..n /\ wire[p].is = "text" /\ wire'[p].of = wire[p].of
             \/ p = n + k /\ wire'[p].of = Len(sent) + 1
  <2>1. CASE p <= n
    <3>1. p \in 1..n
      BY <2>1
    <3> QED
      BY <1>2, <1>4, <3>1
  <2>2. CASE p > n
    <3>1. PICK i \in 1..k : p = n + i
      <4>1. p - n \in 1..k /\ p = n + (p - n)
        BY <2>2
      <4> QED
        BY <4>1
    <3> QED
      BY <1>2, <1>4, <3>1
  <2> QED
    BY <2>1, <2>2
<1>5. \A p \in 1..n : wire[p].is = "text" => wire[p].of \in (current + 1)..Len(sent)
  BY <1>1 DEF InOrder
<1>6. \A p \in 1..(n + k) :
         wire'[p].is = "text" => wire'[p].of \in (current' + 1)..Len(sent')
  <2> SUFFICES ASSUME NEW p \in 1..(n + k), wire'[p].is = "text"
               PROVE  wire'[p].of \in (current + 1)..(Len(sent) + 1)
    BY <1>3
  <2> QED
    BY <1>0, <1>4, <1>5
<1>7. \A p, q \in 1..(n + k) :
         wire'[p].is = "text" /\ wire'[q].is = "text" /\ p < q => wire'[p].of < wire'[q].of
  <2> SUFFICES ASSUME NEW p \in 1..(n + k), NEW q \in 1..(n + k), wire'[p].is = "text",
                      wire'[q].is = "text", p < q
               PROVE  wire'[p].of < wire'[q].of
    OBVIOUS
  <2>1. p \in 1..n /\ wire[p].is = "text" /\ wire'[p].of = wire[p].of
    BY <1>4
  <2>2. CASE q = n + k /\ wire'[q].of = Len(sent) + 1
    BY <1>0, <1>5, <2>1, <2>2
  <2>3. CASE q \in 1..n /\ wire[q].is = "text" /\ wire'[q].of = wire[q].of
    BY <1>1, <2>1, <2>3 DEF InOrder
  <2> QED
    BY <1>4, <2>2, <2>3
<1>8. \A i \in (current' + 1)..Len(sent') :
         \E p \in 1..(n + k) : wire'[p].is = "text" /\ wire'[p].of = i
  <2> SUFFICES ASSUME NEW i \in (current + 1)..(Len(sent) + 1)
               PROVE  \E p \in 1..(n + k) : wire'[p].is = "text" /\ wire'[p].of = i
    BY <1>3
  <2>1. CASE i = Len(sent) + 1
    <3>1. n + k \in 1..(n + k) /\ k \in 1..k
      BY <1>1
    <3> QED
      BY <1>2, <2>1, <3>1
  <2>2. CASE i # Len(sent) + 1
    <3>1. i \in (current + 1)..Len(sent)
      BY <1>0, <2>2
    <3>2. PICK p \in 1..n : wire[p].is = "text" /\ wire[p].of = i
      BY <1>1, <3>1 DEF InOrder
    <3>3. p \in 1..(n + k) /\ wire'[p] = wire[p]
      BY <1>2
    <3> QED
      BY <3>2, <3>3
  <2> QED
    BY <2>1, <2>2
<1> QED
  BY <1>2, <1>6, <1>7, <1>8 DEF InOrder

LEMMA FramedWritten ==
    ASSUME Typed, InOrder, Framed, NEW m \in Modes, NEW method \in Methods, NEW asks \in BOOLEAN,
           NEW b \in 0..MaxPadding, NEW h \in 0..MaxPadding, Write(m, method, asks, b, h)
    PROVE  Framed'
<1> SUFFICES ASSUME pc' # "ended"
             PROVE  /\ \A p \in 1..Len(wire') :
                          /\ wire'[p].is = "header" => Opens(p - 1)'
                          /\ wire'[p].is \in {"length", "text"} => ~Opens(p - 1)'
                          /\ Separates(p - 1)' => wire'[p].is = "text"
                          /\ wire'[p].is = "text" =>
                                (sent'[wire'[p].of].mode = "length" <=> Separates(p - 1)')
                    /\ ~Opens(Len(wire))' /\ ~Separates(Len(wire))'
  BY DEF Framed
<1>a. Sends(m, method, asks)
  BY Sending
<1>0. b \in Nat /\ h \in Nat /\ Len(sent) \in Nat /\ pc' = pc /\ pc # "ended" /\ current \in Nat
  <2>1. pc' = pc
    BY <1>a DEF Sends, reader
  <2> QED
    BY <2>1, BridgeBounds DEF Typed, TypeOK
<1>1. PICK n \in Nat, k \in Nat : n = Len(wire) /\ k = Size(m, b, h) /\ k >= 1
  BY <1>0 DEF Size, Typed
<1>2. /\ Len(wire') = n + k
      /\ \A p \in 1..n : wire'[p] = wire[p]
      /\ \A i \in 1..k :
            /\ wire'[n + i].is = Role(m, b, h, i)
            /\ Role(m, b, h, i) = "text" => wire'[n + i].of = Len(sent) + 1
  BY <1>1, WrittenLines
<1>3. \A i \in 1..Len(sent) : sent'[i] = sent[i]
  BY Sending DEF Sends
<1>4. sent'[Len(sent) + 1].mode = m
  <2>1. sent'[Len(sent) + 1] = [mode |-> m, method |-> method, asks |-> asks]
    BY <1>a DEF Sends
  <2> QED
    BY <2>1
<1>5. ASSUME NEW p \in Int, p <= n PROVE Kind(p)' = Kind(p)
  <2>1. CASE p >= 1
    <3>1. p \in 1..n
      BY <1>5, <2>1
    <3> QED
      BY <1>2, <2>1, <3>1 DEF Kind
  <2>2. CASE p < 1
    BY <1>0, <2>2 DEF Kind
  <2> QED
    BY <2>1, <2>2
<1>6. ASSUME NEW p \in Int, p <= n
      PROVE  Opens(p)' = Opens(p) /\ Separates(p)' = Separates(p)
  <2>1. Kind(p)' = Kind(p) /\ Kind(p - 1)' = Kind(p - 1)
    BY <1>5, <1>6
  <2> QED
    BY <2>1 DEF Opens, Separates
<1>7. ASSUME NEW i \in 1..k PROVE Kind(n + i)' = Role(m, b, h, i)
  <2>1. n + i >= 1
    OBVIOUS
  <2> QED
    BY <1>2, <2>1 DEF Kind
<1>8. ~Opens(n)' /\ ~Separates(n)'
  <2>1. ~Opens(n) /\ ~Separates(n)
    BY <1>0, <1>1 DEF Framed
  <2> QED
    BY <1>6, <2>1
<1>9. ASSUME NEW i \in 1..k
      PROVE  Opens(n + i)' <=> m = "length" /\ b + 1 <= i /\ i <= b + h + 1
  <2>1. Opens(n + i)' <=> Role(m, b, h, i) \in {"length", "header"}
    BY <1>7 DEF Opens
  <2> QED
    BY <1>0, <1>1, <2>1, Roles
<1>10. ASSUME NEW i \in 0..k
       PROVE  Opens(n + i)' <=> m = "length" /\ b + 1 <= i /\ i <= b + h + 1
  <2>1. CASE i = 0
    <3>1. n + i = n
      BY <2>1
    <3>2. ~Opens(n + i)'
      BY <1>8, <3>1
    <3> QED
      BY <1>0, <2>1, <3>2
  <2>2. CASE i # 0
    <3>1. i \in 1..k
      BY <2>2
    <3> QED
      BY <1>9, <3>1
  <2> QED
    BY <2>1, <2>2
<1>11. ASSUME NEW i \in 0..k
       PROVE  Separates(n + i)' <=> m = "length" /\ i = b + h + 2
  <2>1. CASE i = 0
    <3>1. n + i = n
      BY <2>1
    <3>2. ~Separates(n + i)'
      BY <1>8, <3>1
    <3> QED
      BY <1>0, <2>1, <3>2
  <2>2. CASE i # 0
    <3>1. i \in 1..k /\ i - 1 \in 0..k /\ n + (i - 1) = (n + i) - 1
      BY <2>2
    <3>2. Opens((n + i) - 1)' <=> m = "length" /\ b + 1 <= i - 1 /\ i - 1 <= b + h + 1
      BY <1>10, <3>1
    <3>3. Kind(n + i)' = "blank" <=> Role(m, b, h, i) = "blank"
      BY <1>7, <3>1
    <3>4. /\ m = "length" => (Role(m, b, h, i) = "blank" <=> i <= b \/ i = b + h + 2)
          /\ m = "newline" => (Role(m, b, h, i) = "blank" <=> i <= b)
      BY <1>0, <1>1, <3>1, Roles
    <3>5. Separates(n + i)' <=> Kind(n + i)' = "blank" /\ Opens((n + i) - 1)'
      BY DEF Separates
    <3> QED
      BY <1>0, <3>2, <3>3, <3>4, <3>5 DEF Modes
  <2> QED
    BY <2>1, <2>2
<1>12. ASSUME NEW p \in 1..(n + k)
       PROVE  /\ wire'[p].is = "header" => Opens(p - 1)'
              /\ wire'[p].is \in {"length", "text"} => ~Opens(p - 1)'
              /\ Separates(p - 1)' => wire'[p].is = "text"
              /\ wire'[p].is = "text" =>
                    (sent'[wire'[p].of].mode = "length" <=> Separates(p - 1)')
  <2>1. CASE p <= n
    <3>1. p \in 1..n /\ p - 1 \in Int /\ p - 1 <= n
      BY <2>1
    <3>2. /\ wire'[p] = wire[p] /\ Opens(p - 1)' = Opens(p - 1)
          /\ Separates(p - 1)' = Separates(p - 1)
      BY <1>2, <1>6, <3>1
    <3>3. wire[p].is = "text" => sent'[wire[p].of] = sent[wire[p].of]
      <4>1. wire[p].is = "text" => wire[p].of \in (current + 1)..Len(sent)
        BY <1>1, <3>1 DEF InOrder
      <4>2. (current + 1)..Len(sent) \subseteq 1..Len(sent)
        BY <1>0
      <4> QED
        BY <1>3, <4>1, <4>2
    <3>4. /\ wire[p].is = "header" => Opens(p - 1)
          /\ wire[p].is \in {"length", "text"} => ~Opens(p - 1)
          /\ Separates(p - 1) => wire[p].is = "text"
          /\ wire[p].is = "text" => (sent[wire[p].of].mode = "length" <=> Separates(p - 1))
      BY <1>0, <1>1, <3>1 DEF Framed
    <3> QED
      BY <3>2, <3>3, <3>4
  <2>2. CASE p > n
    <3>1. PICK i \in 1..k : p = n + i
      <4>1. p - n \in 1..k /\ p = n + (p - n)
        BY <2>2
      <4> QED
        BY <4>1
    <3>2. i - 1 \in 0..k /\ n + (i - 1) = p - 1
      BY <3>1
    <3>3. /\ Opens(p - 1)' <=> m = "length" /\ b + 1 <= i - 1 /\ i - 1 <= b + h + 1
          /\ Separates(p - 1)' <=> m = "length" /\ i - 1 = b + h + 2
      BY <1>10, <1>11, <3>2
    <3>4. /\ wire'[p].is = Role(m, b, h, i)
          /\ wire'[p].is = "text" => wire'[p].of = Len(sent) + 1
      BY <1>2, <3>1
    <3>5. /\ Role(m, b, h, i) = "text" <=> i = Size(m, b, h)
          /\ Role(m, b, h, i) \in {"length", "header"} <=>
                m = "length" /\ b + 1 <= i /\ i <= b + h + 1
          /\ Role(m, b, h, i) = "length" => i = b + 1
          /\ Role(m, b, h, i) = "header" => i # b + 1
      BY <1>0, <1>1, Roles
    <3>6. /\ m = "length" => Size(m, b, h) = b + h + 3
          /\ m = "newline" => Size(m, b, h) = b + 1
          /\ m = "length" \/ m = "newline"
      BY DEF Size, Modes
    <3>7. Role(m, b, h, i) = "header" => Opens(p - 1)'
      BY <1>0, <3>3, <3>5
    <3>8. Role(m, b, h, i) \in {"length", "text"} => ~Opens(p - 1)'
      BY <1>0, <3>3, <3>5, <3>6
    <3>9. Separates(p - 1)' => Role(m, b, h, i) = "text"
      BY <1>0, <1>1, <3>3, <3>5, <3>6
    <3>10. Role(m, b, h, i) = "text" => (m = "length" <=> Separates(p - 1)')
      BY <1>0, <3>3, <3>5, <3>6
    <3> QED
      BY <1>4, <3>4, <3>7, <3>8, <3>9, <3>10
  <2> QED
    BY <2>1, <2>2
<1>13. ~Opens(Len(wire))' /\ ~Separates(Len(wire))'
  <2>1. k \in 0..k
    OBVIOUS
  <2>2. /\ m = "length" => k = b + h + 3
        /\ m = "newline" => k = b + 1
        /\ m = "length" \/ m = "newline"
    BY <1>1 DEF Size, Modes
  <2>3. ~Opens(n + k)' /\ ~Separates(n + k)'
    BY <1>0, <1>10, <1>11, <2>1, <2>2
  <2> QED
    BY <1>2, <2>3
<1> QED
  BY <1>2, <1>12, <1>13

LEMMA InOrderKept ==
    ASSUME Inductive, [Next]_vars
    PROVE  InOrder'
<1>0. Typed /\ InOrder /\ Reading
  BY DEF Inductive
<1>1. CASE Writes
  <2>1. PICK m \in Modes, method \in Methods, asks \in BOOLEAN, b, h \in 0..MaxPadding :
           Write(m, method, asks, b, h)
    BY <1>1 DEF Writes
  <2> QED
    BY <1>0, <2>1, InOrderWritten
<1>2. CASE Read
  BY <1>0, <1>2, InOrderRead
<1>3. Handle => sent' = sent /\ wire' = wire /\ current' = current
  BY DEF Handle, client
<1>4. Ends \/ Advances \/ Idles \/ Fails => sent' = sent /\ wire' = wire /\ current' = current
  BY DEF Ends, Advances, Idles, Fails, Fail, client, reader
<1>5. CASE sent' = sent /\ wire' = wire /\ current' = current
  BY <1>0, <1>5 DEF InOrder
<1> QED
  BY <1>1, <1>2, <1>3, <1>4, <1>5, StepKinds

LEMMA FramedKept ==
    ASSUME Inductive, [Next]_vars
    PROVE  Framed'
<1>0. Typed /\ InOrder /\ Framed /\ Reading
  BY DEF Inductive
<1>1. CASE Writes
  <2>1. PICK m \in Modes, method \in Methods, asks \in BOOLEAN, b, h \in 0..MaxPadding :
           Write(m, method, asks, b, h)
    BY <1>1 DEF Writes
  <2> QED
    BY <1>0, <2>1, FramedWritten
<1>2. CASE Read
  BY <1>0, <1>2, FramedRead
<1>3. CASE Ends
  BY <1>3 DEF Ends, Framed
<1>4. CASE /\ sent' = sent /\ wire' = wire
           /\ pc' = pc \/ {pc, pc'} \cap {"header", "body", "ended"} = {}
  <2>1. \A p : Kind(p)' = Kind(p)
    BY <1>4 DEF Kind
  <2>2. \A p : (Opens(p)' <=> Opens(p)) /\ (Separates(p)' <=> Separates(p))
    BY <2>1 DEF Opens, Separates
  <2>3. pc' # "ended" => pc # "ended"
    BY <1>4
  <2> QED
    BY <1>0, <1>4, <2>2, <2>3 DEF Framed
<1>5. Handle \/ Advances \/ Fails =>
         /\ sent' = sent /\ wire' = wire
         /\ pc \in Calling \cup {"handle"} /\ pc' \in Calling \cup {"line"}
  BY <1>0, Handling DEF Replies, Advances, Fails, Fail, client, Calling, Waiting
<1>6. Idles => sent' = sent /\ wire' = wire /\ pc' = pc
  BY DEF Idles, reader
<1>7. Handle \/ Advances \/ Fails => {pc, pc'} \cap {"header", "body", "ended"} = {}
  BY <1>5 DEF Calling, Waiting
<1> QED
  BY <1>1, <1>2, <1>3, <1>4, <1>5, <1>6, <1>7, StepKinds

-----------------------------------------------------------------------------
LEMMA Initially ==
    ASSUME Init
    PROVE  Inductive
<1>1. /\ sent = <<>> /\ wire = <<>> /\ closed = FALSE /\ pc = "line" /\ mode = "newline"
      /\ current = 0 /\ initialized = FALSE /\ proved = FALSE /\ launches = 0 /\ waited = 0
      /\ elapsed = 0 /\ answers = <<>> /\ tokens = <<>>
  BY DEF Init
<1>2. Typed
  <2>1. /\ sent \in Seq([mode : Modes, method : Methods, asks : BOOLEAN]) /\ Len(sent) = 0
        /\ wire \in Seq(Lines) /\ answers \in Seq(Answers)
        /\ tokens \in Seq([of : Nat, proved : BOOLEAN])
    BY <1>1
  <2>2. closed \in BOOLEAN /\ initialized \in BOOLEAN /\ proved \in BOOLEAN
    BY <1>1, Zenon
  <2>3. /\ current \in 0..Len(sent) /\ launches \in 0..1
        /\ waited \in 0..DAEMON_STARTUP_TIMEOUT /\ elapsed \in 0..DAEMON_STARTUP_TIMEOUT
    BY <1>1, <2>1, BridgeBounds
  <2>4. mode \in Modes /\ pc \in Waiting \cup {"line"}
    BY <1>1 DEF Modes
  <2>5. TypeOK
    BY <2>1, <2>2, <2>3, <2>4 DEF TypeOK
  <2> QED
    BY <2>1, <2>2, <2>3, <2>4, <2>5 DEF Typed
<1>3. Framed
  BY <1>1 DEF Framed, Opens, Separates, Kind
<1>4. InOrder
  BY <1>1 DEF InOrder
<1>5. Reading /\ ~Underway
  BY <1>1 DEF Reading, Underway, Waiting
<1>6. Answering
  BY <1>1, <1>5 DEF Answering, Handled
<1>7. Gated
  BY <1>1 DEF Gated, Calling, Waiting
<1>8. Session
  BY <1>1 DEF Session, InitializedFirst
<1> QED
  BY <1>2, <1>3, <1>4, <1>5, <1>6, <1>7, <1>8 DEF Inductive

LEMMA Sound ==
    ASSUME Inductive
    PROVE  BridgeSound
<1>0. Typed /\ Answering /\ Gated /\ Session
  BY DEF Inductive
<1>1. TypeOK
  BY <1>0 DEF Typed
<1>2. AnsweredOnce
  <2>1. \A i \in Handled : Owed(i) => \E k \in DOMAIN answers : answers[k].of = i
    BY <1>0 DEF Answering
  <2>2. \A k \in DOMAIN answers :
           /\ answers[k].of \in 1..current /\ Owed(answers[k].of)
           /\ answers[k].mode = sent[answers[k].of].mode
    BY <1>0 DEF Answering
  <2>3. \A j, k \in DOMAIN answers : j < k => answers[j].of < answers[k].of
    BY <1>0 DEF Answering
  <2> QED
    BY <2>1, <2>2, <2>3 DEF AnsweredOnce
<1>3. TokenGuarded
  BY <1>0 DEF Gated, Typed, TokenGuarded
<1>4. InitializedFirst
  BY <1>0 DEF Session
<1> QED
  BY <1>1, <1>2, <1>3, <1>4 DEF BridgeSound

\* What the bridge promises its client and the daemon: a request that was handled has exactly
\* one answer, in the order and in the framing it was sent; the token leaves only in a call
\* that saw the daemon's proof, and the app is opened at most once for a call; nothing but
\* initialize and ping succeeds before an initialize has.
THEOREM BridgeIsSound == Spec => []BridgeSound
<1>1. Init => Inductive
  BY Initially
<1>2. Inductive /\ [Next]_vars => Inductive'
  <2> SUFFICES ASSUME Inductive, [Next]_vars
               PROVE  Inductive'
    OBVIOUS
  <2>1. Typed' /\ Framed' /\ InOrder' /\ Reading' /\ Answering' /\ Gated' /\ Session'
    BY TypedKept, FramedKept, InOrderKept, ReadingKept, AnsweringKept, GatedKept, SessionKept
  <2> QED
    BY <2>1 DEF Inductive
<1>3. Inductive => BridgeSound
  BY Sound
<1> QED
  BY <1>1, <1>2, <1>3, PTL DEF Spec

-----------------------------------------------------------------------------
(***************************************************************************)
(* The keys.  The monitor's machine holds a key when what it reports says  *)
(* so, and what it knows of the key is the last word on it that is neither *)
(* on its way nor lost; a loss resets the machine before it moves again.   *)
(***************************************************************************)
Refusals == {"SecureInputRefused", "PermissionRefused"}
Holding == event = "HoldToTalkStarted"
TalkDown == "talk" \in keyDown \/ masked
Lost == ~tap \/ "disabled" \in flags \/ "permission" \in flags \/ "secure" \in flags
             \/ "overflow" \in flags
NoTalk(s) == \A k \in 1..Len(s) : s[k].key # "talk"

KeysTyped ==
    /\ inline \in {"inline", "talk"} /\ keyDown \subseteq Keys!Keys /\ clock \in 0..Ticks
    /\ tap \in BOOLEAN /\ granted \in BOOLEAN /\ keySecure \in BOOLEAN /\ masked \in BOOLEAN
    /\ port \in Seq(Keys!Inputs) /\ queue \in Seq(Keys!Inputs)
    /\ Len(queue) <= Capacity
    /\ flags \subseteq {"cancel", "disabled", "permission", "secure", "overflow"}
    /\ keyAt \in Keys!Steps
    /\ press \in [key : Keys!Keys \cup {"none"}, since : 0..Ticks, eligible : BOOLEAN,
                  hold : BOOLEAN]
    /\ last \in [key : Keys!Keys \cup {"none"}, since : 0..Ticks]
    /\ refused \subseteq Refusals
    /\ out \in Seq(Keys!Events)
    /\ event \in Keys!Events \cup {"none"} /\ parity \in 0..1
    /\ keyChanges \in 0..Strokes /\ keyFaults \in 0..Troubles

\* What is about to be reported makes what was reported true of the machine.
ReportsFit ==
    \/ out = <<>> /\ (Holding <=> press.hold)
    \/ out = <<"HoldToTalkStarted">> /\ ~Holding /\ press.hold
    \/ out = <<"HoldToTalkStarted", "HoldToTalkReleased">> /\ ~Holding /\ ~press.hold
    \/ (out = <<"HoldToTalkReleased">> \/ out = <<"Cancelled">>) /\ Holding /\ ~press.hold
    \/ /\ Len(out) = 2 /\ out[1] = "Cancelled" /\ out[2] \in Refusals
       /\ Holding /\ ~press.hold
    \/ Len(out) = 1 /\ out[1] \in {"InlineInvoked"} \cup Refusals /\ ~Holding /\ ~press.hold

\* The places of monitor_thread: at most one input is queued in a turn, and a loss is dealt
\* with before the queue is.
TurnsTaken ==
    /\ press.hold => press.key = "talk"
    /\ keyAt = "stopped" => press.key = "none"
    /\ Len(queue) <= 1
    /\ keyAt \in {"poll", "wait"} => queue = <<>>
    /\ "overflow" \in flags => Capacity = 0
    /\ queue # <<>> => flags \subseteq {"cancel"}
    /\ keyAt \in {"permission", "secure"} => "disabled" \notin flags
    /\ keyAt = "secure" => "permission" \notin flags
    /\ keyAt \in {"dispatch", "poll", "wait"} => flags \subseteq {"cancel", "overflow"}
    /\ tap => \A k \in 1..Len(port) : port[k].key # "disabled"
    /\ ~tap => port = <<>> \/ (Len(port) = 1 /\ port[1].key = "disabled")
    /\ "disabled" \in flags => ~tap /\ port = <<>>
    /\ ~tap /\ port = <<>> /\ "disabled" \notin flags => press.key = "none" /\ queue = <<>>

\* The last word on the key: on its way, in the queue, or with the machine.
LastWord ==
    /\ \A j \in 1..Len(port) :
          port[j].key = "talk" /\ port[j].pressed
             /\ (\A k \in 1..Len(port) : k > j => port[k].key # "talk") => TalkDown
    /\ ~Lost /\ NoTalk(port) /\ queue # <<>> /\ queue[1].key = "talk" /\ queue[1].pressed =>
          TalkDown
    /\ ~Lost /\ NoTalk(port) /\ NoTalk(queue) /\ press.key = "talk" => TalkDown

KeysInv == KeysTyped /\ ReportsFit /\ TurnsTaken /\ LastWord

\* The types of the model follow.
LEMMA SameKeyTypes == KeysTyped => Keys!TypeOK
<1>1. ASSUME NEW S, NEW s \in Seq(S) PROVE \A i \in DOMAIN s : s[i] \in S
  OBVIOUS
<1> QED
  BY <1>1 DEF KeysTyped, Keys!TypeOK, Refusals

\* What the machine does with an input.
PressType == [key : Keys!Keys \cup {"none"}, since : 0..Ticks, eligible : BOOLEAN, hold : BOOLEAN]
LastType == [key : Keys!Keys \cup {"none"}, since : 0..Ticks]

Ignores(i) ==
    /\ press' = press /\ out' = <<>>
    /\ (i.pressed => i.key = press.key) /\ (~i.pressed => i.key # press.key)
Takes(i) ==
    /\ ~press'.hold /\ i.pressed /\ i.key # press.key
    /\ press'.key \in {"none", i.key}
    /\ out' = IF press.hold THEN <<"Cancelled">> ELSE <<>>
LetsGo(i) ==
    /\ ~press'.hold /\ press'.key = "none" /\ ~i.pressed
    /\ \/ press.hold /\ out' = <<"HoldToTalkReleased">>
       \/ ~press.hold /\ out' \in {<<>>, <<"InlineInvoked">>,
                                   <<"HoldToTalkStarted", "HoldToTalkReleased">>}

\* An input is ignored, taken for the key that is down, or lets that key go.
LEMMA HandledKey ==
    ASSUME NEW i \in Keys!Inputs, KeysTyped, TurnsTaken, Keys!Handle(i)
    PROVE  /\ press' \in PressType /\ last' \in LastType
           /\ Ignores(i) \/ Takes(i) \/ LetsGo(i)
<1>1. /\ press \in PressType /\ last \in LastType /\ i.at \in 0..Ticks /\ i.pressed \in BOOLEAN
      /\ i.others \in BOOLEAN /\ 0 \in 0..Ticks /\ inline \in {"inline", "talk"}
  BY KeysBounds DEF KeysTyped, Keys!Inputs, PressType, LastType
<1>2. Keys!NoPress \in PressType /\ Keys!Nothing \in LastType
      /\ Keys!NoPress.hold = FALSE /\ Keys!NoPress.key = "none"
  BY <1>1 DEF Keys!NoPress, Keys!Nothing, PressType, LastType
<1>3. CASE i.pressed /\ i.key # press.key
  <2>1. Keys!Press(i)
    BY <1>3 DEF Keys!Handle
  <2>2. press' \in PressType /\ press'.hold = FALSE /\ press'.key \in {"none", i.key}
    <3>1. CASE Keys!Bound(i.key)
      <4>1. i.key \in Keys!Keys
        BY <1>1, <3>1 DEF Keys!Bound, Keys!Keys
      <4>2. press' = [key |-> i.key, since |-> i.at, eligible |-> ~i.others, hold |-> FALSE]
        BY <2>1, <3>1 DEF Keys!Press
      <4>3. (~i.others) \in BOOLEAN
        OBVIOUS
      <4> QED
        BY <1>1, <4>1, <4>2, <4>3 DEF PressType
    <3>2. CASE ~Keys!Bound(i.key)
      BY <1>2, <2>1, <3>2 DEF Keys!Press
    <3> QED
      BY <3>1, <3>2
  <2>3. last' \in LastType
    BY <1>1, <1>2, <2>1 DEF Keys!Press
  <2>4. out' = IF press.hold THEN <<"Cancelled">> ELSE <<>>
    BY <1>1, <2>1 DEF Keys!Press, Keys!Cancelled, TurnsTaken
  <2> QED
    BY <1>3, <2>2, <2>3, <2>4 DEF Takes
<1>4. CASE ~i.pressed /\ i.key = press.key
  <2>1. press' = Keys!NoPress /\ (Keys!ReleaseLong(i) \/ Keys!ReleaseShort(i))
    BY <1>4 DEF Keys!Handle, Keys!Release
  <2>2. CASE Keys!ReleaseLong(i)
    BY <1>2, <1>4, <2>1, <2>2 DEF Keys!ReleaseLong, LetsGo
  <2>3. CASE Keys!ReleaseShort(i)
    <3>1. ~press.hold /\ out' \in {<<>>, <<"InlineInvoked">>}
      BY <2>3 DEF Keys!ReleaseShort
    <3>2. last' \in LastType
      BY <1>1, <1>2, <2>3 DEF Keys!ReleaseShort, PressType, LastType
    <3> QED
      BY <1>2, <1>4, <2>1, <3>1, <3>2 DEF LetsGo
  <2> QED
    BY <2>1, <2>2, <2>3
<1>5. CASE ~(i.pressed /\ i.key # press.key) /\ ~(~i.pressed /\ i.key = press.key)
  BY <1>1, <1>5 DEF Keys!Handle, Keys!machine, Ignores
<1> QED
  BY <1>3, <1>4, <1>5

\* The machine is told of nothing else: it is reset, and a hold is cancelled.
LEMMA Reset ==
    ASSUME KeysTyped, ReportsFit, out = <<>>, Keys!CancelMachine
    PROVE  /\ press' \in PressType /\ last' \in LastType
           /\ press'.key = "none" /\ ~press'.hold
           /\ Keys!Cancelled = IF Holding THEN <<"Cancelled">> ELSE <<>>
<1>1. 0 \in 0..Ticks
  BY KeysBounds
<1>2. Keys!NoPress.hold = FALSE /\ Keys!NoPress.key = "none"
      /\ Keys!NoPress \in PressType /\ Keys!Nothing \in LastType
  BY <1>1 DEF Keys!NoPress, Keys!Nothing, PressType, LastType
<1>3. Holding <=> press.hold
  BY DEF ReportsFit
<1>4. press' = Keys!NoPress /\ last' = Keys!Nothing
  BY DEF Keys!CancelMachine
<1>5. Keys!Cancelled = IF Holding THEN <<"Cancelled">> ELSE <<>>
  BY <1>3 DEF Keys!Cancelled
<1> QED
  BY <1>2, <1>4, <1>5

\* What the callback does with the first change that is on its way.
LEMMA CalledBack ==
    ASSUME Keys!Callback
    PROVE  /\ port' = Tail(port)
           /\ \/ /\ Head(port).key = "disabled" /\ queue' = queue
                 /\ flags' = flags \cup {"disabled"} \cup (IF granted THEN {} ELSE {"permission"})
              \/ /\ Head(port).key # "disabled" /\ queue' = queue
                 /\ flags' = flags \cup {"secure"}
              \/ /\ Head(port).key # "disabled" /\ queue' = queue /\ Len(queue) >= Capacity
                 /\ flags' = flags \cup {"overflow"}
              \/ /\ Head(port).key # "disabled" /\ queue' = Append(queue, Head(port))
                 /\ ~(Len(queue) >= Capacity) /\ flags' = flags
<1>1. CASE Head(port).key = "disabled"
  BY <1>1, Zenon DEF Keys!Callback
<1>2. CASE Head(port).key # "disabled" /\ keySecure
  BY <1>2, Zenon DEF Keys!Callback
<1>3. CASE Head(port).key # "disabled" /\ ~keySecure /\ Len(queue) >= Capacity
  BY <1>3, Zenon DEF Keys!Callback
<1>4. CASE Head(port).key # "disabled" /\ ~keySecure /\ ~(Len(queue) >= Capacity)
  BY <1>4, Zenon DEF Keys!Callback
<1> QED
  BY <1>1, <1>2, <1>3, <1>4, Zenon

\* A key goes down or up.
LEMMA KeyMoves ==
    ASSUME KeysInv, Keys!Key
    PROVE  KeysInv'
<1>1. PICK key \in Keys!Keys :
          LET held == (keyDown \ {key}) \cup ({key} \ keyDown) IN
          /\ keyDown' = held
          /\ port' = IF tap THEN Append(port, Keys!Input(key, held)) ELSE port
          /\ masked' = (IF key = "talk" THEN "twin" \in keyDown /\ "talk" \in keyDown ELSE masked)
  BY DEF Keys!Key
<1>2. /\ keyChanges < Strokes /\ keyChanges' = keyChanges + 1
      /\ UNCHANGED <<inline, clock, tap, granted, keySecure, queue, flags, keyAt, press, last,
                     refused, out, event, parity, keyFaults>>
  BY DEF Keys!Key, Keys!machine, Keys!seen
<1> DEFINE held == (keyDown \ {key}) \cup ({key} \ keyDown)
<1> DEFINE i == Keys!Input(key, held)
<1>3. /\ i.key = key /\ i.pressed = (\E k \in held : Keys!Flag(k) = Keys!Flag(key))
      /\ i \in Keys!Inputs
  BY DEF Keys!Input, Keys!Inputs, KeysInv, KeysTyped
<1>4. keyDown \subseteq Keys!Keys /\ held \subseteq Keys!Keys /\ port \in Seq(Keys!Inputs)
      /\ tap \in BOOLEAN /\ masked \in BOOLEAN
  BY DEF KeysInv, KeysTyped
<1>5. KeysTyped'
  <2>1. port' \in Seq(Keys!Inputs) /\ keyDown' \subseteq Keys!Keys /\ masked' \in BOOLEAN
    <3>1. keyDown' = held /\ (port' = port \/ port' = Append(port, i))
      BY <1>1
    <3>2. port' \in Seq(Keys!Inputs)
      BY <1>3, <1>4, <3>1
    <3>3. masked' \in BOOLEAN
      BY <1>1, <1>4
    <3> QED
      BY <1>4, <3>1, <3>2, <3>3
  <2>2. keyChanges' \in 0..Strokes
    BY <1>2, KeysBounds DEF KeysInv, KeysTyped
  <2> QED
    BY <1>2, <2>1, <2>2 DEF KeysInv, KeysTyped
<1>6. ReportsFit'
  BY <1>2 DEF KeysInv, ReportsFit, Holding
<1>7. key # "talk" => (TalkDown' <=> TalkDown)
  BY <1>1, <1>4 DEF TalkDown
<1>8. key = "talk" /\ i.pressed => TalkDown'
  BY <1>1, <1>3, <1>4 DEF TalkDown, Keys!Flag, Keys!Keys
<1>9. CASE tap
  <2>1. /\ port' = Append(port, i) /\ Len(port') = Len(port) + 1
        /\ \A k \in 1..Len(port) : port'[k] = port[k]
        /\ port'[Len(port) + 1] = i /\ Len(port) \in Nat
    BY <1>1, <1>4, <1>9
  <2>2. TurnsTaken'
    <3>1. \A k \in 1..Len(port') : port'[k].key # "disabled"
      BY <1>3, <1>9, <2>1 DEF KeysInv, TurnsTaken, Keys!Keys
    <3> QED
      BY <1>2, <1>9, <3>1 DEF KeysInv, TurnsTaken
  <2>3. ASSUME key = "talk" PROVE LastWord'
    <3>1. ~NoTalk(port')
      BY <1>3, <2>1, <2>3 DEF NoTalk
    <3>2. ASSUME NEW j \in 1..Len(port'), port'[j].key = "talk", port'[j].pressed,
                 \A k \in 1..Len(port') : k > j => port'[k].key # "talk"
          PROVE  TalkDown'
      <4>1. j = Len(port) + 1
        <5>1. i.key = "talk" /\ Len(port) + 1 \in 1..Len(port')
          BY <1>3, <2>1, <2>3
        <5>2. ~(Len(port) + 1 > j)
          BY <2>1, <3>2, <5>1
        <5> QED
          BY <2>1, <5>2
      <4> QED
        BY <1>8, <2>1, <2>3, <3>2, <4>1
    <3> QED
      BY <3>1, <3>2 DEF LastWord, NoTalk
  <2>4. ASSUME key # "talk" PROVE LastWord'
    <3>1. ASSUME NEW j \in 1..Len(port'), port'[j].key = "talk", port'[j].pressed,
                 \A k \in 1..Len(port') : k > j => port'[k].key # "talk"
          PROVE  TalkDown'
      <4>1. j \in 1..Len(port) /\ port[j].key = "talk" /\ port[j].pressed
            /\ \A k \in 1..Len(port) : k > j => port[k].key # "talk"
        BY <1>3, <2>1, <2>4, <3>1
      <4> QED
        BY <1>7, <2>4, <4>1 DEF KeysInv, LastWord
    <3>2. NoTalk(port') => NoTalk(port)
      BY <2>1 DEF NoTalk
    <3>3. UNCHANGED <<Lost, NoTalk(queue)>>
      BY <1>2 DEF Lost, NoTalk
    <3>4. ~Lost' /\ NoTalk(port') /\ queue' # <<>> /\ queue'[1].key = "talk" /\ queue'[1].pressed =>
             TalkDown'
      BY <1>2, <1>7, <2>4, <3>2, <3>3 DEF KeysInv, LastWord
    <3>5. ~Lost' /\ NoTalk(port') /\ NoTalk(queue') /\ press'.key = "talk" => TalkDown'
      BY <1>2, <1>7, <2>4, <3>2, <3>3 DEF KeysInv, LastWord
    <3> QED
      BY <3>1, <3>4, <3>5 DEF LastWord, NoTalk
  <2> QED
    BY <1>5, <1>6, <2>2, <2>3, <2>4 DEF KeysInv
<1>10. CASE ~tap
  <2>1. port' = port
    BY <1>1, <1>10
  <2>2. TurnsTaken'
    BY <1>2, <2>1 DEF KeysInv, TurnsTaken
  <2>3. Lost'
    BY <1>2, <1>10 DEF Lost
  <2>4. \A k \in 1..Len(port') : port'[k].key # "talk"
    BY <1>10, <2>1 DEF KeysInv, TurnsTaken
  <2>5. LastWord'
    BY <2>3, <2>4 DEF LastWord
  <2> QED
    BY <1>5, <1>6, <2>2, <2>5 DEF KeysInv
<1> QED
  BY <1>9, <1>10

\* The rest of the world: the clock, the tap, secure input, a cancellation.
LEMMA WorldMoves ==
    ASSUME KeysInv, Keys!Tick \/ Keys!Disable \/ Keys!SecureInput \/ Keys!CancelActive
    PROVE  KeysInv'
<1> USE DEF Keys!world, Keys!machine, Keys!seen, Keys!Fault
<1>1. CASE Keys!Tick
  <2>1. KeysTyped'
    <3>1. clock' \in 0..Ticks
      BY <1>1, KeysBounds DEF Keys!Tick, KeysInv, KeysTyped
    <3> QED
      BY <1>1, <3>1 DEF Keys!Tick, KeysInv, KeysTyped
  <2>2. ReportsFit' /\ TurnsTaken'
    BY <1>1 DEF Keys!Tick, KeysInv, ReportsFit, Holding, TurnsTaken
  <2>3. LastWord'
    BY <1>1 DEF Keys!Tick, KeysInv, LastWord, TalkDown, Lost, NoTalk
  <2> QED
    BY <2>1, <2>2, <2>3 DEF KeysInv
<1>2. CASE Keys!Disable
  <2> DEFINE i == [Keys!Input("inline", {}) EXCEPT !.key = "disabled"]
  <2>1. i \in Keys!Inputs /\ i.key = "disabled"
    BY DEF Keys!Input, Keys!Inputs, KeysInv, KeysTyped
  <2>2. port' = <<i>> /\ tap /\ tap' = FALSE
    BY <1>2 DEF Keys!Disable
  <2>3. port' \in Seq(Keys!Inputs) /\ port' # <<>> /\ Len(port') = 1 /\ port'[1].key = "disabled"
    <3>1. \A y \in Keys!Inputs : <<y>> \in Seq(Keys!Inputs) /\ <<y>> # <<>> /\ Len(<<y>>) = 1
                                 /\ <<y>>[1] = y
      OBVIOUS
    <3> HIDE DEF i
    <3> QED
      BY <2>1, <2>2, <3>1
  <2>4. KeysTyped'
    <3>1. granted' \in BOOLEAN
      BY <1>2 DEF Keys!Disable, KeysInv, KeysTyped
    <3>2. keyFaults < Troubles /\ keyFaults' = keyFaults + 1
      BY <1>2 DEF Keys!Disable
    <3>3. keyFaults' \in 0..Troubles
      BY <3>2, KeysBounds DEF KeysInv, KeysTyped
    <3> QED
      BY <1>2, <2>2, <2>3, <3>1, <3>3 DEF Keys!Disable, KeysInv, KeysTyped
  <2>5. ReportsFit'
    BY <1>2 DEF Keys!Disable, KeysInv, ReportsFit, Holding
  <2>6. TurnsTaken'
    BY <1>2, <2>2, <2>3 DEF Keys!Disable, KeysInv, TurnsTaken
  <2>7. LastWord'
    <3>1. Lost' /\ \A k \in 1..Len(port') : port'[k].key # "talk"
      BY <2>2, <2>3 DEF Lost
    <3> QED
      BY <3>1 DEF LastWord
  <2> QED
    BY <2>4, <2>5, <2>6, <2>7 DEF KeysInv
<1>3. CASE Keys!SecureInput
  <2>1. KeysTyped'
    <3>1. keyFaults' \in 0..Troubles /\ keySecure' \in BOOLEAN
      BY <1>3, KeysBounds DEF Keys!SecureInput, KeysInv, KeysTyped
    <3> QED
      BY <1>3, <3>1 DEF Keys!SecureInput, KeysInv, KeysTyped
  <2>2. ReportsFit' /\ TurnsTaken'
    BY <1>3 DEF Keys!SecureInput, KeysInv, ReportsFit, Holding, TurnsTaken
  <2>3. LastWord'
    BY <1>3 DEF Keys!SecureInput, KeysInv, LastWord, TalkDown, Lost, NoTalk
  <2> QED
    BY <2>1, <2>2, <2>3 DEF KeysInv
<1>4. CASE Keys!CancelActive
  <2>1. KeysTyped'
    <3>1. keyFaults' \in 0..Troubles /\ flags' \subseteq {"cancel", "disabled", "permission", "secure", "overflow"}
      BY <1>4, KeysBounds DEF Keys!CancelActive, KeysInv, KeysTyped
    <3> QED
      BY <1>4, <3>1 DEF Keys!CancelActive, KeysInv, KeysTyped
  <2>2. ReportsFit'
    BY <1>4 DEF Keys!CancelActive, KeysInv, ReportsFit, Holding
  <2>3. TurnsTaken'
    BY <1>4 DEF Keys!CancelActive, KeysInv, TurnsTaken
  <2>4. LastWord'
    BY <1>4 DEF Keys!CancelActive, KeysInv, LastWord, TalkDown, Lost, NoTalk
  <2> QED
    BY <2>1, <2>2, <2>3, <2>4 DEF KeysInv
<1> QED
  BY <1>1, <1>2, <1>3, <1>4

\* A report is the next word of what was decided.
LEMMA ReportMoves ==
    ASSUME KeysInv, Keys!Report
    PROVE  KeysInv' /\ Keys!Contract!Next
<1> USE DEF Keys!world, Keys!machine
<1>1. /\ out # <<>> /\ event' = Head(out) /\ out' = Tail(out) /\ parity' = 1 - parity
      /\ UNCHANGED <<inline, keyDown, clock, tap, granted, keySecure, port, masked, keyChanges,
                     queue, flags, keyAt, press, last, refused, keyFaults>>
  BY DEF Keys!Report
<1>2. out \in Seq(Keys!Events) /\ parity \in 0..1
  BY DEF KeysInv, KeysTyped
<1>3. event' \in Keys!Events /\ out' \in Seq(Keys!Events) /\ parity' \in 0..1
  BY <1>1, <1>2
<1>4. KeysTyped'
  BY <1>1, <1>3 DEF KeysInv, KeysTyped
<1>5. TurnsTaken'
  BY <1>1 DEF KeysInv, TurnsTaken
<1>6. LastWord'
  BY <1>1 DEF KeysInv, LastWord, TalkDown, Lost, NoTalk
<1>7. ReportsFit' /\ Keys!Contract!Next
  <2> USE DEF Keys!Contract!Next, Keys!Contract!Started, Keys!Contract!Ended,
              Keys!Contract!Other, Keys!Contract!Reported, Keys!Contract!Holding
  <2>1. CASE out = <<"HoldToTalkStarted">> /\ ~Holding /\ press.hold
    <3>1. event' = "HoldToTalkStarted" /\ out' = <<>>
      BY <1>1, <2>1
    <3> QED
      BY <1>1, <2>1, <3>1 DEF ReportsFit, Holding
  <2>2. CASE out = <<"HoldToTalkStarted", "HoldToTalkReleased">> /\ ~Holding /\ ~press.hold
    <3>1. event' = "HoldToTalkStarted" /\ out' = <<"HoldToTalkReleased">>
      BY <1>1, <2>2
    <3> QED
      BY <1>1, <2>2, <3>1 DEF ReportsFit, Holding
  <2>3. CASE (out = <<"HoldToTalkReleased">> \/ out = <<"Cancelled">>) /\ Holding /\ ~press.hold
    <3>1. event' \in {"HoldToTalkReleased", "Cancelled"} /\ out' = <<>>
      BY <1>1, <2>3
    <3> QED
      BY <1>1, <2>3, <3>1 DEF ReportsFit, Holding
  <2>4. CASE Len(out) = 2 /\ out[1] = "Cancelled" /\ out[2] \in Refusals /\ Holding /\ ~press.hold
    <3>1. event' = "Cancelled" /\ Len(out') = 1 /\ out'[1] = out[2]
      <4>1. ASSUME NEW s \in Seq(Keys!Events), Len(s) = 2
            PROVE  Head(s) = s[1] /\ Len(Tail(s)) = 1 /\ Tail(s)[1] = s[2]
        BY <4>1
      <4> QED
        BY <1>1, <1>2, <2>4, <4>1, Zenon
    <3> QED
      BY <1>1, <2>4, <3>1 DEF ReportsFit, Holding
  <2>5. CASE Len(out) = 1 /\ out[1] \in {"InlineInvoked"} \cup Refusals /\ ~Holding /\ ~press.hold
    <3>1. event' = out[1] /\ out' = <<>>
      BY <1>1, <1>2, <2>5
    <3> QED
      BY <1>1, <2>5, <3>1 DEF ReportsFit, Holding, Refusals
  <2> QED
    BY <1>1, <2>1, <2>2, <2>3, <2>4, <2>5 DEF KeysInv, ReportsFit
<1> QED
  BY <1>4, <1>5, <1>6, <1>7 DEF KeysInv

\* A machine that is reset says that its hold is over, and nothing it was told counts.
LEMMA CancelFits ==
    ASSUME KeysInv, out = <<>>, Keys!CancelMachine, UNCHANGED event,
           out' = Keys!Cancelled \/ \E r \in Refusals : out' = Keys!Cancelled \o <<r>>
    PROVE  ReportsFit' /\ out' \in Seq(Keys!Events)
<1>1. ~press'.hold /\ Keys!Cancelled = IF Holding THEN <<"Cancelled">> ELSE <<>>
  BY Reset DEF KeysInv
<1>2. Holding' <=> Holding
  BY DEF Holding
<1>3. CASE out' = Keys!Cancelled
  <2>1. CASE Holding
    <3>1. out' = <<"Cancelled">>
      BY <1>1, <1>3, <2>1
    <3>2. out' \in Seq(Keys!Events)
      BY <3>1 DEF Keys!Events
    <3> QED
      BY <1>1, <1>2, <2>1, <3>1, <3>2 DEF ReportsFit
  <2>2. CASE ~Holding
    <3>1. out' = <<>>
      BY <1>1, <1>3, <2>2
    <3> QED
      BY <1>1, <1>2, <2>2, <3>1 DEF ReportsFit
  <2> QED
    BY <2>1, <2>2
<1>4. ASSUME NEW r \in Refusals, out' = Keys!Cancelled \o <<r>>
      PROVE  ReportsFit' /\ out' \in Seq(Keys!Events)
  <2>1. CASE Holding
    <3>1. Keys!Cancelled = <<"Cancelled">> /\ Keys!Cancelled \in Seq(Keys!Events)
          /\ r \in Keys!Events
      BY <1>1, <2>1 DEF Keys!Events, Refusals
    <3>2. out' \in Seq(Keys!Events) /\ Len(out') = 2 /\ out'[1] = "Cancelled" /\ out'[2] = r
      BY <1>4, <3>1
    <3> QED
      BY <1>1, <1>2, <2>1, <3>2 DEF ReportsFit
  <2>2. CASE ~Holding
    <3>1. out' = <<r>>
      BY <1>1, <1>4, <2>2
    <3>2. out' \in Seq(Keys!Events) /\ Len(out') = 1 /\ out'[1] = r
      BY <3>1 DEF Keys!Events, Refusals
    <3> QED
      BY <1>1, <1>2, <2>2, <3>1, <3>2 DEF ReportsFit
  <2> QED
    BY <2>1, <2>2
<1> QED
  BY <1>3, <1>4

\* A reset machine knows of no key: its queue is as it was, or empty.
LEMMA ResetMoves ==
    ASSUME KeysInv, out = <<>>, Keys!CancelMachine,
           out' = Keys!Cancelled \/ \E r \in Refusals : out' = Keys!Cancelled \o <<r>>,
           queue' = queue \/ queue' = <<>>,
           refused' \subseteq Refusals, keyFaults' \in 0..Troubles, tap' \in BOOLEAN,
           flags' \subseteq flags, keyAt' \in Keys!Steps,
           UNCHANGED <<inline, keyDown, clock, granted, keySecure, port, masked, keyChanges,
                       event, parity>>
    PROVE  KeysTyped' /\ ReportsFit'
<1>1. ReportsFit' /\ out' \in Seq(Keys!Events)
  BY CancelFits
<1>2. press' \in PressType /\ last' \in LastType
  BY Reset DEF KeysInv
<1>3. queue' \in Seq(Keys!Inputs) /\ Len(queue') <= Capacity
  <2>1. queue \in Seq(Keys!Inputs) /\ Len(queue) <= Capacity /\ Capacity \in Nat
    BY KeysBounds DEF KeysInv, KeysTyped
  <2>2. <<>> \in Seq(Keys!Inputs) /\ Len(<<>>) = 0
    OBVIOUS
  <2>3. CASE queue' = queue
    BY <2>1, <2>3
  <2>4. CASE queue' = <<>>
    BY <2>1, <2>2, <2>4
  <2> QED
    BY <2>3, <2>4
<1>4. KeysTyped'
  BY <1>1, <1>2, <1>3 DEF KeysInv, KeysTyped, PressType, LastType
<1> QED
  BY <1>1, <1>4

\* Control and Stop: a cancellation resets the machine, and nothing on its way changes.
LEMMA ControlMoves ==
    ASSUME KeysInv, Keys!Control \/ Keys!Stop
    PROVE  KeysInv'
<1> USE DEF Keys!world, Keys!machine, Keys!seen, Keys!Turn, Keys!Fault
<1>1. CASE (Keys!Control /\ "cancel" \in flags) \/ Keys!Stop
  <2>1. /\ out = <<>> /\ Keys!CancelMachine /\ out' = Keys!Cancelled
        /\ keyAt = "control" /\ keyAt' \in {"disabled", "stopped"} /\ queue' = queue
        /\ refused' = refused /\ tap' = tap
        /\ UNCHANGED <<inline, keyDown, clock, granted, keySecure, port, masked, keyChanges,
                       event, parity>>
    BY <1>1 DEF Keys!Control, Keys!Stop
  <2>2. flags' \in {flags, flags \ {"cancel"}}
    BY <1>1 DEF Keys!Control, Keys!Stop
  <2>3. keyFaults' \in 0..Troubles
    BY <1>1, KeysBounds DEF Keys!Control, Keys!Stop, KeysInv, KeysTyped
  <2>4. KeysTyped' /\ ReportsFit'
    <3>1. refused' \subseteq Refusals /\ tap' \in BOOLEAN /\ flags' \subseteq flags
          /\ keyAt' \in Keys!Steps
      BY <2>1, <2>2 DEF KeysInv, KeysTyped, Keys!Steps
    <3> QED
      BY <2>1, <2>3, <3>1, ResetMoves
  <2>5. press'.key = "none" /\ ~press'.hold
    BY <2>1, Reset DEF KeysInv
  <2>6. TurnsTaken'
    BY <2>1, <2>2, <2>5 DEF KeysInv, TurnsTaken
  <2>7. LastWord'
    <3>1. Lost' <=> Lost
      BY <2>1, <2>2 DEF Lost
    <3>2. TalkDown' <=> TalkDown
      BY <2>1 DEF TalkDown
    <3> QED
      BY <2>1, <2>5, <3>1, <3>2 DEF KeysInv, LastWord, NoTalk
  <2> QED
    BY <2>4, <2>6, <2>7 DEF KeysInv
<1>2. CASE Keys!Control /\ "cancel" \notin flags
  <2>1. /\ keyAt' = "disabled" /\ flags' = flags
        /\ UNCHANGED <<inline, keyDown, clock, tap, granted, keySecure, port, masked, keyChanges,
                       queue, press, last, refused, out, event, parity, keyFaults>>
    BY <1>2 DEF Keys!Control
  <2>2. KeysTyped'
    BY <2>1 DEF KeysInv, KeysTyped, Keys!Steps
  <2>3. ReportsFit' /\ TurnsTaken'
    BY <1>2, <2>1 DEF KeysInv, ReportsFit, Holding, TurnsTaken, Keys!Control
  <2>4. LastWord'
    BY <2>1 DEF KeysInv, LastWord, TalkDown, Lost, NoTalk
  <2> QED
    BY <2>2, <2>3, <2>4 DEF KeysInv
<1> QED
  BY <1>1, <1>2

\* A tap that was disabled is enabled again with a machine that was reset.
LEMMA DisabledMoves ==
    ASSUME KeysInv, Keys!Disabled
    PROVE  KeysInv'
<1> USE DEF Keys!machine, Keys!seen, Keys!Turn
<1>1. /\ keyAt = "disabled" /\ keyAt' = "permission" /\ out = <<>>
      /\ flags' = flags \ {"disabled"}
      /\ UNCHANGED <<inline, keyDown, clock, granted, keySecure, port, masked, keyChanges, queue,
                     refused, event, parity, keyFaults>>
  BY DEF Keys!Disabled
<1>2. CASE "disabled" \in flags
  <2>1. Keys!CancelMachine /\ out' = Keys!Cancelled /\ tap' = granted
    BY <1>2 DEF Keys!Disabled
  <2>2. KeysTyped' /\ ReportsFit'
    <3>1. refused' \subseteq Refusals /\ tap' \in BOOLEAN /\ flags' \subseteq flags
          /\ keyAt' \in Keys!Steps /\ keyFaults' \in 0..Troubles
      BY <1>1, <2>1 DEF KeysInv, KeysTyped, Keys!Steps
    <3> QED
      BY <1>1, <2>1, <3>1, ResetMoves
  <2>3. press'.key = "none" /\ ~press'.hold
    BY <1>1, <2>1, Reset DEF KeysInv
  <2>4. port = <<>> /\ queue = <<>>
    BY <1>2 DEF KeysInv, TurnsTaken
  <2>5. TurnsTaken'
    BY <1>1, <2>3, <2>4 DEF KeysInv, TurnsTaken
  <2>6. LastWord'
    BY <1>1, <2>3, <2>4 DEF LastWord, NoTalk
  <2> QED
    BY <2>2, <2>5, <2>6 DEF KeysInv
<1>3. CASE "disabled" \notin flags
  <2>1. UNCHANGED <<press, last, out, tap, flags>>
    BY <1>1, <1>3 DEF Keys!Disabled
  <2>2. KeysTyped'
    BY <1>1, <2>1 DEF KeysInv, KeysTyped, Keys!Steps
  <2>3. ReportsFit' /\ TurnsTaken'
    BY <1>1, <1>3, <2>1 DEF KeysInv, ReportsFit, Holding, TurnsTaken
  <2>4. LastWord'
    BY <1>1, <2>1 DEF KeysInv, LastWord, TalkDown, Lost, NoTalk
  <2> QED
    BY <2>2, <2>3, <2>4 DEF KeysInv
<1> QED
  BY <1>2, <1>3

\* A refusal drops what is queued, and resets the machine.
LEMMA RefusalMoves ==
    ASSUME KeysInv, out = <<>>, NEW r \in Refusals, Keys!Refuse(r),
           flags' \in SUBSET flags, flags \ {"permission", "secure"} \subseteq flags',
           UNCHANGED <<inline, keyDown, clock, tap, granted, keySecure, port, masked, keyChanges,
                       event, parity, keyFaults>>,
           keyAt' \in {"secure", "wait"},
           "disabled" \notin flags', keyAt' = "secure" => "permission" \notin flags',
           keyAt' = "wait" => flags' \subseteq {"cancel", "overflow"}
    PROVE  KeysInv'
<1>1. /\ Keys!CancelMachine /\ queue' = <<>> /\ refused' = refused \cup {r}
      /\ out' = Keys!Cancelled \o (IF r \in refused THEN <<>> ELSE <<r>>)
  BY DEF Keys!Refuse
<1>2. Keys!Cancelled \o <<>> = Keys!Cancelled
  BY DEF Keys!Cancelled
<1>3. out' = Keys!Cancelled \/ \E x \in Refusals : out' = Keys!Cancelled \o <<x>>
  BY <1>1, <1>2
<1>4. KeysTyped' /\ ReportsFit'
  <2>1. refused' \subseteq Refusals /\ tap' \in BOOLEAN /\ flags' \subseteq flags
        /\ keyAt' \in Keys!Steps /\ keyFaults' \in 0..Troubles
    BY <1>1 DEF KeysInv, KeysTyped, Keys!Steps
  <2> QED
    BY <1>1, <1>3, <2>1, ResetMoves
<1>5. press'.key = "none" /\ ~press'.hold
  BY <1>1, Reset DEF KeysInv
<1>6. TurnsTaken'
  BY <1>1, <1>5 DEF KeysInv, TurnsTaken
<1>7. LastWord'
  BY <1>1, <1>5 DEF KeysInv, LastWord, TalkDown, NoTalk
<1> QED
  BY <1>4, <1>6, <1>7 DEF KeysInv

\* The permission is refused, or was not missed.
LEMMA PermissionMoves ==
    ASSUME KeysInv, Keys!Permission
    PROVE  KeysInv'
<1> USE DEF Keys!world, Keys!machine, Keys!seen, Keys!Turn
<1>1. /\ keyAt = "permission" /\ keyAt' = "secure" /\ out = <<>>
      /\ flags' = flags \ {"permission"} /\ "disabled" \notin flags
      /\ UNCHANGED <<inline, keyDown, clock, tap, granted, keySecure, port, masked, keyChanges,
                     event, parity, keyFaults>>
  BY DEF Keys!Permission, KeysInv, TurnsTaken
<1>2. CASE "permission" \in flags
  <2>1. Keys!Refuse("PermissionRefused")
    BY <1>2 DEF Keys!Permission
  <2>2. "PermissionRefused" \in Refusals
    BY DEF Refusals
  <2>3. flags' \in SUBSET flags /\ flags \ {"permission", "secure"} \subseteq flags'
        /\ "disabled" \notin flags' /\ "permission" \notin flags'
    BY <1>1
  <2> QED
    BY <1>1, <2>1, <2>2, <2>3, RefusalMoves
<1>3. CASE "permission" \notin flags
  <2>1. UNCHANGED <<press, last, out, queue, refused, flags>>
    BY <1>1, <1>3 DEF Keys!Permission
  <2>2. KeysTyped'
    BY <1>1, <2>1 DEF KeysInv, KeysTyped, Keys!Steps
  <2>3. ReportsFit' /\ TurnsTaken'
    BY <1>1, <1>3, <2>1 DEF KeysInv, ReportsFit, Holding, TurnsTaken
  <2>4. LastWord'
    BY <1>1, <2>1 DEF KeysInv, LastWord, TalkDown, Lost, NoTalk
  <2> QED
    BY <2>2, <2>3, <2>4 DEF KeysInv
<1> QED
  BY <1>2, <1>3

\* Secure input is refused; otherwise an overflow resets the machine before the queue is read.
LEMMA SecureMoves ==
    ASSUME KeysInv, Keys!Secure
    PROVE  KeysInv'
<1> USE DEF Keys!world, Keys!machine, Keys!seen
<1>1. /\ keyAt = "secure" /\ out = <<>>
      /\ flags \subseteq {"cancel", "secure", "overflow"}
      /\ UNCHANGED <<inline, keyDown, clock, tap, granted, keySecure, port, masked, keyChanges,
                     event, parity, keyFaults>>
  BY DEF Keys!Secure, KeysInv, KeysTyped, TurnsTaken
<1>2. CASE keySecure \/ "secure" \in flags
  <2>1. Keys!Refuse("SecureInputRefused") /\ keyAt' = "wait" /\ flags' = flags \ {"secure"}
    BY <1>2 DEF Keys!Secure
  <2>2. "SecureInputRefused" \in Refusals
    BY DEF Refusals
  <2>3. flags' \in SUBSET flags /\ flags \ {"permission", "secure"} \subseteq flags'
        /\ "disabled" \notin flags' /\ flags' \subseteq {"cancel", "overflow"}
    BY <1>1, <2>1
  <2> QED
    BY <1>1, <2>1, <2>2, <2>3, RefusalMoves
<1>3. CASE ~(keySecure \/ "secure" \in flags)
  <2>1. keyAt' = "dispatch" /\ flags' = flags \ {"overflow"} /\ refused' = {}
        /\ flags' \subseteq {"cancel"}
    BY <1>1, <1>3 DEF Keys!Secure
  <2>2. CASE "overflow" \in flags
    <3>1. Keys!CancelMachine /\ out' = Keys!Cancelled /\ queue' = <<>>
      BY <1>3, <2>2 DEF Keys!Secure
    <3>2. KeysTyped' /\ ReportsFit'
      <4>1. refused' \subseteq Refusals /\ tap' \in BOOLEAN /\ flags' \subseteq flags
            /\ keyAt' \in Keys!Steps /\ keyFaults' \in 0..Troubles
        BY <1>1, <2>1 DEF KeysInv, KeysTyped, Keys!Steps
      <4> QED
        BY <1>1, <3>1, <4>1, ResetMoves
    <3>3. press'.key = "none" /\ ~press'.hold
      BY <1>1, <3>1, Reset DEF KeysInv
    <3>4. TurnsTaken'
      BY <1>1, <2>1, <3>1, <3>3 DEF KeysInv, TurnsTaken
    <3>5. LastWord'
      BY <1>1, <3>1, <3>3 DEF KeysInv, LastWord, TalkDown, NoTalk
    <3> QED
      BY <3>2, <3>4, <3>5 DEF KeysInv
  <2>3. CASE "overflow" \notin flags
    <3>1. UNCHANGED <<press, last, out, queue, flags>>
      BY <1>3, <2>1, <2>3 DEF Keys!Secure
    <3>2. KeysTyped'
      BY <1>1, <2>1, <3>1 DEF KeysInv, KeysTyped, Keys!Steps
    <3>3. ReportsFit' /\ TurnsTaken'
      BY <1>1, <2>1, <3>1 DEF KeysInv, ReportsFit, Holding, TurnsTaken
    <3>4. LastWord'
      BY <1>1, <3>1 DEF KeysInv, LastWord, TalkDown, Lost, NoTalk
    <3> QED
      BY <3>2, <3>3, <3>4 DEF KeysInv
  <2> QED
    BY <2>2, <2>3
<1> QED
  BY <1>2, <1>3

\* What is dispatched was the last word on the key, unless a later one is on its way.
LEMMA DispatchMoves ==
    ASSUME KeysInv, Keys!Dispatch
    PROVE  KeysInv'
<1> USE DEF Keys!world, Keys!machine, Keys!seen
<1>1. /\ keyAt = "dispatch" /\ out = <<>>
      /\ UNCHANGED <<inline, keyDown, clock, tap, granted, keySecure, port, masked, keyChanges,
                     flags, refused, event, parity, keyFaults>>
  BY DEF Keys!Dispatch
<1>2. CASE queue = <<>>
  <2>1. keyAt' = "poll" /\ UNCHANGED <<press, last, out, queue>>
    BY <1>2 DEF Keys!Dispatch
  <2>2. KeysTyped'
    BY <1>1, <2>1 DEF KeysInv, KeysTyped, Keys!Steps
  <2>3. ReportsFit' /\ TurnsTaken'
    BY <1>1, <1>2, <2>1 DEF KeysInv, ReportsFit, Holding, TurnsTaken
  <2>4. LastWord'
    BY <1>1, <2>1 DEF KeysInv, LastWord, TalkDown, Lost, NoTalk
  <2> QED
    BY <2>2, <2>3, <2>4 DEF KeysInv
<1>3. CASE queue # <<>>
  <2> DEFINE i == Head(queue)
  <2>1. Keys!Handle(i) /\ queue' = Tail(queue) /\ keyAt' = keyAt
    BY <1>3 DEF Keys!Dispatch
  <2>2. i \in Keys!Inputs /\ i = queue[1] /\ queue' = <<>> /\ Len(queue) = 1
    <3>1. queue \in Seq(Keys!Inputs) /\ Len(queue) <= 1
      BY DEF KeysInv, KeysTyped, TurnsTaken
    <3>2. ASSUME NEW s \in Seq(Keys!Inputs), Len(s) <= 1, s # <<>>
          PROVE  Head(s) \in Keys!Inputs /\ Head(s) = s[1] /\ Tail(s) = <<>> /\ Len(s) = 1
      <4>1. Len(s) = 1 /\ Head(s) \in Keys!Inputs /\ Head(s) = s[1]
        <5>1. Len(s) \in Nat /\ (Len(s) = 0 => s = <<>>)
          OBVIOUS
        <5>2. Len(s) # 0
          BY <3>2, <5>1, Zenon
        <5>3. \A n \in Nat : n <= 1 /\ n # 0 => n = 1
          OBVIOUS
        <5>4. Len(s) = 1
          BY <3>2, <5>1, <5>2, <5>3, Zenon
        <5> QED
          BY <3>2, <5>4
      <4>2. Tail(s) \in Seq(Keys!Inputs) /\ Len(Tail(s)) = 0
        BY <3>2, <4>1
      <4>3. \A t \in Seq(Keys!Inputs) : Len(t) = 0 => t = <<>>
        OBVIOUS
      <4> QED
        BY <4>1, <4>2, <4>3, Zenon
    <3> QED
      BY <1>3, <2>1, <3>1, <3>2, Zenon
  <2>3. /\ press' \in PressType /\ last' \in LastType
        /\ Ignores(i) \/ Takes(i) \/ LetsGo(i)
    BY <2>1, <2>2, HandledKey DEF KeysInv
  <2> HIDE DEF i
  <2>4. (Holding <=> press.hold) /\ (Holding' <=> Holding) /\ (press.hold => press.key = "talk")
    BY <1>1 DEF KeysInv, ReportsFit, Holding, TurnsTaken
  <2>5. ReportsFit' /\ out' \in Seq(Keys!Events)
    <3>1. CASE Ignores(i)
      BY <2>4, <3>1 DEF Ignores, ReportsFit
    <3>2. CASE Takes(i)
      <4>1. out' = IF press.hold THEN <<"Cancelled">> ELSE <<>>
        BY <3>2 DEF Takes
      <4>2. out' \in Seq(Keys!Events)
        <5>1. <<"Cancelled">> \in Seq(Keys!Events) /\ <<>> \in Seq(Keys!Events)
          BY DEF Keys!Events
        <5> QED
          BY <4>1, <5>1
      <4> QED
        BY <2>4, <3>2, <4>1, <4>2 DEF Takes, ReportsFit
    <3>3. CASE LetsGo(i)
      <4>1. out' \in {<<>>, <<"HoldToTalkReleased">>, <<"InlineInvoked">>,
                      <<"HoldToTalkStarted", "HoldToTalkReleased">>}
        BY <3>3 DEF LetsGo
      <4>2. out' \in Seq(Keys!Events)
        <5>1. /\ <<"HoldToTalkReleased">> \in Seq(Keys!Events) /\ <<>> \in Seq(Keys!Events)
              /\ <<"InlineInvoked">> \in Seq(Keys!Events)
              /\ <<"HoldToTalkStarted", "HoldToTalkReleased">> \in Seq(Keys!Events)
          BY DEF Keys!Events
        <5> QED
          BY <4>1, <5>1
      <4>3. ReportsFit'
        BY <2>4, <3>3 DEF LetsGo, ReportsFit
      <4> QED
        BY <4>2, <4>3
    <3> QED
      BY <2>3, <3>1, <3>2, <3>3
  <2>6. KeysTyped'
    <3>1. queue' \in Seq(Keys!Inputs) /\ Len(queue') <= Capacity
      <4>1. <<>> \in Seq(Keys!Inputs) /\ Len(<<>>) = 0
        OBVIOUS
      <4>2. 0 <= Capacity
        BY KeysBounds
      <4> QED
        BY <2>2, <4>1, <4>2
    <3> QED
      BY <1>1, <2>1, <2>3, <2>5, <3>1 DEF KeysInv, KeysTyped, PressType, LastType
  <2>7. TurnsTaken'
    <3>1. press'.hold => press'.key = "talk"
      BY <2>3, <2>4 DEF Ignores, Takes, LetsGo
    <3>2. Len(queue') <= 1
      BY <2>2
    <3> QED
      BY <1>1, <1>3, <2>1, <2>2, <3>1, <3>2 DEF KeysInv, TurnsTaken
  <2>8. LastWord'
    <3>1. (Lost' <=> Lost) /\ (TalkDown' <=> TalkDown)
      BY <1>1 DEF Lost, TalkDown
    <3>2. ASSUME ~Lost, NoTalk(port), press'.key = "talk" PROVE TalkDown
      <4>1. i.key = "talk" /\ i.pressed => TalkDown
        BY <1>3, <2>2, <3>2 DEF KeysInv, LastWord
      <4>2. CASE i.key # "talk"
        <5>1. NoTalk(queue)
          BY <2>2, <4>2 DEF NoTalk
        <5>2. press'.key = press.key
          BY <2>3, <3>2, <4>2 DEF Ignores, Takes, LetsGo
        <5> QED
          BY <3>2, <5>1, <5>2 DEF KeysInv, LastWord
      <4>3. CASE i.key = "talk"
        <5>1. i.pressed
          BY <2>3, <3>2, <4>3 DEF Ignores, Takes, LetsGo
        <5> QED
          BY <4>1, <4>3, <5>1
      <4> QED
        BY <4>2, <4>3
    <3> QED
      BY <1>1, <2>2, <3>1, <3>2 DEF KeysInv, LastWord, NoTalk
  <2> QED
    BY <2>5, <2>6, <2>7, <2>8 DEF KeysInv
<1> QED
  BY <1>2, <1>3

\* A hold is started of a key the machine has, and of which nothing is queued.
LEMMA PollMoves ==
    ASSUME KeysInv, Keys!Poll
    PROVE  KeysInv'
<1> USE DEF Keys!world, Keys!machine, Keys!seen, Keys!Turn
<1>1. /\ keyAt = "poll" /\ keyAt' = "wait" /\ out = <<>>
      /\ UNCHANGED <<inline, keyDown, clock, tap, granted, keySecure, port, masked, keyChanges,
                     queue, flags, refused, event, parity, keyFaults>>
  BY DEF Keys!Poll
<1>2. press \in PressType /\ last \in LastType /\ 0 \in 0..Ticks
  BY KeysBounds DEF KeysInv, KeysTyped, PressType, LastType
<1>3. CASE press.eligible /\ ~press.hold /\ press.key = "talk" /\ clock - press.since >= HoldDelay
  <2>1. press' = [press EXCEPT !.hold = TRUE] /\ last' = Keys!Nothing
        /\ out' = <<"HoldToTalkStarted">>
    BY <1>3 DEF Keys!Poll
  <2>2. press' \in PressType /\ press'.hold /\ press'.key = "talk" /\ press.key = "talk"
    BY <1>2, <1>3, <2>1 DEF PressType
  <2>3. last' \in LastType
    BY <1>2, <2>1 DEF LastType, Keys!Nothing
  <2>4. out' \in Seq(Keys!Events)
    BY <2>1 DEF Keys!Events
  <2>5. KeysTyped'
    BY <1>1, <2>2, <2>3, <2>4 DEF KeysInv, KeysTyped, PressType, LastType, Keys!Steps
  <2>6. ReportsFit'
    BY <1>1, <1>3, <2>1, <2>2 DEF KeysInv, ReportsFit, Holding
  <2>7. TurnsTaken'
    BY <1>1, <2>2 DEF KeysInv, TurnsTaken
  <2>8. LastWord'
    BY <1>1, <2>2 DEF KeysInv, LastWord, TalkDown, Lost, NoTalk
  <2> QED
    BY <2>5, <2>6, <2>7, <2>8 DEF KeysInv
<1>4. CASE ~(press.eligible /\ ~press.hold /\ press.key = "talk"
                /\ clock - press.since >= HoldDelay)
  <2>1. UNCHANGED <<press, last, out>>
    BY <1>4 DEF Keys!Poll
  <2>2. KeysTyped'
    BY <1>1, <2>1 DEF KeysInv, KeysTyped, Keys!Steps
  <2>3. ReportsFit' /\ TurnsTaken'
    BY <1>1, <2>1 DEF KeysInv, ReportsFit, Holding, TurnsTaken
  <2>4. LastWord'
    BY <1>1, <2>1 DEF KeysInv, LastWord, TalkDown, Lost, NoTalk
  <2> QED
    BY <2>2, <2>3, <2>4 DEF KeysInv
<1> QED
  BY <1>3, <1>4

\* Of a change that is taken from those on their way, the rest keeps its order.
LEMMA RestOfPort ==
    ASSUME KeysInv, port # <<>>, port' = Tail(port), TalkDown' <=> TalkDown
    PROVE  /\ \A j \in 1..Len(port') :
                 port'[j].key = "talk" /\ port'[j].pressed
                    /\ (\A k \in 1..Len(port') : k > j => port'[k].key # "talk") => TalkDown'
           /\ NoTalk(port') /\ Head(port).key = "talk" /\ Head(port).pressed => TalkDown
           /\ NoTalk(port') /\ Head(port).key # "talk" => NoTalk(port)
<1>1. /\ Len(port) \in Nat /\ Len(port') = Len(port) - 1 /\ Len(port) > 0
      /\ \A k \in 1..Len(port') : port'[k] = port[k + 1]
      /\ Head(port) = port[1]
  BY DEF KeysInv, KeysTyped
<1>2. \A k \in 1..Len(port) : k > 1 => k - 1 \in 1..Len(port') /\ port[k] = port'[k - 1]
  BY <1>1
<1>3. \A j \in 1..Len(port) :
          port[j].key = "talk" /\ port[j].pressed
             /\ (\A k \in 1..Len(port) : k > j => port[k].key # "talk") => TalkDown
  BY DEF KeysInv, LastWord
<1>4. ASSUME NEW j \in 1..Len(port'), port'[j].key = "talk", port'[j].pressed,
             \A k \in 1..Len(port') : k > j => port'[k].key # "talk"
      PROVE  TalkDown'
  <2>1. j + 1 \in 1..Len(port) /\ port[j + 1] = port'[j]
    BY <1>1
  <2>2. ASSUME NEW k \in 1..Len(port), k > j + 1 PROVE port[k].key # "talk"
    <3>1. k - 1 \in 1..Len(port') /\ port[k] = port'[k - 1] /\ k - 1 > j
      BY <1>1, <1>2, <2>2
    <3> QED
      BY <1>4, <3>1
  <2> QED
    BY <1>3, <1>4, <2>1, <2>2
<1>5. ASSUME NoTalk(port') PROVE \A k \in 1..Len(port) : k > 1 => port[k].key # "talk"
  BY <1>2, <1>5 DEF NoTalk
<1>6. NoTalk(port') /\ Head(port).key = "talk" /\ Head(port).pressed => TalkDown
  <2>1. 1 \in 1..Len(port)
    BY <1>1
  <2> QED
    BY <1>1, <1>3, <1>5, <2>1
<1>7. NoTalk(port') /\ Head(port).key # "talk" => NoTalk(port)
  <2>1. \A k \in 1..Len(port) : k = 1 \/ k > 1
    BY <1>1
  <2> QED
    BY <1>1, <1>5, <2>1 DEF NoTalk
<1> QED
  BY <1>4, <1>6, <1>7

\* The callback queues the first change that is on its way, or flags that it is lost.
LEMMA WaitMoves ==
    ASSUME KeysInv, Keys!Wait
    PROVE  KeysInv'
<1> USE DEF Keys!machine, Keys!seen, Keys!Turn
<1>1. /\ keyAt = "wait" /\ keyAt' = "control" /\ out = <<>>
      /\ UNCHANGED <<inline, keyDown, clock, tap, granted, keySecure, masked, keyChanges,
                     press, last, refused, out, event, parity, keyFaults>>
  BY DEF Keys!Wait
<1>2. queue = <<>> /\ flags \subseteq {"cancel", "overflow"} /\ ("overflow" \in flags => Capacity = 0)
  BY <1>1 DEF KeysInv, TurnsTaken
<1>3. ReportsFit'
  BY <1>1 DEF KeysInv, ReportsFit, Holding
<1>4. TalkDown' <=> TalkDown
  BY <1>1 DEF TalkDown
<1>5. CASE port = <<>>
  <2>1. UNCHANGED <<port, queue, flags>>
    BY <1>5 DEF Keys!Wait
  <2>2. KeysTyped'
    BY <1>1, <2>1 DEF KeysInv, KeysTyped, Keys!Steps
  <2>3. TurnsTaken'
    BY <1>1, <2>1 DEF KeysInv, TurnsTaken
  <2>4. LastWord'
    BY <1>1, <2>1 DEF KeysInv, LastWord, TalkDown, Lost, NoTalk
  <2> QED
    BY <1>3, <2>2, <2>3, <2>4 DEF KeysInv
<1>6. CASE port # <<>>
  <2> DEFINE i == Head(port)
  <2>1. Keys!Callback
    BY <1>6 DEF Keys!Wait
  <2>2. port' = Tail(port) /\ i \in Keys!Inputs /\ port' \in Seq(Keys!Inputs) /\ i = port[1]
        /\ 1 \in 1..Len(port) /\ (Len(port) = 1 => port' = <<>>)
    <3>1. port' = Tail(port)
      BY <2>1, CalledBack
    <3>2. port \in Seq(Keys!Inputs)
      BY DEF KeysInv, KeysTyped
    <3> QED
      BY <1>6, <3>1, <3>2
  <2>3. \A k \in 1..Len(port') : port'[k] = port[k + 1] /\ k + 1 \in 1..Len(port)
    BY <1>6, <2>2 DEF KeysInv, KeysTyped
  <2>4. /\ \A j \in 1..Len(port') :
              port'[j].key = "talk" /\ port'[j].pressed
                 /\ (\A k \in 1..Len(port') : k > j => port'[k].key # "talk") => TalkDown'
        /\ NoTalk(port') /\ i.key = "talk" /\ i.pressed => TalkDown
        /\ NoTalk(port') /\ i.key # "talk" => NoTalk(port)
    BY <1>4, <1>6, <2>2, RestOfPort
  <2>5. Len(queue) = 0 /\ Capacity \in Nat
    BY <1>2, KeysBounds
  <2>6. KeysTyped' /\ queue' \in {<<>>, <<i>>}
    <3>1. queue' = queue \/ (queue' = Append(queue, i) /\ ~(Len(queue) >= Capacity))
      BY <2>1, CalledBack
    <3>2. queue' = <<>> \/ (queue' = <<i>> /\ 1 <= Capacity)
      BY <1>2, <2>5, <3>1
    <3>3. \A y \in Keys!Inputs : <<y>> \in Seq(Keys!Inputs) /\ Len(<<y>>) = 1
      OBVIOUS
    <3>4. <<>> \in Seq(Keys!Inputs) /\ Len(<<>>) = 0
      OBVIOUS
    <3> HIDE DEF i
    <3>5. queue' \in Seq(Keys!Inputs) /\ Len(queue') <= Capacity
      <4>1. CASE queue' = <<>>
        BY <2>5, <3>4, <4>1
      <4>2. CASE queue' = <<i>> /\ 1 <= Capacity
        BY <2>2, <3>3, <4>2
      <4> QED
        BY <3>2, <4>1, <4>2
    <3>6. flags' \subseteq {"cancel", "disabled", "permission", "secure", "overflow"}
      BY <1>2, <2>1, CalledBack
    <3> QED
      BY <1>1, <2>2, <3>2, <3>5, <3>6 DEF KeysInv, KeysTyped, Keys!Steps
  <2> HIDE DEF i
  <2>7. CASE i.key = "disabled"
    <3>1. /\ flags' = flags \cup {"disabled"} \cup (IF granted THEN {} ELSE {"permission"})
          /\ queue' = queue
      BY <2>1, <2>7, CalledBack DEF i
    <3>2. ~tap /\ port' = <<>>
      BY <1>6, <2>2, <2>7 DEF KeysInv, TurnsTaken
    <3>3. TurnsTaken'
      BY <1>1, <1>2, <3>1, <3>2 DEF KeysInv, TurnsTaken
    <3>4. LastWord'
      BY <1>1, <2>4, <3>2 DEF LastWord, Lost
    <3> QED
      BY <1>3, <2>6, <3>3, <3>4 DEF KeysInv
  <2>8. CASE i.key # "disabled"
    <3>1. tap /\ \A k \in 1..Len(port') : port'[k].key # "disabled"
      BY <1>6, <2>2, <2>3, <2>8 DEF KeysInv, TurnsTaken
    <3>2. \/ queue' = <<>> /\ flags' = flags \cup {"secure"}
          \/ queue' = <<>> /\ flags' = flags \cup {"overflow"} /\ Capacity = 0
          \/ queue' = <<i>> /\ flags' = flags /\ Capacity # 0
      <4>1. Append(queue, i) = <<i>>
        BY <1>2
      <4> QED
        BY <1>2, <2>1, <2>5, <2>8, <4>1, CalledBack DEF i
    <3>3. TurnsTaken'
      <4>1. Len(<<i>>) = 1 /\ Len(<<>>) = 0 /\ <<i>> # <<>>
        OBVIOUS
      <4>2. Len(queue') <= 1
        <5>1. queue' = <<>> \/ queue' = <<i>>
          BY <3>2
        <5>2. Len(queue') = 0 \/ Len(queue') = 1
          BY <4>1, <5>1, Zenon
        <5> QED
          BY <5>2
      <4>3. ASSUME queue' # <<>> PROVE flags' \subseteq {"cancel"}
        <5>1. flags' = flags /\ Capacity # 0
          BY <3>2, <4>3, Zenon
        <5> QED
          BY <1>2, <5>1
      <4>4. "overflow" \in flags' => Capacity = 0
        BY <1>2, <3>2
      <4>5. "disabled" \notin flags'
        BY <1>2, <3>2
      <4> QED
        BY <1>1, <3>1, <4>2, <4>3, <4>4, <4>5 DEF KeysInv, TurnsTaken
    <3>4. LastWord'
      <4>1. CASE queue' = <<>> /\ flags' \in {flags \cup {"secure"}, flags \cup {"overflow"}}
        <5>1. Lost'
          BY <4>1 DEF Lost
        <5> QED
          BY <2>4, <5>1 DEF LastWord
      <4>2. CASE queue' = <<i>> /\ flags' = flags
        <5>1. (Lost' <=> Lost) /\ queue'[1] = i /\ Len(queue') = 1
          BY <1>1, <4>2 DEF Lost
        <5>2. ~Lost' /\ NoTalk(port') /\ queue' # <<>> /\ queue'[1].key = "talk"
                 /\ queue'[1].pressed => TalkDown'
          BY <1>4, <2>4, <5>1
        <5>3. NoTalk(queue') => i.key # "talk"
          BY <5>1 DEF NoTalk
        <5>4. NoTalk(queue)
          BY <2>5 DEF NoTalk
        <5>5. ~Lost' /\ NoTalk(port') /\ NoTalk(queue') /\ press'.key = "talk" => TalkDown'
          BY <1>1, <1>4, <2>4, <5>1, <5>3, <5>4 DEF KeysInv, LastWord
        <5> QED
          BY <2>4, <5>2, <5>5 DEF LastWord, NoTalk
      <4> QED
        BY <3>2, <4>1, <4>2
    <3> QED
      BY <1>3, <2>6, <3>3, <3>4 DEF KeysInv
  <2> QED
    BY <2>7, <2>8
<1> QED
  BY <1>5, <1>6

\* At the start no key is down and nothing is on its way.
LEMMA KeysStart == Keys!Init => KeysInv
<1> SUFFICES ASSUME Keys!Init PROVE KeysInv
  OBVIOUS
<1> USE DEF Keys!Init
<1>1. KeysTyped
  <2>1. 0 \in 0..Ticks /\ 0 \in 0..Strokes /\ 0 \in 0..Troubles /\ 0 <= Capacity
    BY KeysBounds
  <2>2. press \in PressType /\ last \in LastType
    BY <2>1 DEF PressType, LastType, Keys!NoPress, Keys!Nothing
  <2>3. port \in Seq(Keys!Inputs) /\ queue \in Seq(Keys!Inputs) /\ out \in Seq(Keys!Events)
        /\ Len(queue) = 0
    OBVIOUS
  <2>4. Len(queue) <= Capacity
    BY <2>1, <2>3
  <2>5. /\ inline \in {"inline", "talk"} /\ keyDown \subseteq Keys!Keys /\ clock \in 0..Ticks
        /\ tap \in BOOLEAN /\ granted \in BOOLEAN /\ keySecure \in BOOLEAN /\ masked \in BOOLEAN
        /\ flags \subseteq {"cancel", "disabled", "permission", "secure", "overflow"}
    BY <2>1
  <2>6. /\ keyAt \in Keys!Steps /\ refused \subseteq Refusals
        /\ event \in Keys!Events \cup {"none"} /\ parity \in 0..1
        /\ keyChanges \in 0..Strokes /\ keyFaults \in 0..Troubles
    BY <2>1 DEF Keys!Steps
  <2> HIDE DEF Keys!Init
  <2> QED
    BY <2>2, <2>3, <2>4, <2>5, <2>6 DEF KeysTyped, PressType, LastType
<1>2. ReportsFit /\ TurnsTaken
  BY DEF ReportsFit, Holding, TurnsTaken, Keys!NoPress
<1>3. LastWord
  BY DEF LastWord, Keys!NoPress
<1> QED
  BY <1>1, <1>2, <1>3 DEF KeysInv

\* Every step keeps the invariant, the stutter of another part included.
LEMMA KeysStep == KeysInv /\ [Keys!Next]_Keys!vars => KeysInv'
<1>1. KeysInv /\ Keys!Next => KeysInv'
  BY KeyMoves, WorldMoves, ReportMoves, ControlMoves, DisabledMoves, PermissionMoves, SecureMoves,
     DispatchMoves, PollMoves, WaitMoves
     DEF Keys!Next
<1>2. ASSUME KeysInv, UNCHANGED Keys!vars PROVE KeysInv'
  <2> USE <1>2 DEF Keys!vars, Keys!machine, Keys!seen
  <2>1. KeysTyped'
    BY DEF KeysInv, KeysTyped
  <2>2. ReportsFit' /\ TurnsTaken'
    BY DEF KeysInv, ReportsFit, Holding, TurnsTaken
  <2>3. LastWord'
    BY DEF KeysInv, LastWord, TalkDown, Lost, NoTalk
  <2> QED
    BY <2>1, <2>2, <2>3 DEF KeysInv
<1> QED
  BY <1>1, <1>2

\* Nothing but a report changes what was reported.
LEMMA ReportsPaired ==
    KeysInv /\ [Keys!Next]_Keys!vars => [Keys!Contract!Next]_<<event, parity>>
<1>1. KeysInv /\ Keys!Next => [Keys!Contract!Next]_<<event, parity>>
  <2> USE DEF Keys!seen
  <2>1. Keys!Report \/ UNCHANGED <<event, parity>> \/ ~Keys!Next
    BY DEF Keys!Next, Keys!Key, Keys!Tick, Keys!Disable, Keys!SecureInput, Keys!CancelActive,
           Keys!Control, Keys!Stop, Keys!Disabled, Keys!Permission, Keys!Secure, Keys!Dispatch,
           Keys!Poll, Keys!Wait
  <2> QED
    BY <2>1, ReportMoves
<1>2. UNCHANGED Keys!vars => UNCHANGED <<event, parity>>
  BY DEF Keys!vars, Keys!seen
<1> QED
  BY <1>1, <1>2

\* The invariant is strong enough.
LEMMA KeysHeld == KeysInv => Keys!TypeOK /\ Keys!HeldKeyIsDownUnlessTwin
<1> SUFFICES ASSUME KeysInv PROVE Keys!TypeOK /\ Keys!HeldKeyIsDownUnlessTwin
  OBVIOUS
<1>1. Keys!TypeOK
  BY SameKeyTypes DEF KeysInv
<1>2. out = <<>> => (Keys!Contract!Holding <=> press.hold)
  BY DEF KeysInv, ReportsFit, Holding, Keys!Contract!Holding
<1>3. ASSUME Keys!Quiet, Keys!Contract!Holding PROVE "talk" \in keyDown \/ masked
  <2>1. press.key = "talk" /\ port = <<>> /\ queue = <<>> /\ flags = {}
    BY <1>2, <1>3 DEF Keys!Quiet, KeysInv, TurnsTaken
  <2>2. tap
    BY <2>1 DEF KeysInv, TurnsTaken
  <2>3. NoTalk(port) /\ NoTalk(queue)
    BY <2>1 DEF NoTalk
  <2>4. ~Lost
    BY <2>1, <2>2 DEF Lost
  <2> QED
    BY <2>1, <2>3, <2>4 DEF KeysInv, LastWord, TalkDown
<1>4. keyAt = "stopped" /\ out = <<>> => ~Keys!Contract!Holding
  BY <1>2 DEF KeysInv, TurnsTaken
<1> QED
  BY <1>1, <1>3, <1>4 DEF Keys!HeldKeyIsDownUnlessTwin

\* KeysSound: the reports are those of holds that start and end in turn, and a hold that
\* lasts while nothing is on its way is of a key that is down, twin keys left aside; no hold
\* outlives its monitor.
THEOREM KeysIsSound == PartsSpec => KeysSound
<1>1. PartsInit => KeysInv
  BY KeysStart DEF PartsInit
<1>2. [Step]_allvars => [Keys!Next]_Keys!vars
  BY DEF Step, allvars, keyVars, Keys!vars, Keys!machine, Keys!seen
<1>3. PartsInit => Keys!Contract!Init
  BY DEF PartsInit, Keys!Init, Keys!Contract!Init
<1> QED
  BY <1>1, <1>2, <1>3, KeysStep, ReportsPaired, KeysHeld, PTL
     DEF PartsSpec, KeysSound, Keys!HoldsPaired, Keys!Contract!Spec

-----------------------------------------------------------------------------
(***************************************************************************)
(* The companion panel.  The window and the panel agree but for what is on *)
(* its way between them: the last event the window takes for somebody      *)
(* else's has the panel's mode, and without such an event either the last  *)
(* request decides or the window's mode is the panel's.                    *)
(***************************************************************************)
Wants(cmd) == IF cmd = "collapse" THEN "collapsed" ELSE "expanded"
PanelCmds == {"expand", "focus", "collapse"}
PanelOp == [id : Nat, cmd : PanelCmds, mode : Panel!Modes,
            origin : {Panel!None, "hover", "focused"}, armed : BOOLEAN, sure : BOOLEAN]
PanelFlight == [id : Nat \ {0}, op : PanelOp, sent : Nat, answer : {Panel!None, "ok", "error"}]
PanelCall == [cmd : PanelCmds \cup {"pointerReady", "dragStart", "dragEnd"}]
             \cup [cmd : {"dragFrame"}, at : Pointed]
PanelEvent == [kind : {"state"}, mode : Panel!Modes, id : Nat]
              \cup [kind : {"pointer"}, at : {"in", "out"}] \cup [kind : {"dragOver"}]

InFlight == panelFlight # Panel!NoFlight
Unanswered == InFlight /\ panelFlight.answer = Panel!None
\* The request whose failure the window has not handled: from then on it is not its own.
LostId == IF InFlight /\ panelFlight.answer = "error" THEN panelFlight.id ELSE 0

PanelTyped ==
    /\ Panel!TypeOK
    /\ panelQueue \in Seq(PanelOp) /\ panelCalls \in Seq(PanelCall)
    /\ panelMail \in Seq(PanelEvent)
    /\ panelFlight \in {Panel!NoFlight} \cup PanelFlight

\* What the events on their way say of the requests.
Told(box, n) == \A k \in DOMAIN box : box[k].kind = "state" => box[k].id < n
ToldOnce(box) ==
    \A k, l \in DOMAIN box :
        /\ box[k].kind = "state" /\ box[l].kind = "state"
        /\ box[k].id = box[l].id /\ box[k].id # 0
        => k = l

Strangers(box, mine, lost) ==
    {k \in DOMAIN box : box[k].kind = "state" /\ (box[k].id \notin mine \/ box[k].id = lost)}
LastSays(box, mine, lost, m) ==
    \A k \in Strangers(box, mine, lost) :
        (\A l \in Strangers(box, mine, lost) : l <= k) => box[k].mode = m /\ box[k].id \notin mine

Pointers(box) == {k \in DOMAIN box : box[k].kind = "pointer"}
LastSeen(box, in, at) ==
    /\ \A k \in Pointers(box) : (\A l \in Pointers(box) : l <= k) => box[k].at = at
    /\ Pointers(box) = {} => in = (at = "in")

\* Requests are told apart by their numbers, and the newest has made the window's mode.
RequestsOrdered ==
    /\ \A i \in DOMAIN panelQueue :
          /\ panelFlight.id < panelQueue[i].id /\ panelQueue[i].id <= panelGeneration
          /\ Told(panelMail, panelQueue[i].id)
          /\ panelQueue[i].id = panelGeneration => panelMode = Wants(panelQueue[i].cmd)
    /\ \A i, j \in DOMAIN panelQueue : i < j => panelQueue[i].id < panelQueue[j].id
    /\ panelFlight.id <= panelGeneration
    /\ InFlight => panelFlight.op.id = panelFlight.id /\ panelFlight.sent = panelFlight.id
    /\ Unanswered => /\ panelFlight.id \in panelOwn /\ Told(panelMail, panelFlight.id)
                     /\ panelFlight.id = panelGeneration => panelMode = Wants(panelFlight.op.cmd)
    /\ Told(panelMail, panelGeneration + 1) /\ ToldOnce(panelMail)

\* Before the i-th call is served a drag has begun and not ended.
HeldBefore(calls, drag, i) ==
    \/ \E j \in 1..i-1 : /\ calls[j].cmd = "dragStart"
                         /\ \A k \in j+1..i-1 : calls[k].cmd # "dragEnd"
    \/ drag # Panel!None /\ \A k \in 1..i-1 : calls[k].cmd # "dragEnd"

\* One request of the window is with the application, and drags end after they began.
CallsOrdered ==
    /\ \A i \in DOMAIN panelCalls : panelCalls[i].cmd \in PanelCmds =>
          Unanswered /\ panelCalls[i].cmd = panelFlight.op.cmd
    /\ \A i, j \in DOMAIN panelCalls :
          panelCalls[i].cmd \in PanelCmds /\ panelCalls[j].cmd \in PanelCmds => i = j
    /\ \A i \in DOMAIN panelCalls : panelCalls[i].cmd \in {"dragFrame", "dragEnd"} =>
          HeldBefore(panelCalls, panelDragMode, i)
    /\ panelDragging => HeldBefore(panelCalls, panelDragMode, Len(panelCalls) + 1)

\* The mode of the panel: that from before the drag, or what its size says.
Stands == IF panelDragMode # Panel!None THEN panelDragMode ELSE Panel!ModeOf(panelFrame)

Settled ==
    /\ InFlight /\ panelFlight.id = panelGeneration =>
          /\ panelFlight.answer = Panel!None /\ panelFlight.op.sure => panelFlight.op.mode = Stands
          /\ panelFlight.answer = "error" => panelFlight.op.mode = Stands
          /\ panelFlight.answer = "ok" => panelMode = Stands
    /\ \A i \in DOMAIN panelQueue :
          panelQueue[i].id = panelGeneration /\ panelQueue[i].sure => panelQueue[i].mode = Stands
    /\ /\ InFlight => panelFlight.id # panelGeneration
       /\ \A i \in DOMAIN panelQueue : panelQueue[i].id # panelGeneration
       => panelMode = Stands

Agreed ==
    /\ panelDragMode = Panel!None =>
          panelFrame = Panel!FrameAt(panelMonitor, Panel!ModeOf(panelFrame), panelDock)
    /\ LastSays(panelMail, panelOwn, LostId, Stands)
    /\ Strangers(panelMail, panelOwn, LostId) = {} => Settled

PointerFollowed ==
    /\ panelListening /\ ~panelAhead
    /\ \A i \in DOMAIN panelCalls : panelCalls[i].cmd # "pointerReady"
    => LastSeen(panelMail, panelInside, panelTracker)

PanelInv ==
    /\ PanelTyped /\ RequestsOrdered /\ CallsOrdered
    /\ panelStrayed \/ Agreed
    /\ PointerFollowed

-----------------------------------------------------------------------------
\* A sequence that grows.
LEMMA Grows ==
    ASSUME NEW T, NEW s \in Seq(T), NEW e \in T
    PROVE  /\ Append(s, e) \in Seq(T) /\ Len(s) \in Nat
           /\ DOMAIN s = 1..Len(s) /\ DOMAIN Append(s, e) = 1..Len(s) + 1
           /\ Len(Append(s, e)) = Len(s) + 1
           /\ \A i \in 1..Len(s) : Append(s, e)[i] = s[i] /\ s[i] \in T
           /\ Append(s, e)[Len(s) + 1] = e
  OBVIOUS

\* A sequence whose head is taken.
LEMMA Shrinks ==
    ASSUME NEW T, NEW s \in Seq(T), s # <<>>
    PROVE  /\ Tail(s) \in Seq(T) /\ Len(s) \in Nat \ {0}
           /\ DOMAIN s = 1..Len(s) /\ DOMAIN Tail(s) = 1..Len(s) - 1
           /\ Len(Tail(s)) = Len(s) - 1
           /\ Head(s) = s[1] /\ s[1] \in T
           /\ \A i \in 1..Len(s) - 1 : Tail(s)[i] = s[i + 1] /\ s[i + 1] \in T
  OBVIOUS

\* An event that is emitted, as the window will take it.
LEMMA BoxGrows ==
    ASSUME NEW box \in Seq(PanelEvent), NEW e \in PanelEvent, NEW mine, NEW lost, NEW m
    PROVE  /\ e.kind # "state" \/ (e.id \in mine /\ e.id # lost) =>
                 /\ Strangers(Append(box, e), mine, lost) = Strangers(box, mine, lost)
                 /\ LastSays(box, mine, lost, m) => LastSays(Append(box, e), mine, lost, m)
           /\ e.kind = "state" /\ e.id \notin mine =>
                 /\ LastSays(Append(box, e), mine, lost, e.mode)
                 /\ Strangers(Append(box, e), mine, lost) # {}
<1> DEFINE t == Append(box, e)
<1> DEFINE n == Len(box)
<1>1. /\ n \in Nat /\ DOMAIN box = 1..n /\ DOMAIN t = 1..n + 1 /\ t[n + 1] = e
      /\ \A i \in 1..n : t[i] = box[i]
  BY Grows
<1> HIDE DEF t, n
<1>2. ASSUME e.kind # "state" \/ (e.id \in mine /\ e.id # lost)
      PROVE  Strangers(t, mine, lost) = Strangers(box, mine, lost)
  BY <1>1, <1>2 DEF Strangers
<1>3. ASSUME e.kind # "state" \/ (e.id \in mine /\ e.id # lost), LastSays(box, mine, lost, m)
      PROVE  LastSays(t, mine, lost, m)
  BY <1>1, <1>2, <1>3 DEF LastSays, Strangers
<1>4. ASSUME e.kind = "state" /\ e.id \notin mine
      PROVE  /\ LastSays(t, mine, lost, e.mode) /\ n + 1 \in Strangers(t, mine, lost)
  <2>1. n + 1 \in Strangers(t, mine, lost)
    BY <1>1, <1>4 DEF Strangers
  <2>2. ASSUME NEW k \in Strangers(t, mine, lost), \A l \in Strangers(t, mine, lost) : l <= k
        PROVE  k = n + 1
    BY <1>1, <2>1, <2>2 DEF Strangers
  <2> QED
    BY <1>1, <1>4, <2>1, <2>2 DEF LastSays
<1> QED
  BY <1>2, <1>3, <1>4 DEF t

\* The same, of the numbers of the requests.
LEMMA NumbersGrow ==
    ASSUME NEW box \in Seq(PanelEvent), NEW e \in PanelEvent
    PROVE  /\ \A n : Told(box, n) /\ (e.kind = "state" => e.id < n) => Told(Append(box, e), n)
           /\ ToldOnce(box) /\ (e.kind = "state" => e.id = 0 \/ Told(box, e.id))
                 => ToldOnce(Append(box, e))
<1> DEFINE t == Append(box, e)
<1> DEFINE n == Len(box)
<1>1. /\ n \in Nat /\ DOMAIN box = 1..n /\ DOMAIN t = 1..n + 1 /\ t[n + 1] = e
      /\ \A i \in 1..n : t[i] = box[i] /\ box[i] \in PanelEvent
  BY Grows
<1> HIDE DEF t, n
<1>2. \A q : Told(box, q) /\ (e.kind = "state" => e.id < q) => Told(t, q)
  BY <1>1 DEF Told
<1>3. ASSUME ToldOnce(box), e.kind = "state" => e.id = 0 \/ Told(box, e.id)
      PROVE  ToldOnce(t)
  <2>1. ASSUME NEW k \in 1..n, box[k].kind = "state", e.kind = "state", box[k].id = e.id
        PROVE  e.id = 0
    <3>1. e.id \in Nat
      BY <2>1 DEF PanelEvent
    <3> QED
      BY <1>1, <1>3, <2>1, <3>1 DEF Told
  <2> QED
    BY <1>1, <1>3, <2>1 DEF ToldOnce
<1> QED
  BY <1>2, <1>3 DEF t

\* An event that is handled.
LEMMA BoxShrinks ==
    ASSUME NEW box \in Seq(PanelEvent), box # <<>>, NEW mine, NEW lost, NEW m
    PROVE  /\ LastSays(box, mine, lost, m) => LastSays(Tail(box), mine, lost, m)
           /\ 1 \notin Strangers(box, mine, lost) /\ Strangers(Tail(box), mine, lost) = {}
                 => Strangers(box, mine, lost) = {}
           /\ /\ 1 \in Strangers(box, mine, lost) /\ Strangers(Tail(box), mine, lost) = {}
              /\ LastSays(box, mine, lost, m)
              => Head(box).mode = m /\ Head(box).id \notin mine
           /\ \A n : Told(box, n) => Told(Tail(box), n)
           /\ ToldOnce(box) => ToldOnce(Tail(box))
<1> DEFINE t == Tail(box)
<1> DEFINE n == Len(box)
<1>1. /\ n \in Nat \ {0} /\ DOMAIN box = 1..n /\ DOMAIN t = 1..n - 1 /\ Head(box) = box[1]
      /\ \A i \in 1..n - 1 : t[i] = box[i + 1]
  BY Shrinks
<1> HIDE DEF t, n
<1>2. \A k \in 1..n - 1 : k + 1 \in 1..n
  BY <1>1
<1>3. \A k \in 1..n : k # 1 => k - 1 \in 1..n - 1 /\ (k - 1) + 1 = k
  BY <1>1
<1>4. \A k \in 1..n - 1 : k \in Strangers(t, mine, lost) <=> k + 1 \in Strangers(box, mine, lost)
  BY <1>1, <1>2 DEF Strangers
<1>5. Strangers(t, mine, lost) \subseteq 1..n - 1 /\ Strangers(box, mine, lost) \subseteq 1..n
  BY <1>1 DEF Strangers
<1>6. ASSUME NEW k \in Strangers(t, mine, lost), \A l \in Strangers(t, mine, lost) : l <= k
      PROVE  \A l \in Strangers(box, mine, lost) : l <= k + 1
  <2> SUFFICES ASSUME NEW l \in Strangers(box, mine, lost), l # 1 PROVE l <= k + 1
    BY <1>1, <1>5
  <2>1. l - 1 \in Strangers(t, mine, lost)
    BY <1>3, <1>4, <1>5
  <2> QED
    BY <1>1, <1>5, <1>6, <2>1
<1>7. ASSUME LastSays(box, mine, lost, m) PROVE LastSays(t, mine, lost, m)
  <2> SUFFICES ASSUME NEW k \in Strangers(t, mine, lost),
                      \A l \in Strangers(t, mine, lost) : l <= k
               PROVE  t[k].mode = m /\ t[k].id \notin mine
    BY DEF LastSays
  <2>1. box[k + 1].mode = m /\ box[k + 1].id \notin mine
    BY <1>4, <1>5, <1>6, <1>7 DEF LastSays
  <2> QED
    BY <1>1, <1>5, <2>1
<1>8. ASSUME Strangers(t, mine, lost) = {} PROVE Strangers(box, mine, lost) \subseteq {1}
  BY <1>3, <1>4, <1>5, <1>8
<1>9. ASSUME 1 \in Strangers(box, mine, lost), Strangers(t, mine, lost) = {},
             LastSays(box, mine, lost, m)
      PROVE  Head(box).mode = m /\ Head(box).id \notin mine
  BY <1>1, <1>8, <1>9 DEF LastSays
<1>10. \A q : Told(box, q) => Told(t, q)
  BY <1>1, <1>2 DEF Told
<1>11. ASSUME ToldOnce(box) PROVE ToldOnce(t)
  <2> SUFFICES ASSUME NEW k \in 1..n - 1, NEW l \in 1..n - 1,
                      t[k].kind = "state", t[l].kind = "state", t[k].id = t[l].id, t[k].id # 0
               PROVE  k = l
    BY <1>1 DEF ToldOnce
  <2>1. k + 1 \in DOMAIN box /\ l + 1 \in DOMAIN box /\ box[k + 1] = t[k] /\ box[l + 1] = t[l]
    BY <1>1, <1>2
  <2>2. \A a, b \in DOMAIN box :
           /\ box[a].kind = "state" /\ box[b].kind = "state"
           /\ box[a].id = box[b].id /\ box[a].id # 0
           => a = b
    BY <1>11 DEF ToldOnce
  <2>3. k + 1 = l + 1
    BY <2>1, <2>2
  <2> QED
    BY <1>1, <2>3
<1> QED
  BY <1>7, <1>8, <1>9, <1>10, <1>11 DEF t

\* The same box, when as many events as before are taken for somebody else's.
LEMMA BoxKept ==
    ASSUME NEW box \in Seq(PanelEvent), NEW mine, NEW lost, NEW mine2, NEW lost2, NEW m,
           \A k \in DOMAIN box : box[k].kind = "state" =>
               /\ (box[k].id \notin mine \/ box[k].id = lost)
                     <=> (box[k].id \notin mine2 \/ box[k].id = lost2)
               /\ box[k].id \notin mine => box[k].id \notin mine2
    PROVE  /\ Strangers(box, mine2, lost2) = Strangers(box, mine, lost)
           /\ LastSays(box, mine, lost, m) => LastSays(box, mine2, lost2, m)
<1>1. Strangers(box, mine2, lost2) = Strangers(box, mine, lost)
  BY DEF Strangers
<1>2. \A k \in Strangers(box, mine, lost) : box[k].id \notin mine => box[k].id \notin mine2
  BY DEF Strangers
<1> QED
  BY <1>1, <1>2 DEF LastSays

\* What the window will know of the pointer.
LEMMA PointerGrows ==
    ASSUME NEW box \in Seq(PanelEvent), NEW e \in PanelEvent, NEW in, NEW at
    PROVE  /\ e.kind # "pointer" /\ LastSeen(box, in, at) => LastSeen(Append(box, e), in, at)
           /\ e.kind = "pointer" => LastSeen(Append(box, e), in, e.at)
<1> DEFINE t == Append(box, e)
<1> DEFINE n == Len(box)
<1>1. /\ n \in Nat /\ DOMAIN box = 1..n /\ DOMAIN t = 1..n + 1 /\ t[n + 1] = e
      /\ \A i \in 1..n : t[i] = box[i]
  BY Grows
<1> HIDE DEF t, n
<1>2. ASSUME e.kind # "pointer", LastSeen(box, in, at) PROVE LastSeen(t, in, at)
  <2>1. Pointers(t) = Pointers(box)
    BY <1>1, <1>2 DEF Pointers
  <2>2. \A k \in Pointers(box) : t[k] = box[k]
    BY <1>1 DEF Pointers
  <2> QED
    BY <1>2, <2>1, <2>2 DEF LastSeen
<1>3. ASSUME e.kind = "pointer" PROVE LastSeen(t, in, e.at)
  <2>1. n + 1 \in Pointers(t)
    BY <1>1, <1>3 DEF Pointers
  <2>2. ASSUME NEW k \in Pointers(t), \A l \in Pointers(t) : l <= k PROVE k = n + 1
    BY <1>1, <2>1, <2>2 DEF Pointers
  <2> QED
    BY <1>1, <2>1, <2>2 DEF LastSeen
<1> QED
  BY <1>2, <1>3 DEF t

\* The same, when an event is handled.
LEMMA PointerShrinks ==
    ASSUME NEW box \in Seq(PanelEvent), box # <<>>, NEW in, NEW in2, NEW at,
           LastSeen(box, in, at),
           in2 = IF Head(box).kind = "pointer" THEN Head(box).at = "in" ELSE in
    PROVE  LastSeen(Tail(box), in2, at)
<1> DEFINE t == Tail(box)
<1> DEFINE n == Len(box)
<1>1. /\ n \in Nat \ {0} /\ DOMAIN box = 1..n /\ DOMAIN t = 1..n - 1 /\ Head(box) = box[1]
      /\ \A i \in 1..n - 1 : t[i] = box[i + 1]
  BY Shrinks
<1> HIDE DEF t, n
<1>2. \A k \in 1..n - 1 : k + 1 \in 1..n
  BY <1>1
<1>3. \A k \in 1..n : k # 1 => k - 1 \in 1..n - 1 /\ (k - 1) + 1 = k
  BY <1>1
<1>4. \A k \in 1..n - 1 : k \in Pointers(t) <=> k + 1 \in Pointers(box)
  BY <1>1, <1>2 DEF Pointers
<1>5. Pointers(t) \subseteq 1..n - 1 /\ Pointers(box) \subseteq 1..n
  BY <1>1 DEF Pointers
<1>6. ASSUME NEW k \in Pointers(t), \A l \in Pointers(t) : l <= k PROVE t[k].at = at
  <2>1. \A l \in Pointers(box) : l <= k + 1
    <3> SUFFICES ASSUME NEW l \in Pointers(box), l # 1 PROVE l <= k + 1
      BY <1>1, <1>5
    <3>1. l - 1 \in Pointers(t)
      BY <1>3, <1>4, <1>5
    <3> QED
      BY <1>1, <1>5, <1>6, <3>1
  <2>2. box[k + 1].at = at
    BY <1>4, <1>5, <2>1 DEF LastSeen
  <2> QED
    BY <1>1, <1>5, <2>2
<1>7. ASSUME Pointers(t) = {} PROVE in2 = (at = "in")
  <2>1. Pointers(box) \subseteq {1}
    BY <1>3, <1>4, <1>5, <1>7
  <2>2. CASE Head(box).kind = "pointer"
    <3>1. 1 \in Pointers(box)
      BY <1>1, <2>2 DEF Pointers
    <3>2. Head(box).at = at
      BY <1>1, <2>1, <3>1 DEF LastSeen
    <3> QED
      BY <2>2, <3>2
  <2>3. CASE Head(box).kind # "pointer"
    <3>1. Pointers(box) = {}
      BY <1>1, <2>1, <2>3 DEF Pointers
    <3> QED
      BY <2>3, <3>1 DEF LastSeen
  <2> QED
    BY <2>2, <2>3
<1> QED
  BY <1>6, <1>7 DEF LastSeen, t

\* A drag that is under way when a further call is made.
LEMMA HeldOn ==
    ASSUME NEW calls \in Seq(PanelCall), NEW c \in PanelCall, NEW drag
    PROVE  /\ \A i \in 1..Len(calls) + 1 :
                 HeldBefore(calls, drag, i) => HeldBefore(Append(calls, c), drag, i)
           /\ HeldBefore(calls, drag, Len(calls) + 1) /\ c.cmd # "dragEnd"
                 => HeldBefore(Append(calls, c), drag, Len(calls) + 2)
           /\ c.cmd = "dragStart" => HeldBefore(Append(calls, c), drag, Len(calls) + 2)
<1> DEFINE t == Append(calls, c)
<1> DEFINE n == Len(calls)
<1>1. n \in Nat /\ t[n + 1] = c /\ \A i \in 1..n : t[i] = calls[i]
  BY Grows
<1> HIDE DEF t, n
<1>2. \A i \in 1..n + 1 : \A k \in 1..i - 1 : t[k] = calls[k]
  BY <1>1
<1>3. ASSUME NEW i \in 1..n + 1, HeldBefore(calls, drag, i) PROVE HeldBefore(t, drag, i)
  <2>1. CASE drag # Panel!None /\ \A k \in 1..i - 1 : calls[k].cmd # "dragEnd"
    BY <1>2, <2>1 DEF HeldBefore
  <2>2. CASE \E j \in 1..i - 1 : /\ calls[j].cmd = "dragStart"
                                  /\ \A k \in j + 1..i - 1 : calls[k].cmd # "dragEnd"
    <3>1. PICK j \in 1..i - 1 : /\ calls[j].cmd = "dragStart"
                                /\ \A k \in j + 1..i - 1 : calls[k].cmd # "dragEnd"
      BY <2>2
    <3>2. \A k \in j + 1..i - 1 : k \in 1..i - 1
      BY <1>1
    <3>3. t[j].cmd = "dragStart" /\ \A k \in j + 1..i - 1 : t[k].cmd # "dragEnd"
      BY <1>2, <3>1, <3>2
    <3> QED
      BY <3>3 DEF HeldBefore
  <2> QED
    BY <1>3, <2>1, <2>2 DEF HeldBefore
<1>4. ASSUME HeldBefore(calls, drag, n + 1), c.cmd # "dragEnd" PROVE HeldBefore(t, drag, n + 2)
  <2>0. n + 1 \in 1..n + 1 /\ (n + 1) - 1 = n /\ (n + 2) - 1 = n + 1
    BY <1>1
  <2>1. HeldBefore(t, drag, n + 1)
    BY <1>3, <1>4, <2>0
  <2>2. \A j \in 0..n : \A k \in j + 1..n + 1 : k \in j + 1..n \/ k = n + 1
    BY <1>1
  <2>3. CASE drag # Panel!None /\ \A k \in 1..n : t[k].cmd # "dragEnd"
    <3>1. \A k \in 1..n + 1 : k \in 1..n \/ k = n + 1
      BY <1>1
    <3> QED
      BY <1>1, <1>4, <2>0, <2>3, <3>1 DEF HeldBefore
  <2>4. CASE \E j \in 1..n : t[j].cmd = "dragStart" /\ \A k \in j + 1..n : t[k].cmd # "dragEnd"
    <3>1. PICK j \in 1..n : t[j].cmd = "dragStart" /\ \A k \in j + 1..n : t[k].cmd # "dragEnd"
      BY <2>4
    <3>2. j \in 1..n + 1 /\ j \in 0..n
      BY <1>1
    <3>3. \A k \in j + 1..n + 1 : t[k].cmd # "dragEnd"
      BY <1>1, <1>4, <2>2, <3>1, <3>2
    <3> QED
      BY <2>0, <3>1, <3>2, <3>3 DEF HeldBefore
  <2> QED
    BY <2>0, <2>1, <2>3, <2>4 DEF HeldBefore
<1>5. ASSUME c.cmd = "dragStart" PROVE HeldBefore(t, drag, n + 2)
  <2>1. n + 1 \in 1..(n + 2) - 1 /\ \A k \in (n + 1) + 1..(n + 2) - 1 : FALSE
    BY <1>1
  <2> QED
    BY <1>1, <1>5, <2>1 DEF HeldBefore
<1> QED
  BY <1>3, <1>4, <1>5 DEF t, n

\* A drag that is under way when the first call has been served.
LEMMA HeldStill ==
    ASSUME NEW calls \in Seq(PanelCall), calls # <<>>, NEW drag, NEW drag2,
           NEW i \in 1..Len(calls), HeldBefore(calls, drag, i + 1),
           Head(calls).cmd = "dragStart" => drag2 # Panel!None,
           Head(calls).cmd \notin {"dragStart", "dragEnd"} => drag2 = drag
    PROVE  HeldBefore(Tail(calls), drag2, i)
<1> DEFINE t == Tail(calls)
<1> DEFINE n == Len(calls)
<1>1. n \in Nat \ {0} /\ Head(calls) = calls[1] /\ \A k \in 1..n - 1 : t[k] = calls[k + 1]
  BY Shrinks
<1>2. i \in 1..n
  OBVIOUS
<1> HIDE DEF t, n
<1>3. \A k \in 1..i - 1 : k \in 1..n - 1 /\ k + 1 \in 1..(i + 1) - 1
  BY <1>1, <1>2
<1>4. (i + 1) - 1 = i /\ 1 \in 1..(i + 1) - 1
  BY <1>1, <1>2
<1>5. CASE drag # Panel!None /\ \A k \in 1..(i + 1) - 1 : calls[k].cmd # "dragEnd"
  <2>1. \A k \in 1..i - 1 : t[k].cmd # "dragEnd"
    BY <1>1, <1>3, <1>5
  <2>2. Head(calls).cmd # "dragEnd"
    BY <1>1, <1>4, <1>5
  <2> QED
    BY <1>5, <2>1, <2>2 DEF HeldBefore, t
<1>6. ASSUME NEW j \in 1..(i + 1) - 1, calls[j].cmd = "dragStart",
             \A k \in j + 1..(i + 1) - 1 : calls[k].cmd # "dragEnd"
      PROVE  HeldBefore(t, drag2, i)
  <2>1. CASE j = 1
    <3>1. \A k \in 1..i - 1 : k + 1 \in j + 1..(i + 1) - 1
      BY <1>2, <2>1
    <3>2. \A k \in 1..i - 1 : t[k].cmd # "dragEnd"
      BY <1>1, <1>3, <1>6, <3>1
    <3> QED
      BY <1>1, <1>6, <2>1, <3>2 DEF HeldBefore
  <2>2. CASE j # 1
    <3>1. j - 1 \in 1..i - 1 /\ (j - 1) + 1 = j
      BY <1>2, <2>2
    <3>2. \A k \in (j - 1) + 1..i - 1 : k \in 1..i - 1 /\ k + 1 \in j + 1..(i + 1) - 1
      BY <1>2, <2>2
    <3>3. t[j - 1].cmd = "dragStart" /\ \A k \in (j - 1) + 1..i - 1 : t[k].cmd # "dragEnd"
      BY <1>1, <1>3, <1>6, <3>1, <3>2
    <3> QED
      BY <3>1, <3>3 DEF HeldBefore
  <2> QED
    BY <2>1, <2>2
<1> QED
  BY <1>5, <1>6 DEF HeldBefore, t

-----------------------------------------------------------------------------
\* A flight with a number is a flight.
LEMMA FlightHasNumber ==
    PanelTyped => /\ panelFlight.id \in Nat /\ (InFlight <=> panelFlight.id # 0)
                  /\ InFlight => panelFlight \in PanelFlight
  BY DEF PanelTyped, PanelFlight, InFlight, Panel!NoFlight

\* The mode of a frame is told from its size.
LEMMA ModeOfFrame ==
    ASSUME NEW s, NEW m \in Panel!Modes, NEW d
    PROVE  Panel!ModeOf(Panel!FrameAt(s, m, d)) = m
<1>1. CASE m = "expanded"
  BY <1>1 DEF Panel!ModeOf, Panel!FrameAt, Panel!Extent
<1>2. CASE m = "collapsed"
  BY <1>2 DEF Panel!ModeOf, Panel!FrameAt, Panel!Extent
<1> QED
  BY <1>1, <1>2 DEF Panel!Modes

\* Every size is that of a mode, and every place nearest to some dock.
LEMMA EverySizeHasMode == \A f : Panel!ModeOf(f) \in Panel!Modes
  BY DEF Panel!ModeOf, Panel!Modes

LEMMA EveryPlaceHasDock == \A s, f : Panel!Nearest(s, f) \in Panel!Docks
  BY DEF Panel!Nearest, Panel!Docks

LEMMA WantsMode == \A cmd : Wants(cmd) \in Panel!Modes
  BY DEF Wants, Panel!Modes

\* The panel stands in one of its modes.
LEMMA StandsInMode == PanelTyped => Stands \in Panel!Modes
  BY EverySizeHasMode DEF PanelTyped, Panel!TypeOK, Stands

\* A number that no event reaches, no event reaches from above either.
LEMMA ToldBelow ==
    ASSUME NEW box \in Seq(PanelEvent), NEW n \in Nat, NEW q \in Nat, n <= q, Told(box, n)
    PROVE  Told(box, q)
<1>1. \A k \in DOMAIN box : box[k] \in PanelEvent
  OBVIOUS
<1>2. \A k \in DOMAIN box : box[k].kind = "state" => box[k].id \in Nat
  BY <1>1 DEF PanelEvent
<1> QED
  BY <1>2 DEF Told

-----------------------------------------------------------------------------
\* What leaves the requests alone keeps their order.
LEMMA PanelRequestsKept ==
    ASSUME PanelTyped, RequestsOrdered,
           UNCHANGED <<panelQueue, panelFlight, panelGeneration, panelOwn, panelMode>>,
           \A n \in Nat \ {0} : Told(panelMail, n) => Told(panelMail', n),
           ToldOnce(panelMail) => ToldOnce(panelMail')
    PROVE  RequestsOrdered'
<1>1. panelGeneration \in Nat /\ panelFlight.id \in Nat
  BY FlightHasNumber DEF PanelTyped, Panel!TypeOK
<1>2. \A i \in DOMAIN panelQueue : panelQueue[i].id \in Nat \ {0}
  <2>1. \A i \in DOMAIN panelQueue : panelQueue[i] \in PanelOp
    BY DEF PanelTyped
  <2> QED
    BY <1>1, <2>1 DEF PanelOp, RequestsOrdered
<1>3. Told(panelMail', panelGeneration + 1) /\ ToldOnce(panelMail')
  BY <1>1 DEF RequestsOrdered
<1>4. Unanswered => panelFlight.id \in Nat \ {0}
  BY FlightHasNumber, <1>1 DEF Unanswered
<1> QED
  BY <1>1, <1>2, <1>3, <1>4 DEF RequestsOrdered, InFlight, Unanswered

\* What leaves the calls alone keeps their order.
LEMMA CallsKept ==
    ASSUME CallsOrdered, UNCHANGED <<panelCalls, panelFlight, panelDragMode>>,
           panelDragging' => panelDragging
    PROVE  CallsOrdered'
  BY DEF CallsOrdered, HeldBefore, Unanswered, InFlight

\* A further call: one of the window's requests, or of a drag that has begun.
LEMMA CallsGrow ==
    ASSUME NEW c \in PanelCall, panelCalls \in Seq(PanelCall), CallsOrdered,
           panelCalls' = Append(panelCalls, c), panelDragMode' = panelDragMode,
           IF c.cmd \in PanelCmds
           THEN ~Unanswered /\ Unanswered' /\ panelFlight'.op.cmd = c.cmd
           ELSE panelFlight' = panelFlight,
           c.cmd \in {"dragFrame", "dragEnd"} => panelDragging,
           panelDragging' => c.cmd # "dragEnd" /\ (panelDragging \/ c.cmd = "dragStart")
    PROVE  CallsOrdered'
<1> DEFINE t == panelCalls'
<1> DEFINE n == Len(panelCalls)
<1>1. /\ n \in Nat /\ DOMAIN panelCalls = 1..n /\ DOMAIN t = 1..n + 1 /\ Len(t) = n + 1
      /\ t[n + 1] = c /\ \A i \in 1..n : t[i] = panelCalls[i]
  BY Grows
<1>2. /\ \A i \in 1..n + 1 :
            HeldBefore(panelCalls, panelDragMode, i) => HeldBefore(t, panelDragMode, i)
      /\ HeldBefore(panelCalls, panelDragMode, n + 1) /\ c.cmd # "dragEnd"
            => HeldBefore(t, panelDragMode, n + 2)
      /\ c.cmd = "dragStart" => HeldBefore(t, panelDragMode, n + 2)
  BY HeldOn
<1>3. (n + 1) + 1 = n + 2 /\ n + 1 \in 1..n + 1
  BY <1>1
<1>4. \A i \in 1..n + 1 : i \in 1..n \/ i = n + 1
  BY <1>1
<1>5. c.cmd \in PanelCmds => \A i \in 1..n : panelCalls[i].cmd \notin PanelCmds
  BY <1>1 DEF CallsOrdered
<1> HIDE DEF t, n
<1>6. \A i \in DOMAIN t : t[i].cmd \in PanelCmds =>
         Unanswered' /\ t[i].cmd = panelFlight'.op.cmd
  BY <1>1, <1>4, <1>5 DEF CallsOrdered, Unanswered, InFlight
<1>7. \A i, j \in DOMAIN t : t[i].cmd \in PanelCmds /\ t[j].cmd \in PanelCmds => i = j
  BY <1>1, <1>4, <1>5 DEF CallsOrdered
<1>8. \A i \in DOMAIN t : t[i].cmd \in {"dragFrame", "dragEnd"} => HeldBefore(t, panelDragMode, i)
  <2>1. \A i \in 1..n : panelCalls[i].cmd \in {"dragFrame", "dragEnd"}
           => HeldBefore(panelCalls, panelDragMode, i)
    BY <1>1 DEF CallsOrdered
  <2>2. c.cmd \in {"dragFrame", "dragEnd"} => HeldBefore(panelCalls, panelDragMode, n + 1)
    BY DEF CallsOrdered, n
  <2>3. \A i \in 1..n : i \in 1..n + 1
    BY <1>1
  <2> QED
    BY <1>1, <1>2, <1>3, <1>4, <2>1, <2>2, <2>3
<1>9. panelDragging' => HeldBefore(t, panelDragMode, n + 2)
  <2>1. panelDragging => HeldBefore(panelCalls, panelDragMode, n + 1)
    BY DEF CallsOrdered, n
  <2> QED
    BY <1>2, <2>1
<1> QED
  BY <1>1, <1>3, <1>6, <1>7, <1>8, <1>9 DEF CallsOrdered, t

\* The first call is served.
LEMMA CallsServed ==
    ASSUME panelCalls \in Seq(PanelCall), CallsOrdered, panelCalls # <<>>,
           panelCalls' = Tail(panelCalls), panelDragging' = panelDragging,
           Head(panelCalls).cmd = "dragStart" => panelDragMode' # Panel!None,
           Head(panelCalls).cmd \notin {"dragStart", "dragEnd"} => panelDragMode' = panelDragMode,
           panelFlight' = panelFlight \/ Head(panelCalls).cmd \in PanelCmds
    PROVE  CallsOrdered'
<1> DEFINE t == panelCalls'
<1> DEFINE n == Len(panelCalls)
<1>1. /\ n \in Nat \ {0} /\ DOMAIN panelCalls = 1..n /\ DOMAIN t = 1..n - 1 /\ Len(t) = n - 1
      /\ Head(panelCalls) = panelCalls[1]
      /\ \A i \in 1..n - 1 : t[i] = panelCalls[i + 1]
  BY Shrinks
<1>2. \A i \in 1..n : HeldBefore(panelCalls, panelDragMode, i + 1) => HeldBefore(t, panelDragMode', i)
  BY HeldStill
<1>3. \A i \in 1..n - 1 : i \in 1..n /\ i + 1 \in 1..n /\ i + 1 # 1
  BY <1>1
<1>4. n \in 1..n /\ (n - 1) + 1 = n /\ 1 \in 1..n
  BY <1>1
<1> HIDE DEF t, n
<1>5. panelCalls[1].cmd \in PanelCmds => \A i \in 1..n - 1 : t[i].cmd \notin PanelCmds
  BY <1>1, <1>3, <1>4 DEF CallsOrdered
<1>6. \A i \in DOMAIN t : t[i].cmd \in PanelCmds =>
         Unanswered' /\ t[i].cmd = panelFlight'.op.cmd
  <2>1. CASE panelCalls[1].cmd \in PanelCmds
    BY <1>1, <1>5, <2>1
  <2>2. CASE panelCalls[1].cmd \notin PanelCmds
    <3>1. panelFlight' = panelFlight
      BY <1>1, <2>2
    <3>2. Unanswered' <=> Unanswered
      BY <3>1 DEF Unanswered, InFlight
    <3> QED
      BY <1>1, <1>3, <3>1, <3>2 DEF CallsOrdered
  <2> QED
    BY <2>1, <2>2
<1>7. ASSUME NEW i \in 1..n - 1, NEW j \in 1..n - 1,
             t[i].cmd \in PanelCmds, t[j].cmd \in PanelCmds
      PROVE  i = j
  <2>1. i + 1 = j + 1
    BY <1>1, <1>3, <1>7 DEF CallsOrdered
  <2> QED
    BY <1>1, <2>1
<1>8. \A i \in DOMAIN t : t[i].cmd \in {"dragFrame", "dragEnd"} => HeldBefore(t, panelDragMode', i)
  BY <1>1, <1>2, <1>3 DEF CallsOrdered
<1>9. panelDragging' => HeldBefore(t, panelDragMode', n)
  BY <1>2, <1>4 DEF CallsOrdered, n
<1> QED
  BY <1>1, <1>4, <1>6, <1>7, <1>8, <1>9 DEF CallsOrdered, t

\* A drag that a call goes on with has been begun.
LEMMA CallOfDrag ==
    ASSUME panelCalls \in Seq(PanelCall), CallsOrdered, panelCalls # <<>>,
           Head(panelCalls).cmd \in {"dragFrame", "dragEnd"}
    PROVE  panelDragMode # Panel!None
<1>1. 1 \in DOMAIN panelCalls /\ Head(panelCalls) = panelCalls[1] /\ ~(\E j \in 1..1 - 1 : TRUE)
  BY Shrinks
<1> QED
  BY <1>1 DEF CallsOrdered, HeldBefore

\* A step that leaves the window's mode and its requests alone, the panel in its mode, and no
\* event behind that says otherwise.
LEMMA AgreedKept ==
    ASSUME Agreed, Stands' = Stands,
           panelDragMode' = Panel!None =>
               panelFrame' = Panel!FrameAt(panelMonitor', Panel!ModeOf(panelFrame'), panelDock'),
           UNCHANGED <<panelFlight, panelOwn, panelGeneration, panelQueue, panelMode>>,
           LastSays(panelMail, panelOwn, LostId, Stands)
               => LastSays(panelMail', panelOwn, LostId, Stands),
           Strangers(panelMail', panelOwn, LostId) = {} => Strangers(panelMail, panelOwn, LostId) = {}
    PROVE  Agreed'
<1>1. LostId' = LostId
  BY DEF LostId, InFlight
<1>2. Settled => Settled'
  BY DEF Settled, InFlight
<1> QED
  BY <1>1, <1>2 DEF Agreed

\* A step that tells the window nothing of the pointer and takes no snapshot of it.
LEMMA PointerKept ==
    ASSUME PointerFollowed, UNCHANGED <<panelListening, panelAhead, panelInside, panelTracker>>,
           (\A i \in DOMAIN panelCalls' : panelCalls'[i].cmd # "pointerReady")
               => \A i \in DOMAIN panelCalls : panelCalls[i].cmd # "pointerReady",
           LastSeen(panelMail, panelInside, panelTracker)
               => LastSeen(panelMail', panelInside, panelTracker)
    PROVE  PointerFollowed'
  BY DEF PointerFollowed

\* The calls of a snapshot, when another call is made or served.
LEMMA SnapshotWaits ==
    ASSUME panelCalls \in Seq(PanelCall),
           \/ panelCalls' = panelCalls
           \/ \E c \in PanelCall : panelCalls' = Append(panelCalls, c)
           \/ /\ panelCalls # <<>> /\ Head(panelCalls).cmd # "pointerReady"
              /\ panelCalls' = Tail(panelCalls)
    PROVE  (\A i \in DOMAIN panelCalls' : panelCalls'[i].cmd # "pointerReady")
               => \A i \in DOMAIN panelCalls : panelCalls[i].cmd # "pointerReady"
<1> DEFINE n == Len(panelCalls)
<1>1. ASSUME NEW c \in PanelCall, panelCalls' = Append(panelCalls, c)
      PROVE  \A i \in DOMAIN panelCalls : i \in DOMAIN panelCalls' /\ panelCalls'[i] = panelCalls[i]
  BY <1>1, Grows
<1>2. ASSUME panelCalls # <<>>, Head(panelCalls).cmd # "pointerReady",
             panelCalls' = Tail(panelCalls), NEW i \in DOMAIN panelCalls,
             \A k \in DOMAIN panelCalls' : panelCalls'[k].cmd # "pointerReady"
      PROVE  panelCalls[i].cmd # "pointerReady"
  <2>1. /\ DOMAIN panelCalls = 1..n /\ n \in Nat /\ DOMAIN panelCalls' = 1..n - 1
        /\ Head(panelCalls) = panelCalls[1]
        /\ \A k \in 1..n - 1 : panelCalls'[k] = panelCalls[k + 1]
    BY <1>2, Shrinks
  <2>2. CASE i = 1
    BY <1>2, <2>1, <2>2
  <2>3. CASE i # 1
    <3> HIDE DEF n
    <3>0. i \in 1..n
      BY <2>1
    <3>1. i - 1 \in 1..n - 1 /\ (i - 1) + 1 = i
      BY <2>1, <2>3, <3>0
    <3> QED
      BY <1>2, <2>1, <3>1
  <2> QED
    BY <2>2, <2>3
<1> QED
  BY <1>1, <1>2

-----------------------------------------------------------------------------
\* What an event that is emitted does to the window's box.
LEMMA EmitSays ==
    ASSUME PanelTyped, NEW e \in PanelEvent, Panel!Emit(e)
    PROVE  /\ panelMail' \in Seq(PanelEvent)
           /\ \A n : Told(panelMail, n) /\ (e.kind = "state" => e.id < n) => Told(panelMail', n)
           /\ ToldOnce(panelMail) /\ (e.kind = "state" => e.id = 0 \/ Told(panelMail, e.id))
                 => ToldOnce(panelMail')
           /\ \A mine, lost, m :
                 e.kind # "state" \/ (e.id \in mine /\ e.id # lost) =>
                    /\ Strangers(panelMail', mine, lost) = Strangers(panelMail, mine, lost)
                    /\ LastSays(panelMail, mine, lost, m) => LastSays(panelMail', mine, lost, m)
           /\ \A mine, lost :
                 panelListening /\ e.kind = "state" /\ e.id \notin mine =>
                    /\ LastSays(panelMail', mine, lost, e.mode)
                    /\ Strangers(panelMail', mine, lost) # {}
           /\ \A in, at : e.kind # "pointer" /\ LastSeen(panelMail, in, at)
                 => LastSeen(panelMail', in, at)
           /\ \A in : panelListening /\ e.kind = "pointer" => LastSeen(panelMail', in, e.at)
<1>1. panelMail \in Seq(PanelEvent) /\ panelListening \in BOOLEAN
  BY DEF PanelTyped, Panel!TypeOK
<1>2. CASE panelListening
  <2>1. panelMail' = Append(panelMail, e)
    BY <1>2 DEF Panel!Emit
  <2>2. panelMail' \in Seq(PanelEvent)
    BY <1>1, <2>1
  <2>3. /\ \A n : Told(panelMail, n) /\ (e.kind = "state" => e.id < n) => Told(panelMail', n)
        /\ ToldOnce(panelMail) /\ (e.kind = "state" => e.id = 0 \/ Told(panelMail, e.id))
              => ToldOnce(panelMail')
    BY <1>1, <2>1, NumbersGrow
  <2>4. ASSUME NEW mine, NEW lost, NEW m, e.kind # "state" \/ (e.id \in mine /\ e.id # lost)
        PROVE  /\ Strangers(panelMail', mine, lost) = Strangers(panelMail, mine, lost)
               /\ LastSays(panelMail, mine, lost, m) => LastSays(panelMail', mine, lost, m)
    BY <1>1, <2>1, <2>4, BoxGrows
  <2>5. ASSUME NEW mine, NEW lost, e.kind = "state" /\ e.id \notin mine
        PROVE  /\ LastSays(panelMail', mine, lost, e.mode)
               /\ Strangers(panelMail', mine, lost) # {}
    BY <1>1, <2>1, <2>5, BoxGrows
  <2>6. ASSUME NEW in, NEW at
        PROVE  /\ e.kind # "pointer" /\ LastSeen(panelMail, in, at)
                     => LastSeen(panelMail', in, at)
               /\ e.kind = "pointer" => LastSeen(panelMail', in, e.at)
    BY <1>1, <2>1, PointerGrows
  <2> QED
    BY <2>2, <2>3, <2>4, <2>5, <2>6
<1>3. CASE ~panelListening
  <2>1. panelMail' = panelMail
    BY <1>3 DEF Panel!Emit
  <2> QED
    BY <1>1, <1>3, <2>1, Zenon
<1> QED
  BY <1>1, <1>2, <1>3

\* The box is left alone, or what is taken from it is not about the mode.
BoxOpens == \/ panelMail' = panelMail
            \/ /\ panelMail # <<>> /\ Head(panelMail).kind # "state"
               /\ panelMail' = Tail(panelMail)

LEMMA BoxOpened ==
    ASSUME PanelTyped, BoxOpens
    PROVE  /\ panelMail' \in Seq(PanelEvent)
           /\ \A n : Told(panelMail, n) => Told(panelMail', n)
           /\ ToldOnce(panelMail) => ToldOnce(panelMail')
           /\ \A mine, lost, m : LastSays(panelMail, mine, lost, m)
                                    => LastSays(panelMail', mine, lost, m)
           /\ \A mine, lost : Strangers(panelMail', mine, lost) = {}
                                 => Strangers(panelMail, mine, lost) = {}
<1>1. panelMail \in Seq(PanelEvent)
  BY DEF PanelTyped
<1>2. CASE panelMail' = panelMail
  BY <1>1, <1>2
<1>3. CASE /\ panelMail # <<>> /\ Head(panelMail).kind # "state"
           /\ panelMail' = Tail(panelMail)
  <2>1. panelMail' \in Seq(PanelEvent) /\ Head(panelMail) = panelMail[1]
    BY <1>1, <1>3, Shrinks
  <2>2. \A mine, lost : 1 \notin Strangers(panelMail, mine, lost)
    BY <1>3, <2>1 DEF Strangers
  <2>3. /\ \A n : Told(panelMail, n) => Told(panelMail', n)
        /\ ToldOnce(panelMail) => ToldOnce(panelMail')
    BY <1>1, <1>3, BoxShrinks
  <2>4. ASSUME NEW mine, NEW lost, NEW m
        PROVE  /\ LastSays(panelMail, mine, lost, m) => LastSays(panelMail', mine, lost, m)
               /\ Strangers(panelMail', mine, lost) = {} => Strangers(panelMail, mine, lost) = {}
    BY <1>1, <1>3, <2>2, BoxShrinks
  <2> QED
    BY <2>1, <2>3, <2>4
<1> QED
  BY <1>2, <1>3 DEF BoxOpens

\* The window takes notice of something, or nothing happens, and no request is made.
LEMMA PanelQuiet ==
    ASSUME PanelInv,
           UNCHANGED <<panelMode, panelGeneration, panelQueue, panelFlight, panelOwn,
                       panelListening, panelCalls, panelFrame, panelMonitor, panelDock,
                       panelDragMode, panelTracker, panelAhead, panelStrayed>>,
           panelOrigin' \in {Panel!None, "hover", "focused"},
           panelArmed' \in BOOLEAN, panelHoverOpen' \in BOOLEAN, panelInside' \in BOOLEAN,
           panelDragging' \in BOOLEAN, panelDragging' => panelDragging,
           panelClosing' \subseteq {"auto", "manual"}, panelPointer' \in {"in", "out"},
           BoxOpens,
           LastSeen(panelMail, panelInside, panelTracker)
               => LastSeen(panelMail', panelInside', panelTracker)
    PROVE  PanelInv'
<1>0. PanelTyped /\ RequestsOrdered /\ CallsOrdered /\ (panelStrayed \/ Agreed) /\ PointerFollowed
  BY DEF PanelInv
<1>1. PanelTyped'
  BY <1>0, BoxOpened DEF PanelTyped, Panel!TypeOK
<1>2. RequestsOrdered'
  BY <1>0, BoxOpened, PanelRequestsKept
<1>3. CallsOrdered'
  BY <1>0, CallsKept
<1>4. ASSUME Agreed PROVE Agreed'
  <2>1. Stands' = Stands
    BY DEF Stands
  <2> QED
    BY <1>0, <1>4, <2>1, BoxOpened, AgreedKept DEF Agreed
<1>5. PointerFollowed'
  BY <1>0 DEF PointerFollowed
<1> QED
  BY <1>0, <1>1, <1>2, <1>3, <1>4, <1>5 DEF PanelInv

\* The window makes a request.
LEMMA PanelAsks ==
    ASSUME PanelInv, NEW cmd \in PanelCmds, NEW o \in {Panel!None, "hover", "focused"},
           NEW a \in BOOLEAN, Panel!Ask(cmd, Wants(cmd), o, a),
           UNCHANGED <<panelFlight, panelOwn, panelListening, panelCalls, panelDragging, panelFrame,
                       panelMonitor, panelDock, panelDragMode, panelPointer, panelTracker,
                       panelAhead, panelStrayed>>,
           panelHoverOpen' \in BOOLEAN, panelInside' \in BOOLEAN,
           panelClosing' \subseteq {"auto", "manual"},
           BoxOpens,
           LastSeen(panelMail, panelInside, panelTracker)
               => LastSeen(panelMail', panelInside', panelTracker)
    PROVE  PanelInv'
<1> DEFINE n == Len(panelQueue)
<1> DEFINE g == panelGeneration + 1
<1> DEFINE op == [id |-> g, cmd |-> cmd, mode |-> panelMode, origin |-> panelOrigin,
                  armed |-> panelArmed,
                  sure |-> panelQueue = <<>> /\ panelFlight = Panel!NoFlight
                           /\ ~Panel!ForeignWaits]
<1>0. PanelTyped /\ RequestsOrdered /\ CallsOrdered /\ (panelStrayed \/ Agreed) /\ PointerFollowed
  BY DEF PanelInv
<1>1. /\ panelGeneration' = g /\ panelQueue' = Append(panelQueue, op)
      /\ panelMode' = Wants(cmd) /\ panelOrigin' = o /\ panelArmed' = a
  BY DEF Panel!Ask
<1>2. /\ panelGeneration \in Nat /\ panelFlight.id \in Nat /\ panelMode \in Panel!Modes
      /\ panelOrigin \in {Panel!None, "hover", "focused"} /\ panelArmed \in BOOLEAN
      /\ panelQueue \in Seq(PanelOp)
  BY <1>0, FlightHasNumber DEF PanelTyped, Panel!TypeOK
<1>3. op \in PanelOp /\ op.id = g /\ op.cmd = cmd /\ op.mode = panelMode
      /\ op.sure = (panelQueue = <<>> /\ panelFlight = Panel!NoFlight /\ ~Panel!ForeignWaits)
  BY <1>2 DEF PanelOp
<1> HIDE DEF op
<1>4. /\ n \in Nat /\ DOMAIN panelQueue = 1..n /\ DOMAIN panelQueue' = 1..n + 1
      /\ panelQueue' \in Seq(PanelOp) /\ panelQueue'[n + 1] = op
      /\ \A i \in 1..n : panelQueue'[i] = panelQueue[i] /\ panelQueue[i] \in PanelOp
  BY <1>1, <1>2, <1>3, Grows
<1> HIDE DEF n
<1>5. \A i \in 1..n + 1 : i \in 1..n \/ i = n + 1
  BY <1>4
<1>6. g \in Nat /\ panelGeneration < g /\ ~(g <= panelGeneration) /\ ~(g < g)
  BY <1>2
<1>7. \A i \in 1..n : panelQueue[i].id \in Nat \ {0} /\ panelQueue[i].id <= panelGeneration
                      /\ panelQueue[i].id < g /\ panelQueue[i].id # g
                      /\ panelFlight.id < panelQueue[i].id
  <2>1. \A i \in 1..n : /\ panelQueue[i].id \in Nat /\ panelFlight.id < panelQueue[i].id
                        /\ panelQueue[i].id <= panelGeneration
    BY <1>0, <1>4 DEF RequestsOrdered, PanelOp
  <2> QED
    BY <1>2, <2>1
<1>8. panelFlight.id <= panelGeneration /\ panelFlight.id < g /\ panelFlight.id # g
  BY <1>0, <1>2 DEF RequestsOrdered
<1>9. PanelTyped'
  <2>1. panelOwn \subseteq 1..g
    BY <1>0, <1>2 DEF PanelTyped, Panel!TypeOK
  <2>2. Panel!TypeOK'
    BY <1>0, <1>1, <1>6, <2>1, WantsMode DEF PanelTyped, Panel!TypeOK
  <2> QED
    BY <1>0, <1>4, <2>2, BoxOpened DEF PanelTyped
<1>10. RequestsOrdered'
  <2>1. Told(panelMail, g)
    BY <1>0 DEF RequestsOrdered
  <2>2. Told(panelMail', g) /\ Told(panelMail', g + 1) /\ ToldOnce(panelMail')
    <3>1. panelMail \in Seq(PanelEvent) /\ g + 1 \in Nat /\ g <= g + 1
      BY <1>0, <1>6 DEF PanelTyped
    <3>2. Told(panelMail, g + 1)
      BY <1>6, <2>1, <3>1, ToldBelow
    <3> QED
      BY <1>0, <2>1, <3>2, BoxOpened DEF RequestsOrdered
  <2>3. \A i \in 1..n : Told(panelMail', panelQueue[i].id)
    BY <1>0, <1>4, BoxOpened DEF RequestsOrdered
  <2>4. \A i \in DOMAIN panelQueue' :
           /\ panelFlight.id < panelQueue'[i].id /\ panelQueue'[i].id <= g
           /\ Told(panelMail', panelQueue'[i].id)
           /\ panelQueue'[i].id = g => panelMode' = Wants(panelQueue'[i].cmd)
    <3>1. \A i \in 1..n : panelQueue[i].id <= g
      BY <1>6, <1>7
    <3>2. g <= g
      BY <1>6
    <3> HIDE DEF g
    <3> QED
      BY <1>1, <1>3, <1>4, <1>5, <1>7, <1>8, <2>2, <2>3, <3>1, <3>2
  <2>5. \A i, j \in DOMAIN panelQueue' : i < j => panelQueue'[i].id < panelQueue'[j].id
    <3>1. \A i, j \in 1..n : i < j => panelQueue[i].id < panelQueue[j].id
      BY <1>0, <1>4 DEF RequestsOrdered
    <3>2. \A i \in 1..n : ~(n + 1 < i) /\ ~(n + 1 < n + 1)
      BY <1>4
    <3> HIDE DEF g
    <3> QED
      BY <1>3, <1>4, <1>5, <1>7, <3>1, <3>2
  <2>6. InFlight => panelFlight.op.id = panelFlight.id /\ panelFlight.sent = panelFlight.id
    BY <1>0 DEF RequestsOrdered
  <2>7. Unanswered => panelFlight.id \in panelOwn /\ Told(panelMail', panelFlight.id)
    BY <1>0, BoxOpened DEF RequestsOrdered
  <2>8. panelFlight.id <= g
    BY <1>2, <1>8
  <2> HIDE DEF g
  <2> QED
    BY <1>1, <1>8, <2>2, <2>4, <2>5, <2>6, <2>7, <2>8 DEF RequestsOrdered, InFlight, Unanswered, g
<1>11. CallsOrdered'
  BY <1>0, CallsKept
<1>12. ASSUME Agreed PROVE Agreed'
  <2>1. Stands' = Stands /\ LostId' = LostId
    BY DEF Stands, LostId, InFlight
  <2>2. LastSays(panelMail', panelOwn', LostId', Stands')
    BY <1>0, <1>12, <2>1, BoxOpened DEF Agreed
  <2>3. ASSUME Strangers(panelMail', panelOwn', LostId') = {} PROVE Settled'
    <3>1. Strangers(panelMail, panelOwn, LostId) = {}
      BY <1>0, <2>1, <2>3, BoxOpened
    <3>2. Settled
      BY <1>12, <3>1 DEF Agreed
    <3>3. ASSUME op.sure PROVE op.mode = Stands
      <4>1. panelQueue = <<>> /\ ~InFlight
        BY <1>3, <3>3 DEF InFlight
      <4>2. \A i \in DOMAIN panelQueue : FALSE
        BY <4>1
      <4>3. panelMode = Stands
        BY <3>2, <4>1, <4>2 DEF Settled
      <4> QED
        BY <1>3, <4>3
    <3>4. n + 1 \in DOMAIN panelQueue' /\ panelQueue'[n + 1].id = g
      BY <1>3, <1>4
    <3>5. \A i \in DOMAIN panelQueue' :
             panelQueue'[i].id = g /\ panelQueue'[i].sure => panelQueue'[i].mode = Stands
      BY <1>4, <1>5, <1>7, <3>3
    <3> HIDE DEF g
    <3> QED
      BY <1>1, <1>8, <2>1, <3>4, <3>5 DEF Settled
  <2> QED
    BY <1>12, <2>1, <2>2, <2>3 DEF Agreed
<1>13. PointerFollowed'
  BY <1>0 DEF PointerFollowed
<1> QED
  BY <1>0, <1>9, <1>10, <1>11, <1>12, <1>13 DEF PanelInv

-----------------------------------------------------------------------------
\* A key, a click or a message opens the panel.
LEMMA OpeningMoves == PanelInv /\ (Panel!Click \/ Panel!OpenFocused) => PanelInv'
<1>1. PanelInv => /\ panelArmed \in BOOLEAN /\ panelHoverOpen \in BOOLEAN
                  /\ panelInside \in BOOLEAN /\ panelClosing \subseteq {"auto", "manual"}
  BY DEF PanelInv, PanelTyped, Panel!TypeOK
<1>2. Wants("expand") = "expanded" /\ Wants("focus") = "expanded"
      /\ "expand" \in PanelCmds /\ "focus" \in PanelCmds
  BY DEF Wants, PanelCmds
<1>3. ASSUME PanelInv, Panel!Click PROVE PanelInv'
  <2>1. Panel!Ask("expand", Wants("expand"), "hover", panelArmed)
    BY <1>2, <1>3 DEF Panel!Click, Panel!OpenPassive
  <2>2. /\ UNCHANGED <<panelFlight, panelOwn, panelListening, panelCalls, panelDragging, panelFrame,
                       panelMonitor, panelDock, panelDragMode, panelPointer, panelTracker,
                       panelAhead, panelStrayed>>
        /\ UNCHANGED <<panelHoverOpen, panelInside, panelClosing, panelMail>>
    BY <1>3 DEF Panel!Click, Panel!panelVars, Panel!pointerVars
  <2> QED
    BY <1>1, <1>2, <1>3, <2>1, <2>2, PanelAsks DEF BoxOpens
<1>4. ASSUME PanelInv, Panel!OpenFocused PROVE PanelInv'
  <2>1. Panel!Ask("focus", Wants("focus"), "focused", panelArmed)
    BY <1>2, <1>4 DEF Panel!OpenFocused
  <2>2. /\ UNCHANGED <<panelFlight, panelOwn, panelListening, panelCalls, panelDragging, panelFrame,
                       panelMonitor, panelDock, panelDragMode, panelPointer, panelTracker,
                       panelAhead, panelStrayed>>
        /\ UNCHANGED <<panelHoverOpen, panelInside, panelClosing, panelMail>>
    BY <1>4 DEF Panel!OpenFocused, Panel!panelVars, Panel!pointerVars
  <2> QED
    BY <1>1, <1>2, <1>4, <2>1, <2>2, PanelAsks DEF BoxOpens
<1> QED
  BY <1>3, <1>4

\* The preference that lets the panel open under the pointer arrives, perhaps over it.
LEMMA HoverLoads == PanelInv /\ Panel!LoadHover => PanelInv'
<1> SUFFICES ASSUME PanelInv, Panel!LoadHover PROVE PanelInv'
  OBVIOUS
<1>1. /\ panelArmed \in BOOLEAN /\ panelHoverOpen' \in BOOLEAN /\ panelInside \in BOOLEAN
      /\ panelDragging \in BOOLEAN /\ panelOrigin \in {Panel!None, "hover", "focused"}
      /\ panelClosing \subseteq {"auto", "manual"} /\ panelPointer \in {"in", "out"}
  BY DEF PanelInv, PanelTyped, Panel!TypeOK, Panel!LoadHover
<1>2. Wants("expand") = "expanded" /\ "expand" \in PanelCmds
  BY DEF Wants, PanelCmds
<1>3. /\ UNCHANGED <<panelFlight, panelOwn, panelListening, panelCalls, panelDragging, panelFrame,
                     panelMonitor, panelDock, panelDragMode, panelPointer, panelTracker,
                     panelAhead, panelStrayed>>
      /\ UNCHANGED <<panelInside, panelClosing, panelMail>>
  BY DEF Panel!LoadHover, Panel!panelVars, Panel!pointerVars
<1>4. CASE Panel!OpenPassive
  <2>1. Panel!Ask("expand", Wants("expand"), "hover", panelArmed)
    BY <1>2, <1>4 DEF Panel!OpenPassive
  <2> QED
    BY <1>1, <1>2, <1>3, <2>1, PanelAsks DEF BoxOpens
<1>5. CASE UNCHANGED <<panelMode, panelOrigin, panelGeneration, panelQueue, panelArmed>>
  BY <1>1, <1>3, <1>5, PanelQuiet DEF BoxOpens
<1> QED
  BY <1>4, <1>5 DEF Panel!LoadHover

\* The panel is closed, at once or when a dictation has ended.
LEMMA ClosingMoves ==
    ASSUME NEW how \in {"auto", "manual"}
    PROVE  PanelInv /\ (Panel!BeginCollapse(how) \/ Panel!Collapse(how)) => PanelInv'
<1> SUFFICES ASSUME PanelInv, Panel!BeginCollapse(how) \/ Panel!Collapse(how) PROVE PanelInv'
  OBVIOUS
<1>1. /\ panelArmed \in BOOLEAN /\ panelHoverOpen \in BOOLEAN /\ panelInside \in BOOLEAN
      /\ panelDragging \in BOOLEAN /\ panelOrigin \in {Panel!None, "hover", "focused"}
      /\ panelClosing \subseteq {"auto", "manual"} /\ panelPointer \in {"in", "out"}
  BY DEF PanelInv, PanelTyped, Panel!TypeOK
<1>2. Wants("collapse") = "collapsed" /\ "collapse" \in PanelCmds
  BY DEF Wants, PanelCmds
<1>3. /\ UNCHANGED <<panelFlight, panelOwn, panelListening, panelCalls, panelDragging, panelFrame,
                     panelMonitor, panelDock, panelDragMode, panelPointer, panelTracker,
                     panelAhead, panelStrayed>>
      /\ UNCHANGED <<panelHoverOpen, panelInside, panelMail>>
  BY DEF Panel!BeginCollapse, Panel!Collapse, Panel!panelVars, Panel!pointerVars
<1>4. panelClosing' \subseteq {"auto", "manual"}
  BY <1>1 DEF Panel!BeginCollapse, Panel!Collapse
<1>5. ASSUME NEW a \in BOOLEAN, Panel!Ask("collapse", "collapsed", Panel!None, a) PROVE PanelInv'
  <2>1. Panel!Ask("collapse", Wants("collapse"), Panel!None, a)
    BY <1>2, <1>5
  <2> QED
    BY <1>1, <1>2, <1>3, <1>4, <2>1, PanelAsks DEF BoxOpens
<1>6. CASE UNCHANGED <<panelMode, panelOrigin, panelGeneration, panelQueue, panelArmed>>
  BY <1>1, <1>3, <1>4, <1>6, PanelQuiet DEF BoxOpens
<1>7. (IF how = "auto" THEN panelArmed ELSE ~panelInside) \in BOOLEAN
  BY <1>1
<1> QED
  BY <1>5, <1>6, <1>7 DEF Panel!BeginCollapse, Panel!Collapse

\* A key keeps the panel open, the pointer moves unseen, an animation ends, or the window is
\* told that a drag is over.
LEMMA NoticeMoves ==
    PanelInv /\ (\/ Panel!Promote \/ Panel!PointerMoves \/ Panel!AnimationEnds
                 \/ Panel!HandleDragOver)
        => PanelInv'
<1> SUFFICES ASSUME PanelInv, \/ Panel!Promote \/ Panel!PointerMoves \/ Panel!AnimationEnds
                              \/ Panel!HandleDragOver
             PROVE  PanelInv'
  OBVIOUS
<1>1. /\ panelArmed \in BOOLEAN /\ panelHoverOpen \in BOOLEAN /\ panelInside \in BOOLEAN
      /\ panelDragging \in BOOLEAN /\ panelOrigin \in {Panel!None, "hover", "focused"}
      /\ panelClosing \subseteq {"auto", "manual"} /\ panelPointer \in {"in", "out"}
      /\ panelMail \in Seq(PanelEvent)
  BY DEF PanelInv, PanelTyped, Panel!TypeOK
<1> USE DEF Panel!Promote, Panel!PointerMoves, Panel!AnimationEnds, Panel!HandleDragOver
<1>2. /\ UNCHANGED <<panelMode, panelGeneration, panelQueue, panelFlight, panelOwn,
                     panelListening, panelCalls, panelFrame, panelMonitor, panelDock,
                     panelDragMode, panelTracker, panelAhead, panelStrayed>>
      /\ UNCHANGED <<panelArmed, panelHoverOpen, panelInside, panelClosing>>
  BY DEF Panel!windowVars, Panel!panelVars, Panel!pointerVars
<1>3. panelDragging' \in BOOLEAN /\ (panelDragging' => panelDragging)
  <2>1. panelDragging' = FALSE \/ panelDragging' = panelDragging
    BY DEF Panel!windowVars
  <2> HIDE DEF Panel!Promote, Panel!PointerMoves, Panel!AnimationEnds, Panel!HandleDragOver
  <2>2. CASE panelDragging' = FALSE
    BY <2>2, Zenon
  <2>3. CASE panelDragging' = panelDragging
    BY <1>1, <2>3, Zenon
  <2> QED
    BY <2>1, <2>2, <2>3
<1>4. panelOrigin' \in {Panel!None, "hover", "focused"} /\ panelPointer' \in {"in", "out"}
  BY <1>1 DEF Panel!windowVars, Panel!pointerVars
<1>5. BoxOpens
  BY DEF BoxOpens
<1>6. panelMail' = panelMail \/ /\ panelMail # <<>> /\ panelMail' = Tail(panelMail)
                                /\ Head(panelMail).kind # "pointer"
  OBVIOUS
<1> HIDE DEF Panel!Promote, Panel!PointerMoves, Panel!AnimationEnds, Panel!HandleDragOver
<1>7. LastSeen(panelMail, panelInside, panelTracker)
         => LastSeen(panelMail', panelInside', panelTracker)
  BY <1>1, <1>2, <1>6, PointerShrinks
<1> QED
  BY <1>1, <1>2, <1>3, <1>4, <1>5, <1>7, PanelQuiet

\* The window is told where the pointer is, and may open.
LEMMA PointerHandled == PanelInv /\ Panel!HandlePointer => PanelInv'
<1> SUFFICES ASSUME PanelInv, Panel!HandlePointer PROVE PanelInv'
  OBVIOUS
<1>1. /\ panelArmed \in BOOLEAN /\ panelHoverOpen \in BOOLEAN
      /\ panelDragging \in BOOLEAN /\ panelOrigin \in {Panel!None, "hover", "focused"}
      /\ panelClosing \subseteq {"auto", "manual"} /\ panelPointer \in {"in", "out"}
      /\ panelMail \in Seq(PanelEvent)
  BY DEF PanelInv, PanelTyped, Panel!TypeOK
<1>2. Wants("expand") = "expanded" /\ "expand" \in PanelCmds
  BY DEF Wants, PanelCmds
<1>3. /\ UNCHANGED <<panelFlight, panelOwn, panelListening, panelCalls, panelDragging, panelFrame,
                     panelMonitor, panelDock, panelDragMode, panelPointer, panelTracker,
                     panelAhead, panelStrayed>>
      /\ UNCHANGED <<panelHoverOpen, panelClosing>>
  BY DEF Panel!HandlePointer, Panel!panelVars, Panel!pointerVars
<1>4. /\ panelMail # <<>> /\ Head(panelMail).kind = "pointer" /\ panelMail' = Tail(panelMail)
      /\ panelInside' = (Head(panelMail).at = "in")
  BY DEF Panel!HandlePointer
<1>5. BoxOpens /\ panelInside' \in BOOLEAN
  BY <1>4 DEF BoxOpens
<1>6. LastSeen(panelMail, panelInside, panelTracker)
         => LastSeen(panelMail', panelInside', panelTracker)
  BY <1>1, <1>4, PointerShrinks
<1>7. CASE Panel!OpenPassive
  <2>1. Panel!Ask("expand", Wants("expand"), "hover", panelArmed)
    BY <1>2, <1>7 DEF Panel!OpenPassive
  <2> QED
    BY <1>1, <1>2, <1>3, <1>5, <1>6, <2>1, PanelAsks
<1>8. CASE /\ panelArmed' = (panelArmed \/ ~panelInside')
           /\ UNCHANGED <<panelMode, panelOrigin, panelGeneration, panelQueue>>
  <2>1. panelArmed' \in BOOLEAN
    BY <1>8
  <2> QED
    BY <1>1, <1>3, <1>5, <1>6, <1>8, <2>1, PanelQuiet
<1> QED
  BY <1>7, <1>8 DEF Panel!HandlePointer

-----------------------------------------------------------------------------
\* The next request is sent, or dropped because it was overtaken.
LEMMA RequestSent == PanelInv /\ Panel!Dequeue => PanelInv'
<1> SUFFICES ASSUME PanelInv, Panel!Dequeue PROVE PanelInv'
  OBVIOUS
<1> DEFINE op == Head(panelQueue)
<1> DEFINE n == Len(panelQueue)
<1>0. PanelTyped /\ RequestsOrdered /\ CallsOrdered /\ (panelStrayed \/ Agreed) /\ PointerFollowed
  BY DEF PanelInv
<1>1. /\ panelQueue # <<>> /\ ~InFlight /\ panelQueue' = Tail(panelQueue)
      /\ \/ /\ op.id = panelGeneration
            /\ panelOwn' = panelOwn \cup {op.id}
            /\ panelFlight' = [id |-> op.id, op |-> op, sent |-> panelGeneration,
                               answer |-> Panel!None]
            /\ panelCalls' = Append(panelCalls, [cmd |-> op.cmd])
         \/ op.id # panelGeneration /\ UNCHANGED <<panelOwn, panelFlight, panelCalls>>
  BY DEF Panel!Dequeue, InFlight
<1>2. UNCHANGED <<panelMode, panelOrigin, panelGeneration, panelInside, panelArmed, panelHoverOpen,
                  panelClosing, panelDragging, panelListening, panelMail, panelFrame, panelMonitor,
                  panelDock, panelDragMode, panelPointer, panelTracker, panelAhead, panelStrayed>>
  BY DEF Panel!Dequeue, Panel!panelVars, Panel!pointerVars
<1>3. /\ panelGeneration \in Nat /\ panelOwn \subseteq 1..panelGeneration
      /\ panelQueue \in Seq(PanelOp) /\ panelCalls \in Seq(PanelCall)
      /\ panelMail \in Seq(PanelEvent)
  BY <1>0 DEF PanelTyped, Panel!TypeOK
<1>4. /\ n \in Nat \ {0} /\ DOMAIN panelQueue = 1..n /\ DOMAIN panelQueue' = 1..n - 1
      /\ panelQueue' \in Seq(PanelOp) /\ op = panelQueue[1] /\ op \in PanelOp
      /\ \A i \in 1..n - 1 : panelQueue'[i] = panelQueue[i + 1]
  BY <1>1, <1>3, Shrinks
<1> HIDE DEF n, op
<1>5. /\ 1 \in 1..n
      /\ \A i \in 1..n - 1 : i \in 1..n /\ i + 1 \in 1..n /\ 1 < i + 1
  BY <1>4
<1>6. /\ op.id \in Nat \ {0} /\ op.id <= panelGeneration /\ Told(panelMail, op.id)
      /\ op.cmd \in PanelCmds /\ op.sure \in BOOLEAN
      /\ op.id = panelGeneration => panelMode = Wants(op.cmd)
  <2>1. op.id \in Nat /\ op.cmd \in PanelCmds /\ op.sure \in BOOLEAN /\ panelFlight.id \in Nat
    BY <1>0, <1>4, FlightHasNumber DEF PanelOp
  <2>2. /\ panelFlight.id < op.id /\ op.id <= panelGeneration /\ Told(panelMail, op.id)
        /\ op.id = panelGeneration => panelMode = Wants(op.cmd)
    BY <1>0, <1>4, <1>5 DEF RequestsOrdered
  <2> QED
    BY <2>1, <2>2
<1>7. \A i \in 1..n - 1 : op.id < panelQueue'[i].id /\ panelQueue'[i].id <= panelGeneration
  BY <1>0, <1>4, <1>5 DEF RequestsOrdered
<1>8. panelFlight.id = 0 /\ LostId = 0 /\ ~Unanswered
  BY <1>0, <1>1, FlightHasNumber DEF LostId, Unanswered
<1>9. PointerFollowed'
  <2>1. [cmd |-> op.cmd] \in PanelCall
    BY <1>6 DEF PanelCall
  <2> QED
    BY <1>0, <1>1, <1>2, <1>3, <2>1, SnapshotWaits, PointerKept
<1>10. /\ \A i \in DOMAIN panelQueue' : /\ panelQueue'[i].id <= panelGeneration
                                        /\ Told(panelMail, panelQueue'[i].id)
                                        /\ panelQueue'[i].id = panelGeneration
                                              => panelMode = Wants(panelQueue'[i].cmd)
       /\ \A i, j \in DOMAIN panelQueue' : i < j => panelQueue'[i].id < panelQueue'[j].id
  <2>1. \A i \in DOMAIN panelQueue' : /\ panelQueue'[i].id <= panelGeneration
                                      /\ Told(panelMail, panelQueue'[i].id)
                                      /\ panelQueue'[i].id = panelGeneration
                                            => panelMode = Wants(panelQueue'[i].cmd)
    BY <1>0, <1>4, <1>5 DEF RequestsOrdered
  <2>2. ASSUME NEW i \in 1..n - 1, NEW j \in 1..n - 1, i < j
        PROVE  panelQueue'[i].id < panelQueue'[j].id
    <3>1. i + 1 \in 1..n /\ j + 1 \in 1..n /\ i + 1 < j + 1
      BY <1>4, <2>2
    <3> QED
      BY <1>0, <1>4, <3>1 DEF RequestsOrdered
  <2> QED
    BY <1>4, <2>1, <2>2
<1>11. CASE /\ op.id = panelGeneration
            /\ panelOwn' = panelOwn \cup {op.id}
            /\ panelFlight' = [id |-> op.id, op |-> op, sent |-> panelGeneration,
                               answer |-> Panel!None]
            /\ panelCalls' = Append(panelCalls, [cmd |-> op.cmd])
  <2>0. /\ panelFlight' \in PanelFlight /\ panelFlight'.id = op.id /\ panelFlight'.op = op
        /\ panelFlight'.sent = op.id /\ panelFlight'.answer = Panel!None
    BY <1>3, <1>4, <1>6, <1>11 DEF PanelFlight
  <2>1. [cmd |-> op.cmd] \in PanelCall /\ [cmd |-> op.cmd].cmd = op.cmd
    BY <1>6 DEF PanelCall
  <2>2. PanelTyped'
    <3>1. panelCalls' \in Seq(PanelCall)
      BY <1>3, <1>11, <2>1, Grows
    <3>2. panelOwn' \subseteq 1..panelGeneration
      BY <1>3, <1>6, <1>11
    <3> QED
      BY <1>0, <1>2, <1>4, <2>0, <3>1, <3>2 DEF PanelTyped, Panel!TypeOK
  <2>3. InFlight' /\ Unanswered' /\ LostId' = 0
    <3>1. InFlight'
      BY <1>6, <2>0 DEF InFlight, Panel!NoFlight
    <3> QED
      BY <2>0, <3>1 DEF Unanswered, LostId, Panel!None
  <2>4. RequestsOrdered'
    <3>1. \A i \in DOMAIN panelQueue' : panelFlight'.id < panelQueue'[i].id
      BY <1>4, <1>7, <2>0
    <3>2. panelFlight'.id \in panelOwn' /\ Told(panelMail, panelFlight'.id)
          /\ (panelFlight'.id = panelGeneration => panelMode = Wants(panelFlight'.op.cmd))
      BY <1>6, <1>11, <2>0
    <3>3. Told(panelMail, panelGeneration + 1) /\ ToldOnce(panelMail)
      BY <1>0 DEF RequestsOrdered
    <3> QED
      BY <1>2, <1>6, <1>10, <2>0, <3>1, <3>2, <3>3 DEF RequestsOrdered, InFlight, Unanswered
  <2>5. CallsOrdered'
    <3>1. op.cmd \notin {"dragFrame", "dragEnd"}
      BY <1>6 DEF PanelCmds
    <3> QED
      BY <1>0, <1>2, <1>3, <1>6, <1>8, <1>11, <2>0, <2>1, <2>3, <3>1, CallsGrow
  <2>6. ASSUME Agreed PROVE Agreed'
    <3>1. Stands' = Stands
      BY <1>2 DEF Stands
    <3>2. \A k \in DOMAIN panelMail : panelMail[k].kind = "state" => panelMail[k].id # op.id
      <4>1. \A k \in DOMAIN panelMail : panelMail[k] \in PanelEvent
        BY <1>3
      <4>2. \A k \in DOMAIN panelMail : panelMail[k].kind = "state" => panelMail[k].id \in Nat
        BY <4>1 DEF PanelEvent
      <4> QED
        BY <1>6, <4>2 DEF Told
    <3>3. /\ Strangers(panelMail, panelOwn', 0) = Strangers(panelMail, panelOwn, 0)
          /\ LastSays(panelMail, panelOwn, 0, Stands) => LastSays(panelMail, panelOwn', 0, Stands)
      <4>1. \A k \in DOMAIN panelMail : panelMail[k].kind = "state" =>
               /\ (panelMail[k].id \notin panelOwn \/ panelMail[k].id = 0)
                     <=> (panelMail[k].id \notin panelOwn' \/ panelMail[k].id = 0)
               /\ panelMail[k].id \notin panelOwn => panelMail[k].id \notin panelOwn'
        BY <1>11, <3>2
      <4> QED
        BY <1>3, <4>1, BoxKept
    <3>4. ASSUME Strangers(panelMail, panelOwn, 0) = {} PROVE Settled'
      <4>1. Settled
        BY <1>8, <2>6, <3>4 DEF Agreed
      <4>2. op.sure => op.mode = Stands
        BY <1>4, <1>5, <1>11, <4>1 DEF Settled
      <4>3. \A i \in DOMAIN panelQueue' : panelQueue'[i].id # panelGeneration
        BY <1>3, <1>4, <1>7, <1>11
      <4> QED
        BY <1>2, <1>11, <2>0, <2>3, <3>1, <4>2, <4>3 DEF Settled, Panel!None
    <3> QED
      BY <1>2, <1>8, <2>3, <2>6, <3>1, <3>3, <3>4 DEF Agreed
  <2> QED
    BY <1>0, <1>2, <1>9, <2>2, <2>4, <2>5, <2>6 DEF PanelInv
<1>12. CASE op.id # panelGeneration /\ UNCHANGED <<panelOwn, panelFlight, panelCalls>>
  <2>1. PanelTyped'
    BY <1>0, <1>2, <1>4, <1>12 DEF PanelTyped, Panel!TypeOK
  <2>2. RequestsOrdered'
    <3>1. \A i \in DOMAIN panelQueue' : panelFlight.id < panelQueue'[i].id
      BY <1>0, <1>4, <1>5 DEF RequestsOrdered
    <3>2. /\ Told(panelMail, panelGeneration + 1) /\ ToldOnce(panelMail)
          /\ panelFlight.id <= panelGeneration
      BY <1>0 DEF RequestsOrdered
    <3> QED
      BY <1>1, <1>2, <1>10, <1>12, <3>1, <3>2 DEF RequestsOrdered, InFlight, Unanswered
  <2>3. CallsOrdered'
    BY <1>0, <1>2, <1>12, CallsKept
  <2>4. ASSUME Agreed PROVE Agreed'
    <3>1. Stands' = Stands /\ LostId' = LostId /\ ~InFlight'
      BY <1>1, <1>2, <1>12 DEF Stands, LostId, InFlight
    <3>2. ASSUME Settled PROVE Settled'
      <4>1. \A i \in DOMAIN panelQueue' :
               panelQueue'[i].id = panelGeneration /\ panelQueue'[i].sure
                  => panelQueue'[i].mode = Stands
        BY <1>4, <1>5, <3>2 DEF Settled
      <4>2. ASSUME \A i \in DOMAIN panelQueue' : panelQueue'[i].id # panelGeneration
            PROVE  panelMode = Stands
        <5>1. ASSUME NEW i \in DOMAIN panelQueue PROVE panelQueue[i].id # panelGeneration
          <6>1. CASE i = 1
            BY <1>4, <1>12, <6>1
          <6>2. CASE i # 1
            <7>1. i \in 1..n
              BY <1>4, <5>1
            <7>2. i - 1 \in 1..n - 1 /\ (i - 1) + 1 = i
              BY <1>4, <6>2, <7>1
            <7> QED
              BY <1>4, <4>2, <7>2
          <6> QED
            BY <6>1, <6>2
        <5> QED
          BY <1>1, <3>2, <5>1 DEF Settled
      <4> QED
        BY <1>2, <3>1, <4>1, <4>2 DEF Settled
    <3> QED
      BY <1>2, <1>12, <2>4, <3>1, <3>2 DEF Agreed
  <2> QED
    BY <1>0, <1>2, <1>9, <2>1, <2>2, <2>3, <2>4 DEF PanelInv
<1> QED
  BY <1>1, <1>11, <1>12

\* The window takes the answer to its request: a refusal gives it back the mode from before.
LEMMA RequestAnswered == PanelInv /\ Panel!Answered => PanelInv'
<1> SUFFICES ASSUME PanelInv, Panel!Answered PROVE PanelInv'
  OBVIOUS
<1>0. PanelTyped /\ RequestsOrdered /\ CallsOrdered /\ (panelStrayed \/ Agreed) /\ PointerFollowed
  BY DEF PanelInv
<1>1. /\ InFlight /\ panelFlight.answer # Panel!None /\ panelFlight' = Panel!NoFlight
      /\ panelOwn' = IF panelFlight.answer = "error" THEN panelOwn \ {panelFlight.id} ELSE panelOwn
      /\ \/ /\ panelFlight.id = panelGeneration /\ panelFlight.answer = "error"
            /\ panelMode' = panelFlight.op.mode /\ panelOrigin' = panelFlight.op.origin
            /\ panelArmed' = IF panelFlight.op.cmd = "collapse" THEN panelFlight.op.armed
                             ELSE panelArmed
         \/ /\ ~(panelFlight.id = panelGeneration /\ panelFlight.answer = "error")
            /\ UNCHANGED <<panelMode, panelOrigin, panelArmed>>
  BY DEF Panel!Answered, InFlight
<1>2. UNCHANGED <<panelGeneration, panelQueue, panelInside, panelHoverOpen, panelClosing,
                  panelDragging, panelListening, panelCalls, panelMail, panelFrame, panelMonitor,
                  panelDock, panelDragMode, panelPointer, panelTracker, panelAhead, panelStrayed>>
  BY DEF Panel!Answered, Panel!panelVars, Panel!pointerVars
<1>3. /\ panelGeneration \in Nat /\ panelOwn \subseteq 1..panelGeneration
      /\ panelQueue \in Seq(PanelOp) /\ panelMail \in Seq(PanelEvent)
      /\ panelMode \in Panel!Modes /\ panelOrigin \in {Panel!None, "hover", "focused"}
      /\ panelArmed \in BOOLEAN
  BY <1>0 DEF PanelTyped, Panel!TypeOK
<1>4. /\ panelFlight.id \in Nat \ {0} /\ panelFlight.op \in PanelOp
      /\ panelFlight.answer \in {"ok", "error"}
  BY <1>0, <1>1, FlightHasNumber DEF PanelFlight
<1>5. panelFlight'.id = 0 /\ ~InFlight' /\ ~Unanswered' /\ LostId' = 0 /\ ~Unanswered
  BY <1>1 DEF Panel!NoFlight, InFlight, Unanswered, LostId
<1>6. PanelTyped'
  <2>1. /\ panelMode' \in Panel!Modes /\ panelOrigin' \in {Panel!None, "hover", "focused"}
        /\ panelArmed' \in BOOLEAN
    <3>1. /\ panelFlight.op.mode \in Panel!Modes
          /\ panelFlight.op.origin \in {Panel!None, "hover", "focused"}
          /\ panelFlight.op.armed \in BOOLEAN
      BY <1>4 DEF PanelOp
    <3>2. panelArmed' = panelArmed \/ panelArmed' = panelFlight.op.armed
      BY <1>1
    <3>3. panelArmed' \in BOOLEAN
      BY <1>3, <3>1, <3>2, Zenon
    <3> QED
      BY <1>1, <1>3, <3>1, <3>3
  <2>2. panelOwn' \subseteq 1..panelGeneration
    BY <1>1, <1>3
  <2> QED
    BY <1>0, <1>1, <1>2, <2>1, <2>2 DEF PanelTyped, Panel!TypeOK
<1>7. RequestsOrdered'
  <2>1. \A i \in DOMAIN panelQueue :
           /\ 0 < panelQueue[i].id /\ panelQueue[i].id <= panelGeneration
           /\ Told(panelMail, panelQueue[i].id)
           /\ panelQueue[i].id = panelGeneration => panelMode' = Wants(panelQueue[i].cmd)
    <3>1. \A i \in DOMAIN panelQueue : panelQueue[i].id \in Nat
      <4>1. \A i \in DOMAIN panelQueue : panelQueue[i] \in PanelOp
        BY <1>3
      <4> QED
        BY <4>1 DEF PanelOp
    <3>2. \A i \in DOMAIN panelQueue :
             /\ panelFlight.id < panelQueue[i].id /\ panelQueue[i].id <= panelGeneration
             /\ Told(panelMail, panelQueue[i].id)
             /\ panelQueue[i].id = panelGeneration => panelMode = Wants(panelQueue[i].cmd)
      BY <1>0 DEF RequestsOrdered
    <3>3. \A i \in DOMAIN panelQueue : panelFlight.id # panelGeneration
      BY <1>3, <1>4, <3>1, <3>2
    <3> QED
      BY <1>1, <1>4, <3>1, <3>2, <3>3
  <2> QED
    BY <1>0, <1>2, <1>3, <1>5, <2>1 DEF RequestsOrdered
<1>8. CallsOrdered'
  <2>1. \A i \in DOMAIN panelCalls : panelCalls[i].cmd \notin PanelCmds
    BY <1>0, <1>5 DEF CallsOrdered
  <2> QED
    BY <1>0, <1>2, <2>1 DEF CallsOrdered, HeldBefore
<1>9. ASSUME Agreed PROVE Agreed'
  <2>1. Stands' = Stands
    BY <1>2 DEF Stands
  <2>2. \A k \in DOMAIN panelMail : panelMail[k].kind = "state" =>
           /\ (panelMail[k].id \notin panelOwn \/ panelMail[k].id = LostId)
                 <=> (panelMail[k].id \notin panelOwn' \/ panelMail[k].id = 0)
           /\ panelMail[k].id \notin panelOwn => panelMail[k].id \notin panelOwn'
    <3>1. 0 \notin panelOwn
      BY <1>3
    <3> QED
      BY <1>1, <1>4, <3>1 DEF LostId
  <2>3. /\ Strangers(panelMail, panelOwn', 0) = Strangers(panelMail, panelOwn, LostId)
        /\ LastSays(panelMail, panelOwn, LostId, Stands)
              => LastSays(panelMail, panelOwn', 0, Stands)
    BY <1>3, <2>2, BoxKept
  <2>4. ASSUME Settled PROVE Settled'
    <3>1. ASSUME \A i \in DOMAIN panelQueue : panelQueue[i].id # panelGeneration
          PROVE  panelMode' = Stands
      <4>1. CASE panelFlight.id = panelGeneration
        BY <1>1, <1>4, <2>4, <4>1 DEF Settled
      <4>2. CASE panelFlight.id # panelGeneration
        BY <1>1, <2>4, <3>1, <4>2 DEF Settled
      <4> QED
        BY <4>1, <4>2
    <3> QED
      BY <1>2, <1>5, <2>1, <2>4, <3>1 DEF Settled
  <2> QED
    BY <1>2, <1>5, <1>9, <2>1, <2>3, <2>4 DEF Agreed
<1>10. PointerFollowed'
  BY <1>0, <1>2, PointerKept
<1> QED
  BY <1>0, <1>2, <1>6, <1>7, <1>8, <1>9, <1>10 DEF PanelInv

\* The window is told of a change of the panel, its own or another's.
LEMMA StateHandled == PanelInv /\ Panel!HandleState => PanelInv'
<1> SUFFICES ASSUME PanelInv, Panel!HandleState PROVE PanelInv'
  OBVIOUS
<1> DEFINE e == Head(panelMail)
<1> DEFINE n == Len(panelMail)
<1>0. PanelTyped /\ RequestsOrdered /\ CallsOrdered /\ (panelStrayed \/ Agreed) /\ PointerFollowed
  BY DEF PanelInv
<1>1. /\ panelMail # <<>> /\ e.kind = "state" /\ panelMail' = Tail(panelMail)
      /\ \/ /\ e.id \notin panelOwn
            /\ panelGeneration' = panelGeneration + 1 /\ panelMode' = e.mode
            /\ panelOrigin' = IF panelMode' = "expanded" THEN "focused" ELSE Panel!None
            /\ panelArmed' = IF panelMode' = "expanded" THEN panelArmed ELSE ~panelInside
            /\ panelOwn' = panelOwn
         \/ /\ e.id \in panelOwn
            /\ panelOwn' = panelOwn \ {e.id}
            /\ UNCHANGED <<panelGeneration, panelMode, panelOrigin, panelArmed>>
  BY DEF Panel!HandleState, Panel!Foreign
<1>2. UNCHANGED <<panelQueue, panelFlight, panelInside, panelHoverOpen, panelClosing,
                  panelDragging, panelListening, panelCalls, panelFrame, panelMonitor,
                  panelDock, panelDragMode, panelPointer, panelTracker, panelAhead, panelStrayed>>
  BY DEF Panel!HandleState, Panel!panelVars, Panel!pointerVars
<1>3. /\ panelGeneration \in Nat /\ panelOwn \subseteq 1..panelGeneration
      /\ panelQueue \in Seq(PanelOp) /\ panelMail \in Seq(PanelEvent) /\ panelFlight.id \in Nat
      /\ panelMode \in Panel!Modes /\ panelOrigin \in {Panel!None, "hover", "focused"}
      /\ panelArmed \in BOOLEAN /\ panelInside \in BOOLEAN
  BY <1>0, FlightHasNumber DEF PanelTyped, Panel!TypeOK
<1>4. /\ n \in Nat \ {0} /\ DOMAIN panelMail = 1..n /\ DOMAIN panelMail' = 1..n - 1
      /\ panelMail' \in Seq(PanelEvent) /\ e = panelMail[1] /\ e \in PanelEvent
      /\ \A i \in 1..n - 1 : panelMail'[i] = panelMail[i + 1]
  BY <1>1, <1>3, Shrinks
<1> HIDE DEF n, e
<1>5. e.id \in Nat /\ e.mode \in Panel!Modes
  BY <1>1, <1>4 DEF PanelEvent
<1>6. /\ \A q : Told(panelMail, q) => Told(panelMail', q)
      /\ ToldOnce(panelMail')
  BY <1>0, <1>1, <1>3, BoxShrinks DEF RequestsOrdered
<1>7. 1 \in Strangers(panelMail, panelOwn, LostId) <=> e.id \notin panelOwn \/ e.id = LostId
  BY <1>1, <1>4 DEF Strangers
<1>8. ASSUME NEW mine, NEW lost, NEW m
      PROVE  /\ LastSays(panelMail, mine, lost, m) => LastSays(panelMail', mine, lost, m)
             /\ 1 \notin Strangers(panelMail, mine, lost) /\ Strangers(panelMail', mine, lost) = {}
                   => Strangers(panelMail, mine, lost) = {}
             /\ /\ 1 \in Strangers(panelMail, mine, lost)
                /\ Strangers(panelMail', mine, lost) = {}
                /\ LastSays(panelMail, mine, lost, m)
                => e.mode = m /\ e.id \notin mine
  <2>1. panelMail # <<>> /\ panelMail' = Tail(panelMail) /\ panelMail \in Seq(PanelEvent)
    BY <1>1, <1>3
  <2>2. /\ LastSays(panelMail, mine, lost, m) => LastSays(Tail(panelMail), mine, lost, m)
        /\ 1 \notin Strangers(panelMail, mine, lost)
           /\ Strangers(Tail(panelMail), mine, lost) = {}
              => Strangers(panelMail, mine, lost) = {}
    BY <2>1, BoxShrinks
  <2>3. ASSUME 1 \in Strangers(panelMail, mine, lost),
               Strangers(Tail(panelMail), mine, lost) = {},
               LastSays(panelMail, mine, lost, m)
        PROVE  Head(panelMail).mode = m /\ Head(panelMail).id \notin mine
    BY <2>1, <2>3, BoxShrinks
  <2> QED
    BY <2>1, <2>2, <2>3 DEF e
<1>9. Stands' = Stands /\ LostId' = LostId
  BY <1>2 DEF Stands, LostId, InFlight
<1>10. CallsOrdered'
  BY <1>0, <1>2, CallsKept
<1>11. PointerFollowed'
  <2>1. LastSeen(panelMail, panelInside, panelTracker)
           => LastSeen(panelMail', panelInside, panelTracker)
    BY <1>1, <1>3, PointerShrinks DEF e
  <2> QED
    BY <1>0, <1>2, <2>1, PointerKept
<1>12. \A i \in DOMAIN panelQueue :
          /\ panelFlight.id < panelQueue[i].id /\ panelQueue[i].id <= panelGeneration
          /\ panelQueue[i].id \in Nat /\ Told(panelMail', panelQueue[i].id)
          /\ panelQueue[i].id = panelGeneration => panelMode = Wants(panelQueue[i].cmd)
  <2>1. \A i \in DOMAIN panelQueue : panelQueue[i] \in PanelOp
    BY <1>3
  <2>2. \A i \in DOMAIN panelQueue : panelQueue[i].id \in Nat
    BY <2>1 DEF PanelOp
  <2> QED
    BY <1>0, <1>6, <2>2 DEF RequestsOrdered
<1>13. /\ panelFlight.id <= panelGeneration
       /\ InFlight => panelFlight.op.id = panelFlight.id /\ panelFlight.sent = panelFlight.id
       /\ Unanswered => Told(panelMail', panelFlight.id) /\ panelFlight.id \in panelOwn'
       /\ Unanswered /\ panelFlight.id = panelGeneration => panelMode = Wants(panelFlight.op.cmd)
       /\ Told(panelMail', panelGeneration + 1)
       /\ \A i, j \in DOMAIN panelQueue : i < j => panelQueue[i].id < panelQueue[j].id
  <2>1. ASSUME Unanswered PROVE panelFlight.id \in panelOwn'
    <3>1. Told(panelMail, panelFlight.id) /\ panelFlight.id \in panelOwn
      BY <1>0, <2>1 DEF RequestsOrdered
    <3>2. e.id < panelFlight.id
      BY <1>1, <1>4, <3>1 DEF Told
    <3> QED
      BY <1>1, <1>3, <1>5, <3>1, <3>2
  <2> QED
    BY <1>0, <1>6, <2>1 DEF RequestsOrdered
<1>14. CASE /\ e.id \notin panelOwn
            /\ panelGeneration' = panelGeneration + 1 /\ panelMode' = e.mode
            /\ panelOrigin' = IF panelMode' = "expanded" THEN "focused" ELSE Panel!None
            /\ panelArmed' = IF panelMode' = "expanded" THEN panelArmed ELSE ~panelInside
            /\ panelOwn' = panelOwn
  <2> DEFINE g == panelGeneration + 1
  <2>0. /\ g \in Nat /\ panelGeneration <= g /\ panelFlight.id <= g /\ panelFlight.id # g
        /\ \A i \in DOMAIN panelQueue : panelQueue[i].id <= g /\ panelQueue[i].id # g
    BY <1>3, <1>12, <1>13
  <2>1. PanelTyped'
    <3>1. panelOwn \subseteq 1..g
      BY <1>3
    <3>2. panelArmed' \in BOOLEAN
      <4>1. panelArmed' = panelArmed \/ panelArmed' = ~panelInside
        BY <1>14
      <4> QED
        BY <1>3, <4>1, Zenon
    <3> QED
      BY <1>0, <1>2, <1>4, <1>5, <1>14, <2>0, <3>1, <3>2 DEF PanelTyped, Panel!TypeOK
  <2>2. RequestsOrdered'
    <3>1. g + 1 \in Nat /\ g <= g + 1
      BY <2>0
    <3>2. Told(panelMail', g + 1)
      BY <1>4, <1>13, <2>0, <3>1, ToldBelow
    <3> HIDE DEF g
    <3>3. panelGeneration' = g
      BY <1>14 DEF g
    <3> QED
      BY <1>2, <1>6, <1>12, <1>13, <2>0, <3>2, <3>3 DEF RequestsOrdered, InFlight, Unanswered
  <2>3. ASSUME Agreed PROVE Agreed'
    <3>1. LastSays(panelMail', panelOwn', LostId', Stands')
      BY <1>8, <1>9, <1>14, <2>3 DEF Agreed
    <3>2. ASSUME Strangers(panelMail', panelOwn', LostId') = {} PROVE Settled'
      <4>1. panelMode' = Stands
        BY <1>7, <1>8, <1>9, <1>14, <2>3, <3>2 DEF Agreed
      <4> HIDE DEF g
      <4>2. panelGeneration' = g
        BY <1>14 DEF g
      <4> QED
        BY <1>2, <1>9, <2>0, <4>1, <4>2 DEF Settled
    <3> QED
      BY <1>2, <1>9, <2>3, <3>1, <3>2 DEF Agreed
  <2> QED
    BY <1>0, <1>2, <1>10, <1>11, <2>1, <2>2, <2>3 DEF PanelInv
<1>15. CASE /\ e.id \in panelOwn
            /\ panelOwn' = panelOwn \ {e.id}
            /\ UNCHANGED <<panelGeneration, panelMode, panelOrigin, panelArmed>>
  <2>1. PanelTyped'
    <3>1. panelOwn' \subseteq 1..panelGeneration
      BY <1>3, <1>15
    <3> QED
      BY <1>0, <1>2, <1>4, <1>15, <3>1 DEF PanelTyped, Panel!TypeOK
  <2>2. RequestsOrdered'
    BY <1>2, <1>6, <1>12, <1>13, <1>15 DEF RequestsOrdered, InFlight, Unanswered
  <2>3. ASSUME Agreed PROVE Agreed'
    <3>1. \A k \in DOMAIN panelMail' : panelMail'[k].kind = "state" => panelMail'[k].id # e.id
      <4> SUFFICES ASSUME NEW k \in 1..n - 1, panelMail'[k].kind = "state",
                          panelMail'[k].id = e.id
                   PROVE  FALSE
        BY <1>4
      <4>1. /\ k + 1 \in 1..n /\ 1 \in 1..n /\ k + 1 # 1
            /\ panelMail[k + 1].kind = "state" /\ panelMail[k + 1].id = e.id
        BY <1>4
      <4>2. e.id # 0
        BY <1>3, <1>15
      <4> QED
        BY <1>0, <1>1, <1>4, <4>1, <4>2 DEF RequestsOrdered, ToldOnce
    <3>2. \A k \in DOMAIN panelMail' : panelMail'[k].kind = "state" =>
             /\ (panelMail'[k].id \notin panelOwn \/ panelMail'[k].id = LostId)
                   <=> (panelMail'[k].id \notin panelOwn' \/ panelMail'[k].id = LostId)
             /\ panelMail'[k].id \notin panelOwn => panelMail'[k].id \notin panelOwn'
      BY <1>15, <3>1
    <3>3. /\ Strangers(panelMail', panelOwn', LostId) = Strangers(panelMail', panelOwn, LostId)
          /\ LastSays(panelMail', panelOwn, LostId, Stands)
                => LastSays(panelMail', panelOwn', LostId, Stands)
      BY <1>4, <3>2, BoxKept
    <3>4. LastSays(panelMail', panelOwn', LostId', Stands')
      BY <1>8, <1>9, <2>3, <3>3 DEF Agreed
    <3>5. ASSUME Strangers(panelMail', panelOwn', LostId') = {} PROVE Settled'
      <4>1. Strangers(panelMail, panelOwn, LostId) = {}
        BY <1>7, <1>8, <1>9, <1>15, <2>3, <3>3, <3>5 DEF Agreed
      <4>2. Settled
        BY <2>3, <4>1 DEF Agreed
      <4> QED
        BY <1>2, <1>9, <1>15, <4>2 DEF Settled, InFlight
    <3> QED
      BY <1>2, <1>9, <2>3, <3>4, <3>5 DEF Agreed
  <2> QED
    BY <1>0, <1>2, <1>10, <1>11, <2>1, <2>2, <2>3 DEF PanelInv
<1> QED
  BY <1>1, <1>14, <1>15

-----------------------------------------------------------------------------
\* The window makes a call that is not a request.
LEMMA PanelCalled ==
    ASSUME PanelInv, NEW c \in PanelCall, c.cmd \notin PanelCmds,
           panelCalls' = Append(panelCalls, c),
           UNCHANGED <<panelMode, panelGeneration, panelQueue, panelFlight, panelOwn, panelInside,
                       panelArmed, panelHoverOpen, panelClosing, panelMail, panelFrame,
                       panelMonitor, panelDock, panelDragMode, panelPointer, panelTracker,
                       panelAhead, panelStrayed>>,
           panelOrigin' \in {Panel!None, "hover", "focused"},
           panelDragging' \in BOOLEAN, panelListening' \in BOOLEAN,
           panelListening' = panelListening \/ c.cmd = "pointerReady",
           c.cmd \in {"dragFrame", "dragEnd"} => panelDragging,
           panelDragging' => c.cmd # "dragEnd" /\ (panelDragging \/ c.cmd = "dragStart")
    PROVE  PanelInv'
<1>0. PanelTyped /\ RequestsOrdered /\ CallsOrdered /\ (panelStrayed \/ Agreed) /\ PointerFollowed
  BY DEF PanelInv
<1>1. panelCalls \in Seq(PanelCall)
  BY <1>0 DEF PanelTyped
<1>2. PanelTyped'
  <2>1. panelCalls' \in Seq(PanelCall)
    BY <1>1
  <2> QED
    BY <1>0, <2>1 DEF PanelTyped, Panel!TypeOK
<1>3. RequestsOrdered'
  BY <1>0, PanelRequestsKept
<1>4. CallsOrdered'
  BY <1>0, <1>1, CallsGrow
<1>5. ASSUME Agreed PROVE Agreed'
  <2>1. Stands' = Stands
    BY DEF Stands
  <2> QED
    BY <1>5, <2>1, AgreedKept DEF Agreed
<1>6. PointerFollowed'
  <2>1. CASE panelListening' = panelListening
    BY <1>0, <1>1, <2>1, SnapshotWaits, PointerKept
  <2>2. CASE c.cmd = "pointerReady"
    <3>1. \E i \in DOMAIN panelCalls' : panelCalls'[i].cmd = "pointerReady"
      <4>1. /\ DOMAIN panelCalls' = 1..Len(panelCalls) + 1 /\ Len(panelCalls) \in Nat
            /\ panelCalls'[Len(panelCalls) + 1] = c
        BY <1>1, Grows
      <4> QED
        BY <2>2, <4>1
    <3> QED
      BY <3>1 DEF PointerFollowed
  <2> QED
    BY <2>1, <2>2
<1> QED
  BY <1>0, <1>2, <1>3, <1>4, <1>5, <1>6 DEF PanelInv

\* A drag begins, goes on and ends, and the window begins to listen.
LEMMA WindowCalls ==
    PanelInv /\ (Panel!Drag \/ Panel!Moved \/ Panel!Drop \/ Panel!Listen) => PanelInv'
<1>1. PanelInv => /\ panelDragging \in BOOLEAN /\ panelListening \in BOOLEAN
                  /\ panelOrigin \in {Panel!None, "hover", "focused"}
  BY DEF PanelInv, PanelTyped, Panel!TypeOK
<1>2. ASSUME PanelInv, Panel!Drag PROVE PanelInv'
  <2> DEFINE c == [cmd |-> "dragStart"]
  <2>1. c \in PanelCall /\ c.cmd = "dragStart" /\ c.cmd \notin PanelCmds
    BY DEF PanelCall, PanelCmds
  <2>2. /\ panelCalls' = Append(panelCalls, c) /\ panelDragging' = TRUE
        /\ panelOrigin' = IF panelOrigin = "hover" THEN "focused" ELSE panelOrigin
        /\ UNCHANGED <<panelMode, panelGeneration, panelQueue, panelFlight, panelOwn, panelInside,
                       panelArmed, panelHoverOpen, panelClosing, panelMail, panelFrame,
                       panelMonitor, panelDock, panelDragMode, panelPointer, panelTracker,
                       panelAhead, panelStrayed, panelListening>>
    BY <1>2 DEF Panel!Drag, Panel!panelVars, Panel!pointerVars
  <2> HIDE DEF c
  <2>3. panelOrigin' \in {Panel!None, "hover", "focused"}
    BY <1>1, <1>2, <2>2
  <2> QED
    BY <1>1, <1>2, <2>1, <2>2, <2>3, PanelCalled
<1>3. ASSUME PanelInv, Panel!Moved PROVE PanelInv'
  <2>1. PICK p \in Pointed : panelCalls' = Append(panelCalls, [cmd |-> "dragFrame", at |-> p])
    BY <1>3 DEF Panel!Moved
  <2> DEFINE c == [cmd |-> "dragFrame", at |-> p]
  <2>2. c \in PanelCall /\ c.cmd = "dragFrame" /\ c.cmd \notin PanelCmds
    BY DEF PanelCall, PanelCmds
  <2>3. /\ panelCalls' = Append(panelCalls, c) /\ panelDragging
        /\ UNCHANGED <<panelMode, panelGeneration, panelQueue, panelFlight, panelOwn, panelInside,
                       panelArmed, panelHoverOpen, panelClosing, panelMail, panelFrame,
                       panelMonitor, panelDock, panelDragMode, panelPointer, panelTracker,
                       panelAhead, panelStrayed, panelOrigin, panelListening, panelDragging>>
    BY <1>3, <2>1 DEF Panel!Moved, Panel!windowVars, Panel!panelVars, Panel!pointerVars
  <2> HIDE DEF c
  <2> QED
    BY <1>1, <1>3, <2>2, <2>3, PanelCalled
<1>4. ASSUME PanelInv, Panel!Drop PROVE PanelInv'
  <2> DEFINE c == [cmd |-> "dragEnd"]
  <2>1. c \in PanelCall /\ c.cmd = "dragEnd" /\ c.cmd \notin PanelCmds
    BY DEF PanelCall, PanelCmds
  <2>2. /\ panelCalls' = Append(panelCalls, c) /\ panelDragging /\ panelDragging' = FALSE
        /\ UNCHANGED <<panelMode, panelGeneration, panelQueue, panelFlight, panelOwn, panelInside,
                       panelArmed, panelHoverOpen, panelClosing, panelMail, panelFrame,
                       panelMonitor, panelDock, panelDragMode, panelPointer, panelTracker,
                       panelAhead, panelStrayed, panelOrigin, panelListening>>
    BY <1>4 DEF Panel!Drop, Panel!panelVars, Panel!pointerVars
  <2> HIDE DEF c
  <2> QED
    BY <1>1, <1>4, <2>1, <2>2, PanelCalled
<1>5. ASSUME PanelInv, Panel!Listen PROVE PanelInv'
  <2> DEFINE c == [cmd |-> "pointerReady"]
  <2>1. c \in PanelCall /\ c.cmd = "pointerReady" /\ c.cmd \notin PanelCmds
    BY DEF PanelCall, PanelCmds
  <2>2. /\ panelCalls' = Append(panelCalls, c) /\ panelListening' = TRUE
        /\ UNCHANGED <<panelMode, panelGeneration, panelQueue, panelFlight, panelOwn, panelInside,
                       panelArmed, panelHoverOpen, panelClosing, panelMail, panelFrame,
                       panelMonitor, panelDock, panelDragMode, panelPointer, panelTracker,
                       panelAhead, panelStrayed, panelOrigin, panelDragging>>
    BY <1>5 DEF Panel!Listen, Panel!panelVars, Panel!pointerVars
  <2> HIDE DEF c
  <2> QED
    BY <1>1, <1>5, <2>1, <2>2, PanelCalled
<1> QED
  BY <1>2, <1>3, <1>4, <1>5

-----------------------------------------------------------------------------
\* What the application emits of its own accord.
OwnAccord == \/ panelMail' = panelMail
             \/ \E e \in PanelEvent : (e.kind = "state" => e.id = 0) /\ Panel!Emit(e)

\* The application serves a call, or something happens to the panel, and the window is not
\* concerned until it is told.
LEMMA PanelMoved ==
    ASSUME PanelInv, UNCHANGED Panel!windowVars, OwnAccord,
           \/ panelCalls' = panelCalls /\ panelDragMode' = panelDragMode
           \/ /\ panelCalls # <<>> /\ panelCalls' = Tail(panelCalls)
              /\ Head(panelCalls).cmd = "dragStart" => panelDragMode' # Panel!None
              /\ Head(panelCalls).cmd \notin {"dragStart", "dragEnd"}
                    => panelDragMode' = panelDragMode,
           panelMonitor' \in Screens, panelDock' \in Panel!Docks,
           panelDragMode' \in Panel!Modes \cup {Panel!None},
           panelPointer' \in {"in", "out"}, panelTracker' \in {"in", "out", Panel!None},
           panelStrayed' \/ Agreed', PointerFollowed'
    PROVE  PanelInv'
<1>0. PanelTyped /\ RequestsOrdered /\ CallsOrdered /\ (panelStrayed \/ Agreed) /\ PointerFollowed
  BY DEF PanelInv
<1>1. panelCalls \in Seq(PanelCall) /\ panelMail \in Seq(PanelEvent)
  BY <1>0 DEF PanelTyped
<1>2. /\ panelMail' \in Seq(PanelEvent)
      /\ \A n \in Nat \ {0} : Told(panelMail, n) => Told(panelMail', n)
      /\ ToldOnce(panelMail) => ToldOnce(panelMail')
  <2>1. CASE panelMail' = panelMail
    BY <1>1, <2>1
  <2>2. ASSUME NEW e \in PanelEvent, e.kind = "state" => e.id = 0, Panel!Emit(e)
        PROVE  /\ panelMail' \in Seq(PanelEvent)
               /\ \A n \in Nat \ {0} : Told(panelMail, n) => Told(panelMail', n)
               /\ ToldOnce(panelMail) => ToldOnce(panelMail')
    BY <1>0, <2>2, EmitSays
  <2> QED
    BY <2>1, <2>2 DEF OwnAccord
<1>3. UNCHANGED <<panelMode, panelOrigin, panelGeneration, panelQueue, panelFlight, panelOwn,
                  panelInside, panelArmed, panelHoverOpen, panelClosing, panelDragging,
                  panelListening>>
  BY DEF Panel!windowVars
<1>4. PanelTyped'
  <2>1. panelCalls' \in Seq(PanelCall)
    <3>1. CASE panelCalls' = panelCalls
      BY <1>1, <3>1
    <3>2. CASE panelCalls # <<>> /\ panelCalls' = Tail(panelCalls)
      <4>1. Tail(panelCalls) \in Seq(PanelCall)
        BY <1>1, <3>2, Shrinks
      <4> QED
        BY <3>2, <4>1
    <3> QED
      BY <3>1, <3>2
  <2> QED
    BY <1>0, <1>2, <1>3, <2>1 DEF PanelTyped, Panel!TypeOK
<1>5. RequestsOrdered'
  BY <1>0, <1>2, <1>3, PanelRequestsKept
<1>6. CallsOrdered'
  BY <1>0, <1>1, <1>3, CallsKept, CallsServed
<1> QED
  BY <1>4, <1>5, <1>6 DEF PanelInv

\* The window is told where the pointer is, when it asks and when the tracker finds out.
LEMMA PointerTold == PanelInv /\ (Panel!PointerReady \/ Panel!PublishPointer) => PanelInv'
<1> SUFFICES ASSUME PanelInv, Panel!PointerReady \/ Panel!PublishPointer PROVE PanelInv'
  OBVIOUS
<1> DEFINE e == [kind |-> "pointer", at |-> panelPointer]
<1>0. PanelTyped /\ RequestsOrdered /\ CallsOrdered /\ (panelStrayed \/ Agreed) /\ PointerFollowed
  BY DEF PanelInv
<1>1. /\ panelPointer \in {"in", "out"} /\ panelTracker \in {"in", "out", Panel!None}
      /\ panelMonitor \in Screens /\ panelDock \in Panel!Docks
      /\ panelDragMode \in Panel!Modes \cup {Panel!None}
  BY <1>0 DEF PanelTyped, Panel!TypeOK
<1>2. e \in PanelEvent /\ e.kind = "pointer" /\ e.at = panelPointer
  BY <1>1 DEF PanelEvent
<1>3. /\ UNCHANGED Panel!windowVars
      /\ UNCHANGED <<panelFrame, panelMonitor, panelDock, panelDragMode, panelPointer, panelStrayed>>
      /\ Panel!Emit(e)
      /\ \/ /\ panelAhead' = FALSE /\ panelTracker' = panelPointer
            /\ panelCalls' = panelCalls
         \/ /\ panelAhead' = (panelPointer # panelTracker) /\ panelTracker' = panelTracker
            /\ panelCalls # <<>> /\ Head(panelCalls).cmd = "pointerReady"
            /\ panelCalls' = Tail(panelCalls)
  BY DEF Panel!PointerReady, Panel!PublishPointer, Panel!Served, Panel!panelVars
<1> HIDE DEF e
<1>4. OwnAccord
  BY <1>2, <1>3 DEF OwnAccord
<1>5. ASSUME Agreed PROVE Agreed'
  <2>1. Stands' = Stands
    BY <1>3 DEF Stands
  <2>2. UNCHANGED <<panelFlight, panelOwn, panelGeneration, panelQueue, panelMode>>
    BY <1>3 DEF Panel!windowVars
  <2>3. /\ LastSays(panelMail, panelOwn, LostId, Stands)
              => LastSays(panelMail', panelOwn, LostId, Stands)
        /\ Strangers(panelMail', panelOwn, LostId) = Strangers(panelMail, panelOwn, LostId)
    BY <1>0, <1>2, <1>3, EmitSays
  <2> QED
    BY <1>3, <1>5, <2>1, <2>2, <2>3, AgreedKept DEF Agreed
<1>6. PointerFollowed'
  <2> SUFFICES ASSUME panelListening', ~panelAhead'
               PROVE  LastSeen(panelMail', panelInside', panelTracker')
    BY DEF PointerFollowed
  <2>1. panelTracker' = panelPointer /\ panelInside' = panelInside /\ panelListening
    BY <1>3 DEF Panel!windowVars
  <2> QED
    BY <1>0, <1>2, <1>3, <2>1, EmitSays
<1>7. "pointerReady" \notin {"dragStart", "dragEnd"} /\ "pointerReady" # "dragStart"
  OBVIOUS
<1> QED
  BY <1>0, <1>1, <1>3, <1>4, <1>5, <1>6, <1>7, PanelMoved

\* A drag begins and moves the panel: it is in the mode from before.
LEMMA DragMoves == PanelInv /\ (Panel!DragStart \/ Panel!DragFrame) => PanelInv'
<1> SUFFICES ASSUME PanelInv, Panel!DragStart \/ Panel!DragFrame PROVE PanelInv'
  OBVIOUS
<1>0. PanelTyped /\ RequestsOrdered /\ CallsOrdered /\ (panelStrayed \/ Agreed) /\ PointerFollowed
  BY DEF PanelInv
<1>1. /\ panelPointer \in {"in", "out"} /\ panelTracker \in {"in", "out", Panel!None}
      /\ panelMonitor \in Screens /\ panelDock \in Panel!Docks
      /\ panelDragMode \in Panel!Modes \cup {Panel!None} /\ panelCalls \in Seq(PanelCall)
  BY <1>0 DEF PanelTyped, Panel!TypeOK
<1>2. /\ UNCHANGED Panel!windowVars
      /\ UNCHANGED <<panelFlight, panelOwn, panelGeneration, panelQueue, panelMode, panelListening,
                     panelInside>>
      /\ UNCHANGED <<panelMail, panelDock, panelPointer, panelTracker, panelAhead>>
      /\ panelCalls # <<>> /\ panelCalls' = Tail(panelCalls)
  BY DEF Panel!DragStart, Panel!DragFrame, Panel!Served, Panel!pointerVars, Panel!windowVars
<1>3. OwnAccord
  BY <1>2 DEF OwnAccord
<1>4. Head(panelCalls).cmd # "pointerReady"
  BY DEF Panel!DragStart, Panel!DragFrame, Panel!Served
<1>5. PointerFollowed'
  BY <1>0, <1>1, <1>2, <1>4, SnapshotWaits, PointerKept
<1>6. ASSUME Panel!DragStart PROVE PanelInv'
  <2>1. /\ panelDragMode' \in Panel!CurrentModes /\ panelMonitor' = panelMonitor
        /\ panelStrayed' = (panelStrayed \/ panelDragMode # Panel!None
                            \/ panelDragMode' # Panel!ModeOf(panelFrame))
        /\ Head(panelCalls).cmd = "dragStart"
    BY <1>6 DEF Panel!DragStart, Panel!Served
  <2>2. panelDragMode' \in Panel!Modes
    BY <2>1, EverySizeHasMode DEF Panel!CurrentModes
  <2>3. panelDragMode' # Panel!None
    BY <2>2 DEF Panel!Modes, Panel!None
  <2>4. ASSUME ~panelStrayed' PROVE Agreed'
    <3>1. Agreed /\ panelDragMode = Panel!None /\ panelDragMode' = Panel!ModeOf(panelFrame)
      BY <1>0, <2>1, <2>4
    <3>2. Stands' = Stands
      BY <2>3, <3>1 DEF Stands
    <3> QED
      BY <1>2, <2>3, <3>1, <3>2, AgreedKept
  <2>5. Head(panelCalls).cmd \notin {"dragStart", "dragEnd"} => panelDragMode' = panelDragMode
    BY <2>1
  <2>6. panelDragMode' \in Panel!Modes \cup {Panel!None} /\ panelMonitor' \in Screens
        /\ panelDock' \in Panel!Docks /\ panelPointer' \in {"in", "out"}
        /\ panelTracker' \in {"in", "out", Panel!None}
    BY <1>1, <1>2, <2>1, <2>2
  <2> QED
    BY <1>2, <1>3, <1>5, <2>3, <2>4, <2>5, <2>6, PanelMoved
<1>7. ASSUME Panel!DragFrame PROVE PanelInv'
  <2>1. /\ panelMonitor' = Head(panelCalls).at.monitor /\ panelDragMode' = panelDragMode
        /\ panelStrayed' = panelStrayed /\ Head(panelCalls).cmd = "dragFrame"
    BY <1>7 DEF Panel!DragFrame, Panel!Served
  <2>2. panelMonitor' \in Screens
    <3>1. Head(panelCalls) \in PanelCall
      BY <1>1, <1>2, Shrinks
    <3>2. Head(panelCalls).at \in Pointed
      BY <2>1, <3>1 DEF PanelCall, PanelCmds
    <3> QED
      BY <2>1, <3>2, PanelBounds
  <2>3. panelDragMode # Panel!None
    BY <1>0, <1>1, <1>2, <2>1, CallOfDrag
  <2>4. ASSUME Agreed PROVE Agreed'
    <3>1. Stands' = Stands
      BY <2>1, <2>3 DEF Stands
    <3> QED
      BY <1>2, <2>1, <2>3, <2>4, <3>1, AgreedKept
  <2>5. "dragFrame" # "dragStart"
    OBVIOUS
  <2> QED
    BY <1>0, <1>1, <1>2, <1>3, <1>5, <2>1, <2>2, <2>4, <2>5, PanelMoved
<1> QED
  BY <1>6, <1>7

\* A drag ends: the panel is docked in the mode from before, or nobody knows.
LEMMA DragOver == PanelInv /\ Panel!DragEnd => PanelInv'
<1> SUFFICES ASSUME PanelInv, Panel!DragEnd PROVE PanelInv'
  OBVIOUS
<1> DEFINE e == [kind |-> "dragOver"]
<1>0. PanelTyped /\ RequestsOrdered /\ CallsOrdered /\ (panelStrayed \/ Agreed) /\ PointerFollowed
  BY DEF PanelInv
<1>1. /\ panelPointer \in {"in", "out"} /\ panelTracker \in {"in", "out", Panel!None}
      /\ panelMonitor \in Screens /\ panelDock \in Panel!Docks
      /\ panelDragMode \in Panel!Modes \cup {Panel!None} /\ panelCalls \in Seq(PanelCall)
  BY <1>0 DEF PanelTyped, Panel!TypeOK
<1>2. /\ UNCHANGED Panel!windowVars
      /\ UNCHANGED <<panelFlight, panelOwn, panelGeneration, panelQueue, panelMode, panelListening,
                     panelInside>>
      /\ UNCHANGED <<panelPointer, panelTracker, panelAhead>> /\ panelDragMode' = Panel!None
      /\ panelCalls # <<>> /\ Head(panelCalls).cmd = "dragEnd" /\ panelCalls' = Tail(panelCalls)
  BY DEF Panel!DragEnd, Panel!Served, Panel!pointerVars, Panel!windowVars
<1>3. e \in PanelEvent /\ e.kind = "dragOver"
  BY DEF PanelEvent
<1> HIDE DEF e
<1>4. panelDragMode \in Panel!Modes /\ panelDragMode # Panel!None
  BY <1>0, <1>1, <1>2, CallOfDrag
<1>5. panelMonitor' = panelMonitor /\ panelDock' \in Panel!Docks
      /\ (panelMail' = panelMail \/ Panel!Emit(e))
      /\ (\/ panelStrayed' = TRUE
          \/ /\ panelFrame' = Panel!FrameAt(panelMonitor, panelDragMode, panelDock')
             /\ panelStrayed' = panelStrayed)
  BY <1>1, EveryPlaceHasDock DEF Panel!DragEnd, Panel!SetMode, e
<1>6. OwnAccord
  BY <1>3, <1>5 DEF OwnAccord
<1>7. /\ LastSays(panelMail, panelOwn, LostId, Stands)
            => LastSays(panelMail', panelOwn, LostId, Stands)
      /\ Strangers(panelMail', panelOwn, LostId) = Strangers(panelMail, panelOwn, LostId)
      /\ LastSeen(panelMail, panelInside, panelTracker)
            => LastSeen(panelMail', panelInside, panelTracker)
  <2>1. CASE panelMail' = panelMail
    BY <2>1
  <2>2. CASE Panel!Emit(e)
    BY <1>0, <1>3, <2>2, EmitSays
  <2> QED
    BY <1>5, <2>1, <2>2
<1>8. PointerFollowed'
  <2>1. Head(panelCalls).cmd # "pointerReady"
    BY <1>2
  <2> QED
    BY <1>0, <1>1, <1>2, <1>7, <2>1, SnapshotWaits, PointerKept
<1>9. ASSUME ~panelStrayed' PROVE Agreed'
  <2>1. /\ panelFrame' = Panel!FrameAt(panelMonitor, panelDragMode, panelDock') /\ Agreed
    BY <1>0, <1>5, <1>9
  <2>2. Panel!ModeOf(panelFrame') = panelDragMode
    BY <1>4, <2>1, ModeOfFrame
  <2>3. Stands' = Stands
    BY <1>2, <1>4, <2>2 DEF Stands
  <2> QED
    BY <1>2, <1>5, <1>7, <2>1, <2>2, <2>3, AgreedKept
<1>10. "dragEnd" # "dragStart"
  OBVIOUS
<1> QED
  BY <1>1, <1>2, <1>5, <1>6, <1>8, <1>9, <1>10, PanelMoved

\* Somebody else opens or closes the panel: the window is told last of that mode.
LEMMA OpenedOutside ==
    ASSUME NEW m \in Panel!Modes
    PROVE  PanelInv /\ Panel!Outside(m) => PanelInv'
<1> SUFFICES ASSUME PanelInv, Panel!Outside(m) PROVE PanelInv'
  OBVIOUS
<1> DEFINE e == [kind |-> "state", mode |-> m, id |-> 0]
<1>0. PanelTyped /\ RequestsOrdered /\ CallsOrdered /\ (panelStrayed \/ Agreed) /\ PointerFollowed
  BY DEF PanelInv
<1>1. /\ panelPointer \in {"in", "out"} /\ panelTracker \in {"in", "out", Panel!None}
      /\ panelMonitor \in Screens /\ panelDock \in Panel!Docks
      /\ panelDragMode \in Panel!Modes \cup {Panel!None} /\ panelListening \in BOOLEAN
      /\ panelGeneration \in Nat /\ panelOwn \subseteq 1..panelGeneration
  BY <1>0 DEF PanelTyped, Panel!TypeOK
<1>2. /\ UNCHANGED Panel!windowVars
      /\ UNCHANGED <<panelFlight, panelOwn, panelGeneration, panelQueue, panelMode, panelListening,
                     panelInside>>
      /\ UNCHANGED <<panelCalls, panelDock, panelDragMode, panelMonitor, panelPointer, panelTracker,
                     panelAhead>>
      /\ panelFrame' = Panel!FrameAt(panelMonitor, m, panelDock) /\ Panel!Emit(e)
      /\ panelStrayed' = (panelDragMode # Panel!None \/ ~panelListening)
  BY DEF Panel!Outside, Panel!SetMode, Panel!pointerVars, Panel!windowVars
<1>3. /\ e \in PanelEvent /\ e.kind = "state" /\ e.id = 0 /\ e.mode = m /\ e.id \notin panelOwn
      /\ e.kind # "pointer"
  BY <1>1 DEF PanelEvent
<1> HIDE DEF e
<1>4. OwnAccord
  BY <1>2, <1>3 DEF OwnAccord
<1>5. PointerFollowed'
  <2>1. LastSeen(panelMail, panelInside, panelTracker)
           => LastSeen(panelMail', panelInside, panelTracker)
    BY <1>0, <1>2, <1>3, EmitSays
  <2> QED
    BY <1>0, <1>2, <2>1, PointerKept
<1>6. ASSUME ~panelStrayed' PROVE Agreed'
  <2>1. panelDragMode' = Panel!None /\ panelListening
    BY <1>1, <1>2, <1>6
  <2>2. Panel!ModeOf(panelFrame') = m
    BY <1>2, ModeOfFrame
  <2>3. Stands' = m /\ LostId' = LostId
    BY <1>2, <2>1, <2>2 DEF Stands, LostId, InFlight
  <2>4. /\ LastSays(panelMail', panelOwn, LostId, e.mode)
        /\ Strangers(panelMail', panelOwn, LostId) # {}
    BY <1>0, <1>2, <1>3, <2>1, EmitSays
  <2> QED
    BY <1>2, <1>3, <2>1, <2>2, <2>3, <2>4 DEF Agreed
<1> QED
  BY <1>1, <1>2, <1>4, <1>5, <1>6, PanelMoved

\* The scale changes, or another dock is chosen: the mode stays that of the size.
LEMMA Redocked ==
    ASSUME NEW d \in Chosen \cup {panelDock}
    PROVE  PanelInv /\ Panel!Redock(d) => PanelInv'
<1> SUFFICES ASSUME PanelInv, Panel!Redock(d) PROVE PanelInv'
  OBVIOUS
<1>0. PanelTyped /\ RequestsOrdered /\ CallsOrdered /\ (panelStrayed \/ Agreed) /\ PointerFollowed
  BY DEF PanelInv
<1>1. /\ panelPointer \in {"in", "out"} /\ panelTracker \in {"in", "out", Panel!None}
      /\ panelMonitor \in Screens /\ panelDock \in Panel!Docks /\ d \in Panel!Docks
      /\ panelDragMode \in Panel!Modes \cup {Panel!None}
  BY <1>0, PanelBounds DEF PanelTyped, Panel!TypeOK, Panel!Docks
<1>2. PICK m \in Panel!CurrentModes :
         /\ Panel!SetMode(m, d, FALSE)
         /\ \/ /\ panelDock' = d /\ UNCHANGED panelFaults
               /\ panelStrayed' = (panelStrayed \/ m # Panel!ModeOf(panelFrame))
            \/ d # panelDock /\ UNCHANGED panelDock /\ Panel!Fails /\ panelStrayed' = TRUE
  BY DEF Panel!Redock
<1>3. /\ UNCHANGED Panel!windowVars
      /\ UNCHANGED <<panelFlight, panelOwn, panelGeneration, panelQueue, panelMode, panelListening,
                     panelInside>>
      /\ UNCHANGED <<panelCalls, panelMail, panelDragMode, panelPointer, panelTracker, panelAhead>>
  BY DEF Panel!Redock, Panel!pointerVars, Panel!windowVars
<1>4. /\ panelFrame' = Panel!FrameAt(panelMonitor, m, d) /\ panelMonitor' = panelMonitor
      /\ m \in Panel!Modes /\ panelDock' \in Panel!Docks
  BY <1>1, <1>2, EverySizeHasMode DEF Panel!SetMode, Panel!CurrentModes
<1>5. Panel!ModeOf(panelFrame') = m
  BY <1>4, ModeOfFrame
<1>6. OwnAccord
  BY <1>3 DEF OwnAccord
<1>7. PointerFollowed'
  BY <1>0, <1>3, PointerKept
<1>8. ASSUME ~panelStrayed' PROVE Agreed'
  <2>1. Agreed /\ panelDock' = d /\ m = Panel!ModeOf(panelFrame)
    BY <1>0, <1>2, <1>8
  <2>2. Stands' = Stands
    BY <1>3, <1>5, <2>1 DEF Stands
  <2> QED
    BY <1>3, <1>4, <1>5, <2>1, <2>2, AgreedKept
<1> QED
  BY <1>1, <1>3, <1>4, <1>6, <1>7, <1>8, PanelMoved

\* The application does what the window asks for, or refuses it, or fails half-way.
LEMMA RequestServed == PanelInv /\ Panel!ServeTransition => PanelInv'
<1> SUFFICES ASSUME PanelInv, Panel!ServeTransition PROVE PanelInv'
  OBVIOUS
<1>0. PanelTyped /\ RequestsOrdered /\ CallsOrdered /\ (panelStrayed \/ Agreed) /\ PointerFollowed
  BY DEF PanelInv
<1>1. PICK cmd \in PanelCmds :
         /\ panelCalls # <<>> /\ Head(panelCalls).cmd = cmd /\ panelCalls' = Tail(panelCalls)
         /\ LET told == [kind |-> "state", mode |-> Wants(cmd), id |-> panelFlight.id]
            IN  \/ /\ Panel!SetMode(Wants(cmd), panelDock, TRUE) /\ Panel!Emit(told)
                   /\ Panel!Answer("ok") /\ panelStrayed' = Panel!Crossed
                \/ /\ Panel!Answer("error") /\ panelStrayed' = (panelStrayed \/ ~panelFlight.op.sure)
                   /\ UNCHANGED <<panelMail, panelFrame, panelMonitor>>
                \/ /\ Panel!SetMode(Wants(cmd), panelDock, TRUE) /\ Panel!Answer("error")
                   /\ UNCHANGED panelMail \/ Panel!Emit(told)
                   /\ panelStrayed' = TRUE
  BY DEF Panel!ServeTransition, Panel!Served, PanelCmds, Wants
<1> DEFINE told == [kind |-> "state", mode |-> Wants(cmd), id |-> panelFlight.id]
<1>2. UNCHANGED <<panelMode, panelOrigin, panelGeneration, panelQueue, panelOwn, panelInside,
                  panelArmed, panelHoverOpen, panelClosing, panelDragging, panelListening,
                  panelDock, panelDragMode, panelPointer, panelTracker, panelAhead>>
  BY DEF Panel!ServeTransition, Panel!pointerVars
<1>3. /\ panelGeneration \in Nat /\ panelOwn \subseteq 1..panelGeneration
      /\ panelCalls \in Seq(PanelCall) /\ panelMail \in Seq(PanelEvent)
      /\ panelQueue \in Seq(PanelOp)
  BY <1>0 DEF PanelTyped, Panel!TypeOK
<1>4. Unanswered /\ cmd = panelFlight.op.cmd
  <2>1. 1 \in DOMAIN panelCalls /\ Head(panelCalls) = panelCalls[1]
    BY <1>1, <1>3, Shrinks
  <2> QED
    BY <1>0, <1>1, <2>1 DEF CallsOrdered
<1>5. /\ InFlight /\ panelFlight \in PanelFlight /\ panelFlight.id \in Nat \ {0}
      /\ panelFlight.op \in PanelOp /\ panelFlight.op.sure \in BOOLEAN
      /\ panelFlight.answer = Panel!None /\ LostId = 0
  <2>1. InFlight /\ panelFlight.answer = Panel!None
    BY <1>4 DEF Unanswered
  <2>2. panelFlight \in PanelFlight
    BY <1>0, <2>1, FlightHasNumber
  <2>3. LostId = 0
    BY <2>1 DEF LostId, Panel!None
  <2> QED
    BY <2>1, <2>2, <2>3 DEF PanelFlight, PanelOp
<1>6. /\ panelFlight.id \in panelOwn /\ Told(panelMail, panelFlight.id)
      /\ panelFlight.id <= panelGeneration /\ panelFlight.sent = panelFlight.id
      /\ panelFlight.op.id = panelFlight.id
      /\ panelFlight.id = panelGeneration => panelMode = Wants(cmd)
  BY <1>0, <1>4, <1>5 DEF RequestsOrdered
<1>7. told \in PanelEvent /\ told.kind = "state" /\ told.id = panelFlight.id
  BY <1>5, WantsMode DEF PanelEvent
<1> HIDE DEF told
<1>8. PICK a \in {"ok", "error"} : panelFlight' = [panelFlight EXCEPT !.answer = a]
  BY <1>1 DEF Panel!Answer
<1>9. /\ panelFlight' \in PanelFlight /\ panelFlight'.id = panelFlight.id
      /\ panelFlight'.op = panelFlight.op /\ panelFlight'.sent = panelFlight.sent
      /\ panelFlight'.answer = a
  BY <1>5, <1>8 DEF PanelFlight
<1>10. /\ InFlight' /\ ~Unanswered'
       /\ a = "ok" => LostId' = 0
       /\ a = "error" => LostId' = panelFlight.id
  <2>1. InFlight'
    BY <1>5, <1>9 DEF InFlight, Panel!NoFlight
  <2> QED
    BY <1>9, <2>1 DEF Unanswered, LostId, Panel!None
<1>11. panelMail' = panelMail \/ Panel!Emit(told)
  BY <1>1 DEF told
<1>12. /\ panelMail' \in Seq(PanelEvent) /\ ToldOnce(panelMail')
       /\ \A n \in Nat : panelFlight.id < n /\ Told(panelMail, n) => Told(panelMail', n)
       /\ LastSeen(panelMail, panelInside, panelTracker)
             => LastSeen(panelMail', panelInside, panelTracker)
  <2>1. ToldOnce(panelMail)
    BY <1>0 DEF RequestsOrdered
  <2>2. CASE panelMail' = panelMail
    BY <1>3, <2>1, <2>2
  <2>3. CASE Panel!Emit(told)
    BY <1>0, <1>6, <1>7, <2>1, <2>3, EmitSays
  <2> QED
    BY <1>11, <2>2, <2>3
<1>13. panelMonitor' = panelMonitor
  BY <1>1 DEF Panel!SetMode
<1>14. PanelTyped'
  <2>1. panelCalls' \in Seq(PanelCall)
    BY <1>1, <1>3, Shrinks
  <2> QED
    BY <1>0, <1>2, <1>9, <1>12, <1>13, <2>1 DEF PanelTyped, Panel!TypeOK
<1>15. \A i \in DOMAIN panelQueue :
          /\ panelQueue[i].id \in Nat /\ panelFlight.id < panelQueue[i].id
          /\ panelQueue[i].id <= panelGeneration /\ Told(panelMail, panelQueue[i].id)
          /\ panelQueue[i].id = panelGeneration => panelMode = Wants(panelQueue[i].cmd)
  <2>1. \A i \in DOMAIN panelQueue : panelQueue[i] \in PanelOp
    BY <1>3
  <2> QED
    BY <1>0, <2>1 DEF RequestsOrdered, PanelOp
<1>16. RequestsOrdered'
  <2>1. Told(panelMail', panelGeneration + 1)
    <3>1. Told(panelMail, panelGeneration + 1)
      BY <1>0 DEF RequestsOrdered
    <3>2. panelGeneration + 1 \in Nat /\ panelFlight.id < panelGeneration + 1
      BY <1>3, <1>5, <1>6
    <3> QED
      BY <1>12, <3>1, <3>2
  <2>2. \A i \in DOMAIN panelQueue : Told(panelMail', panelQueue[i].id)
    BY <1>12, <1>15
  <2>3. \A i, j \in DOMAIN panelQueue : i < j => panelQueue[i].id < panelQueue[j].id
    BY <1>0 DEF RequestsOrdered
  <2> QED
    BY <1>2, <1>6, <1>9, <1>10, <1>12, <1>15, <2>1, <2>2, <2>3 DEF RequestsOrdered
<1>17. cmd # "dragStart" /\ cmd \notin {"dragStart", "dragEnd"} /\ cmd # "pointerReady"
  BY DEF PanelCmds
<1>18. CallsOrdered'
  BY <1>0, <1>1, <1>2, <1>3, <1>17, CallsServed
<1>19. PointerFollowed'
  BY <1>0, <1>1, <1>2, <1>3, <1>12, <1>17, SnapshotWaits, PointerKept
<1>20. ASSUME ~panelStrayed' PROVE Agreed'
  <2>0. 0 \notin panelOwn
    BY <1>3
  <2>1. CASE /\ Panel!SetMode(Wants(cmd), panelDock, TRUE) /\ Panel!Emit(told)
             /\ Panel!Answer("ok") /\ panelStrayed' = Panel!Crossed
    <3>1. /\ panelFlight.id = panelGeneration /\ ~Panel!ForeignWaits
          /\ panelDragMode = Panel!None
      BY <1>6, <1>20, <2>1 DEF Panel!Crossed
    <3>2. a = "ok"
      BY <1>8, <1>9, <2>1 DEF Panel!Answer, PanelFlight
    <3>3. panelFrame' = Panel!FrameAt(panelMonitor, Wants(cmd), panelDock)
      BY <2>1 DEF Panel!SetMode
    <3>4. Panel!ModeOf(panelFrame') = Wants(cmd)
      BY <3>3, ModeOfFrame, WantsMode
    <3>5. Stands' = Wants(cmd)
      BY <1>2, <3>1, <3>4 DEF Stands
    <3>6. Strangers(panelMail, panelOwn, 0) = {}
      BY <2>0, <3>1 DEF Strangers, Panel!ForeignWaits, Panel!Foreign
    <3>7. Strangers(panelMail', panelOwn, 0) = {}
      BY <1>0, <1>5, <1>6, <1>7, <2>1, <3>6, EmitSays
    <3>8. LastSays(panelMail', panelOwn, 0, Stands')
      BY <3>7 DEF LastSays
    <3>9. \A i \in DOMAIN panelQueue : FALSE
      BY <1>3, <1>15, <3>1
    <3>10. Settled'
      BY <1>2, <1>6, <1>9, <1>10, <3>1, <3>2, <3>5, <3>9 DEF Settled, Panel!None
    <3> QED
      BY <1>2, <1>10, <1>13, <3>2, <3>3, <3>4, <3>8, <3>10 DEF Agreed
  <2>2. CASE /\ Panel!Answer("error") /\ panelStrayed' = (panelStrayed \/ ~panelFlight.op.sure)
             /\ UNCHANGED <<panelMail, panelFrame, panelMonitor>>
    <3>1. Agreed /\ panelFlight.op.sure
      BY <1>0, <1>5, <1>20, <2>2
    <3>2. a = "error"
      <4>1. panelFlight' = [panelFlight EXCEPT !.answer = "error"]
        BY <2>2 DEF Panel!Answer
      <4>2. panelFlight'.answer = "error"
        BY <1>5, <4>1 DEF PanelFlight
      <4> QED
        BY <1>9, <4>2
    <3>3. Stands' = Stands
      BY <1>2, <2>2 DEF Stands
    <3>4. \A k \in DOMAIN panelMail : panelMail[k].kind = "state" =>
             /\ (panelMail[k].id \notin panelOwn \/ panelMail[k].id = 0)
                   <=> (panelMail[k].id \notin panelOwn \/ panelMail[k].id = panelFlight.id)
             /\ panelMail[k].id \notin panelOwn => panelMail[k].id \notin panelOwn
      <4>1. \A k \in DOMAIN panelMail : panelMail[k].kind = "state" =>
               panelMail[k].id # panelFlight.id
        <5>1. \A k \in DOMAIN panelMail : panelMail[k] \in PanelEvent
          BY <1>3
        <5>2. \A k \in DOMAIN panelMail : panelMail[k].kind = "state" => panelMail[k].id \in Nat
          BY <5>1 DEF PanelEvent
        <5> QED
          BY <1>5, <1>6, <5>2 DEF Told
      <4> QED
        BY <2>0, <4>1
    <3>5. /\ Strangers(panelMail, panelOwn, panelFlight.id) = Strangers(panelMail, panelOwn, 0)
          /\ LastSays(panelMail, panelOwn, 0, Stands)
                => LastSays(panelMail, panelOwn, panelFlight.id, Stands)
      BY <1>3, <3>4, BoxKept
    <3>6. ASSUME Settled PROVE Settled'
      BY <1>2, <1>5, <1>9, <1>10, <3>1, <3>2, <3>3, <3>6 DEF Settled, Panel!None
    <3> QED
      BY <1>2, <1>5, <1>10, <2>2, <3>1, <3>2, <3>3, <3>5, <3>6 DEF Agreed
  <2>3. CASE panelStrayed' = TRUE
    BY <1>20, <2>3
  <2> QED
    BY <1>1, <2>1, <2>2, <2>3 DEF told
<1> QED
  BY <1>14, <1>16, <1>18, <1>19, <1>20 DEF PanelInv

-----------------------------------------------------------------------------
\* At the start nothing is on its way.
LEMMA PanelStart == Panel!Init => PanelInv
<1> SUFFICES ASSUME Panel!Init PROVE PanelInv
  OBVIOUS
<1> USE DEF Panel!Init
<1>1. PanelTyped
  <2>1. <<>> \in Seq(PanelOp) /\ <<>> \in Seq(PanelCall) /\ <<>> \in Seq(PanelEvent)
    OBVIOUS
  <2>2. Panel!TypeOK
    BY DEF Panel!TypeOK, Panel!Modes, Panel!Docks, Panel!None
  <2> QED
    BY <2>1, <2>2 DEF PanelTyped
<1>2. /\ ~InFlight /\ LostId = 0 /\ panelFlight.id = 0 /\ ~Unanswered
      /\ panelQueue = <<>> /\ panelCalls = <<>> /\ panelMail = <<>>
  BY DEF InFlight, Unanswered, LostId, Panel!NoFlight
<1>3. DOMAIN panelQueue = {} /\ DOMAIN panelCalls = {} /\ DOMAIN panelMail = {}
  BY <1>2
<1>4. RequestsOrdered
  BY <1>2, <1>3 DEF RequestsOrdered, Told, ToldOnce
<1>5. CallsOrdered
  BY <1>3 DEF CallsOrdered
<1>6. Agreed
  <2>1. "collapsed" \in Panel!Modes
    BY DEF Panel!Modes
  <2>2. Panel!ModeOf(panelFrame) = "collapsed"
    BY <2>1, ModeOfFrame
  <2>3. Stands = "collapsed" /\ panelMode = "collapsed"
    BY <2>2 DEF Stands
  <2>4. Settled
    BY <1>2, <1>3, <2>3 DEF Settled
  <2> QED
    BY <1>3, <2>2, <2>4 DEF Agreed, LastSays, Strangers
<1>7. PointerFollowed
  BY DEF PointerFollowed
<1> QED
  BY <1>1, <1>4, <1>5, <1>6, <1>7 DEF PanelInv

\* Every step keeps the invariant, the stutter of another part included.
LEMMA PanelStep == PanelInv /\ [Panel!Next]_Panel!vars => PanelInv'
<1>1. PanelInv /\ Panel!Next => PanelInv'
  BY OpeningMoves, HoverLoads, ClosingMoves, NoticeMoves, PointerHandled, RequestSent,
     RequestAnswered, StateHandled, WindowCalls, PointerTold, DragMoves, DragOver, OpenedOutside,
     Redocked, RequestServed
     DEF Panel!Next
<1>2. ASSUME PanelInv, UNCHANGED Panel!vars PROVE PanelInv'
  <2>1. UNCHANGED <<Panel!windowVars, panelCalls, panelMail, Panel!panelVars, Panel!pointerVars,
                    panelStrayed>>
    BY <1>2 DEF Panel!vars
  <2>2. /\ panelOrigin \in {Panel!None, "hover", "focused"} /\ panelDragging \in BOOLEAN
        /\ panelArmed \in BOOLEAN /\ panelHoverOpen \in BOOLEAN /\ panelInside \in BOOLEAN
        /\ panelClosing \subseteq {"auto", "manual"} /\ panelPointer \in {"in", "out"}
    BY <1>2 DEF PanelInv, PanelTyped, Panel!TypeOK
  <2> QED
    BY <1>2, <2>1, <2>2, PanelQuiet
       DEF BoxOpens, Panel!windowVars, Panel!panelVars, Panel!pointerVars
<1> QED
  BY <1>1, <1>2

-----------------------------------------------------------------------------

\* Whole halves and thirds.
LEMMA WholeParts ==
    ASSUME NEW n \in Int
    PROVE  /\ n \div 2 \in Int /\ 2 * (n \div 2) <= n /\ n <= 2 * (n \div 2) + 1
           /\ n \div 3 \in Int /\ 3 * (n \div 3) <= n /\ n <= 3 * (n \div 3) + 2
  OBVIOUS

\* What is below the least of three numbers, and of two.
LEMMA BelowLeast ==
    ASSUME NEW n \in Int, NEW a \in Int, NEW b \in Int, NEW c \in Int
    PROVE  /\ n <= Panel!Least({a, b, c}) <=> n <= a /\ n <= b /\ n <= c
           /\ n > Panel!Least({a, b, c}) <=> ~(n <= a /\ n <= b /\ n <= c)
           /\ n <= Panel!Least({a, b}) <=> n <= a /\ n <= b
<1>1. ASSUME NEW S \in SUBSET Int, NEW m \in S, \A k \in S : m <= k
      PROVE  Panel!Least(S) \in S /\ \A k \in S : Panel!Least(S) <= k
  BY <1>1 DEF Panel!Least
<1>2. \E m \in {a, b, c} : \A k \in {a, b, c} : m <= k
  <2>1. CASE a <= b /\ a <= c
    BY <2>1
  <2>2. CASE b <= a /\ b <= c
    BY <2>2
  <2>3. CASE c <= a /\ c <= b
    BY <2>3
  <2> QED
    BY <2>1, <2>2, <2>3
<1>3. \E m \in {a, b} : \A k \in {a, b} : m <= k
  BY SMT
<1>4. /\ Panel!Least({a, b, c}) \in {a, b, c}
      /\ \A k \in {a, b, c} : Panel!Least({a, b, c}) <= k
  BY <1>1, <1>2
<1>5. Panel!Least({a, b}) \in {a, b} /\ \A k \in {a, b} : Panel!Least({a, b}) <= k
  BY <1>1, <1>3
<1> QED
  BY <1>4, <1>5

\* The dock that is nearest to a frame, told from the place of its middle on the screen.
LEMMA NearestOf ==
    ASSUME NEW s, s.x \in Int, s.y \in Int, s.w \in Nat, s.h \in Nat,
           NEW f, NEW cx \in Nat, NEW cy \in Nat, cx <= s.w, cy <= s.h,
           f.x + f.w \div 2 = s.x + cx, f.y + f.h \div 2 = s.y + cy
    PROVE  Panel!Nearest(s, f) =
             IF cy <= cx /\ cy <= s.w - cx /\ cy <= s.h - cy THEN "top"
             ELSE IF s.h - cy <= cx /\ s.h - cy <= s.w - cx
                  THEN IF cx < s.w \div 3 THEN "bottomLeft"
                       ELSE IF cx > s.w - s.w \div 3 THEN "bottomRight" ELSE "bottom"
                  ELSE IF cx <= s.w - cx THEN "left" ELSE "right"
<1> DEFINE x == f.x + f.w \div 2
<1> DEFINE y == f.y + f.h \div 2
<1> DEFINE toLeft == Panel!Distance(x, s.x)
<1> DEFINE toRight == Panel!Distance(x, s.x + s.w)
<1> DEFINE toTop == Panel!Distance(y, s.y)
<1> DEFINE toBottom == Panel!Distance(y, s.y + s.h)
<1>1. toLeft = cx /\ toRight = s.w - cx /\ toTop = cy /\ toBottom = s.h - cy /\ x - s.x = cx
  BY DEF Panel!Distance
<1>2. Panel!Nearest(s, f) =
        CASE toTop <= Panel!Least({toLeft, toRight, toBottom}) -> "top"
          [] /\ toTop > Panel!Least({toLeft, toRight, toBottom})
             /\ toBottom <= Panel!Least({toLeft, toRight}) ->
               IF x - s.x < s.w \div 3 THEN "bottomLeft"
               ELSE IF x - s.x > s.w - s.w \div 3 THEN "bottomRight" ELSE "bottom"
          [] OTHER -> IF toLeft <= toRight THEN "left" ELSE "right"
  BY DEF Panel!Nearest
<1>3. toLeft \in Int /\ toRight \in Int /\ toTop \in Int /\ toBottom \in Int
  BY <1>1
<1> HIDE DEF toLeft, toRight, toTop, toBottom, x, y
<1>4. /\ toTop <= Panel!Least({toLeft, toRight, toBottom})
            <=> toTop <= toLeft /\ toTop <= toRight /\ toTop <= toBottom
      /\ toTop > Panel!Least({toLeft, toRight, toBottom})
            <=> ~(toTop <= toLeft /\ toTop <= toRight /\ toTop <= toBottom)
      /\ toBottom <= Panel!Least({toLeft, toRight}) <=> toBottom <= toLeft /\ toBottom <= toRight
  BY <1>3, BelowLeast
<1>5. CASE toTop <= toLeft /\ toTop <= toRight /\ toTop <= toBottom
  <2>1. Panel!Nearest(s, f) = "top"
    BY <1>2, <1>4, <1>5
  <2> QED
    BY <1>1, <1>5, <2>1
<1>6. CASE /\ ~(toTop <= toLeft /\ toTop <= toRight /\ toTop <= toBottom)
           /\ toBottom <= toLeft /\ toBottom <= toRight
  <2>1. Panel!Nearest(s, f) =
           IF x - s.x < s.w \div 3 THEN "bottomLeft"
           ELSE IF x - s.x > s.w - s.w \div 3 THEN "bottomRight" ELSE "bottom"
    BY <1>2, <1>4, <1>6
  <2> QED
    BY <1>1, <1>6, <2>1
<1>7. CASE /\ ~(toTop <= toLeft /\ toTop <= toRight /\ toTop <= toBottom)
           /\ ~(toBottom <= toLeft /\ toBottom <= toRight)
  <2>1. Panel!Nearest(s, f) = IF toLeft <= toRight THEN "left" ELSE "right"
    BY <1>2, <1>4, <1>7
  <2> QED
    BY <1>1, <1>7, <2>1
<1> QED
  BY <1>5, <1>6, <1>7

\* A panel let go at its dock stays docked there, on every screen that is large enough.
LEMMA DocksStay ==
    ASSUME NEW s \in Screens, NEW m \in Panel!Modes, NEW d \in Panel!Docks
    PROVE  Panel!Nearest(s, Panel!FrameAt(s, m, d)) = d
<1>0. s.x \in Int /\ s.y \in Int /\ s.w \in Nat /\ s.h \in Nat /\ s.w >= 885 /\ s.h >= 590
  BY PanelBounds
<1> DEFINE w == s.w
<1> DEFINE h == s.h
<1> DEFINE f == Panel!FrameAt(s, m, d)
<1>1. w \in Nat /\ h \in Nat /\ w >= 885 /\ h >= 590
  BY <1>0
<1>2. ASSUME NEW ew \in {588, 260, 32}, NEW eh \in {440, 260, 32},
             Panel!Extent(m, d) = [w |-> ew, h |-> eh]
      PROVE  /\ f.w = ew /\ f.h = eh
             /\ f.x = s.x + (CASE d \in {"left", "bottomLeft"} -> 0
                               [] d \in {"right", "bottomRight"} -> w - ew
                               [] OTHER -> (w - ew) \div 2)
             /\ f.y = s.y + (CASE d = "top" -> 0
                               [] d \in {"left", "right"} -> (h - eh) \div 2
                               [] OTHER -> h - eh)
  BY <1>2 DEF Panel!FrameAt
<1>3. PICK ew \in {588, 260, 32}, eh \in {440, 260, 32} :
         /\ Panel!Extent(m, d) = [w |-> ew, h |-> eh]
         /\ d \in {"left", "right"} => (ew = 588 /\ eh = 440) \/ (ew = 32 /\ eh = 260)
         /\ d \in {"top", "bottom"} => (ew = 588 /\ eh = 440) \/ (ew = 260 /\ eh = 32)
         /\ d \in {"bottomLeft", "bottomRight"} => (ew = 588 /\ eh = 440) \/ (ew = 32 /\ eh = 32)
  <2>1. CASE m = "expanded"
    BY <2>1 DEF Panel!Extent
  <2>2. CASE m = "collapsed"
    BY <2>2 DEF Panel!Extent, Panel!Docks
  <2> QED
    BY <2>1, <2>2 DEF Panel!Modes
<1>4. /\ f.w = ew /\ f.h = eh
      /\ f.x = s.x + (CASE d \in {"left", "bottomLeft"} -> 0
                        [] d \in {"right", "bottomRight"} -> w - ew
                        [] OTHER -> (w - ew) \div 2)
      /\ f.y = s.y + (CASE d = "top" -> 0
                        [] d \in {"left", "right"} -> (h - eh) \div 2
                        [] OTHER -> h - eh)
  BY <1>2, <1>3
<1> DEFINE hw == (w - ew) \div 2
<1> DEFINE hh == (h - eh) \div 2
<1> DEFINE aw == ew \div 2
<1> DEFINE ah == eh \div 2
<1> DEFINE t == w \div 3
<1>5. /\ hw \in Int /\ 2 * hw <= w - ew /\ w - ew <= 2 * hw + 1
      /\ hh \in Int /\ 2 * hh <= h - eh /\ h - eh <= 2 * hh + 1
      /\ t \in Int /\ 3 * t <= w /\ w <= 3 * t + 2
      /\ aw \in Int /\ 2 * aw = ew /\ ah \in Int /\ 2 * ah = eh
  <2>1. w - ew \in Int /\ h - eh \in Int /\ w \in Int
    BY <1>1
  <2>2. aw \in Int /\ 2 * aw = ew /\ ah \in Int /\ 2 * ah = eh
    OBVIOUS
  <2> QED
    BY <2>1, <2>2, WholeParts
<1>6. ew \in Nat /\ eh \in Nat
  OBVIOUS
<1>7. ASSUME NEW cx \in Nat, NEW cy \in Nat, cx <= w, cy <= h,
             f.x + aw = s.x + cx, f.y + ah = s.y + cy
      PROVE  Panel!Nearest(s, f) =
               IF cy <= cx /\ cy <= w - cx /\ cy <= h - cy THEN "top"
               ELSE IF h - cy <= cx /\ h - cy <= w - cx
                    THEN IF cx < t THEN "bottomLeft"
                         ELSE IF cx > w - t THEN "bottomRight" ELSE "bottom"
                    ELSE IF cx <= w - cx THEN "left" ELSE "right"
  BY <1>0, <1>4, <1>7, NearestOf
<1> HIDE DEF f, hw, hh, aw, ah, t
<1>8. CASE d = "top"
  <2>1. /\ hw + aw \in Nat /\ ah \in Nat /\ hw + aw <= w /\ ah <= h
        /\ ah <= hw + aw /\ ah <= w - (hw + aw) /\ ah <= h - ah
    BY <1>1, <1>3, <1>5, <1>8
  <2>2. f.x = s.x + hw /\ f.y = s.y + 0
    BY <1>4, <1>8 DEF hw
  <2>3. f.x + aw = s.x + (hw + aw) /\ f.y + ah = s.y + ah
    BY <1>0, <1>5, <2>2
  <2> QED
    BY <1>7, <1>8, <2>1, <2>3 DEF f
<1>9. CASE d = "left"
  <2>1. /\ hh + ah \in Nat /\ aw \in Nat /\ aw <= w /\ hh + ah <= h
        /\ ~(hh + ah <= aw) /\ ~(h - (hh + ah) <= aw) /\ aw <= w - aw
    BY <1>1, <1>3, <1>5, <1>9
  <2>2. f.x = s.x + 0 /\ f.y = s.y + hh
    BY <1>4, <1>9 DEF hh
  <2>3. f.x + aw = s.x + aw /\ f.y + ah = s.y + (hh + ah)
    BY <1>0, <1>5, <2>2
  <2> QED
    BY <1>7, <1>9, <2>1, <2>3 DEF f
<1>10. CASE d = "right"
  <2>1. /\ hh + ah \in Nat /\ w - aw \in Nat /\ w - aw <= w /\ hh + ah <= h
        /\ ~(hh + ah <= w - (w - aw)) /\ ~(h - (hh + ah) <= w - (w - aw))
        /\ ~(w - aw <= w - (w - aw))
    BY <1>1, <1>3, <1>5, <1>10
  <2>2. f.x = s.x + (w - ew) /\ f.y = s.y + hh
    BY <1>4, <1>10 DEF hh
  <2>3. f.x + aw = s.x + (w - aw) /\ f.y + ah = s.y + (hh + ah)
    BY <1>0, <1>1, <1>5, <1>6, <2>2
  <2> QED
    BY <1>7, <1>10, <2>1, <2>3 DEF f
<1>11. CASE d = "bottom"
  <2>1. /\ hw + aw \in Nat /\ h - ah \in Nat /\ hw + aw <= w /\ h - ah <= h
        /\ ~(h - ah <= h - (h - ah)) /\ h - (h - ah) <= hw + aw /\ h - (h - ah) <= w - (hw + aw)
        /\ ~(hw + aw < t) /\ ~(hw + aw > w - t)
    BY <1>1, <1>3, <1>5, <1>11
  <2>2. f.x = s.x + hw /\ f.y = s.y + (h - eh)
    BY <1>4, <1>11 DEF hw
  <2>3. f.x + aw = s.x + (hw + aw) /\ f.y + ah = s.y + (h - ah)
    BY <1>0, <1>1, <1>5, <1>6, <2>2
  <2> QED
    BY <1>7, <1>11, <2>1, <2>3 DEF f
<1>12. CASE d = "bottomLeft"
  <2>1. /\ aw \in Nat /\ h - ah \in Nat /\ aw <= w /\ h - ah <= h
        /\ ~(h - ah <= h - (h - ah)) /\ h - (h - ah) <= aw /\ h - (h - ah) <= w - aw /\ aw < t
    BY <1>1, <1>3, <1>5, <1>12
  <2>2. f.x = s.x + 0 /\ f.y = s.y + (h - eh)
    BY <1>4, <1>12
  <2>3. f.x + aw = s.x + aw /\ f.y + ah = s.y + (h - ah)
    BY <1>0, <1>1, <1>5, <1>6, <2>2
  <2> QED
    BY <1>7, <1>12, <2>1, <2>3 DEF f
<1>13. CASE d = "bottomRight"
  <2>1. /\ w - aw \in Nat /\ h - ah \in Nat /\ w - aw <= w /\ h - ah <= h
        /\ ~(h - ah <= h - (h - ah)) /\ h - (h - ah) <= w - aw /\ h - (h - ah) <= w - (w - aw)
        /\ ~(w - aw < t) /\ w - aw > w - t
    BY <1>1, <1>3, <1>5, <1>13
  <2>2. f.x = s.x + (w - ew) /\ f.y = s.y + (h - eh)
    BY <1>4, <1>13
  <2>3. f.x + aw = s.x + (w - aw) /\ f.y + ah = s.y + (h - ah)
    BY <1>0, <1>1, <1>5, <1>6, <2>2
  <2> QED
    BY <1>7, <1>13, <2>1, <2>3 DEF f
<1> QED
  BY <1>8, <1>9, <1>10, <1>11, <1>12, <1>13 DEF Panel!Docks

\* The invariant is strong enough.
LEMMA PanelHeld ==
    PanelInv => Panel!TypeOK /\ Panel!FrameFollowsMode /\ Panel!PointerKnown /\ Panel!DocksStable
<1> SUFFICES ASSUME PanelInv
             PROVE  Panel!TypeOK /\ Panel!FrameFollowsMode /\ Panel!PointerKnown /\ Panel!DocksStable
  OBVIOUS
<1>0. PanelTyped /\ RequestsOrdered /\ CallsOrdered /\ (panelStrayed \/ Agreed) /\ PointerFollowed
  BY DEF PanelInv
<1>1. Panel!TypeOK
  BY <1>0 DEF PanelTyped
<1>2. ASSUME Panel!AtRest, ~panelStrayed
      PROVE  panelFrame = Panel!FrameAt(panelMonitor, panelMode, panelDock)
  <2>1. /\ Agreed /\ ~InFlight /\ panelDragMode = Panel!None
        /\ DOMAIN panelQueue = {} /\ DOMAIN panelMail = {}
    BY <1>0, <1>2 DEF Panel!AtRest, InFlight
  <2>2. Strangers(panelMail, panelOwn, LostId) = {}
    BY <2>1 DEF Strangers
  <2>3. panelMode = Stands
    BY <2>1, <2>2 DEF Agreed, Settled
  <2> QED
    BY <2>1, <2>3 DEF Agreed, Stands
<1>3. ASSUME panelListening, panelMail = <<>>, panelCalls = <<>>, panelTracker = panelPointer,
             ~panelAhead
      PROVE  panelInside = (panelPointer = "in")
  <2>1. DOMAIN panelCalls = {} /\ DOMAIN panelMail = {}
    BY <1>3
  <2>2. LastSeen(panelMail, panelInside, panelTracker)
    BY <1>0, <1>3, <2>1 DEF PointerFollowed
  <2>3. Pointers(panelMail) = {}
    BY <2>1 DEF Pointers
  <2> QED
    BY <1>3, <2>2, <2>3 DEF LastSeen
<1>4. Panel!DocksStable
  BY <1>1, DocksStay DEF Panel!TypeOK, Panel!DocksStable
<1> QED
  BY <1>1, <1>2, <1>3, <1>4 DEF Panel!FrameFollowsMode, Panel!PointerKnown

\* PanelSound: on any screens large enough for a panel, the panel comes to rest with the size of
\* the mode its window shows and at its dock, the window knows where the pointer is, and a panel
\* let go at its dock stays there.
THEOREM PanelIsSound == PartsSpec => []PanelSound
<1>1. PartsInit => PanelInv
  BY PanelStart DEF PartsInit
<1>2. [Step]_allvars => [Panel!Next]_Panel!vars
  BY DEF Step, allvars, panelVars, Panel!vars, Panel!windowVars, Panel!panelVars, Panel!pointerVars
<1>3. PanelInv => PanelSound
  BY PanelHeld DEF PanelSound
<1> QED
  BY <1>1, <1>2, <1>3, PanelStep, PTL DEF PartsSpec
=============================================================================
