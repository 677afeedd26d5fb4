---------------------------- MODULE ReadingProofs ----------------------------
(* What the agent reads, what it makes of it and how long it keeps it:
   proofs about StatusScript, DiskTotals, History and Retention, each about
   its own specification and for any value of its constants.                 *)
EXTENDS StatusScript, DiskTotals, History, Retention, FiniteSetTheorems,
        SequenceTheorems, WellFoundedInduction, TLAPS

----------------------------------------------------------------------------
(* Induction over the naturals, for a set and so without a predicate *)

LEMMA LeastNatural ==
  ASSUME NEW T \in SUBSET Nat, T # {}
  PROVE  \E m \in T : \A n \in T : m <= n
<1>1. PICK m \in T : \A n \in T : <<n, m>> \notin OpToRel(<, Nat)
  BY WFMin, NatLessThanWellFounded, Zenon
<1>2. \A n \in T : ~(n < m)
  BY <1>1, Zenon DEF OpToRel
<1> QED
  BY <1>2

LEMMA EachNumber ==
  ASSUME NEW A, 0 \in A, \A n \in Nat : n \in A => n + 1 \in A
  PROVE  Nat \subseteq A
<1>1. SUFFICES ASSUME Nat \ A # {} PROVE FALSE
  OBVIOUS
<1>2. PICK n \in Nat \ A : \A m \in Nat \ A : n <= m
  BY <1>1, LeastNatural
<1>3. n \in Nat /\ n # 0 /\ n \notin A
  BY <1>2
<1>4. n - 1 \in Nat /\ (n - 1) + 1 = n /\ ~(n <= n - 1)
  BY <1>3
<1>5. n - 1 \in A
  BY <1>2, <1>4
<1> QED
  BY <1>3, <1>4, <1>5

\* A place in a list that was cut to make room is one of the list before.
LEMMA PlaceBefore ==
  ASSUME NEW a \in Nat, NEW b \in Nat, NEW i \in 1 .. b - 1, b - 1 <= a
  PROVE  /\ i + (a - b + 1) \in 1 .. a
         /\ i = b - 1 => i + (a - b + 1) = a
OBVIOUS

----------------------------------------------------------------------------
(* The status script: what the parser makes of one line after the other *)

ParseStart == [result |-> <<>>, current |-> NoSection, buf |-> <<>>]

\* g is what the parser has after each of the first n lines.
IsParse(g, ls, n) ==
  /\ g = [i \in 0 .. n |-> g[i]]
  /\ g[0] = ParseStart
  /\ \A i \in 1 .. n : g[i] = ParsedLine(g[i - 1], ls[i])

LEMMA ParseExists ==
  ASSUME NEW ls, NEW n \in Nat
  PROVE  \E g : IsParse(g, ls, n)
<1> DEFINE A == {m \in Nat : \E g : IsParse(g, ls, m)}
<1>1. 0 \in A
  <2>1. IsParse([i \in 0 .. 0 |-> ParseStart], ls, 0)
    BY DEF IsParse
  <2> QED
    BY <2>1
<1>2. ASSUME NEW m \in Nat, m \in A PROVE m + 1 \in A
  <2>1. PICK g : IsParse(g, ls, m)
    BY <1>2
  <2> DEFINE h == [i \in 0 .. m + 1 |-> IF i = m + 1 THEN ParsedLine(g[m], ls[m + 1]) ELSE g[i]]
  <2>2. h[0] = ParseStart
    BY <2>1 DEF IsParse
  <2>3. ASSUME NEW i \in 1 .. m + 1 PROVE h[i] = ParsedLine(h[i - 1], ls[i])
    <3>1. i - 1 \in 0 .. m /\ h[i - 1] = g[i - 1]
      OBVIOUS
    <3>2. CASE i = m + 1
      BY <3>1, <3>2
    <3>3. CASE i # m + 1
      <4>1. i \in 1 .. m /\ h[i] = g[i]
        BY <3>3
      <4>2. g[i] = ParsedLine(g[i - 1], ls[i])
        BY <2>1, <4>1 DEF IsParse
      <4> QED
        BY <3>1, <4>1, <4>2
    <3> QED
      BY <3>2, <3>3
  <2>4. h = [i \in 0 .. m + 1 |-> h[i]]
    OBVIOUS
  <2> HIDE DEF h
  <2>5. IsParse(h, ls, m + 1)
    BY <2>2, <2>3, <2>4 DEF IsParse
  <2> QED
    BY <2>5
<1>3. Nat \subseteq A
  <2> HIDE DEF A
  <2> QED
    BY <1>1, <1>2, EachNumber
<1> QED
  BY <1>3

LEMMA ParsesAgree ==
  ASSUME NEW ls, NEW more, NEW n \in Nat, NEW m \in Nat, NEW g, NEW h,
         IsParse(g, ls, n), IsParse(h, more, m),
         NEW k \in Nat, k <= n, k <= m, \A i \in 1 .. k : ls[i] = more[i]
  PROVE  g[k] = h[k]
<1> DEFINE A == {i \in Nat : i <= k => g[i] = h[i]}
<1>1. 0 \in A
  BY DEF IsParse
<1>2. ASSUME NEW i \in Nat, i \in A PROVE i + 1 \in A
  <2> SUFFICES ASSUME i + 1 <= k PROVE g[i + 1] = h[i + 1]
    OBVIOUS
  <2>1. g[i] = h[i] /\ ls[i + 1] = more[i + 1]
    BY <1>2
  <2>2. i + 1 \in 1 .. n /\ i + 1 \in 1 .. m /\ (i + 1) - 1 = i
    OBVIOUS
  <2>3. g[i + 1] = ParsedLine(g[(i + 1) - 1], ls[i + 1]) /\ h[i + 1] = ParsedLine(h[(i + 1) - 1], more[i + 1])
    BY <2>2 DEF IsParse
  <2> QED
    BY <2>1, <2>2, <2>3
<1>3. Nat \subseteq A
  <2> HIDE DEF A
  <2> QED
    BY <1>1, <1>2, EachNumber
<1> QED
  BY <1>3

LEMMA ParsedIs ==
  ASSUME NEW ls, Len(ls) \in Nat
  PROVE  \E g : IsParse(g, ls, Len(ls)) /\ Parsed(ls) = g[Len(ls)]
<1> DEFINE n == Len(ls)
           Is(g) == g = [i \in 0 .. n |-> IF i = 0 THEN [result |-> <<>>, current |-> NoSection, buf |-> <<>>]
                                          ELSE ParsedLine(g[i - 1], ls[i])]
           parsed == CHOOSE g : Is(g)
<1>1. Parsed(ls) = parsed[n]
  BY DEF Parsed
<1> HIDE DEF n
<1>2. PICK g : IsParse(g, ls, n)
  BY ParseExists DEF n
<1>3. Is(g)
  <2>1. \A i \in 0 .. n : g[i] = IF i = 0 THEN ParseStart ELSE ParsedLine(g[i - 1], ls[i])
    BY <1>2 DEF IsParse, n
  <2>2. g = [i \in 0 .. n |-> g[i]]
    BY <1>2 DEF IsParse
  <2> QED
    BY <2>1, <2>2 DEF ParseStart
<1>4. Is(parsed)
  <2> HIDE DEF Is
  <2> QED
    BY <1>3
<1> HIDE DEF parsed
<1>5. IsParse(parsed, ls, n)
  <2>0. n \in Nat
    BY DEF n
  <2>1. parsed[0] = ParseStart
    BY <1>4, <2>0 DEF ParseStart
  <2>2. \A i \in 1 .. n : parsed[i] = ParsedLine(parsed[i - 1], ls[i])
    BY <1>4, <2>0
  <2>3. parsed = [i \in 0 .. n |-> parsed[i]]
    BY <1>4, <2>0
  <2> QED
    BY <2>1, <2>2, <2>3 DEF IsParse
<1> QED
  BY <1>1, <1>5 DEF n

LEMMA ParsedNone == Parsed(<<>>) = ParseStart
<1>1. Len(<<>>) = 0
  OBVIOUS
<1>2. PICK g : IsParse(g, <<>>, 0) /\ Parsed(<<>>) = g[0]
  BY <1>1, ParsedIs
<1> QED
  BY <1>2 DEF IsParse

LEMMA ParsedAppend ==
  ASSUME NEW X, NEW ls \in Seq(X), NEW line \in X
  PROVE  Parsed(Append(ls, line)) = ParsedLine(Parsed(ls), line)
<1> DEFINE n == Len(ls)
           more == Append(ls, line)
<1>1. n \in Nat /\ Len(more) = n + 1 /\ more[n + 1] = line /\ \A i \in 1 .. n : more[i] = ls[i]
  OBVIOUS
<1>2. PICK g : IsParse(g, ls, n) /\ Parsed(ls) = g[n]
  BY <1>1, ParsedIs
<1> HIDE DEF more
<1>3. PICK h : IsParse(h, more, n + 1) /\ Parsed(more) = h[n + 1]
  BY <1>1, ParsedIs
<1>4. g[n] = h[n]
  <2>1. n <= n /\ n <= n + 1 /\ n + 1 \in Nat /\ \A i \in 1 .. n : ls[i] = more[i]
    BY <1>1
  <2> HIDE DEF n
  <2> QED
    BY <1>1, <1>2, <1>3, <2>1, ParsesAgree
<1>5. h[n + 1] = ParsedLine(h[n], line)
  <2>1. n + 1 \in 1 .. n + 1 /\ (n + 1) - 1 = n
    BY <1>1
  <2>2. h[n + 1] = ParsedLine(h[(n + 1) - 1], more[n + 1])
    BY <1>3, <2>1 DEF IsParse
  <2> QED
    BY <1>1, <2>1, <2>2
<1> QED
  BY <1>2, <1>3, <1>4, <1>5 DEF more

----------------------------------------------------------------------------
(* What the lines and the sections of a stream can be *)

BuiltMarks == {cmd_marker(k) : k \in ToSet(Manifest)}
FileMarks == {custom_cmd_marker(f.name) : f \in UNION Directories}
Marks == BuiltMarks \cup FileMarks
KeptOf(o) == SubSeq(o, 1, IF Len(o) < MaxOutput THEN Len(o) ELSE MaxOutput)
AllKept == {KeptOf(o) : o \in CustomOutputs} \cup {<<>>}
Glued == {<<"glued", a, b>> : a \in Said, b \in Marks}
StreamLines == Said \cup Marks \cup Glued \cup {<<"encoded", k>> : k \in AllKept}

Outputs == Seq(StreamLines) \cup AllKept
Sections == [key : Marks, output : Outputs]
ParserStates == [result : Seq(Sections), current : Marks \cup {NoSection}, buf : Seq(StreamLines)]

\* A line at which a section may begin.
Starting(line) == line[1] = "builtin" \/ line[1] = "custom"

LEMMA LinesAre ==
  ASSUME NEW line \in StreamLines
  PROVE  /\ line[1] = "builtin" => line \in BuiltMarks
         /\ line[1] = "custom" => line \in FileMarks
         /\ line \in BuiltMarks => line[1] = "builtin"
         /\ line \in FileMarks => line[1] = "custom" \/ line[1] = "undecodable"
         /\ line[1] = "encoded" => line[2] \in AllKept
         /\ line \in Said \cup Glued => line[1] \in {"text", "glued"}
<1>1. CASE line \in Said
  BY <1>1 DEF Said, BuiltMarks, FileMarks, cmd_marker, custom_cmd_marker
<1>2. CASE line \in BuiltMarks
  BY <1>2 DEF Said, Glued, BuiltMarks, FileMarks, cmd_marker, custom_cmd_marker
<1>3. CASE line \in FileMarks
  BY <1>3 DEF Said, Glued, BuiltMarks, FileMarks, cmd_marker, custom_cmd_marker
<1>4. CASE line \in Glued
  BY <1>4 DEF Said, Glued, BuiltMarks, FileMarks, cmd_marker, custom_cmd_marker
<1>5. CASE line \in {<<"encoded", k>> : k \in AllKept}
  BY <1>5 DEF Said, Glued, BuiltMarks, FileMarks, cmd_marker, custom_cmd_marker
<1> QED
  BY <1>1, <1>2, <1>3, <1>4, <1>5 DEF StreamLines, Marks

LEMMA NoSectionIsNoMark ==
  ASSUME ScriptAssumption
  PROVE  NoSection \notin Marks
BY DEF ScriptAssumption, Marks, BuiltMarks, FileMarks

LEMMA KeyOfLine ==
  ASSUME ScriptAssumption, NEW line \in StreamLines, NEW section
  PROVE  LET key == marker_key(line, ~IsCustom(section))
         IN /\ key \in Marks \cup {NoSection}
            /\ key # NoSection <=> line[1] = "custom" \/ (line[1] = "builtin" /\ ~IsCustom(section))
            /\ key # NoSection => key = line
<1>1. CASE line[1] = "custom" \/ (line[1] = "builtin" /\ ~IsCustom(section))
  <2>1. line \in Marks
    BY <1>1, LinesAre DEF Marks
  <2> QED
    BY <1>1, <2>1, NoSectionIsNoMark DEF marker_key
<1>2. CASE ~(line[1] = "custom" \/ (line[1] = "builtin" /\ ~IsCustom(section)))
  BY <1>2 DEF marker_key
<1> QED
  BY <1>1, <1>2

LEMMA ParsesAre ==
  ASSUME NEW p \in ParserStates
  PROVE  /\ p = [result |-> p.result, current |-> p.current, buf |-> p.buf]
         /\ p.result \in Seq(Sections) /\ p.current \in Marks \cup {NoSection} /\ p.buf \in Seq(StreamLines)
BY DEF ParserStates

\* p with another text of its section.
WithBuf(p, buf) == [result |-> p.result, current |-> p.current, buf |-> buf]

LEMMA WithBufIs ==
  ASSUME NEW p \in ParserStates, NEW buf \in Seq(StreamLines)
  PROVE  /\ WithBuf(p, buf) \in ParserStates
         /\ WithBuf(p, buf).result = p.result
         /\ WithBuf(p, buf).current = p.current
         /\ WithBuf(p, buf).buf = buf
         /\ \A more : WithBuf(WithBuf(p, buf), more) = WithBuf(p, more)
BY DEF WithBuf, ParserStates

LEMMA SameBuf == ASSUME NEW p \in ParserStates PROVE WithBuf(p, p.buf) = p
BY DEF WithBuf, ParserStates

LEMMA IsAParse ==
  ASSUME NEW result \in Seq(Sections), NEW section \in Marks \cup {NoSection}, NEW buf \in Seq(StreamLines)
  PROVE  [result |-> result, current |-> section, buf |-> buf] \in ParserStates
BY DEF ParserStates

LEMMA ConcatThenAppend ==
  ASSUME NEW X, NEW s \in Seq(X), NEW t \in Seq(X), NEW x \in X
  PROVE  s \o Append(t, x) = Append(s \o t, x) /\ s \o t \in Seq(X)
OBVIOUS

LEMMA FlushedIs ==
  ASSUME ScriptAssumption, NEW p \in ParserStates
  PROVE  /\ Flushed(p) \in Seq(Sections)
         /\ p.current = NoSection => Flushed(p) = p.result
         /\ p.current # NoSection =>
              Flushed(p) = Append(p.result, [key |-> p.current, output |-> Decoded(p.current, p.buf)])
<1>1. CASE p.current = NoSection
  BY <1>1 DEF Flushed, ParserStates
<1>2. CASE p.current # NoSection
  <2>1. Decoded(p.current, p.buf) \in Outputs
    <3>1. CASE IsCustom(p.current) /\ Len(p.buf) = 1 /\ p.buf[1][1] = "encoded"
      <4>1. p.buf[1] \in StreamLines
        BY <3>1 DEF ParserStates
      <4>2. p.buf[1][2] \in AllKept
        BY <3>1, <4>1, LinesAre
      <4> QED
        BY <3>1, <4>2 DEF Decoded, Outputs
    <3>2. CASE ~(IsCustom(p.current) /\ Len(p.buf) = 1 /\ p.buf[1][1] = "encoded")
      BY <3>2 DEF Decoded, Outputs, ParserStates
    <3> QED
      BY <3>1, <3>2
  <2> DEFINE output == Decoded(p.current, p.buf)
  <2>2. Flushed(p) = Append(p.result, [key |-> p.current, output |-> output])
    BY <1>2 DEF Flushed
  <2> HIDE DEF output
  <2>3. [key |-> p.current, output |-> output] \in Sections
    BY <1>2, <2>1 DEF Sections, ParserStates, output
  <2>4. p.result \in Seq(Sections)
    BY DEF ParserStates
  <2> QED
    BY <1>2, <2>2, <2>3, <2>4, AppendProperties DEF output
<1> QED
  BY <1>1, <1>2

LEMMA LineIsParsed ==
  ASSUME ScriptAssumption, NEW p \in ParserStates, NEW line \in StreamLines
  PROVE  /\ ParsedLine(p, line) \in ParserStates
         /\ line[1] = "custom" \/ (line[1] = "builtin" /\ ~IsCustom(p.current)) =>
              ParsedLine(p, line) = [result |-> Flushed(p), current |-> line, buf |-> <<>>]
         /\ ~Starting(line) =>
              ParsedLine(p, line) = IF p.current = NoSection THEN p ELSE WithBuf(p, Append(p.buf, line))
<1> DEFINE key == marker_key(line, ~IsCustom(p.current))
<1>1. /\ key \in Marks \cup {NoSection}
      /\ key # NoSection <=> line[1] = "custom" \/ (line[1] = "builtin" /\ ~IsCustom(p.current))
      /\ key # NoSection => key = line
  BY KeyOfLine
<1>2. ParsedLine(p, line) =
        IF key # NoSection THEN [result |-> Flushed(p), current |-> key, buf |-> <<>>]
        ELSE IF p.current # NoSection THEN WithBuf(p, Append(p.buf, line)) ELSE p
  <2>1. p = [result |-> p.result, current |-> p.current, buf |-> p.buf]
    BY ParsesAre
  <2>2. [p EXCEPT !.buf = Append(@, line)] = WithBuf(p, Append(p.buf, line))
    BY SMTT(30), <2>1 DEF WithBuf
  <2> QED
    BY <2>2 DEF ParsedLine
<1> HIDE DEF key
<1>3. [result |-> Flushed(p), current |-> key, buf |-> <<>>] \in ParserStates
  <2>1. Flushed(p) \in Seq(Sections) /\ <<>> \in Seq(StreamLines)
    BY FlushedIs, EmptySeq
  <2> QED
    BY <1>1, <2>1, IsAParse
<1>4. WithBuf(p, Append(p.buf, line)) \in ParserStates
  <2>1. Append(p.buf, line) \in Seq(StreamLines)
    BY ParsesAre, AppendProperties
  <2> QED
    BY <2>1, WithBufIs
<1> QED
  BY <1>1, <1>2, <1>3, <1>4 DEF Starting

LEMMA ParsedIsTyped ==
  ASSUME ScriptAssumption, NEW ls \in Seq(StreamLines)
  PROVE  Parsed(ls) \in ParserStates
<1> DEFINE A == {n \in Nat : \A s \in Seq(StreamLines) : Len(s) = n => Parsed(s) \in ParserStates}
<1>1. 0 \in A
  <2>1. ParseStart \in ParserStates
    BY DEF ParseStart, ParserStates
  <2>2. \A s \in Seq(StreamLines) : Len(s) = 0 => s = <<>>
    OBVIOUS
  <2> QED
    BY <2>1, <2>2, ParsedNone
<1>2. ASSUME NEW n \in Nat, n \in A PROVE n + 1 \in A
  <2> SUFFICES ASSUME NEW s \in Seq(StreamLines), Len(s) = n + 1 PROVE Parsed(s) \in ParserStates
    OBVIOUS
  <2> DEFINE front == [i \in 1 .. n |-> s[i]]
  <2>1. front \in Seq(StreamLines) /\ Len(front) = n /\ s[n + 1] \in StreamLines
    OBVIOUS
  <2>2. s = Append(front, s[n + 1])
    OBVIOUS
  <2> HIDE DEF front
  <2>3. Parsed(s) = ParsedLine(Parsed(front), s[n + 1])
    BY ZenonT(30), <2>1, <2>2, ParsedAppend
  <2>4. Parsed(front) \in ParserStates
    BY <1>2, <2>1
  <2> QED
    BY <2>1, <2>3, <2>4, LineIsParsed
<1>3. Nat \subseteq A
  <2> HIDE DEF A
  <2> QED
    BY <1>1, <1>2, EachNumber
<1> QED
  BY <1>3

LEMMA TextIsParsed ==
  ASSUME ScriptAssumption, NEW ls \in Seq(StreamLines), NEW text \in Seq(StreamLines),
         \A i \in 1 .. Len(text) : ~Starting(text[i])
  PROVE  Parsed(ls \o text) =
           IF Parsed(ls).current = NoSection THEN Parsed(ls)
           ELSE WithBuf(Parsed(ls), Parsed(ls).buf \o text)
<1> DEFINE p == Parsed(ls)
           Expected(t) == IF p.current = NoSection THEN p ELSE WithBuf(p, p.buf \o t)
           A == {n \in Nat : \A t \in Seq(StreamLines) :
                   Len(t) = n /\ (\A i \in 1 .. n : ~Starting(t[i])) => Parsed(ls \o t) = Expected(t)}
<1>0. p \in ParserStates
  BY ParsedIsTyped
<1>00. p.buf \in Seq(StreamLines)
  BY <1>0, ParsesAre
<1>1. 0 \in A
  <2>1. \A t \in Seq(StreamLines) : Len(t) = 0 => t = <<>>
    OBVIOUS
  <2>2. ls \o <<>> = ls /\ \A s \in Seq(StreamLines) : s \o <<>> = s
    OBVIOUS
  <2>3. Parsed(ls \o <<>>) = p
    BY <2>2
  <2> HIDE DEF p
  <2>4. Expected(<<>>) = p
    BY <1>0, <1>00, <2>2, SameBuf
  <2> HIDE DEF Expected
  <2> QED
    BY <2>1, <2>3, <2>4
<1>2. ASSUME NEW n \in Nat, n \in A PROVE n + 1 \in A
  <2> SUFFICES ASSUME NEW t \in Seq(StreamLines), Len(t) = n + 1,
                      \A i \in 1 .. n + 1 : ~Starting(t[i])
               PROVE  Parsed(ls \o t) = Expected(t)
    OBVIOUS
  <2> DEFINE front == [i \in 1 .. n |-> t[i]]
             line == t[n + 1]
  <2>1. front \in Seq(StreamLines) /\ Len(front) = n /\ line \in StreamLines /\ ~Starting(line)
    OBVIOUS
  <2>2. t = Append(front, line) /\ \A i \in 1 .. n : ~Starting(front[i])
    OBVIOUS
  <2> HIDE DEF front, line
  <2>3. ls \o t = Append(ls \o front, line) /\ ls \o front \in Seq(StreamLines)
    BY <2>1, <2>2
  <2>4. Parsed(ls \o t) = ParsedLine(Parsed(ls \o front), line)
    BY <2>1, <2>3, ParsedAppend
  <2>5. Parsed(ls \o front) = Expected(front)
    BY <1>2, <2>1, <2>2
  <2>6. Parsed(ls \o front) \in ParserStates
    BY <2>3, ParsedIsTyped
  <2> HIDE DEF p
  <2>7. CASE p.current = NoSection
    BY <2>1, <2>4, <2>5, <2>6, <2>7, LineIsParsed
  <2>8. CASE p.current # NoSection
    <3> DEFINE buf == p.buf
    <3>0. buf \in Seq(StreamLines)
      BY <1>00
    <3>1. Expected(front) = WithBuf(p, buf \o front) /\ Expected(t) = WithBuf(p, buf \o t)
      BY <2>8
    <3> HIDE DEF Expected, buf
    <3>2. buf \o t = Append(buf \o front, line) /\ buf \o front \in Seq(StreamLines)
      BY <3>0, <2>1, <2>2
    <3> DEFINE q == WithBuf(p, buf \o front)
    <3>3. q \in ParserStates /\ q.current # NoSection /\ q.buf = buf \o front
          /\ WithBuf(q, Append(buf \o front, line)) = WithBuf(p, Append(buf \o front, line))
      <4> DEFINE longer == buf \o front
      <4>1. longer \in Seq(StreamLines)
        BY <3>2
      <4> HIDE DEF longer
      <4>2. /\ WithBuf(p, longer) \in ParserStates
            /\ WithBuf(p, longer).current = p.current
            /\ WithBuf(p, longer).buf = longer
            /\ \A more : WithBuf(WithBuf(p, longer), more) = WithBuf(p, more)
        BY <1>0, <4>1, WithBufIs
      <4> QED
        BY <2>8, <4>2 DEF longer
    <3>4. Parsed(ls \o front) = q
      BY <2>5, <3>1
    <3> HIDE DEF q
    <3>5. ParsedLine(q, line) = WithBuf(q, Append(q.buf, line))
      BY <2>1, <3>3, LineIsParsed
    <3> QED
      BY <2>4, <3>1, <3>2, <3>3, <3>4, <3>5
  <2> QED
    BY <2>7, <2>8
<1>3. Nat \subseteq A
  <2> HIDE DEF A
  <2> QED
    BY <1>1, <1>2, EachNumber
<1>4. Len(text) \in Nat
  OBVIOUS
<1> QED
  BY <1>3, <1>4

----------------------------------------------------------------------------
(* A function that runs, and its stream *)

Entries == [key : Marks, output : Outputs, whole : BOOLEAN]
AsSection(e) == [key |-> e.key, output |-> e.output]

\* Whole sections that are over are in the result, the last one is what the
\* parser is at; and when all are whole there is nothing else.
RanOK(R, p, s) ==
  /\ s.open => s.lines # <<>> /\ Last(s.lines) \in Said
  /\ s.open /\ R # <<>> => ~R[Len(R)].whole
  /\ \A i \in 1 .. Len(R) - 1 : R[i].whole =>
       \E j \in 1 .. Len(p.result) : p.result[j] = AsSection(R[i])
  /\ R # <<>> /\ R[Len(R)].whole =>
       p.current = R[Len(R)].key /\ Decoded(p.current, p.buf) = R[Len(R)].output
  /\ R = <<>> => p.result = <<>> /\ p.current = NoSection
  /\ R # <<>> /\ (\A i \in 1 .. Len(R) : R[i].whole) =>
       /\ Len(p.result) = Len(R) - 1
       /\ \A i \in 1 .. Len(R) - 1 : p.result[i] = AsSection(R[i])

\* The parts of the table that the two functions go through.
FuncMarks(f) == {cmd_marker(k) : k \in {m \in ToSet(Manifest) : m \in Extended <=> f = 1}}

ToRunOK(f, T) ==
  \A c \in T :
    /\ c.kind \in {"builtin", "file"}
    /\ c.kind = "builtin" => cmd_marker(c.name) \in FuncMarks(f)
    /\ c.kind = "file" => custom_cmd_marker(c.name) \in FileMarks
    /\ \A d \in T : c.kind = "builtin" /\ d.kind = "builtin" /\ c.name = d.name => c = d

\* A built-in command's key comes once, and not after a custom command's.
KeysOK(f, p, T) ==
  /\ \A i \in 1 .. Len(p.result) : p.result[i].key \in BuiltMarks =>
       /\ p.result[i].key \in FuncMarks(f)
       /\ p.result[i].key # p.current
       /\ \A j \in 1 .. Len(p.result) : p.result[j].key = p.result[i].key => j = i
  /\ p.current \in BuiltMarks => p.current \in FuncMarks(f)
  /\ \A c \in T : c.kind = "builtin" =>
       /\ cmd_marker(c.name) # p.current
       /\ \A i \in 1 .. Len(p.result) : p.result[i].key # cmd_marker(c.name)
  /\ IsCustom(p.current) => \A c \in T : c.kind = "file"

Streams == [lines : Seq(StreamLines), open : BOOLEAN]

OnStream(f, R, s, T) ==
  /\ R \in Seq(Entries)
  /\ s \in Streams
  /\ ToRunOK(f, T)
  /\ RanOK(R, Parsed(s.lines), s)
  /\ KeysOK(f, Parsed(s.lines), T)

\* What a function left in the segments.
Exact(part, R, f) ==
  /\ part \in Seq(Sections)
  /\ R \in Seq(Entries)
  /\ \A i \in 1 .. Len(R) : R[i].whole => \E j \in 1 .. Len(part) : part[j] = AsSection(R[i])
  /\ (\A i \in 1 .. Len(R) : R[i].whole) =>
       Len(part) = Len(R) /\ \A i \in 1 .. Len(R) : part[i] = AsSection(R[i])
  /\ \A i \in 1 .. Len(part) : part[i].key \in BuiltMarks =>
       /\ part[i].key \in FuncMarks(f)
       /\ \A j \in 1 .. Len(part) : part[j].key = part[i].key => j = i

LEMMA NothingIsExact == \A f : Exact(<<>>, <<>>, f)
BY DEF Exact

LEMMA LastEndsIs ==
  ASSUME NEW R \in Seq(Entries), NEW ends \in BOOLEAN
  PROVE  /\ LastEnds(R, ends) \in Seq(Entries)
         /\ Len(LastEnds(R, ends)) = Len(R)
         /\ \A i \in 1 .. Len(R) : AsSection(LastEnds(R, ends)[i]) = AsSection(R[i])
         /\ \A i \in 1 .. Len(R) : LastEnds(R, ends)[i].whole <=> R[i].whole /\ (ends \/ i < Len(R))
         /\ ends => LastEnds(R, ends) = R
<1>1. \A i \in 1 .. Len(R) : R[i] \in Entries
  OBVIOUS
<1>2. ASSUME NEW e \in Entries, NEW b \in BOOLEAN
      PROVE  /\ [e EXCEPT !.whole = @ /\ b] \in Entries
             /\ [e EXCEPT !.whole = @ /\ b].whole <=> e.whole /\ b
             /\ AsSection([e EXCEPT !.whole = @ /\ b]) = AsSection(e)
             /\ b => [e EXCEPT !.whole = @ /\ b] = e
  BY DEF Entries, AsSection
<1>3. DOMAIN R = 1 .. Len(R) /\ Len(R) \in Nat
  OBVIOUS
<1>4. \A i \in 1 .. Len(R) : LastEnds(R, ends)[i] = [R[i] EXCEPT !.whole = @ /\ (ends \/ i < Len(R))]
  BY <1>3 DEF LastEnds
<1>5. \A i \in 1 .. Len(R) : (ends \/ i < Len(R)) \in BOOLEAN
  OBVIOUS
<1>6. ASSUME NEW i \in 1 .. Len(R)
      PROVE  /\ LastEnds(R, ends)[i] \in Entries
             /\ LastEnds(R, ends)[i].whole <=> R[i].whole /\ (ends \/ i < Len(R))
             /\ AsSection(LastEnds(R, ends)[i]) = AsSection(R[i])
             /\ ends => LastEnds(R, ends)[i] = R[i]
  <2> DEFINE b == ends \/ i < Len(R)
             e == R[i]
  <2>1. e \in Entries /\ b \in BOOLEAN /\ LastEnds(R, ends)[i] = [e EXCEPT !.whole = @ /\ b]
    BY <1>1, <1>4, <1>5
  <2>2. ends => b
    OBVIOUS
  <2> HIDE DEF b, e
  <2>3. /\ [e EXCEPT !.whole = @ /\ b] \in Entries
        /\ [e EXCEPT !.whole = @ /\ b].whole <=> e.whole /\ b
        /\ AsSection([e EXCEPT !.whole = @ /\ b]) = AsSection(e)
        /\ b => [e EXCEPT !.whole = @ /\ b] = e
    BY <1>2, <2>1
  <2> QED
    BY <2>1, <2>2, <2>3 DEF b, e
<1>7. DOMAIN LastEnds(R, ends) = 1 .. Len(R)
  BY <1>3 DEF LastEnds
<1>8. LastEnds(R, ends) = [i \in 1 .. Len(R) |-> LastEnds(R, ends)[i]]
  BY <1>3 DEF LastEnds
<1>9. LastEnds(R, ends) \in Seq(Entries)
  BY <1>3, <1>6, <1>7, <1>8
<1>10. ends => LastEnds(R, ends) = R
  <2>1. R = [i \in 1 .. Len(R) |-> R[i]]
    OBVIOUS
  <2> QED
    BY <2>1, <1>6, <1>8
<1> QED
  BY <1>3, <1>6, <1>7, <1>9, <1>10

LEMMA KeyOfMark ==
  ASSUME ScriptAssumption, NEW p \in ParserStates
  PROVE  /\ p.current # NoSection <=> p.current \in Marks
         /\ IsCustom(p.current) <=> p.current \in Marks /\ p.current[1] = "custom"
BY NoSectionIsNoMark DEF ParserStates, IsCustom

\* The sections when the stream ends.
LEMMA StreamEnds ==
  ASSUME ScriptAssumption, NEW f, NEW R, NEW s, NEW T, OnStream(f, R, s, T)
  PROVE  Exact(parse_script_segments(s.lines), R, f)
<1> DEFINE p == Parsed(s.lines)
           q == Flushed(p)
           n == Len(p.result)
           last == [key |-> p.current, output |-> Decoded(p.current, p.buf)]
<1>1. p \in ParserStates /\ RanOK(R, p, s) /\ KeysOK(f, p, T) /\ R \in Seq(Entries)
  BY ParsedIsTyped DEF OnStream, Streams
<1>2. parse_script_segments(s.lines) = q
  BY DEF parse_script_segments
<1> HIDE DEF p
<1>3. /\ q \in Seq(Sections)
      /\ p.current = NoSection => q = p.result
      /\ p.current # NoSection => q = Append(p.result, last)
  BY <1>1, FlushedIs
<1>4. p.result \in Seq(Sections) /\ n \in Nat
  BY <1>1, ParsesAre
<1> HIDE DEF q
<1>5. p.current = NoSection => Len(q) = n /\ \A i \in 1 .. n : q[i] = p.result[i]
  BY <1>3, <1>4
<1>6. p.current # NoSection => Len(q) = n + 1 /\ q[n + 1] = last /\ \A i \in 1 .. n : q[i] = p.result[i]
  <2> HIDE DEF last
  <2> QED
    BY <1>3, <1>4
<1>7. last.key = p.current /\ last.output = Decoded(p.current, p.buf)
  OBVIOUS
<1> HIDE DEF last, n
<1>8. \A i \in 1 .. n : i \in 1 .. Len(q) /\ q[i] = p.result[i]
  BY <1>4, <1>5, <1>6
<1>9. ASSUME R # <<>>, R[Len(R)].whole
      PROVE  p.current # NoSection /\ last = AsSection(R[Len(R)])
  <2>1. p.current = R[Len(R)].key /\ Decoded(p.current, p.buf) = R[Len(R)].output
    BY <1>1, <1>9 DEF RanOK
  <2>2. R[Len(R)].key \in Marks
    <3>1. R[Len(R)] \in Entries
      BY <1>1, <1>9
    <3> QED
      BY <3>1 DEF Entries
  <2> QED
    BY <2>1, <2>2, NoSectionIsNoMark DEF AsSection, last
<1>10. Len(R) \in Nat /\ (R = <<>> <=> Len(R) = 0)
  BY <1>1
<1>11. ASSUME NEW i \in 1 .. Len(R), R[i].whole
       PROVE  \E j \in 1 .. Len(q) : q[j] = AsSection(R[i])
  <2>1. CASE i = Len(R)
    <3>1. p.current # NoSection /\ last = AsSection(R[i])
      BY <1>9, <1>10, <1>11, <2>1
    <3> QED
      BY <3>1, <1>6, <1>4 DEF n
  <2>2. CASE i # Len(R)
    <3>1. i \in 1 .. Len(R) - 1
      BY <2>2, <1>10
    <3>2. PICK j \in 1 .. n : p.result[j] = AsSection(R[i])
      BY <3>1, <1>1, <1>11 DEF RanOK, n
    <3> QED
      BY <3>2, <1>8
  <2> QED
    BY <2>1, <2>2
<1>12. ASSUME \A i \in 1 .. Len(R) : R[i].whole
       PROVE  Len(q) = Len(R) /\ \A i \in 1 .. Len(R) : q[i] = AsSection(R[i])
  <2>1. CASE R = <<>>
    BY <1>1, <1>5, <1>10, <2>1 DEF RanOK, n
  <2>2. CASE R # <<>>
    <3>1. n = Len(R) - 1 /\ \A i \in 1 .. Len(R) - 1 : p.result[i] = AsSection(R[i])
      BY <1>1, <1>12, <2>2 DEF RanOK, n
    <3>2. R[Len(R)].whole
      BY <1>10, <1>12, <2>2
    <3>3. p.current # NoSection /\ last = AsSection(R[Len(R)])
      BY <1>9, <2>2, <3>2
    <3>4. Len(q) = Len(R) /\ q[Len(R)] = AsSection(R[Len(R)])
      BY <1>6, <1>10, <3>1, <3>3
    <3>5. \A i \in 1 .. Len(R) - 1 : q[i] = AsSection(R[i])
      BY <1>8, <1>10, <3>1
    <3> QED
      BY <1>10, <3>4, <3>5
  <2> QED
    BY <2>1, <2>2
<1>13. ASSUME NEW i \in 1 .. Len(q), q[i].key \in BuiltMarks
       PROVE  /\ q[i].key \in FuncMarks(f)
              /\ \A j \in 1 .. Len(q) : q[j].key = q[i].key => j = i
  <2>0. \A k \in 1 .. n : p.result[k].key \in BuiltMarks =>
           /\ p.result[k].key \in FuncMarks(f)
           /\ p.result[k].key # p.current
           /\ \A j \in 1 .. n : p.result[j].key = p.result[k].key => j = k
    BY <1>1 DEF KeysOK, n
  <2>1. p.current \in BuiltMarks => p.current \in FuncMarks(f)
    BY <1>1 DEF KeysOK
  <2>2. CASE p.current = NoSection
    BY <1>4, <1>5, <1>13, <2>0, <2>2 DEF n
  <2>3. CASE p.current # NoSection
    <3>1. Len(q) = n + 1 /\ q[n + 1].key = p.current /\ n \in Nat /\ \A j \in 1 .. n : q[j].key = p.result[j].key
      BY <1>4, <1>6, <1>7, <2>3 DEF n
    <3>2. CASE i = n + 1
      BY <1>13, <2>0, <2>1, <3>1, <3>2
    <3>3. CASE i \in 1 .. n
      BY <1>13, <2>0, <3>1, <3>3
    <3> QED
      BY <3>1, <3>2, <3>3
  <2> QED
    BY <2>2, <2>3
<1> QED
  BY <1>1, <1>2, <1>3, <1>11, <1>12, <1>13 DEF Exact

LEMMA FlushedKeys ==
  ASSUME ScriptAssumption, NEW p \in ParserStates, NEW i \in 1 .. Len(Flushed(p))
  PROVE  \/ Flushed(p)[i].key = p.current
         \/ \E j \in 1 .. Len(p.result) : Flushed(p)[i].key = p.result[j].key
<1> DEFINE last == [key |-> p.current, output |-> Decoded(p.current, p.buf)]
           q == Flushed(p)
<1>1. /\ p.current = NoSection => q = p.result
      /\ p.current # NoSection => q = Append(p.result, last)
  BY FlushedIs
<1>2. p.result \in Seq(Sections)
  BY ParsesAre
<1>3. last.key = p.current
  OBVIOUS
<1> HIDE DEF q, last
<1>4. i \in 1 .. Len(q)
  BY DEF q
<1>5. CASE p.current = NoSection
  BY <1>1, <1>4, <1>5 DEF q
<1>6. CASE p.current # NoSection
  <2>1. q = Append(p.result, last)
    BY <1>1, <1>6
  <2>2. Len(q) = Len(p.result) + 1 /\ q[Len(p.result) + 1] = last /\ \A j \in 1 .. Len(p.result) : q[j] = p.result[j]
    BY <1>2, <2>1
  <2>3. Len(p.result) \in Nat
    BY <1>2
  <2>4. CASE i = Len(p.result) + 1
    BY <1>3, <2>2, <2>4 DEF q
  <2>5. CASE i # Len(p.result) + 1
    <3>1. i \in 1 .. Len(p.result)
      BY <1>4, <2>2, <2>3, <2>5
    <3> QED
      BY <2>2, <3>1 DEF q
  <2> QED
    BY <2>4, <2>5
<1> QED
  BY <1>5, <1>6

LEMMA MarksDiffer ==
  /\ \A k, m : cmd_marker(k) = cmd_marker(m) => k = m
  /\ \A key \in BuiltMarks : key[1] = "builtin"
BY DEF cmd_marker, BuiltMarks

\* A marker that begins a line and can be read begins a section.
LEMMA MarkBegins ==
  ASSUME ScriptAssumption, NEW f, NEW R, NEW s, NEW T, OnStream(f, R, s, T), ~s.open,
         NEW c \in T, NEW key \in Marks,
         key \in BuiltMarks \/ key[1] = "custom",
         key \in BuiltMarks => c.kind = "builtin" /\ key = cmd_marker(c.name),
         key \notin BuiltMarks => \A d \in T : d.kind = "file",
         NEW text \in Seq(StreamLines), \A i \in 1 .. Len(text) : ~Starting(text[i]),
         NEW open \in BOOLEAN, open => text # <<>> /\ text[Len(text)] \in Said,
         NEW output \in Outputs, NEW whole \in BOOLEAN,
         whole => ~open /\ Decoded(key, text) = output
  PROVE  OnStream(f, Append(R, [key |-> key, output |-> output, whole |-> whole]),
                  [lines |-> Append(s.lines, key) \o text, open |-> open], T \ {c})
<1> DEFINE p == Parsed(s.lines)
           q == Flushed(p)
           e == [key |-> key, output |-> output, whole |-> whole]
           R2 == Append(R, e)
           lines2 == Append(s.lines, key) \o text
           s2 == [lines |-> lines2, open |-> open]
           p2 == [result |-> q, current |-> key, buf |-> text]
<1>1. /\ s.lines \in Seq(StreamLines) /\ R \in Seq(Entries)
      /\ RanOK(R, p, s) /\ KeysOK(f, p, T) /\ ToRunOK(f, T)
  BY DEF OnStream, Streams
<1>2. p \in ParserStates
  BY <1>1, ParsedIsTyped
<1>3. Exact(q, R, f)
  BY StreamEnds DEF parse_script_segments
<1>4. key \in StreamLines
  BY DEF StreamLines
<1>5. lines2 \in Seq(StreamLines) /\ Append(s.lines, key) \in Seq(StreamLines)
  BY <1>1, <1>4
<1>6. IsCustom(p.current) => key \notin BuiltMarks
  BY <1>1 DEF KeysOK
<1>7. Parsed(lines2) = p2
  <2> DEFINE p1 == Parsed(Append(s.lines, key))
  <2>1. p1 = ParsedLine(p, key)
    BY <1>1, <1>4, ParsedAppend
  <2> HIDE DEF p
  <2>2. key[1] = "custom" \/ (key[1] = "builtin" /\ ~IsCustom(p.current))
    BY <1>4, <1>6, LinesAre
  <2>3. p1 = [result |-> q, current |-> key, buf |-> <<>>]
    BY <1>2, <1>4, <2>1, <2>2, LineIsParsed
  <2> HIDE DEF p1, q
  <2>4. p1.current = key /\ p1.buf = <<>> /\ p1.result = q
    BY <2>3
  <2>5. Parsed(lines2) = IF p1.current = NoSection THEN p1 ELSE WithBuf(p1, p1.buf \o text)
    BY <1>5, TextIsParsed DEF p1
  <2>6. <<>> \o text = text
    OBVIOUS
  <2> QED
    BY <2>4, <2>5, <2>6, NoSectionIsNoMark DEF WithBuf
<1>8. /\ Len(R2) = Len(R) + 1 /\ R2[Len(R) + 1] = e /\ \A i \in 1 .. Len(R) : R2[i] = R[i]
      /\ R2 \in Seq(Entries) /\ R2 # <<>> /\ Len(R) \in Nat
  <2>1. e \in Entries
    BY DEF Entries
  <2>2. R \in Seq(Entries) /\ Len(R) \in Nat
    BY <1>1
  <2> HIDE DEF e
  <2> QED
    BY <2>1, <2>2, AppendProperties
<1>9. e.key = key /\ e.output = output /\ e.whole = whole
  OBVIOUS
<1>10. s2 \in Streams /\ s2.lines = lines2 /\ s2.open = open
  BY <1>5 DEF Streams
<1>11. p2.result = q /\ p2.current = key /\ p2.buf = text
  OBVIOUS
<1>12. open => lines2 # <<>> /\ Last(lines2) \in Said
  <2> SUFFICES ASSUME open PROVE lines2 # <<>> /\ Last(lines2) \in Said
    OBVIOUS
  <2> DEFINE earlier == Append(s.lines, key)
  <2>1. earlier \in Seq(StreamLines) /\ lines2 = earlier \o text
    BY <1>5
  <2> HIDE DEF earlier, lines2
  <2>2. Len(lines2) = Len(earlier) + Len(text) /\ Len(text) > 0 /\ Len(earlier) \in Nat /\ Len(text) \in Nat
    BY <2>1
  <2>3. lines2[Len(earlier) + Len(text)] = text[Len(text)]
    BY <2>1, <2>2
  <2> QED
    BY <2>2, <2>3 DEF Last
<1> HIDE DEF e, R2, s2, p2, q, lines2
<1>13. RanOK(R2, p2, s2)
  <2>1. s2.open => s2.lines # <<>> /\ Last(s2.lines) \in Said
    BY <1>10, <1>12
  <2>2. s2.open /\ R2 # <<>> => ~R2[Len(R2)].whole
    BY <1>8, <1>9, <1>10
  <2>3. \A i \in 1 .. Len(R2) - 1 : R2[i].whole => \E j \in 1 .. Len(p2.result) : p2.result[j] = AsSection(R2[i])
    BY SMTT(30), <1>3, <1>8, <1>11 DEF Exact
  <2>4. R2[Len(R2)].whole => p2.current = R2[Len(R2)].key /\ Decoded(p2.current, p2.buf) = R2[Len(R2)].output
    BY <1>8, <1>9, <1>11
  <2>5. ASSUME \A i \in 1 .. Len(R2) : R2[i].whole
        PROVE  /\ Len(p2.result) = Len(R2) - 1
               /\ \A i \in 1 .. Len(R2) - 1 : p2.result[i] = AsSection(R2[i])
    <3>1. \A i \in 1 .. Len(R) : R[i].whole
      BY <1>8, <2>5
    <3> QED
      BY <1>3, <1>8, <1>11, <3>1 DEF Exact
  <2> QED
    BY <1>8, <2>1, <2>2, <2>3, <2>4, <2>5 DEF RanOK
<1>14. KeysOK(f, p2, T \ {c})
  <2> HIDE DEF p
  <2>0. \A i \in 1 .. Len(q) : q[i].key = p.current \/ \E j \in 1 .. Len(p.result) : q[i].key = p.result[j].key
    BY <1>2, FlushedKeys DEF q
  <2>1. ASSUME NEW d \in T, d.kind = "builtin"
        PROVE  \A i \in 1 .. Len(q) : q[i].key # cmd_marker(d.name)
    BY <1>1, <2>0, <2>1 DEF KeysOK
  <2>2. ASSUME NEW i \in 1 .. Len(q), q[i].key \in BuiltMarks
        PROVE  /\ q[i].key \in FuncMarks(f)
               /\ q[i].key # key
               /\ \A j \in 1 .. Len(q) : q[j].key = q[i].key => j = i
    <3>1. q[i].key # key
      BY <2>1, <2>2
    <3> QED
      BY <1>3, <2>2, <3>1 DEF Exact
  <2>3. key \in BuiltMarks => key \in FuncMarks(f)
    BY <1>1 DEF ToRunOK
  <2>4. ASSUME NEW d \in T \ {c}, d.kind = "builtin"
        PROVE  cmd_marker(d.name) # key
    <3>1. key \in BuiltMarks
      BY <2>4
    <3>2. d.name # c.name
      BY <1>1, <2>4, <3>1 DEF ToRunOK
    <3> QED
      BY <3>1, <3>2, MarksDiffer
  <2>5. IsCustom(key) => \A d \in T \ {c} : d.kind = "file"
    BY MarksDiffer DEF IsCustom
  <2> QED
    BY <1>11, <2>1, <2>2, <2>3, <2>4, <2>5 DEF KeysOK
<1>15. ToRunOK(f, T \ {c})
  BY <1>1 DEF ToRunOK
<1>16. OnStream(f, R2, s2, T \ {c})
  BY <1>7, <1>8, <1>10, <1>13, <1>14, <1>15 DEF OnStream
<1> QED
  BY <1>16 DEF R2, s2, e, lines2

LEMMA LineStaysInSection ==
  ASSUME ScriptAssumption, NEW ls \in Seq(StreamLines), NEW line \in StreamLines, ~Starting(line)
  PROVE  /\ Parsed(Append(ls, line)).result = Parsed(ls).result
         /\ Parsed(Append(ls, line)).current = Parsed(ls).current
<1> DEFINE p == Parsed(ls)
           buf == Append(p.buf, line)
<1>1. p \in ParserStates
  BY ParsedIsTyped
<1>2. Parsed(Append(ls, line)) = ParsedLine(p, line)
  BY ParsedAppend
<1>3. buf \in Seq(StreamLines)
  BY <1>1, ParsesAre, AppendProperties
<1> HIDE DEF p
<1>4. ParsedLine(p, line) = IF p.current = NoSection THEN p ELSE WithBuf(p, buf)
  BY <1>1, LineIsParsed
<1> HIDE DEF buf
<1>5. WithBuf(p, buf).result = p.result /\ WithBuf(p, buf).current = p.current
  BY <1>1, <1>3, WithBufIs
<1> QED
  BY <1>2, <1>4, <1>5 DEF p

LEMMA EchoTyped ==
  ASSUME NEW s \in Streams, s.open => s.lines # <<>> /\ Last(s.lines) \in Said, NEW key \in Marks
  PROVE  Echoed(s, key).lines \in Seq(StreamLines)
<1> DEFINE echoed == Echoed(s, key).lines
<1>1. key \in StreamLines /\ s.lines \in Seq(StreamLines)
  BY DEF StreamLines, Streams
<1>2. CASE ~s.open
  BY <1>1, <1>2 DEF Echoed
<1>3. CASE s.open
  <2> DEFINE front == Front(s.lines)
             line == <<"glued", Last(s.lines), key>>
  <2>1. line \in StreamLines
    BY <1>3 DEF StreamLines, Glued
  <2>2. front \in Seq(StreamLines)
    BY <1>1, <1>3 DEF Front
  <2>3. echoed = Append(front, line)
    BY <1>3 DEF Echoed
  <2> HIDE DEF front, line, echoed
  <2>4. Append(front, line) \in Seq(StreamLines)
    BY <2>1, <2>2, AppendProperties
  <2>5. echoed \in Seq(StreamLines)
    BY <2>3, <2>4
  <2> QED
    BY <2>5 DEF echoed
<1> QED
  BY <1>2, <1>3

\* A marker that goes on with a line, or cannot be read, and what follows it.
LEMMA EchoIsLost ==
  ASSUME ScriptAssumption, NEW s \in Streams, s.open => s.lines # <<>> /\ Last(s.lines) \in Said,
         NEW key \in Marks, s.open \/ ~Starting(key),
         NEW text \in Seq(StreamLines), \A i \in 1 .. Len(text) : ~Starting(text[i])
  PROVE  LET lines2 == Echoed(s, key).lines \o text
         IN /\ lines2 \in Seq(StreamLines)
            /\ Parsed(lines2).result = Parsed(s.lines).result
            /\ Parsed(lines2).current = Parsed(s.lines).current
<1> DEFINE echoed == Echoed(s, key).lines
           ls == s.lines
<1>0. ls \in Seq(StreamLines)
  BY DEF Streams
<1>1. /\ echoed \in Seq(StreamLines)
      /\ Parsed(echoed).result = Parsed(ls).result
      /\ Parsed(echoed).current = Parsed(ls).current
  <2>1. CASE ~s.open
    <3>1. echoed = Append(ls, key) /\ key \in StreamLines
      BY <2>1 DEF Echoed, StreamLines
    <3> HIDE DEF echoed, ls
    <3> QED
      BY <1>0, <2>1, <3>1, LineStaysInSection
  <2>2. CASE s.open
    <3> DEFINE front == Front(ls)
               last == Last(ls)
               glued == <<"glued", last, key>>
    <3>1. echoed = Append(front, glued)
      BY <2>2 DEF Echoed
    <3>2. last \in Said /\ glued \in Glued
      BY <2>2 DEF Glued
    <3>3. last \in StreamLines /\ glued \in StreamLines
      BY <3>2 DEF StreamLines
    <3>4. ~Starting(last) /\ ~Starting(glued)
      <4> HIDE DEF last, glued
      <4> QED
        BY <3>2, <3>3, LinesAre DEF Starting
    <3>5. front \in Seq(StreamLines) /\ ls = Append(front, last)
      <4>1. ls # <<>>
        BY <2>2
      <4> HIDE DEF ls
      <4> QED
        BY <1>0, <4>1 DEF Front, Last
    <3> HIDE DEF front, last, glued, echoed, ls
    <3>6. Parsed(ls).result = Parsed(front).result /\ Parsed(ls).current = Parsed(front).current
      BY <3>3, <3>4, <3>5, LineStaysInSection
    <3>7. Parsed(echoed).result = Parsed(front).result /\ Parsed(echoed).current = Parsed(front).current
      BY <3>1, <3>3, <3>4, <3>5, LineStaysInSection
    <3>8. echoed \in Seq(StreamLines)
      BY <3>1, <3>3, <3>5
    <3> QED
      BY <3>6, <3>7, <3>8
  <2> QED
    BY <2>1, <2>2
<1> HIDE DEF echoed, ls
<1> DEFINE p == Parsed(echoed)
           buf == p.buf \o text
<1>2. p \in ParserStates
  BY <1>1, ParsedIsTyped
<1>3. Parsed(echoed \o text) = IF p.current = NoSection THEN p ELSE WithBuf(p, buf)
  BY <1>1, TextIsParsed
<1>4. buf \in Seq(StreamLines)
  BY <1>2, ParsesAre, ConcatProperties
<1> HIDE DEF p, buf
<1>5. WithBuf(p, buf).result = p.result /\ WithBuf(p, buf).current = p.current
  BY <1>2, <1>4, WithBufIs
<1>6. Parsed(echoed \o text).result = p.result /\ Parsed(echoed \o text).current = p.current
  BY <1>3, <1>5
<1>7. echoed \o text \in Seq(StreamLines)
  BY <1>1
<1> QED
  BY <1>1, <1>6, <1>7 DEF p, echoed, ls

LEMMA MarkIsLost ==
  ASSUME ScriptAssumption, NEW f, NEW R, NEW s, NEW T, OnStream(f, R, s, T), NEW T2 \in SUBSET T,
         NEW key \in Marks, s.open \/ ~Starting(key),
         NEW text \in Seq(StreamLines), \A i \in 1 .. Len(text) : ~Starting(text[i]),
         NEW open \in BOOLEAN, open => text # <<>> /\ text[Len(text)] \in Said,
         NEW output \in Outputs
  PROVE  OnStream(f, Append(LastEnds(R, FALSE), [key |-> key, output |-> output, whole |-> FALSE]),
                  [lines |-> Echoed(s, key).lines \o text, open |-> open], T2)
<1> DEFINE p == Parsed(s.lines)
           e == [key |-> key, output |-> output, whole |-> FALSE]
           R1 == LastEnds(R, FALSE)
           R2 == Append(R1, e)
           echoed == Echoed(s, key).lines
           lines2 == echoed \o text
           s2 == [lines |-> lines2, open |-> open]
           p2 == Parsed(lines2)
<1>1. /\ s \in Streams /\ R \in Seq(Entries)
      /\ RanOK(R, p, s) /\ KeysOK(f, p, T) /\ ToRunOK(f, T)
  BY DEF OnStream
<1>2. s.open => s.lines # <<>> /\ Last(s.lines) \in Said
  BY <1>1 DEF RanOK
<1>3. lines2 \in Seq(StreamLines) /\ p2.result = p.result /\ p2.current = p.current
  BY <1>1, <1>2, EchoIsLost
<1>4. /\ R1 \in Seq(Entries) /\ Len(R1) = Len(R) /\ Len(R) \in Nat
      /\ \A i \in 1 .. Len(R) : AsSection(R1[i]) = AsSection(R[i])
      /\ \A i \in 1 .. Len(R) : R1[i].whole <=> R[i].whole /\ i < Len(R)
  <2> DEFINE ends == FALSE
  <2>1. ends \in BOOLEAN /\ ~ends /\ R1 = LastEnds(R, ends)
    OBVIOUS
  <2> HIDE DEF ends, R1
  <2>2. /\ R1 \in Seq(Entries) /\ Len(R1) = Len(R)
        /\ \A i \in 1 .. Len(R) : AsSection(R1[i]) = AsSection(R[i])
        /\ \A i \in 1 .. Len(R) : R1[i].whole <=> R[i].whole /\ (ends \/ i < Len(R))
    BY <1>1, <2>1, LastEndsIs
  <2> QED
    BY <1>1, <2>1, <2>2
<1> HIDE DEF p, p2, R1
<1>5. e \in Entries /\ ~e.whole
  BY DEF Entries
<1> HIDE DEF e
<1>6. /\ Len(R2) = Len(R) + 1 /\ R2[Len(R) + 1] = e /\ \A i \in 1 .. Len(R) : R2[i] = R1[i]
      /\ R2 \in Seq(Entries) /\ R2 # <<>>
  BY <1>4, <1>5
<1> HIDE DEF R2
<1>7. s2.lines = lines2 /\ s2.open = open /\ s2 \in Streams
  BY <1>3 DEF Streams
<1>8. open => lines2 # <<>> /\ Last(lines2) \in Said
  <2> SUFFICES ASSUME open PROVE lines2 # <<>> /\ Last(lines2) \in Said
    OBVIOUS
  <2>1. echoed \in Seq(StreamLines)
    BY <1>1, <1>2, EchoTyped DEF StreamLines
  <2> HIDE DEF echoed
  <2>2. Len(lines2) = Len(echoed) + Len(text) /\ Len(text) > 0 /\ Len(echoed) \in Nat /\ Len(text) \in Nat
    BY <2>1
  <2>3. lines2[Len(echoed) + Len(text)] = text[Len(text)]
    BY <2>1, <2>2
  <2> QED
    BY <2>2, <2>3 DEF Last
<1> HIDE DEF lines2, s2
<1>9. RanOK(R2, p2, s2)
  <2>1. \A i \in 1 .. Len(R2) - 1 : R2[i].whole => \E j \in 1 .. Len(p2.result) : p2.result[j] = AsSection(R2[i])
    <3> SUFFICES ASSUME NEW i \in 1 .. Len(R2) - 1, R2[i].whole
                 PROVE  \E j \in 1 .. Len(p2.result) : p2.result[j] = AsSection(R2[i])
      OBVIOUS
    <3>1. i \in 1 .. Len(R) /\ R1[i].whole /\ R2[i] = R1[i]
      BY <1>4, <1>6
    <3>2. i \in 1 .. Len(R) - 1 /\ R[i].whole /\ AsSection(R2[i]) = AsSection(R[i])
      BY <1>4, <3>1
    <3> QED
      BY <1>1, <1>3, <3>2 DEF RanOK
  <2>2. ~R2[Len(R2)].whole /\ Len(R2) \in 1 .. Len(R2)
    BY <1>4, <1>5, <1>6
  <2> QED
    BY <1>6, <1>7, <1>8, <2>1, <2>2 DEF RanOK
<1>10. KeysOK(f, p2, T2)
  BY <1>1, <1>3 DEF KeysOK
<1>11. ToRunOK(f, T2)
  BY <1>1 DEF ToRunOK
<1>12. OnStream(f, R2, s2, T2)
  BY <1>6, <1>7, <1>9, <1>10, <1>11 DEF OnStream, p2
<1> QED
  BY <1>12 DEF R2, R1, s2, e, lines2

----------------------------------------------------------------------------
(* The invariant of the script *)

Parts(first, second) ==
  /\ segments = first \o second
  /\ IF func = 1 /\ to_run # {} THEN first = <<>> ELSE Exact(first, ran[1], 1)
  /\ IF func = 2 /\ to_run # {} THEN second = <<>> ELSE Exact(second, ran[2], 2)
  /\ func < 2 => second = <<>>

ScriptInv ==
  /\ func \in 0 .. 2
  /\ cmd_dir \in Directories \cup {NoDirectory}
  /\ bak \in Directories \cup {NoDirectory}
  /\ ran = [f \in 1 .. 2 |-> ran[f]]
  /\ func = 0 => to_run = {} /\ ran[1] = <<>>
  /\ func < 2 => ran[2] = <<>>
  /\ to_run # {} => OnStream(func, ran[func], stream, to_run)
  /\ \E first, second \in Seq(Sections) : Parts(first, second)

LEMMA ScriptInitInv == ScriptInit => ScriptInv
<1> SUFFICES ASSUME ScriptInit PROVE ScriptInv
  OBVIOUS
<1>1. ran[1] = <<>> /\ ran[2] = <<>> /\ ran = [f \in 1 .. 2 |-> ran[f]]
  BY DEF ScriptInit
<1>2. <<>> \in Seq(Sections) /\ <<>> \o <<>> = <<>>
  OBVIOUS
<1>3. Parts(<<>>, <<>>)
  BY <1>1, <1>2, NothingIsExact DEF ScriptInit, Parts
<1>4. \E first, second \in Seq(Sections) : Parts(first, second)
  BY <1>2, <1>3
<1> QED
  BY <1>1, <1>4 DEF ScriptInit, ScriptInv

\* The function that runs printed one more command, or skipped one.
LEMMA FunctionGoesOn ==
  ASSUME ScriptAssumption, ScriptInv, to_run # {}, NEW R, NEW s, NEW T,
         OnStream(func, R, s, T), Recorded(T, s), ran' = [ran EXCEPT ![func] = R],
         UNCHANGED <<disabled, directoryVars, func, base>>
  PROVE  ScriptInv'
<1>1. func \in 1 .. 2 /\ func' = func /\ cmd_dir' = cmd_dir /\ bak' = bak /\ to_run' = T
  BY DEF ScriptInv, directoryVars, Recorded
<1>2. /\ ran'[func] = R /\ ran' = [f \in 1 .. 2 |-> ran'[f]]
      /\ \A f \in 1 .. 2 : f # func => ran'[f] = ran[f]
  BY <1>1 DEF ScriptInv
<1>3. PICK first \in Seq(Sections) : \E second \in Seq(Sections) : Parts(first, second)
  BY DEF ScriptInv
<1>4. PICK second \in Seq(Sections) : Parts(first, second)
  BY <1>3
<1>5. <<>> \in Seq(Sections) /\ \A t \in Seq(Sections) : <<>> \o t = t /\ t \o <<>> = t
  OBVIOUS
<1>6. CASE T # {}
  <2>1. stream' = s /\ segments' = segments
    BY <1>6 DEF Recorded
  <2>2. Parts(first, second)'
    BY <1>1, <1>2, <1>4, <1>6, <2>1 DEF Parts
  <2>3. OnStream(func, R, s, T)'
    <3>1. OnStream(func', R, s, T)
      BY <1>1
    <3> QED
      BY <1>1, <1>2, <2>1 DEF OnStream
  <2> QED
    BY <1>1, <1>2, <2>1, <2>2 DEF ScriptInv
<1>7. CASE T = {}
  <2> DEFINE q == parse_script_segments(s.lines)
  <2>1. segments' = segments \o q
    BY <1>7 DEF Recorded
  <2>2. Exact(q, R, func)
    BY StreamEnds
  <2> HIDE DEF q
  <2>3. q \in Seq(Sections)
    BY <2>2 DEF Exact
  <2>4. CASE func = 1
    <3>1. first = <<>> /\ second = <<>> /\ segments = <<>> \o <<>>
      BY <1>4, <2>4 DEF Parts
    <3>2. segments' = q \o <<>>
      BY <1>5, <2>1, <2>3, <3>1
    <3>3. Exact(<<>>, ran'[2], 2)
      BY <1>1, <1>2, <2>4, NothingIsExact DEF ScriptInv
    <3>4. Parts(q, <<>>)'
      BY <1>1, <1>2, <1>7, <2>2, <2>4, <3>2, <3>3 DEF Parts
    <3>5. (\E first2, second2 \in Seq(Sections) : Parts(first2, second2))'
      BY <1>5, <2>3, <3>4
    <3> QED
      BY <1>1, <1>2, <1>7, <2>4, <3>5 DEF ScriptInv
  <2>5. CASE func = 2
    <3>1. second = <<>> /\ segments = first \o <<>> /\ Exact(first, ran[1], 1)
      BY <1>4, <2>5 DEF Parts
    <3>2. segments' = first \o q
      BY <1>5, <2>1, <3>1
    <3>3. Parts(first, q)'
      BY <1>1, <1>2, <1>7, <2>2, <2>5, <3>1, <3>2 DEF Parts
    <3> QED
      BY <1>1, <1>2, <1>7, <2>3, <3>3 DEF ScriptInv
  <2> QED
    BY <1>1, <2>4, <2>5
<1> QED
  BY <1>6, <1>7

LEMMA CommandsToRun ==
  ASSUME ScriptAssumption, ScriptInv, NEW f \in 1 .. 2, NEW b
  PROVE  ToRunOK(f, unix_command(f, b))
<1> DEFINE built == {[kind |-> "builtin", order |-> i, name |-> Manifest[i]] : i \in segment_list(f = 1)}
           there == InDirectory(b)
           fileCommands == IF f = 2 /\ there # NoDirectory
                    THEN {[kind |-> "file", order |-> g.order, name |-> g.name] : g \in there} ELSE {}
<1>1. unix_command(f, b) = built \cup fileCommands
  BY DEF unix_command
<1>2. \A i \in segment_list(f = 1) : i \in DOMAIN Manifest /\ (Manifest[i] \in Extended <=> f = 1)
  BY DEF segment_list
<1>3. \A c \in built : \E i \in segment_list(f = 1) : c.kind = "builtin" /\ c.order = i /\ c.name = Manifest[i]
                         /\ c = [kind |-> "builtin", order |-> i, name |-> Manifest[i]]
  OBVIOUS
<1>4. there # NoDirectory => there \in Directories
  BY DEF ScriptInv, InDirectory
<1>5. \A c \in fileCommands : c.kind = "file" /\ \E g \in there : there # NoDirectory /\ c.name = g.name
  OBVIOUS
<1> HIDE DEF built, fileCommands, there
<1>6. ASSUME NEW c \in built
      PROVE  c.kind = "builtin" /\ cmd_marker(c.name) \in FuncMarks(f)
  <2>1. PICK i \in segment_list(f = 1) : c.kind = "builtin" /\ c.name = Manifest[i]
    BY <1>3
  <2>2. Manifest[i] \in ToSet(Manifest)
    BY <1>2 DEF ToSet
  <2> QED
    BY <1>2, <2>1, <2>2 DEF FuncMarks
<1>7. ASSUME NEW c \in built, NEW d \in built, c.name = d.name
      PROVE  c = d
  <2>1. PICK i \in segment_list(f = 1) : c.name = Manifest[i] /\ c = [kind |-> "builtin", order |-> i, name |-> Manifest[i]]
    BY <1>3
  <2>2. PICK j \in segment_list(f = 1) : d.name = Manifest[j] /\ d = [kind |-> "builtin", order |-> j, name |-> Manifest[j]]
    BY <1>3
  <2>3. i = j
    BY <1>2, <1>7, <2>1, <2>2 DEF ScriptAssumption, IsInjective
  <2> QED
    BY <2>1, <2>2, <2>3
<1>8. ASSUME NEW c \in fileCommands
      PROVE  c.kind = "file" /\ custom_cmd_marker(c.name) \in FileMarks
  BY <1>4, <1>5 DEF FileMarks
<1> QED
  BY <1>1, <1>6, <1>7, <1>8 DEF ToRunOK

LEMMA FuncMarksAre ==
  /\ \A f : FuncMarks(f) \subseteq BuiltMarks
  /\ FuncMarks(1) \cap FuncMarks(2) = {}
BY MarksDiffer DEF FuncMarks, BuiltMarks

LEMMA StreamBegins ==
  ASSUME ScriptAssumption, NEW f, NEW T, ToRunOK(f, T)
  PROVE  OnStream(f, <<>>, NewStream, T)
<1>1. NewStream.lines = <<>> /\ NewStream.open = FALSE /\ NewStream \in Streams
  BY DEF NewStream, Streams
<1>2. Parsed(NewStream.lines) = ParseStart
  BY <1>1, ParsedNone
<1>3. ParseStart.result = <<>> /\ ParseStart.current = NoSection /\ Len(<<>>) = 0 /\ <<>> \in Seq(Entries)
  BY DEF ParseStart
<1>4. RanOK(<<>>, ParseStart, NewStream)
  BY <1>1, <1>3 DEF RanOK
<1>5. \A c \in T : c.kind = "builtin" => cmd_marker(c.name) # NoSection
  BY FuncMarksAre, NoSectionIsNoMark DEF ToRunOK, Marks
<1>6. KeysOK(f, ParseStart, T)
  BY <1>3, <1>5, NoSectionIsNoMark DEF KeysOK, IsCustom, Marks
<1> QED
  BY <1>1, <1>2, <1>3, <1>4, <1>6 DEF OnStream

LEMMA StartsInv ==
  ASSUME ScriptAssumption, ScriptInv, Starts
  PROVE  ScriptInv'
<1> DEFINE f == func + 1
<1>1. /\ func \in 0 .. 1 /\ func' = f /\ f \in 1 .. 2
      /\ to_run = {} /\ to_run' = unix_command(f, base') /\ stream' = NewStream
      /\ segments' = segments /\ ran' = ran /\ cmd_dir' = cmd_dir /\ bak' = bak
  BY DEF Starts, ScriptInv
<1>2. ToRunOK(f, to_run')
  BY <1>1, CommandsToRun
<1>3. OnStream(f, <<>>, NewStream, to_run')
  BY <1>2, StreamBegins
<1> HIDE DEF f
<1>4. ran[f] = <<>>
  BY <1>1 DEF ScriptInv, f
<1>5. OnStream(func, ran[func], stream, to_run)'
  <2>1. OnStream(func', ran'[func'], stream', to_run')
    BY <1>1, <1>3, <1>4
  <2> QED
    BY <2>1 DEF OnStream
<1>6. PICK first \in Seq(Sections) : \E second \in Seq(Sections) : Parts(first, second)
  BY DEF ScriptInv
<1>7. PICK second \in Seq(Sections) : Parts(first, second)
  BY <1>6
<1>8. Exact(first, ran[1], 1) /\ second = <<>> /\ segments = first \o second
  BY <1>1, <1>7 DEF Parts
<1>9. ran[1] = <<>> => first = <<>>
  <2> SUFFICES ASSUME ran[1] = <<>> PROVE first = <<>>
    OBVIOUS
  <2>1. Len(first) = 0
    BY <1>8 DEF Exact
  <2> QED
    BY <2>1
<1>10. CASE func = 0
  <2>1. first = <<>> /\ ran[1] = <<>> /\ ran[2] = <<>> /\ f = 1
    BY <1>9, <1>10 DEF ScriptInv, f
  <2>2. Parts(first, second)'
    BY <1>1, <1>8, <2>1, NothingIsExact DEF Parts
  <2>3. (\E a, b \in Seq(Sections) : Parts(a, b))'
    BY <2>2
  <2> QED
    BY <1>1, <1>5, <2>1, <2>3 DEF ScriptInv
<1>11. CASE func = 1
  <2>1. ran[2] = <<>> /\ f = 2
    BY <1>11 DEF ScriptInv, f
  <2>2. Parts(first, second)'
    BY <1>1, <1>8, <2>1, NothingIsExact DEF Parts
  <2>3. (\E a, b \in Seq(Sections) : Parts(a, b))'
    BY <2>2
  <2> QED
    BY <1>1, <1>5, <2>1, <2>3 DEF ScriptInv
<1> QED
  BY <1>1, <1>10, <1>11

\* What each command prints, and that no line of it looks like a marker.
LEMMA SaidIsText ==
  ASSUME ScriptAssumption, NEW o \in BuiltInOutputs
  PROVE  /\ o.lines \in Seq(StreamLines) /\ o.lines \in Outputs /\ o.open \in BOOLEAN
         /\ \A i \in 1 .. Len(o.lines) : ~Starting(o.lines[i])
         /\ o.open => o.lines # <<>> /\ o.lines[Len(o.lines)] \in Said
<1>1. o.lines \in Seq(Said) /\ o.open \in BOOLEAN /\ (o.open => o.lines # <<>>)
  BY DEF ScriptAssumption
<1>2. Said \subseteq StreamLines /\ \A line \in Said : ~Starting(line)
  BY LinesAre DEF StreamLines, Starting
<1> DEFINE ls == o.lines
<1> HIDE DEF ls
<1>3. ls \in Seq(StreamLines) /\ \A i \in 1 .. Len(ls) : ls[i] \in Said
  BY <1>1, <1>2 DEF ls
<1>4. ls # <<>> => Len(ls) \in 1 .. Len(ls)
  BY <1>3
<1> QED
  BY <1>1, <1>2, <1>3, <1>4 DEF ls, Outputs

LEMMA RanIs ==
  ASSUME ScriptInv, to_run # {}, NEW key, NEW output, NEW whole, NEW ends, Ran(key, output, whole, ends)
  PROVE  ran' = [ran EXCEPT ![func] = Append(LastEnds(ran[func], ends), [key |-> key, output |-> output, whole |-> whole])]
BY DEF Ran

LEMMA EndsWell ==
  ASSUME NEW R \in Seq(Entries), NEW ends \in BOOLEAN, ends
  PROVE  LastEnds(R, ends) = R
BY LastEndsIs

\* The command's marker, and its text.
LEMMA CommandRan ==
  ASSUME ScriptAssumption, ScriptInv, to_run # {}, NEW c \in to_run, NEW key \in Marks,
         NEW begins \in BOOLEAN, ~begins => stream.open \/ ~Starting(key),
         begins => /\ ~stream.open
                   /\ key \in BuiltMarks \/ key[1] = "custom"
                   /\ key \in BuiltMarks => c.kind = "builtin" /\ key = cmd_marker(c.name)
                   /\ key \notin BuiltMarks => \A d \in to_run : d.kind = "file",
         NEW text \in Seq(StreamLines), \A i \in 1 .. Len(text) : ~Starting(text[i]),
         NEW open \in BOOLEAN, open => text # <<>> /\ text[Len(text)] \in Said,
         NEW output \in Outputs, begins => Decoded(key, text) = output,
         Ran(key, output, begins /\ ~open, begins),
         Recorded(to_run \ {c}, Followed(Echoed(stream, key), text, open)),
         UNCHANGED <<disabled, directoryVars, func, base>>
  PROVE  ScriptInv'
<1> DEFINE R == ran[func]
           T == to_run \ {c}
           s == Followed(Echoed(stream, key), text, open)
           ls == Echoed(stream, key).lines
<1>1. OnStream(func, R, stream, to_run) /\ R \in Seq(Entries)
  BY DEF ScriptInv, OnStream
<1>2. s = [lines |-> ls \o text, open |-> open]
  BY DEF Followed
<1>3. CASE begins
  <2> DEFINE whole == ~open
             e == [key |-> key, output |-> output, whole |-> whole]
  <2>1. whole \in BOOLEAN /\ (whole => ~open /\ Decoded(key, text) = output)
    BY <1>3
  <2>2. ls = Append(stream.lines, key)
    BY <1>3 DEF Echoed
  <2>3. ran' = [ran EXCEPT ![func] = Append(R, e)]
    <3>1. ran' = [ran EXCEPT ![func] = Append(LastEnds(R, begins), [key |-> key, output |-> output, whole |-> begins /\ ~open])]
      BY RanIs
    <3>2. LastEnds(R, begins) = R
      BY <1>1, <1>3, EndsWell
    <3>3. (begins /\ ~open) = whole
      BY <1>3
    <3> QED
      BY <3>1, <3>2, <3>3
  <2> HIDE DEF whole
  <2>4. OnStream(func, Append(R, e), [lines |-> Append(stream.lines, key) \o text, open |-> open], T)
    <3> HIDE DEF R
    <3> QED
      BY <1>1, <1>3, <2>1, MarkBegins
  <2>5. OnStream(func, Append(R, e), s, T)
    BY <1>2, <2>2, <2>4
  <2> HIDE DEF e, s, R, T
  <2>6. Recorded(T, s)
    BY DEF T, s
  <2> QED
    BY <2>3, <2>5, <2>6, FunctionGoesOn
<1>4. CASE ~begins
  <2> DEFINE e == [key |-> key, output |-> output, whole |-> FALSE]
             R2 == Append(LastEnds(R, FALSE), e)
  <2>1. ran' = [ran EXCEPT ![func] = R2]
    <3>1. ran' = [ran EXCEPT ![func] = Append(LastEnds(R, begins), [key |-> key, output |-> output, whole |-> begins /\ ~open])]
      BY RanIs
    <3>2. begins = FALSE /\ (begins /\ ~open) = FALSE
      BY <1>4
    <3> QED
      BY <3>1, <3>2
  <2>2. T \in SUBSET to_run
    OBVIOUS
  <2>3. OnStream(func, R2, [lines |-> ls \o text, open |-> open], T)
    <3> HIDE DEF R, T
    <3> QED
      BY <1>1, <1>4, <2>2, MarkIsLost
  <2>4. OnStream(func, R2, s, T)
    BY <1>2, <2>3
  <2> HIDE DEF R2, s, R, T
  <2>5. Recorded(T, s)
    BY DEF T, s
  <2> QED
    BY <2>1, <2>4, <2>5, FunctionGoesOn
<1> QED
  BY <1>3, <1>4

LEMMA RunsBuiltInInv ==
  ASSUME ScriptAssumption, ScriptInv, RunsBuiltIn
  PROVE  ScriptInv'
<1>1. UNCHANGED <<disabled, directoryVars, func, base>>
  BY DEF RunsBuiltIn
<1>2. PICK c \in to_run : \E o \in BuiltInOutputs :
        LET key == cmd_marker(c.name)
        IN /\ Comes(c, "builtin")
           /\ Ran(key, o.lines, ~stream.open /\ ~o.open, ~stream.open)
           /\ Recorded(to_run \ {c}, Followed(Echoed(stream, key), o.lines, o.open))
  BY DEF RunsBuiltIn
<1> DEFINE key == cmd_marker(c.name)
<1>3. PICK o \in BuiltInOutputs :
           /\ Comes(c, "builtin")
           /\ Ran(key, o.lines, ~stream.open /\ ~o.open, ~stream.open)
           /\ Recorded(to_run \ {c}, Followed(Echoed(stream, key), o.lines, o.open))
  BY <1>2
<1>4. c.kind = "builtin"
  BY <1>3 DEF Comes
<1>5. key \in BuiltMarks
  BY <1>4, FuncMarksAre DEF ScriptInv, OnStream, ToRunOK
<1>6. Decoded(key, o.lines) = o.lines
  BY <1>5, MarksDiffer DEF Decoded, IsCustom
<1>7. key \in Marks
  BY <1>5 DEF Marks
<1>8. (~stream.open) \in BOOLEAN /\ (~(~stream.open) => stream.open)
  BY DEF ScriptInv, OnStream, Streams
<1> HIDE DEF key
<1>9. key = cmd_marker(c.name)
  BY DEF key
<1> DEFINE begins == ~stream.open
<1>10. begins \in BOOLEAN /\ (begins => ~stream.open) /\ (~begins => stream.open)
  BY <1>8
<1>11. Ran(key, o.lines, begins /\ ~o.open, begins)
  BY <1>3
<1> HIDE DEF begins
<1> DEFINE text == o.lines
           open == o.open
<1>12. /\ text \in Seq(StreamLines) /\ text \in Outputs /\ open \in BOOLEAN
       /\ \A i \in 1 .. Len(text) : ~Starting(text[i])
       /\ open => text # <<>> /\ text[Len(text)] \in Said
  BY SaidIsText
<1>13. Decoded(key, text) = text /\ Ran(key, text, begins /\ ~open, begins)
       /\ Recorded(to_run \ {c}, Followed(Echoed(stream, key), text, open))
  BY <1>3, <1>6, <1>11
<1> HIDE DEF text, open
<1> QED
  BY <1>1, <1>4, <1>5, <1>7, <1>9, <1>10, <1>12, <1>13, CommandRan

LEMMA RunsFileInv ==
  ASSUME ScriptAssumption, ScriptInv, RunsFile
  PROVE  ScriptInv'
<1>1. UNCHANGED <<disabled, directoryVars, func, base>>
  BY DEF RunsFile
<1>2. PICK c \in to_run :
        LET key == custom_cmd_marker(c.name)
            begins == ~stream.open /\ c.name \notin Strays
        IN /\ Comes(c, "file")
           /\ \/ \E o \in CustomOutputs :
                   LET kept == SubSeq(o, 1, IF Len(o) < MaxOutput THEN Len(o) ELSE MaxOutput)
                   IN /\ Ran(key, kept, begins, begins)
                      /\ Recorded(to_run \ {c}, Followed(Echoed(stream, key), Captured(kept), FALSE))
              \/ /\ Ran(key, <<>>, begins, begins)
                 /\ Recorded(to_run \ {c}, Echoed(stream, key))
  BY DEF RunsFile
<1> DEFINE key == custom_cmd_marker(c.name)
           begins == ~stream.open /\ c.name \notin Strays
           open == FALSE
           Did(output, text) == /\ Ran(key, output, begins /\ ~open, begins)
                                /\ Recorded(to_run \ {c}, Followed(Echoed(stream, key), text, open))
<1>3. c.kind = "file" /\ \A d \in to_run : d.kind = "file"
  <2>1. c.kind = "file" /\ \A d \in to_run \ {c} : Before(c, d)
    BY <1>2 DEF Comes
  <2> QED
    BY <2>1 DEF Before
<1>4. key \in FileMarks
  BY <1>3 DEF ScriptInv, OnStream, ToRunOK
<1>5. key \in Marks /\ key \in StreamLines
  BY <1>4 DEF Marks, StreamLines
<1>6. key \notin BuiltMarks
  BY <1>4, <1>5, LinesAre
<1>7. begins \in BOOLEAN /\ open \in BOOLEAN /\ ~open
  OBVIOUS
<1>8. begins => ~stream.open /\ key[1] = "custom"
  BY DEF custom_cmd_marker
<1>9. ~begins => stream.open \/ ~Starting(key)
  BY DEF custom_cmd_marker, Starting
<1>10. \/ \E kept \in AllKept : Did(kept, Captured(kept))
       \/ Did(<<>>, <<>>)
  <2>1. (begins /\ ~open) = begins
    OBVIOUS
  <2>2. CASE \E o \in CustomOutputs :
               LET kept == SubSeq(o, 1, IF Len(o) < MaxOutput THEN Len(o) ELSE MaxOutput)
               IN /\ Ran(key, kept, begins, begins)
                  /\ Recorded(to_run \ {c}, Followed(Echoed(stream, key), Captured(kept), FALSE))
    <3>1. PICK o \in CustomOutputs :
               /\ Ran(key, KeptOf(o), begins, begins)
               /\ Recorded(to_run \ {c}, Followed(Echoed(stream, key), Captured(KeptOf(o)), FALSE))
      BY <2>2 DEF KeptOf
    <3>2. KeptOf(o) \in AllKept
      BY DEF AllKept
    <3> QED
      BY <2>1, <3>1, <3>2
  <2>3. CASE Ran(key, <<>>, begins, begins) /\ Recorded(to_run \ {c}, Echoed(stream, key))
    <3>1. Followed(Echoed(stream, key), <<>>, FALSE) = Echoed(stream, key)
      <4>1. Echoed(stream, key) = [lines |-> Echoed(stream, key).lines, open |-> FALSE]
        BY DEF Echoed
      <4>2. Echoed(stream, key).lines \o <<>> = Echoed(stream, key).lines
        <5>1. stream \in Streams /\ (stream.open => stream.lines # <<>> /\ Last(stream.lines) \in Said)
          BY DEF ScriptInv, OnStream, RanOK
        <5>2. Echoed(stream, key).lines \in Seq(StreamLines)
          BY <5>1, <1>5, EchoTyped
        <5> QED
          BY <5>2, ConcatProperties
      <4> QED
        BY <4>1, <4>2 DEF Followed
    <3> QED
      BY <2>1, <2>3, <3>1
  <2> QED
    BY <1>2, <2>2, <2>3
<1> HIDE DEF key, begins, open
<1>11. CASE \E kept \in AllKept : Did(kept, Captured(kept))
  <2>1. PICK kept \in AllKept : Did(kept, Captured(kept))
    BY <1>11
  <2> DEFINE text == Captured(kept)
             line == <<"encoded", kept>>
  <2>2. line \in StreamLines /\ ~Starting(line) /\ line[1] = "encoded" /\ line[2] = kept
    BY DEF StreamLines, Starting
  <2>3. text = <<line>>
    BY DEF Captured
  <2> HIDE DEF text, line
  <2>4. text \in Seq(StreamLines) /\ Len(text) = 1 /\ text[1] = line
    BY <2>2, <2>3
  <2>5. \A i \in 1 .. Len(text) : ~Starting(text[i])
    BY <2>2, <2>4
  <2>6. ASSUME begins PROVE Decoded(key, text) = kept
    BY <1>5, <1>8, <2>2, <2>4, <2>6, NoSectionIsNoMark DEF Decoded, IsCustom
  <2>7. kept \in Outputs
    BY DEF Outputs
  <2>8. Ran(key, kept, begins /\ ~open, begins) /\ Recorded(to_run \ {c}, Followed(Echoed(stream, key), text, open))
    BY <2>1 DEF text
  <2> HIDE DEF Did
  <2> QED
    BY <1>1, <1>3, <1>5, <1>6, <1>7, <1>8, <1>9, <2>4, <2>5, <2>6, <2>7, <2>8, CommandRan
<1>12. CASE Did(<<>>, <<>>)
  <2>1. <<>> \in Seq(StreamLines) /\ <<>> \in Outputs /\ Len(<<>>) = 0
    BY DEF Outputs
  <2>2. Decoded(key, <<>>) = <<>>
    BY <2>1 DEF Decoded
  <2>3. Ran(key, <<>>, begins /\ ~open, begins) /\ Recorded(to_run \ {c}, Followed(Echoed(stream, key), <<>>, open))
    BY <1>12
  <2> DEFINE text == <<>>
             output == <<>>
  <2>4. text \in Seq(StreamLines) /\ output \in Outputs /\ (\A i \in 1 .. Len(text) : ~Starting(text[i]))
        /\ Decoded(key, text) = output
        /\ Ran(key, output, begins /\ ~open, begins) /\ Recorded(to_run \ {c}, Followed(Echoed(stream, key), text, open))
    BY <2>1, <2>2, <2>3
  <2> HIDE DEF Did, text, output
  <2> QED
    BY <1>1, <1>3, <1>5, <1>6, <1>7, <1>8, <1>9, <2>4, CommandRan
<1> QED
  BY <1>10, <1>11, <1>12

LEMMA SkipsFileInv ==
  ASSUME ScriptAssumption, ScriptInv, SkipsFile
  PROVE  ScriptInv'
<1>1. UNCHANGED <<disabled, directoryVars, func, base, ran>>
  BY DEF SkipsFile
<1>2. PICK c \in to_run : Recorded(to_run \ {c}, stream)
  BY DEF SkipsFile
<1> DEFINE T == to_run \ {c}
           R == ran[func]
<1>3. OnStream(func, R, stream, T)
  BY DEF ScriptInv, OnStream, ToRunOK, KeysOK
<1>4. ran' = [ran EXCEPT ![func] = R]
  BY <1>1 DEF ScriptInv
<1> HIDE DEF T, R
<1>5. Recorded(T, stream)
  BY <1>2 DEF T
<1> QED
  BY <1>1, <1>3, <1>4, <1>5, FunctionGoesOn

LEMMA FunctionFailsInv ==
  ASSUME ScriptAssumption, ScriptInv, FunctionFails
  PROVE  ScriptInv'
<1>1. /\ func \in 1 .. 2 /\ func' = func /\ cmd_dir' = cmd_dir /\ bak' = bak
      /\ to_run # {} /\ to_run' = {} /\ segments' = segments
  BY DEF FunctionFails, ScriptInv, directoryVars
<1>2. /\ ran'[func] = <<>> /\ ran' = [f \in 1 .. 2 |-> ran'[f]]
      /\ \A f \in 1 .. 2 : f # func => ran'[f] = ran[f]
  BY <1>1 DEF ScriptInv, FunctionFails
<1>3. PICK first \in Seq(Sections) : \E second \in Seq(Sections) : Parts(first, second)
  BY DEF ScriptInv
<1>4. PICK second \in Seq(Sections) : Parts(first, second)
  BY <1>3
<1>5. CASE func = 1
  <2>1. first = <<>> /\ second = <<>> /\ ran'[2] = <<>>
    BY <1>1, <1>2, <1>4, <1>5 DEF Parts, ScriptInv
  <2>2. Parts(first, second)'
    BY <1>1, <1>2, <1>4, <1>5, <2>1, NothingIsExact DEF Parts
  <2>3. (\E a, b \in Seq(Sections) : Parts(a, b))'
    BY <2>2
  <2> QED
    BY <1>1, <1>2, <1>5, <2>1, <2>3 DEF ScriptInv
<1>6. CASE func = 2
  <2>1. second = <<>> /\ ran'[1] = ran[1]
    BY <1>1, <1>2, <1>4, <1>6 DEF Parts
  <2>2. Parts(first, second)'
    BY <1>1, <1>2, <1>4, <1>6, <2>1, NothingIsExact DEF Parts
  <2>3. (\E a, b \in Seq(Sections) : Parts(a, b))'
    BY <2>2
  <2> QED
    BY <1>1, <1>2, <1>6, <2>1, <2>3 DEF ScriptInv
<1> QED
  BY <1>1, <1>5, <1>6

LEMMA DirectoryInv ==
  ASSUME ScriptInv,
         cmd_dir' \in Directories \cup {NoDirectory}, bak' \in Directories \cup {NoDirectory},
         UNCHANGED <<func, to_run, stream, segments, ran>>
  PROVE  ScriptInv'
<1>1. \A first, second : Parts(first, second)' <=> Parts(first, second)
  BY DEF Parts
<1>2. (\E first, second \in Seq(Sections) : Parts(first, second))'
  BY <1>1 DEF ScriptInv
<1>3. to_run' # {} => OnStream(func, ran[func], stream, to_run)'
  BY DEF ScriptInv, OnStream
<1> QED
  BY <1>2, <1>3 DEF ScriptInv

LEMMA ScriptNextInv ==
  ASSUME ScriptAssumption, ScriptInv, [ScriptNext]_scriptVars
  PROVE  ScriptInv'
<1>1. CASE Starts
  BY <1>1, StartsInv
<1>2. CASE RunsBuiltIn
  BY <1>2, RunsBuiltInInv
<1>3. CASE RunsFile
  BY <1>3, RunsFileInv
<1>4. CASE SkipsFile
  BY <1>4, SkipsFileInv
<1>5. CASE FunctionFails
  BY <1>5, FunctionFailsInv
<1>6. CASE MovesDirAside
  BY <1>6, DirectoryInv DEF MovesDirAside, ScriptInv
<1>7. CASE MovesDirIn
  BY <1>7, DirectoryInv DEF MovesDirIn, ScriptInv
<1>8. CASE RemovesBak
  BY <1>8, DirectoryInv DEF RemovesBak, ScriptInv
<1>9. CASE UNCHANGED scriptVars
  BY <1>9, DirectoryInv DEF scriptVars, ScriptInv
<1> QED
  BY <1>1, <1>2, <1>3, <1>4, <1>5, <1>6, <1>7, <1>8, <1>9 DEF ScriptNext

LEMMA ScriptIsExact ==
  ASSUME ScriptAssumption, ScriptInv
  PROVE  SectionsAreExact
<1> SUFFICES ASSUME Finished PROVE SectionsAreExact
  BY DEF SectionsAreExact
<1>1. func = 2 /\ to_run = {}
  BY DEF Finished
<1>2. PICK first \in Seq(Sections) : \E second \in Seq(Sections) : Parts(first, second)
  BY DEF ScriptInv
<1>3. PICK second \in Seq(Sections) : Parts(first, second)
  BY <1>2
<1> DEFINE R1 == ran[1]
           R2 == ran[2]
           all == R1 \o R2
           n == Len(R1)
           m == Len(first)
<1>4. segments = first \o second /\ Exact(first, R1, 1) /\ Exact(second, R2, 2)
  BY <1>1, <1>3 DEF Parts
<1>5. R1 \in Seq(Entries) /\ R2 \in Seq(Entries)
  BY <1>4 DEF Exact
<1> HIDE DEF R1, R2
<1>6. /\ n \in Nat /\ Len(R2) \in Nat /\ Len(all) = n + Len(R2) /\ DOMAIN all = 1 .. n + Len(R2)
      /\ \A i \in 1 .. n : all[i] = R1[i]
      /\ \A i \in 1 .. Len(R2) : all[n + i] = R2[i]
      /\ \A i \in 1 .. n + Len(R2) : i \notin 1 .. n => i - n \in 1 .. Len(R2) /\ all[i] = R2[i - n]
  BY <1>5
<1>7. /\ m \in Nat /\ Len(second) \in Nat /\ Len(segments) = m + Len(second)
      /\ DOMAIN segments = 1 .. m + Len(second)
      /\ \A i \in 1 .. m : segments[i] = first[i]
      /\ \A i \in 1 .. Len(second) : segments[m + i] = second[i]
      /\ \A i \in 1 .. m + Len(second) : i \notin 1 .. m => i - m \in 1 .. Len(second) /\ segments[i] = second[i - m]
  BY <1>4
<1>8. all \in Seq(Entries) /\ segments \in Seq(Sections)
  BY <1>4, <1>5
<1> HIDE DEF all, n, m
<1>9. ASSUME NEW i \in DOMAIN all, all[i].whole
      PROVE  \E j \in DOMAIN segments : segments[j] = AsSection(all[i])
  <2>1. CASE i \in 1 .. n
    <3>1. PICK j \in 1 .. m : first[j] = AsSection(R1[i])
      BY <1>4, <1>6, <1>9, <2>1 DEF Exact, n, m
    <3>2. all[i] = R1[i] /\ j \in DOMAIN segments /\ segments[j] = first[j]
      BY <1>6, <1>7, <2>1
    <3> QED
      BY <3>1, <3>2
  <2>2. CASE i \notin 1 .. n
    <3>1. i - n \in 1 .. Len(R2) /\ all[i] = R2[i - n]
      BY <1>6, <2>2
    <3>2. PICK j \in 1 .. Len(second) : second[j] = AsSection(R2[i - n])
      BY <1>4, <1>9, <3>1 DEF Exact
    <3>3. m + j \in DOMAIN segments /\ segments[m + j] = second[j]
      BY <1>7
    <3> QED
      BY <3>1, <3>2, <3>3
  <2> QED
    BY <2>1, <2>2
<1>10. ASSUME NEW i \in DOMAIN segments, NEW j \in DOMAIN segments,
              segments[i].key \in BuiltMarks, segments[j].key = segments[i].key
       PROVE  i = j
  <2>1. \A k \in 1 .. m : first[k].key \in BuiltMarks =>
          first[k].key \in FuncMarks(1) /\ \A l \in 1 .. m : first[l].key = first[k].key => l = k
    BY <1>4 DEF Exact, m
  <2>2. \A k \in 1 .. Len(second) : second[k].key \in BuiltMarks =>
          second[k].key \in FuncMarks(2) /\ \A l \in 1 .. Len(second) : second[l].key = second[k].key => l = k
    BY <1>4 DEF Exact
  <2>3. CASE i \in 1 .. m /\ j \in 1 .. m
    BY <1>7, <1>10, <2>1, <2>3
  <2>4. CASE i \in 1 .. m /\ j \notin 1 .. m
    BY SMTT(30), <1>7, <1>10, <2>1, <2>2, <2>4, FuncMarksAre
  <2>5. CASE i \notin 1 .. m /\ j \in 1 .. m
    BY <1>7, <1>10, <2>1, <2>2, <2>5, FuncMarksAre
  <2>6. CASE i \notin 1 .. m /\ j \notin 1 .. m
    <3>1. /\ i - m \in 1 .. Len(second) /\ segments[i] = second[i - m]
          /\ j - m \in 1 .. Len(second) /\ segments[j] = second[j - m]
      BY <1>7, <2>6
    <3>2. i - m = j - m
      BY <1>10, <2>2, <3>1
    <3> QED
      BY <1>7, <3>2
  <2> QED
    BY <2>3, <2>4, <2>5, <2>6
<1>11. ASSUME NEW i \in DOMAIN all, all[i].whole, all[i].key[1] = "builtin"
       PROVE  SectionOf(all[i].key) = all[i].output
  <2> DEFINE key == all[i].key
             Found(j) == j \in DOMAIN segments /\ segments[j].key = key
                         /\ \A k \in 1 .. j - 1 : segments[k].key # key
             place == CHOOSE j \in DOMAIN segments :
                     /\ segments[j].key = key
                     /\ \A k \in 1 .. j - 1 : segments[k].key # key
  <2>1. PICK j \in DOMAIN segments : segments[j] = AsSection(all[i])
    BY <1>9, <1>11
  <2>2. segments[j].key = key /\ segments[j].output = all[i].output
    BY <2>1 DEF AsSection
  <2>3. key \in BuiltMarks
    <3>1. all[i] \in Entries
      BY <1>8
    <3>2. key \in Marks
      BY <3>1 DEF Entries
    <3>3. key \in StreamLines
      BY <3>2 DEF StreamLines
    <3> QED
      BY <1>11, <3>3, LinesAre
  <2>4. SectionOf(key) = segments[place].output
    BY DEF SectionOf
  <2> HIDE DEF key
  <2>5. \A k \in DOMAIN segments : segments[k].key = key => k = j
    BY <1>10, <2>2, <2>3
  <2>6. \A k \in 1 .. j - 1 : segments[k].key # key
    <3>1. ASSUME NEW k \in 1 .. j - 1 PROVE k \in DOMAIN segments /\ k # j
      BY <1>7
    <3> QED
      BY <2>5, <3>1
  <2>7. place = j
    BY <2>2, <2>5, <2>6
  <2> HIDE DEF place
  <2> QED
    BY <2>2, <2>4, <2>7 DEF key
<1>12. ASSUME \A i \in DOMAIN all : all[i].whole
       PROVE  segments = [i \in DOMAIN all |-> AsSection(all[i])]
  <2>1. \A i \in 1 .. n : R1[i].whole
    BY <1>6, <1>12
  <2>2. \A i \in 1 .. Len(R2) : R2[i].whole
    <3> SUFFICES ASSUME NEW i \in 1 .. Len(R2) PROVE R2[i].whole
      OBVIOUS
    <3>1. n + i \in DOMAIN all /\ all[n + i] = R2[i]
      BY <1>6
    <3> QED
      BY <1>12, <3>1
  <2>3. m = n /\ \A i \in 1 .. n : first[i] = AsSection(R1[i])
    BY <1>4, <2>1 DEF Exact, n, m
  <2>4. Len(second) = Len(R2) /\ \A i \in 1 .. Len(R2) : second[i] = AsSection(R2[i])
    BY <1>4, <2>2 DEF Exact
  <2>5. DOMAIN segments = DOMAIN all
    BY <1>6, <1>7, <2>3, <2>4
  <2>6. ASSUME NEW i \in DOMAIN all PROVE segments[i] = AsSection(all[i])
    <3>1. CASE i \in 1 .. n
      BY <1>6, <1>7, <2>3, <3>1
    <3>2. CASE i \notin 1 .. n
      <4>1. i - n \in 1 .. Len(R2) /\ all[i] = R2[i - n]
        BY <1>6, <3>2
      <4>2. segments[i] = second[i - n]
        BY <1>6, <1>7, <2>3, <2>4, <3>2
      <4> QED
        BY <2>4, <4>1, <4>2
    <3> QED
      BY <3>1, <3>2
  <2>7. segments = [i \in DOMAIN segments |-> segments[i]]
    BY <1>8
  <2> QED
    BY <2>5, <2>6, <2>7
<1> QED
  BY <1>9, <1>11, <1>12 DEF SectionsAreExact, AsSection, all, R1, R2

(* The invariant that makes the sections exact: what the parser would make *)
(* of the stream so far is what the function has run.                      *)
THEOREM ScriptInvariant == ScriptSpec => []ScriptInv
<1>1. ScriptInit => ScriptInv
  BY ScriptInitInv
<1>2. ScriptInv /\ [ScriptNext]_scriptVars => ScriptInv'
  BY ScriptNextInv, ScriptAssumption
<1> QED
  BY <1>1, <1>2, PTL DEF ScriptSpec

(* Whatever the commands print and whenever the directory is replaced,     *)
(* each section whose marker and the next one can be read comes out with   *)
(* exactly what its command printed, and when all can, nothing else does   *)
(* (parse_script_segments over the script's output).                       *)
THEOREM SectionsComeOutWhole == ScriptSpec => []SectionsAreExact
<1>1. ScriptInv => SectionsAreExact
  BY ScriptIsExact, ScriptAssumption
<1> QED
  BY <1>1, ScriptInvariant, PTL

----------------------------------------------------------------------------
(* Sums over finite sets *)

One(T) == CHOOSE x \in T : TRUE

\* g is the sum of f over each set in D, which is closed under removal.
IsSum(g, f, D) ==
  /\ g = [T \in D |-> g[T]]
  /\ \A T \in D : T # {} => T \ {One(T)} \in D
  /\ \A T \in D : g[T] = IF T = {} THEN 0 ELSE f[One(T)] + g[T \ {One(T)}]

LEMMA SumIs ==
  ASSUME NEW f, NEW S, NEW g, IsSum(g, f, SUBSET S)
  PROVE  \E h : IsSum(h, f, SUBSET S) /\ SumFunctionOnSet(f, S) = h[S]
<1> DEFINE Is(h) == h = [s \in SUBSET S |-> IF s = {} THEN 0
                                           ELSE f[CHOOSE x \in s : TRUE] + h[s \ {CHOOSE x \in s : TRUE}]]
           sums == CHOOSE h : Is(h)
<1>1. SumFunctionOnSet(f, S) = sums[S]
  BY DEF SumFunctionOnSet, FoldFunctionOnSet, MapThenFoldSet
<1>2. \A h : Is(h) <=> IsSum(h, f, SUBSET S)
  <2> TAKE h
  <2>1. \A T \in SUBSET S : T \ {One(T)} \in SUBSET S
    OBVIOUS
  <2>2. ASSUME Is(h) PROVE IsSum(h, f, SUBSET S)
    BY <2>1, <2>2 DEF IsSum, One
  <2>3. ASSUME IsSum(h, f, SUBSET S) PROVE Is(h)
    BY <2>1, <2>3 DEF IsSum, One
  <2> QED
    BY <2>2, <2>3
<1>3. Is(g)
  BY <1>2
<1>4. Is(sums)
  <2> HIDE DEF Is
  <2> QED
    BY <1>3
<1> HIDE DEF Is, sums
<1> QED
  BY <1>1, <1>2, <1>4

UpTo(S, n) == {T \in SUBSET S : Cardinality(T) <= n}

LEMMA OneLess ==
  ASSUME NEW S, IsFiniteSet(S), NEW n \in Nat, NEW T \in UpTo(S, n + 1), T # {}
  PROVE  /\ One(T) \in T /\ IsFiniteSet(T) /\ Cardinality(T) \in Nat
         /\ T \ {One(T)} \in UpTo(S, n) /\ Cardinality(T \ {One(T)}) = Cardinality(T) - 1
<1>1. One(T) \in T
  BY DEF One
<1>2. IsFiniteSet(T) /\ Cardinality(T) \in Nat /\ Cardinality(T) <= n + 1
  BY FS_Subset, FS_CardinalityType DEF UpTo
<1>3. Cardinality(T \ {One(T)}) = Cardinality(T) - 1
  BY <1>1, <1>2, FS_RemoveElement
<1>4. Cardinality(T) - 1 <= n
  BY <1>2
<1> QED
  BY <1>1, <1>2, <1>3, <1>4 DEF UpTo

LEMMA SumExists ==
  ASSUME NEW f, NEW S, IsFiniteSet(S)
  PROVE  \E g : IsSum(g, f, SUBSET S)
<1> DEFINE A == {n \in Nat : \E g : IsSum(g, f, UpTo(S, n))}
<1>1. 0 \in A
  <2>1. UpTo(S, 0) = {{}}
    <3>1. \A T \in SUBSET S : Cardinality(T) <= 0 <=> T = {}
      BY FS_Subset, FS_CardinalityType, FS_EmptySet
    <3> QED
      BY <3>1 DEF UpTo
  <2>2. IsSum([T \in {{}} |-> 0], f, {{}})
    BY DEF IsSum
  <2> QED
    BY <2>1, <2>2
<1>2. ASSUME NEW n \in Nat, n \in A PROVE n + 1 \in A
  <2>1. PICK g : IsSum(g, f, UpTo(S, n))
    BY <1>2
  <2> DEFINE h == [T \in UpTo(S, n + 1) |-> IF T = {} THEN 0 ELSE f[One(T)] + g[T \ {One(T)}]]
  <2>2. \A T \in UpTo(S, n + 1) : T # {} => T \ {One(T)} \in UpTo(S, n)
    BY OneLess
  <2>3. UpTo(S, n) \subseteq UpTo(S, n + 1)
    <3>1. \A T \in UpTo(S, n) : Cardinality(T) \in Nat
      BY FS_Subset, FS_CardinalityType DEF UpTo
    <3> QED
      BY <3>1 DEF UpTo
  <2>4. \A T \in UpTo(S, n) : h[T] = g[T]
    BY <2>1, <2>3 DEF IsSum
  <2>5. \A T \in UpTo(S, n + 1) : h[T] = IF T = {} THEN 0 ELSE f[One(T)] + h[T \ {One(T)}]
    BY <2>2, <2>4
  <2>6. h = [T \in UpTo(S, n + 1) |-> h[T]]
    OBVIOUS
  <2> HIDE DEF h
  <2>7. IsSum(h, f, UpTo(S, n + 1))
    BY <2>2, <2>3, <2>5, <2>6 DEF IsSum
  <2> QED
    BY <2>7
<1>3. Nat \subseteq A
  <2> HIDE DEF A
  <2> QED
    BY <1>1, <1>2, EachNumber
<1>4. Cardinality(S) \in Nat /\ UpTo(S, Cardinality(S)) = SUBSET S
  BY FS_Subset, FS_CardinalityType DEF UpTo
<1>5. PICK g : IsSum(g, f, UpTo(S, Cardinality(S)))
  BY <1>3, <1>4
<1> QED
  BY <1>4, <1>5

LEMMA SumsAgree ==
  ASSUME NEW f, NEW S, IsFiniteSet(S), NEW R \in SUBSET S, NEW g, NEW h,
         IsSum(g, f, SUBSET S), IsSum(h, f, SUBSET R)
  PROVE  g[R] = h[R]
<1> DEFINE A == {n \in Nat : \A T \in UpTo(R, n) : g[T] = h[T]}
<1>0. IsFiniteSet(R) /\ Cardinality(R) \in Nat /\ SUBSET R \subseteq SUBSET S
  BY FS_Subset, FS_CardinalityType
<1>1. 0 \in A
  <2>1. \A T \in UpTo(R, 0) : T = {}
    BY <1>0, FS_Subset, FS_CardinalityType, FS_EmptySet DEF UpTo
  <2>2. g[{}] = 0 /\ h[{}] = 0
    BY DEF IsSum
  <2> QED
    BY <2>1, <2>2
<1>2. ASSUME NEW n \in Nat, n \in A PROVE n + 1 \in A
  <2> SUFFICES ASSUME NEW T \in UpTo(R, n + 1) PROVE g[T] = h[T]
    OBVIOUS
  <2>0. T \in SUBSET R /\ T \in SUBSET S
    BY <1>0 DEF UpTo
  <2>1. CASE T = {}
    BY <2>0, <2>1 DEF IsSum
  <2>2. CASE T # {}
    <3>1. T \ {One(T)} \in UpTo(R, n)
      BY <1>0, <2>2, OneLess
    <3>2. g[T \ {One(T)}] = h[T \ {One(T)}]
      BY <1>2, <3>1
    <3> QED
      BY <2>0, <2>2, <3>2 DEF IsSum
  <2> QED
    BY <2>1, <2>2
<1>3. Nat \subseteq A
  <2> HIDE DEF A
  <2> QED
    BY <1>1, <1>2, EachNumber
<1>4. R \in UpTo(R, Cardinality(R))
  BY <1>0 DEF UpTo
<1> QED
  BY <1>0, <1>3, <1>4

\* What a sum is made of.
LEMMA SumUnfolds ==
  ASSUME NEW f, NEW S, IsFiniteSet(S)
  PROVE  SumFunctionOnSet(f, S) = IF S = {} THEN 0 ELSE f[One(S)] + SumFunctionOnSet(f, S \ {One(S)})
<1>1. PICK h : IsSum(h, f, SUBSET S) /\ SumFunctionOnSet(f, S) = h[S]
  BY SumExists, SumIs
<1>2. h[S] = IF S = {} THEN 0 ELSE f[One(S)] + h[S \ {One(S)}]
  BY <1>1 DEF IsSum
<1> DEFINE R == S \ {One(S)}
<1>3. IsFiniteSet(R) /\ R \in SUBSET S
  BY FS_Subset
<1> HIDE DEF R
<1>4. PICK k : IsSum(k, f, SUBSET R) /\ SumFunctionOnSet(f, R) = k[R]
  BY <1>3, SumExists, SumIs
<1>5. h[R] = k[R]
  BY <1>1, <1>3, <1>4, SumsAgree
<1> QED
  BY <1>1, <1>2, <1>4, <1>5 DEF R

\* A sum of numbers within bounds is within as many times the bounds.
LEMMA SumWithin ==
  ASSUME NEW f, NEW S, IsFiniteSet(S), NEW lo \in Int, NEW hi \in Int,
         \A x \in S : f[x] \in Int /\ lo <= f[x] /\ f[x] <= hi
  PROVE  /\ SumFunctionOnSet(f, S) \in Int
         /\ lo * Cardinality(S) <= SumFunctionOnSet(f, S)
         /\ SumFunctionOnSet(f, S) <= hi * Cardinality(S)
<1> DEFINE Good(T, n) == /\ SumFunctionOnSet(f, T) \in Int
                         /\ lo * n <= SumFunctionOnSet(f, T)
                         /\ SumFunctionOnSet(f, T) <= hi * n
           A == {n \in Nat : \A T \in UpTo(S, n) : Cardinality(T) = n => Good(T, n)}
<1>1. 0 \in A
  <2>1. \A T \in UpTo(S, 0) : T = {}
    BY FS_Subset, FS_CardinalityType, FS_EmptySet DEF UpTo
  <2>2. SumFunctionOnSet(f, {}) = 0
    BY SumUnfolds, FS_EmptySet
  <2>3. Good({}, 0)
    BY <2>2
  <2> HIDE DEF Good
  <2> QED
    BY <2>1, <2>3
<1>2. ASSUME NEW n \in Nat, n \in A PROVE n + 1 \in A
  <2> SUFFICES ASSUME NEW T \in UpTo(S, n + 1), Cardinality(T) = n + 1 PROVE Good(T, n + 1)
    OBVIOUS
  <2>1. T # {}
    BY FS_EmptySet
  <2>2. /\ One(T) \in T /\ IsFiniteSet(T) /\ T \ {One(T)} \in UpTo(S, n)
        /\ Cardinality(T \ {One(T)}) = n
    BY <2>1, OneLess
  <2>3. SumFunctionOnSet(f, T) = f[One(T)] + SumFunctionOnSet(f, T \ {One(T)})
    BY <2>1, <2>2, SumUnfolds
  <2>4. Good(T \ {One(T)}, n)
    BY <1>2, <2>2
  <2>5. One(T) \in S
    BY <2>2 DEF UpTo
  <2>6. lo * (n + 1) = lo * n + lo /\ hi * (n + 1) = hi * n + hi /\ lo * n \in Int /\ hi * n \in Int
    OBVIOUS
  <2> QED
    BY <2>3, <2>4, <2>5, <2>6
<1>3. Nat \subseteq A
  <2> HIDE DEF A
  <2> QED
    BY <1>1, <1>2, EachNumber
<1>4. Cardinality(S) \in Nat /\ S \in UpTo(S, Cardinality(S))
  BY FS_CardinalityType DEF UpTo
<1>5. Good(S, Cardinality(S))
  BY <1>3, <1>4
<1> QED
  BY <1>5

LEMMA Quotients ==
  ASSUME NEW a \in Int, NEW d \in Nat \ {0}
  PROVE  a \div d \in Int /\ d * (a \div d) <= a /\ a < d * (a \div d) + d
OBVIOUS

LEMMA QuotientsGrow ==
  ASSUME NEW a \in Int, NEW b \in Int, a <= b, NEW d \in Nat \ {0}
  PROVE  a \div d <= b \div d
OBVIOUS

LEMMA ImageIsFinite ==
  ASSUME NEW S, IsFiniteSet(S), NEW f
  PROVE  IsFiniteSet({f[x] : x \in S})
<1> DEFINE T == {f[x] : x \in S}
           g == [x \in S |-> f[x]]
<1>1. g \in Surjection(S, T)
  BY DEF Surjection
<1> QED
  BY <1>1, FS_Surjection

LEMMA GreatestOf ==
  ASSUME NEW T \in SUBSET Int, IsFiniteSet(T), T # {}
  PROVE  Max(T) \in T /\ \A t \in T : Max(T) >= t
<1> DEFINE A == {n \in Nat : \A R \in UpTo(T, n) : R # {} => \E m \in R : \A t \in R : m >= t}
<1>1. 0 \in A
  <2> SUFFICES ASSUME NEW R \in UpTo(T, 0) PROVE R = {}
    OBVIOUS
  <2>1. IsFiniteSet(R) /\ Cardinality(R) \in Nat /\ Cardinality(R) <= 0
    BY FS_Subset, FS_CardinalityType DEF UpTo
  <2> QED
    BY <2>1, FS_EmptySet
<1>2. ASSUME NEW n \in Nat, n \in A PROVE n + 1 \in A
  <2> SUFFICES ASSUME NEW R \in UpTo(T, n + 1), R # {} PROVE \E m \in R : \A t \in R : m >= t
    OBVIOUS
  <2>1. One(R) \in R /\ R \ {One(R)} \in UpTo(T, n) /\ R \subseteq Int
    BY OneLess DEF UpTo
  <2> DEFINE S == R \ {One(R)}
  <2>2. CASE S = {}
    <3>1. \A t \in R : t = One(R)
      BY <2>2
    <3>2. One(R) \in Int
      BY <2>1
    <3> QED
      BY <2>1, <3>1, <3>2
  <2>3. CASE S # {}
    <3>1. PICK m \in S : \A t \in S : m >= t
      BY <1>2, <2>1, <2>3
    <3>2. \A t \in R : t \in S \/ t = One(R)
      OBVIOUS
    <3>3. m \in Int /\ One(R) \in Int /\ m \in R
      BY <2>1
    <3>4. CASE m >= One(R)
      BY <3>1, <3>2, <3>3, <3>4
    <3>5. CASE ~(m >= One(R))
      <4>1. \A t \in R : One(R) >= t
        BY <2>1, <3>1, <3>2, <3>3, <3>5
      <4> QED
        BY <2>1, <4>1
    <3> QED
      BY <3>4, <3>5
  <2> QED
    BY <2>2, <2>3
<1>3. Nat \subseteq A
  <2> HIDE DEF A
  <2> QED
    BY <1>1, <1>2, EachNumber
<1>4. Cardinality(T) \in Nat /\ T \in UpTo(T, Cardinality(T))
  BY FS_CardinalityType DEF UpTo
<1>5. \E m \in T : \A t \in T : m >= t
  BY <1>3, <1>4
<1> QED
  BY <1>5 DEF Max

LEMMA LeastOf ==
  ASSUME NEW T \in SUBSET Int, IsFiniteSet(T), T # {}
  PROVE  Min(T) \in T /\ \A t \in T : Min(T) <= t
<1> DEFINE U == {-t : t \in T}
<1>1. U \in SUBSET Int /\ U # {} /\ IsFiniteSet(U)
  <2> DEFINE minus == [t \in T |-> -t]
  <2>1. U = {minus[x] : x \in T}
    OBVIOUS
  <2> HIDE DEF minus
  <2>2. IsFiniteSet(U)
    BY <2>1, ImageIsFinite
  <2>3. \E t \in T : -t \in U
    OBVIOUS
  <2>4. U \subseteq Int
    OBVIOUS
  <2> QED
    BY <2>2, <2>3, <2>4
<1>2. PICK m \in U : \A u \in U : m >= u
  <2> HIDE DEF U
  <2> QED
    BY <1>1, GreatestOf
<1>3. PICK k \in T : m = -k
  OBVIOUS
<1>4. \A t \in T : k <= t
  <2> TAKE t \in T
  <2>1. -t \in U
    OBVIOUS
  <2>2. -k >= -t
    BY <1>2, <1>3, <2>1
  <2> QED
    BY <2>2
<1> QED
  BY <1>4 DEF Min

\* The newest n of the buckets.
LEMMA NewestAre ==
  ASSUME NEW B \in SUBSET Int, IsFiniteSet(B), NEW n \in Nat \ {0}
  PROVE  LET N == NewestBuckets(B, n)
         IN  /\ N \subseteq B /\ IsFiniteSet(N) /\ Cardinality(N) \in Nat /\ Cardinality(N) <= n
             /\ \A b \in B \ N : Cardinality(N) >= n /\ \A c \in N : b < c
<1> DEFINE N == NewestBuckets(B, n)
           Above(b) == {c \in B : c > b}
<1>1. N = {b \in B : Cardinality(Above(b)) < n}
  BY DEF NewestBuckets
<1>2. \A b \in B : IsFiniteSet(Above(b)) /\ Cardinality(Above(b)) \in Nat
  BY FS_Subset, FS_CardinalityType
<1>3. N \in SUBSET Int /\ N \subseteq B /\ IsFiniteSet(N) /\ Cardinality(N) \in Nat
  BY <1>1, FS_Subset, FS_CardinalityType
<1>4. Cardinality(N) <= n
  <2>1. CASE N = {}
    BY <2>1, FS_EmptySet
  <2>2. CASE N # {}
    <3>1. Min(N) \in N /\ \A t \in N : Min(N) <= t
      BY <1>3, <2>2, LeastOf
    <3>2. N \ {Min(N)} \subseteq Above(Min(N))
      BY <1>3, <3>1
    <3>3. Cardinality(N \ {Min(N)}) <= Cardinality(Above(Min(N)))
      BY <1>2, <1>3, <3>1, <3>2, FS_Subset
    <3>4. Cardinality(N \ {Min(N)}) = Cardinality(N) - 1
      BY <1>3, <3>1, FS_RemoveElement
    <3>5. Cardinality(Above(Min(N))) < n /\ Cardinality(Above(Min(N))) \in Nat
      BY <1>1, <1>2, <1>3, <3>1
    <3> QED
      BY <1>3, <3>3, <3>4, <3>5
  <2> QED
    BY <2>1, <2>2
<1>5. ASSUME NEW b \in B \ N, NEW c \in N PROVE b < c
  <2> SUFFICES ASSUME c <= b PROVE FALSE
    BY <1>3
  <2>1. Above(b) \subseteq Above(c)
    <3>1. b \in Int /\ c \in Int
      BY <1>3
    <3>2. \A d \in B : d > b => d > c
      BY <3>1
    <3> QED
      BY <3>2
  <2>2. Cardinality(Above(b)) <= Cardinality(Above(c))
    BY <1>2, <1>3, <2>1, FS_Subset
  <2>3. Cardinality(Above(c)) < n /\ ~(Cardinality(Above(b)) < n)
    BY <1>1
  <2> QED
    BY <1>2, <1>3, <2>2, <2>3
<1>6. ASSUME NEW b \in B \ N PROVE Cardinality(N) >= n
  <2>1. B \ N \in SUBSET Int /\ IsFiniteSet(B \ N) /\ B \ N # {}
    BY FS_Subset
  <2> DEFINE x == Max(B \ N)
  <2>2. x \in B \ N /\ \A t \in B \ N : x >= t
    BY <2>1, GreatestOf
  <2> HIDE DEF x
  <2>3. Above(x) \subseteq N
    BY <2>1, <2>2
  <2>4. Cardinality(Above(x)) <= Cardinality(N)
    BY <1>3, <2>3, FS_Subset
  <2>5. ~(Cardinality(Above(x)) < n) /\ Cardinality(Above(x)) \in Nat
    BY <1>1, <1>2, <2>2
  <2> QED
    BY <1>3, <2>4, <2>5
<1> QED
  BY <1>3, <1>4, <1>5, <1>6

\* Speeds do not exceed what arrived between the readings of two buckets.
LEMMA AveragesGrowWith ==
  ASSUME NEW m \in Nat \ {0}, NEW n \in Nat \ {0}, NEW k \in Nat,
         NEW s \in Int, NEW t \in Int, NEW lo \in Int, NEW hi \in Int, NEW d \in Int,
         lo * m <= s, t <= hi * n, hi - lo <= d, 0 <= d
  PROVE  LET diff == t * m - s * n
             num == IF diff < 0 THEN 0 ELSE diff
         IN  num \in Nat /\ num * k <= d * (m * n * k)
<1> DEFINE diff == t * m - s * n
<1>1. t * m <= hi * n * m
  OBVIOUS
<1>2. s * n >= lo * m * n
  OBVIOUS
<1>3. diff \in Int /\ diff <= (hi - lo) * (m * n)
  BY <1>1, <1>2
<1>4. (hi - lo) * (m * n) <= d * (m * n) /\ d * (m * n) >= 0 /\ d * (m * n) \in Int
  <2>1. m * n \in Nat
    OBVIOUS
  <2> QED
    BY <2>1
<1>5. diff <= d * (m * n)
  <2>1. (hi - lo) * (m * n) \in Int
    OBVIOUS
  <2> HIDE DEF diff
  <2> QED
    BY <1>3, <1>4, <2>1
<1> HIDE DEF diff
<1> DEFINE num == IF diff < 0 THEN 0 ELSE diff
<1>6. num \in Nat /\ num <= d * (m * n)
  BY <1>3, <1>4, <1>5
<1> HIDE DEF num
<1>7. num * k <= (d * (m * n)) * k
  BY <1>4, <1>6
<1>8. (d * (m * n)) * k = d * (m * n * k)
  OBVIOUS
<1> QED
  BY <1>6, <1>7, <1>8 DEF num, diff

----------------------------------------------------------------------------
(* The history of the table *)

Rows == [at : Nat, rx : Nat, flowed : Nat]

\* Rows are in the order of time; what was lost by resets only grows.
RowsOK ==
  /\ seconds \in Nat /\ rx \in Nat /\ flowed \in Nat
  /\ table \in Seq(Rows)
  /\ \A i, j \in DOMAIN table : i < j =>
       /\ table[i].at < table[j].at
       /\ table[i].flowed <= table[j].flowed
       /\ table[j].rx - table[i].rx <= table[j].flowed - table[i].flowed
  /\ \A i \in DOMAIN table :
       /\ table[i].at <= seconds
       /\ table[i].flowed <= flowed
       /\ rx - table[i].rx <= flowed - table[i].flowed

LEMMA AskedIs ==
  ASSUME NEW asked \in Asked
  PROVE  /\ MinutesOf(asked) \in Nat \ {0} /\ bucket_secs(asked) \in Nat \ {0}
         /\ PointsOf(asked) \in Nat \ {0} /\ PointsOf(asked) <= MAX_POINTS
         /\ PointsOf(asked) <= asked[2] \/ PointsOf(asked) = MinPoints
         /\ PointsOf(asked) >= asked[2] \/ PointsOf(asked) = MAX_POINTS
<1>1. asked[1] \in Int /\ asked[2] \in Int
  BY HistoryAssumption
<1>2. MinutesOf(asked) \in Nat \ {0}
  BY <1>1, HistoryAssumption DEF MinutesOf, Clamped
<1>3. PointsOf(asked) \in Nat \ {0} /\ PointsOf(asked) <= MAX_POINTS
      /\ (PointsOf(asked) <= asked[2] \/ PointsOf(asked) = MinPoints)
      /\ (PointsOf(asked) >= asked[2] \/ PointsOf(asked) = MAX_POINTS)
  BY <1>1, HistoryAssumption DEF PointsOf, Clamped
<1> DEFINE a == MinutesOf(asked) * MinuteSecs
           n == PointsOf(asked)
<1>4. a \in Nat \ {0}
  BY <1>2, HistoryAssumption
<1> HIDE DEF a, n
<1>5. n \in Nat \ {0}
  BY <1>3 DEF n
<1>6. (a + n - 1) \div n \in Int /\ n \div n = 1 /\ n <= a + n - 1
  BY <1>4, <1>5, Quotients
<1>7. n \div n <= (a + n - 1) \div n
  BY <1>4, <1>5, <1>6, QuotientsGrow
<1>8. bucket_secs(asked) \in Nat \ {0}
  BY <1>6, <1>7 DEF bucket_secs, a, n
<1> QED
  BY <1>2, <1>3, <1>8

LEMMA GreatestIs ==
  ASSUME NEW T \in SUBSET Int, NEW m \in T, \A t \in T : m >= t
  PROVE  Max(T) = m
<1>1. Max(T) \in T /\ \A t \in T : Max(T) >= t
  BY DEF Max
<1>2. Max(T) \in Int /\ m \in Int /\ Max(T) >= m /\ m >= Max(T)
  BY <1>1
<1> QED
  BY <1>2

LEMMA OnePointEach ==
  ASSUME NEW K, IsFiniteSet(K), NEW v
  PROVE  Cardinality({[bucket |-> b, rx_speed |-> v[b]] : b \in K}) = Cardinality(K)
<1> DEFINE P == {[bucket |-> b, rx_speed |-> v[b]] : b \in K}
           f == [b \in K |-> [bucket |-> b, rx_speed |-> v[b]]]
<1>1. f \in Bijection(K, P)
  <2>1. f \in Surjection(K, P)
    BY DEF Surjection
  <2>2. f \in Injection(K, P)
    <3>1. \A b \in K : f[b].bucket = b
      OBVIOUS
    <3>2. f \in [K -> P]
      OBVIOUS
    <3> HIDE DEF f, P
    <3>3. \A a, b \in K : f[a] = f[b] => a = b
      BY <3>1
    <3> QED
      BY <3>2, <3>3 DEF Injection, IsInjective
  <2> QED
    BY <2>1, <2>2 DEF Bijection
<1> QED
  BY <1>1, FS_Bijection DEF ExistsBijection

LEMMA RowsAre ==
  ASSUME RowsOK
  PROVE  /\ IsFiniteSet(DOMAIN table) /\ DOMAIN table \subseteq Int
         /\ \A i \in DOMAIN table : table[i].at \in Nat /\ table[i].rx \in Nat /\ table[i].flowed \in Nat
<1>1. DOMAIN table = 1 .. Len(table) /\ Len(table) \in Nat
  BY DEF RowsOK
<1>2. IsFiniteSet(1 .. Len(table))
  BY <1>1, FS_Interval
<1>3. \A i \in DOMAIN table : table[i] \in Rows
  BY DEF RowsOK
<1> QED
  BY <1>1, <1>2, <1>3 DEF Rows

\* Rows in a later bucket come later.
LEMMA LaterBuckets ==
  ASSUME RowsOK, NEW asked \in Asked, NEW i \in DOMAIN table, NEW j \in DOMAIN table,
         table[i].at \div bucket_secs(asked) < table[j].at \div bucket_secs(asked)
  PROVE  i < j /\ table[i].at < table[j].at
<1>1. table[i].at \in Nat /\ table[j].at \in Nat /\ i \in Int /\ j \in Int
  BY RowsAre
<1>2. bucket_secs(asked) \in Nat \ {0}
  BY AskedIs
<1> DEFINE d == bucket_secs(asked)
           x == table[i].at
           y == table[j].at
<1>3. x < y
  <2>1. x \in Nat /\ y \in Nat /\ d \in Nat \ {0} /\ x \div d < y \div d
    BY <1>1, <1>2
  <2> HIDE DEF x, y, d
  <2>2. SUFFICES ASSUME y <= x PROVE FALSE
    BY <2>1
  <2>3. y \div d <= x \div d /\ x \div d \in Int /\ y \div d \in Int
    BY <2>1, <2>2, QuotientsGrow, Quotients
  <2> QED
    BY <2>1, <2>3
<1>4. ~(j < i) /\ i # j
  BY <1>1, <1>3 DEF RowsOK
<1> QED
  BY <1>1, <1>3, <1>4

LEMMA LaterInWindow ==
  ASSUME RowsOK, NEW m \in Nat, NEW i \in DOMAIN table, NEW j \in DOMAIN table,
         InWindow(table[i], m), table[i].at <= table[j].at
  PROVE  InWindow(table[j], m)
<1> DEFINE w == (seconds - m * MinuteSecs) \div DaySecs
<1>1. table[i].at \in Nat /\ table[j].at \in Nat /\ DaySecs \in Nat \ {0} /\ w \in Int
  <2>1. seconds - m * MinuteSecs \in Int
    BY HistoryAssumption DEF RowsOK
  <2> QED
    BY <2>1, RowsAre, HistoryAssumption, Quotients
<1> DEFINE x == table[i].at
           y == table[j].at
<1>2. x \in Int /\ y \in Int /\ x <= y
  BY <1>1
<1> HIDE DEF w, x, y
<1>3. x \div DaySecs <= y \div DaySecs /\ x \div DaySecs \in Int /\ y \div DaySecs \in Int
  BY <1>1, <1>2, QuotientsGrow, Quotients
<1>4. x \div DaySecs >= w
  BY DEF InWindow, w, x
<1>5. y \div DaySecs >= w
  BY <1>1, <1>3, <1>4
<1> QED
  BY <1>5 DEF InWindow, w, y

LEMMA RecentInWindow ==
  ASSUME RowsOK, NEW m \in Nat, NEW i \in DOMAIN table, table[i].at >= seconds - m * MinuteSecs
  PROVE  InWindow(table[i], m)
<1>1. table[i].at \in Int /\ seconds - m * MinuteSecs \in Int /\ DaySecs \in Nat \ {0}
  BY RowsAre, HistoryAssumption DEF RowsOK
<1> DEFINE x == table[i].at
           y == seconds - m * MinuteSecs
<1>2. x \in Int /\ y \in Int /\ y <= x
  BY <1>1
<1> HIDE DEF x, y
<1>3. y \div DaySecs <= x \div DaySecs /\ x \div DaySecs \in Int /\ y \div DaySecs \in Int
  BY <1>1, <1>2, QuotientsGrow, Quotients
<1>4. x \div DaySecs >= y \div DaySecs
  BY <1>3
<1> QED
  BY <1>4 DEF InWindow, x, y

LEMMA BucketsAre ==
  ASSUME RowsOK, NEW asked \in Asked
  PROVE  /\ BucketsOf(asked) \in SUBSET Nat /\ IsFiniteSet(BucketsOf(asked))
         /\ \A b : b \in BucketsOf(asked) <=> RowsIn(b, asked) # {}
         /\ \A b : RowsIn(b, asked) \subseteq DOMAIN table /\ IsFiniteSet(RowsIn(b, asked))
<1> DEFINE d == bucket_secs(asked)
           W == {j \in DOMAIN table : InWindow(table[j], MinutesOf(asked))}
           f == [i \in W |-> table[i].at \div d]
<1>1. d \in Nat \ {0}
  BY AskedIs
<1>2. \A i \in DOMAIN table : table[i].at \div d \in Nat
  <2> HIDE DEF d
  <2> TAKE i \in DOMAIN table
  <2>1. table[i].at \in Nat
    BY RowsAre
  <2> QED
    BY <1>1, <2>1
<1>3. W \subseteq DOMAIN table /\ IsFiniteSet(W)
  BY RowsAre, FS_Subset
<1>4. BucketsOf(asked) = {f[i] : i \in W}
  BY DEF BucketsOf
<1>5. IsFiniteSet(BucketsOf(asked))
  <2> HIDE DEF f, W
  <2> QED
    BY <1>3, <1>4, ImageIsFinite
<1>6. BucketsOf(asked) \in SUBSET Nat
  BY <1>2 DEF BucketsOf
<1>7. \A b : b \in BucketsOf(asked) <=> RowsIn(b, asked) # {}
  BY DEF BucketsOf, RowsIn
<1>8. \A b : RowsIn(b, asked) \subseteq DOMAIN table
  BY DEF RowsIn
<1>9. \A b : IsFiniteSet(RowsIn(b, asked))
  BY <1>8, RowsAre, FS_Subset
<1> QED
  BY <1>5, <1>6, <1>7, <1>8, <1>9

\* The bucket of rows before one is what the answer compares it with.
LEMMA LastBefore ==
  ASSUME RowsOK, NEW asked \in Asked, NEW b \in BucketsOf(asked),
         {c \in BucketsOf(asked) : c < b} # {}
  PROVE  LET last == Max({c \in BucketsOf(asked) : c < b})
         IN  /\ last \in BucketsOf(asked) /\ last < b
             /\ Max({table[i].at \div bucket_secs(asked) : i \in DOMAIN table} \cap (0 .. b - 1)) = last
<1> DEFINE d == bucket_secs(asked)
           B == BucketsOf(asked)
           E == {c \in B : c < b}
           last == Max(E)
           T == {table[i].at \div d : i \in DOMAIN table} \cap (0 .. b - 1)
<1>0. d \in Nat \ {0} /\ B \in SUBSET Nat /\ IsFiniteSet(B) /\ b \in Nat
  BY AskedIs, BucketsAre
<1>1. E \in SUBSET Int /\ IsFiniteSet(E) /\ E # {}
  BY <1>0, FS_Subset
<1>2. last \in E /\ \A c \in E : last >= c
  <2> HIDE DEF E
  <2> QED
    BY <1>1, GreatestOf
<1>3. last \in B /\ last < b /\ last \in Nat
  BY <1>0, <1>2
<1>4. PICK k \in DOMAIN table : InWindow(table[k], MinutesOf(asked)) /\ table[k].at \div d = last
  <2> HIDE DEF last
  <2> QED
    BY <1>3 DEF BucketsOf
<1>5. last \in T
  <2> HIDE DEF last, d
  <2> QED
    BY <1>0, <1>3, <1>4
<1>6. ASSUME NEW t \in T PROVE last >= t
  <2>1. PICK j \in DOMAIN table : table[j].at \div d = t
    OBVIOUS
  <2>2. t \in Nat /\ t < b
    BY <1>0
  <2> SUFFICES ASSUME last < t PROVE FALSE
    BY <1>3, <2>2
  <2> HIDE DEF last
  <2>3. table[k].at < table[j].at
    BY <1>4, <2>1, LaterBuckets
  <2>4. MinutesOf(asked) \in Nat /\ table[k].at <= table[j].at
    BY <2>3, AskedIs, RowsAre
  <2>5. InWindow(table[j], MinutesOf(asked))
    BY <1>4, <2>4, LaterInWindow
  <2>6. t \in B
    BY <2>1, <2>5 DEF BucketsOf
  <2>7. last >= t
    BY <1>2, <2>2, <2>6
  <2> QED
    BY <1>3, <2>2, <2>7
<1>7. T \in SUBSET Int
  BY <1>0
<1>8. Max(T) = last
  <2> HIDE DEF T, last
  <2> QED
    BY <1>5, <1>6, <1>7, GreatestIs
<1> QED
  BY <1>3, <1>8

LEMMA SpeedIsTrue ==
  ASSUME RowsOK, NEW asked \in Asked, NEW b \in BucketsOf(asked), NEW c \in BucketsOf(asked), c < b
  PROVE  NoMoreThan(RateBetween(Average(RowsIn(c, asked)), Average(RowsIn(b, asked)), (b - c) * bucket_secs(asked)),
                    (b - c) * bucket_secs(asked),
                    Max({table[i].flowed : i \in RowsIn(b, asked)}) - Min({table[i].flowed : i \in RowsIn(c, asked)}))
<1> DEFINE R == RowsIn(c, asked)
           S == RowsIn(b, asked)
           k == (b - c) * bucket_secs(asked)
           f == [i \in R |-> table[i].rx]
           g == [i \in S |-> table[i].rx]
           x == [i \in R |-> table[i].flowed]
           y == [i \in S |-> table[i].flowed]
           lo == Min({f[i] : i \in R})
           hi == Max({g[i] : i \in S})
           from == Min({x[i] : i \in R})
           to == Max({y[i] : i \in S})
           m == Cardinality(R)
           n == Cardinality(S)
           s == SumFunctionOnSet(f, R)
           t == SumFunctionOnSet(g, S)
<1>1. /\ IsFiniteSet(R) /\ R # {} /\ R \subseteq DOMAIN table
      /\ IsFiniteSet(S) /\ S # {} /\ S \subseteq DOMAIN table
      /\ b \in Nat /\ c \in Nat
  BY BucketsAre
<1>2. k \in Nat
  BY <1>1, AskedIs
<1>3. m \in Nat \ {0} /\ n \in Nat \ {0}
  BY <1>1, FS_CardinalityType, FS_EmptySet
<1>4. \A i \in R : f[i] \in Int /\ x[i] \in Int
  BY <1>1, RowsAre
<1>5. \A i \in S : g[i] \in Int /\ y[i] \in Int
  BY <1>1, RowsAre
<1>6. ASSUME NEW i \in R, NEW j \in S
      PROVE  g[j] - f[i] <= y[j] - x[i] /\ x[i] <= y[j]
  <2>1. table[i].at \div bucket_secs(asked) = c /\ table[j].at \div bucket_secs(asked) = b
    BY DEF RowsIn
  <2>2. i < j
    BY <1>1, <2>1, LaterBuckets
  <2> QED
    BY <1>1, <2>2 DEF RowsOK
<1> HIDE DEF f, g, x, y, R, S, k
<1>7. PICK i \in R : lo = f[i] /\ \A l \in R : lo <= f[l]
  <2>1. {f[l] : l \in R} \in SUBSET Int /\ {f[l] : l \in R} # {} /\ IsFiniteSet({f[l] : l \in R})
    BY <1>1, <1>4, ImageIsFinite
  <2>2. lo \in {f[l] : l \in R} /\ \A v \in {f[l] : l \in R} : lo <= v
    BY <2>1, LeastOf
  <2> HIDE DEF lo
  <2> QED
    BY <2>2
<1>8. PICK j \in S : hi = g[j] /\ \A l \in S : hi >= g[l]
  <2>1. {g[l] : l \in S} \in SUBSET Int /\ {g[l] : l \in S} # {} /\ IsFiniteSet({g[l] : l \in S})
    BY <1>1, <1>5, ImageIsFinite
  <2>2. hi \in {g[l] : l \in S} /\ \A v \in {g[l] : l \in S} : hi >= v
    BY <2>1, GreatestOf
  <2> HIDE DEF hi
  <2> QED
    BY <2>2
<1>9. from \in Int /\ \A l \in R : from <= x[l]
  <2>1. {x[l] : l \in R} \in SUBSET Int /\ {x[l] : l \in R} # {} /\ IsFiniteSet({x[l] : l \in R})
    BY <1>1, <1>4, ImageIsFinite
  <2> QED
    BY <2>1, LeastOf
<1>10. to \in Int /\ \A l \in S : to >= y[l]
  <2>1. {y[l] : l \in S} \in SUBSET Int /\ {y[l] : l \in S} # {} /\ IsFiniteSet({y[l] : l \in S})
    BY <1>1, <1>5, ImageIsFinite
  <2> QED
    BY <2>1, GreatestOf
<1> HIDE DEF from, to, lo, hi, m, n, s, t
<1>11. lo \in Int /\ hi \in Int /\ hi - lo <= to - from /\ 0 <= to - from
  <2>1. g[j] - f[i] <= y[j] - x[i] /\ x[i] <= y[j]
    BY <1>6
  <2>2. from <= x[i] /\ to >= y[j]
    BY <1>9, <1>10
  <2> QED
    BY <1>4, <1>5, <1>7, <1>8, <1>9, <1>10, <2>1, <2>2
<1>12. s \in Int /\ lo * m <= s
  <2>1. \A l \in R : f[l] \in Int /\ lo <= f[l] /\ f[l] <= Max({f[q] : q \in R}) /\ Max({f[q] : q \in R}) \in Int
    <3>1. {f[l] : l \in R} \in SUBSET Int /\ {f[l] : l \in R} # {} /\ IsFiniteSet({f[l] : l \in R})
      BY <1>1, <1>4, ImageIsFinite
    <3>2. Max({f[q] : q \in R}) \in {f[q] : q \in R} /\ \A v \in {f[q] : q \in R} : Max({f[q] : q \in R}) >= v
      BY <3>1, GreatestOf
    <3> QED
      BY <1>4, <1>7, <3>1, <3>2
  <2> QED
    BY <1>1, <1>11, <2>1, SumWithin DEF s, m
<1>13. t \in Int /\ t <= hi * n
  <2>1. \A l \in S : g[l] \in Int /\ hi >= g[l] /\ g[l] >= Min({g[q] : q \in S}) /\ Min({g[q] : q \in S}) \in Int
    <3>1. {g[l] : l \in S} \in SUBSET Int /\ {g[l] : l \in S} # {} /\ IsFiniteSet({g[l] : l \in S})
      BY <1>1, <1>5, ImageIsFinite
    <3>2. Min({g[q] : q \in S}) \in {g[q] : q \in S} /\ \A v \in {g[q] : q \in S} : Min({g[q] : q \in S}) <= v
      BY <3>1, LeastOf
    <3> QED
      BY <1>5, <1>8, <3>1, <3>2
  <2> QED
    BY <1>1, <1>11, <2>1, SumWithin DEF t, n
<1> DEFINE diff == t * m - s * n
           num == IF diff < 0 THEN 0 ELSE diff
<1>14. num \in Nat /\ num * k <= (to - from) * (m * n * k)
  <2>1. to - from \in Int
    BY <1>9, <1>10
  <2> HIDE DEF k
  <2> QED
    BY <1>2, <1>3, <1>11, <1>12, <1>13, <2>1, AveragesGrowWith
<1>15. RateBetween(Average(R), Average(S), k) = Quotient(num, m * n * k)
  <2>1. DOMAIN f = R /\ DOMAIN g = S
    BY DEF f, g
  <2>2. Average(R) = [sum |-> s, count |-> m]
    BY <2>1 DEF Average, SumFunction, s, m, f
  <2>3. Average(S) = [sum |-> t, count |-> n]
    BY <2>1 DEF Average, SumFunction, t, n, g
  <2> QED
    BY <2>2, <2>3 DEF RateBetween
<1>16. /\ {table[l].flowed : l \in S} = {y[l] : l \in S}
       /\ {table[l].flowed : l \in R} = {x[l] : l \in R}
  BY DEF x, y
<1> HIDE DEF num
<1>17. NoMoreThan(RateBetween(Average(R), Average(S), k), k, to - from)
  BY <1>14, <1>15 DEF NoMoreThan, Quotient
<1> QED
  BY <1>16, <1>17 DEF from, to, R, S, k

LEMMA TableIsTrue ==
  ASSUME RowsOK
  PROVE  HistoryIsTrue
<1> SUFFICES ASSUME NEW asked \in Asked
    PROVE LET points == get_metrics_history(asked)
              bucket(row) == row.at \div bucket_secs(asked)
              older(b) == {bucket(table[i]) : i \in DOMAIN table} \cap (0 .. b - 1)
              through(b) == {table[i].flowed : i \in RowsIn(b, asked)}
          IN /\ Cardinality(points) <= MAX_POINTS
             /\ Cardinality(points) <= asked[2] \/ Cardinality(points) <= MinPoints
             /\ \A i \in DOMAIN table : table[i].at >= seconds - MinutesOf(asked) * MinuteSecs =>
                  \/ \E p \in points : p.bucket = bucket(table[i])
                  \/ /\ Cardinality(points) >= asked[2] \/ Cardinality(points) >= MAX_POINTS
                     /\ \A p \in points : bucket(table[i]) < p.bucket
             /\ \A p \in points : p.rx_speed.num # 0 =>
                  LET last == Max(older(p.bucket))
                  IN NoMoreThan(p.rx_speed, (p.bucket - last) * bucket_secs(asked),
                                Max(through(p.bucket)) - Min(through(last)))
  BY DEF HistoryIsTrue
<1> DEFINE B == BucketsOf(asked)
           n == PointsOf(asked)
           K == NewestBuckets(B, n)
           v == [b \in K |-> SpeedAt(b, asked)]
           points == get_metrics_history(asked)
           bucket(row) == row.at \div bucket_secs(asked)
<1>1. /\ n \in Nat \ {0} /\ n <= MAX_POINTS /\ MAX_POINTS \in Nat /\ MinPoints \in Nat /\ asked[2] \in Int
      /\ n <= asked[2] \/ n = MinPoints
      /\ n >= asked[2] \/ n = MAX_POINTS
  BY AskedIs, HistoryAssumption
<1>2. B \in SUBSET Nat /\ B \in SUBSET Int /\ IsFiniteSet(B)
  BY BucketsAre
<1>3. /\ K \subseteq B /\ IsFiniteSet(K) /\ Cardinality(K) \in Nat /\ Cardinality(K) <= n
      /\ \A b \in B \ K : Cardinality(K) >= n /\ \A c \in K : b < c
  <2> HIDE DEF B, n
  <2> QED
    BY <1>1, <1>2, NewestAre
<1>4. points = {[bucket |-> b, rx_speed |-> v[b]] : b \in K}
  BY DEF get_metrics_history
<1>5. Cardinality(points) = Cardinality(K)
  <2> HIDE DEF v, K, points
  <2> QED
    BY <1>3, <1>4, OnePointEach
<1>6. \A p \in points : p.bucket \in K /\ p.rx_speed = SpeedAt(p.bucket, asked)
  <2> HIDE DEF K, points
  <2> QED
    BY <1>4
<1>7. \A b \in K : \E p \in points : p.bucket = b
  <2> HIDE DEF K, points, v
  <2> TAKE b \in K
  <2>1. [bucket |-> b, rx_speed |-> v[b]] \in points
    BY <1>4
  <2>2. [bucket |-> b, rx_speed |-> v[b]].bucket = b
    OBVIOUS
  <2> QED
    BY <2>1, <2>2
<1>8. ASSUME NEW i \in DOMAIN table, table[i].at >= seconds - MinutesOf(asked) * MinuteSecs
      PROVE  \/ \E p \in points : p.bucket = bucket(table[i])
             \/ /\ Cardinality(points) >= asked[2] \/ Cardinality(points) >= MAX_POINTS
                /\ \A p \in points : bucket(table[i]) < p.bucket
  <2>1. bucket(table[i]) \in B
    <3>1. MinutesOf(asked) \in Nat
      BY AskedIs
    <3>2. InWindow(table[i], MinutesOf(asked))
      BY <1>8, <3>1, RecentInWindow
    <3> QED
      BY <3>2 DEF BucketsOf
  <2> DEFINE a == bucket(table[i])
  <2> HIDE DEF a, points, K, B, n
  <2>2. CASE a \in K
    BY <1>7, <2>2 DEF a
  <2>3. CASE a \notin K
    <3>1. Cardinality(K) >= n /\ \A c \in K : a < c
      BY <1>3, <2>1, <2>3 DEF a
    <3>2. Cardinality(points) >= asked[2] \/ Cardinality(points) >= MAX_POINTS
      BY <1>1, <1>3, <1>5, <3>1
    <3> QED
      BY <1>6, <3>1, <3>2 DEF a
  <2> QED
    BY <2>2, <2>3
<1>9. ASSUME NEW p \in points, p.rx_speed.num # 0
      PROVE  LET last == Max({bucket(table[i]) : i \in DOMAIN table} \cap (0 .. p.bucket - 1))
             IN  NoMoreThan(p.rx_speed, (p.bucket - last) * bucket_secs(asked),
                            Max({table[i].flowed : i \in RowsIn(p.bucket, asked)})
                              - Min({table[i].flowed : i \in RowsIn(last, asked)}))
  <2> DEFINE b == p.bucket
             E == {c \in B : c < b}
  <2>1. b \in K /\ b \in B /\ p.rx_speed = SpeedAt(b, asked)
    BY <1>3, <1>6
  <2>2. E # {}
    <3>1. SUFFICES ASSUME E = {} PROVE p.rx_speed.num = 0
      BY <1>9
    <3>2. SpeedAt(b, asked) = Quotient(0, 1)
      BY <3>1 DEF SpeedAt
    <3> QED
      BY <2>1, <3>2 DEF Quotient
  <2> DEFINE last == Max(E)
  <2>3. /\ last \in B /\ last < b
        /\ Max({bucket(table[i]) : i \in DOMAIN table} \cap (0 .. b - 1)) = last
    BY <2>1, <2>2, LastBefore
  <2>4. p.rx_speed = RateBetween(Average(RowsIn(last, asked)), Average(RowsIn(b, asked)), (b - last) * bucket_secs(asked))
    BY <2>1, <2>2 DEF SpeedAt
  <2> HIDE DEF last
  <2>5. NoMoreThan(p.rx_speed, (b - last) * bucket_secs(asked),
                   Max({table[i].flowed : i \in RowsIn(b, asked)}) - Min({table[i].flowed : i \in RowsIn(last, asked)}))
    BY <2>1, <2>3, <2>4, SpeedIsTrue
  <2> QED
    BY <2>3, <2>5
<1>10. /\ Cardinality(points) <= MAX_POINTS
       /\ Cardinality(points) <= asked[2] \/ Cardinality(points) <= MinPoints
  <2> HIDE DEF points, K, B, n
  <2> QED
    BY <1>1, <1>3, <1>5
<1> HIDE DEF points
<1> QED
  BY <1>8, <1>9, <1>10 DEF points

CoreTimes == [core : Cores, used : Nat, total : Nat]

\* A reading that could not be made is empty; what was made is of the cores listed.
CoresOK ==
  \/ cores = <<>>
  \/ \E list \in CoreLists :
       /\ DOMAIN cores = DOMAIN list /\ cores \in Seq(CoreTimes)
       /\ \A i \in DOMAIN cores :
            LET c == list[i]
            IN cores[i].core = c /\ counted[c] <= cores[i].used /\ cores[i].used <= ticks[c].used

UsagesOK ==
  /\ ticks \in [Cores -> [used : Nat, total : Nat]]
  /\ counted \in [Cores -> Nat]
  /\ UsageIsItsCores
  /\ CoresOK

SpeedsOK ==
  /\ \E S : series.points \in Seq(S)
  /\ Len(series.points) <= VelocityPoints
  /\ series.points # <<>> =>
       LET last == series.points[Len(series.points)]
       IN /\ last.at \in Nat /\ last.flowed \in Nat
          /\ series.net.stamps.new = last.at /\ series.net.rx.new \in Nat
          /\ last.flowed <= flowed
          /\ rx - series.net.rx.new <= flowed - last.flowed
  /\ \A i, j \in DOMAIN series.points : j = i + 1 =>
       LET old == series.points[i]
           new == series.points[j]
       IN new.rx_speed # None => NoMoreThan(new.rx_speed, new.at - old.at, new.flowed - old.flowed)

HistoryInv == RowsOK /\ UsagesOK /\ SpeedsOK

LEMMA HistoryStarts ==
  HistoryInit => HistoryInv
<1> SUFFICES ASSUME HistoryInit PROVE HistoryInv
  OBVIOUS
<1> USE DEF HistoryInit
<1>1. RowsOK
  BY DEF RowsOK
<1>2. UsagesOK
  BY DEF UsagesOK, UsageIsItsCores, CoresOK, NoTicks, NoneCounted
<1>3. SpeedsOK
  <2>1. series.points = <<>> /\ <<>> \in Seq({})
    BY DEF NoSeries
  <2>2. series.points \in Seq({}) /\ Len(series.points) = 0 /\ DOMAIN series.points = {}
    BY <2>1
  <2> QED
    BY <2>1, <2>2, HistoryAssumption DEF SpeedsOK
<1> QED
  BY <1>1, <1>2, <1>3 DEF HistoryInv

\* The host: counters grow together with what they stand for, or start anew.
LEMMA SecondKeeps ==
  HistoryInv /\ SecondPassesBy => HistoryInv'
<1> SUFFICES ASSUME HistoryInv, SecondPassesBy PROVE HistoryInv'
  OBVIOUS
<1>0. RowsOK /\ UsagesOK /\ SpeedsOK
  BY DEF HistoryInv
<1>1. PICK g \in Growths : rx' = rx + g /\ flowed' = flowed + g
  BY DEF SecondPassesBy
<1>2. PICK l \in Loads : ticks' = [c \in DOMAIN ticks |-> [used  |-> ticks[c].used + l[c].used,
                                                         total |-> ticks[c].total + l[c].total]]
  BY DEF SecondPassesBy
<1>3. g \in Nat /\ l \in [Cores -> [used : Nat, total : Nat]]
  BY HistoryAssumption
<1>4. seconds' = seconds + 1 /\ UNCHANGED <<resets, cores, series, table, counted>>
  BY DEF SecondPassesBy
<1>5. RowsOK'
  <2>1. seconds' \in Nat /\ rx' \in Nat /\ flowed' \in Nat /\ table' \in Seq(Rows)
    BY <1>0, <1>1, <1>3, <1>4 DEF RowsOK
  <2>2. ASSUME NEW i \in DOMAIN table
        PROVE table[i].at <= seconds' /\ table[i].flowed <= flowed' /\ rx' - table[i].rx <= flowed' - table[i].flowed
    <3>1. table[i].at \in Nat /\ table[i].rx \in Nat /\ table[i].flowed \in Nat
      BY <1>0, RowsAre
    <3>2. table[i].at <= seconds /\ table[i].flowed <= flowed /\ rx - table[i].rx <= flowed - table[i].flowed
      BY <1>0 DEF RowsOK
    <3>3. seconds \in Nat /\ rx \in Nat /\ flowed \in Nat
      BY <1>0 DEF RowsOK
    <3> QED
      BY <1>1, <1>3, <1>4, <3>1, <3>2, <3>3
  <2> QED
    BY <1>0, <1>4, <2>1, <2>2 DEF RowsOK
<1>6. UsagesOK'
  <2>1. ticks \in [Cores -> [used : Nat, total : Nat]]
    BY <1>0 DEF UsagesOK
  <2>2. ticks' \in [Cores -> [used : Nat, total : Nat]] /\ \A c \in Cores : ticks'[c].used >= ticks[c].used
    BY <1>2, <1>3, <2>1
  <2>3. UsageIsItsCores'
    <3>1. \A c \in Cores : counted[c] \in Nat /\ counted[c] <= ticks[c].used /\ ticks[c].used \in Nat /\ ticks'[c].used \in Nat
      BY <1>0, <2>1, <2>2 DEF UsagesOK, UsageIsItsCores
    <3>2. DOMAIN counted' = Cores /\ counted' = counted
      BY <1>0, <1>4 DEF UsagesOK
    <3>3. \A c \in Cores : counted[c] <= ticks'[c].used
      BY <2>2, <3>1
    <3> QED
      BY <3>2, <3>3 DEF UsageIsItsCores
  <2>4. CoresOK'
    <3>1. CASE cores = <<>>
      BY <1>4, <3>1 DEF CoresOK
    <3>2. CASE cores # <<>>
      <4>1. PICK list \in CoreLists :
               /\ DOMAIN cores = DOMAIN list /\ cores \in Seq(CoreTimes)
               /\ \A i \in DOMAIN cores :
                    cores[i].core = list[i] /\ counted[list[i]] <= cores[i].used /\ cores[i].used <= ticks[list[i]].used
        BY <1>0, <3>2 DEF UsagesOK, CoresOK
      <4>2. ASSUME NEW i \in DOMAIN cores PROVE cores[i].used <= ticks'[list[i]].used
        <5>1. list[i] \in Cores /\ cores[i].used \in Nat
          <6>1. list \in Seq(Cores) /\ i \in DOMAIN list
            BY <4>1, HistoryAssumption
          <6>2. cores[i] \in CoreTimes
            BY <4>1
          <6> QED
            BY <6>1, <6>2 DEF CoreTimes
        <5>2. ticks[list[i]].used \in Nat /\ ticks'[list[i]].used \in Nat /\ ticks'[list[i]].used >= ticks[list[i]].used
          BY <2>1, <2>2, <5>1
        <5> QED
          BY <4>1, <5>1, <5>2
      <4> QED
        BY <1>4, <4>1, <4>2 DEF CoresOK
    <3> QED
      BY <3>1, <3>2
  <2> QED
    BY <1>0, <1>4, <2>2, <2>3, <2>4 DEF UsagesOK
<1>7. SpeedsOK'
  <2> DEFINE last == series.points[Len(series.points)]
  <2>1. ASSUME series.points # <<>>
        PROVE  last.flowed <= flowed' /\ rx' - series.net.rx.new <= flowed' - last.flowed
    <3>1. last.flowed \in Nat /\ series.net.rx.new \in Nat /\ last.flowed <= flowed /\ rx - series.net.rx.new <= flowed - last.flowed
      BY <1>0, <2>1 DEF SpeedsOK
    <3>2. rx \in Nat /\ flowed \in Nat
      BY <1>0 DEF RowsOK
    <3> HIDE DEF last
    <3> QED
      BY <1>1, <1>3, <3>1, <3>2
  <2> QED
    BY <1>0, <1>4, <2>1 DEF SpeedsOK
<1> QED
  BY <1>5, <1>6, <1>7 DEF HistoryInv

LEMMA ResetKeeps ==
  HistoryInv /\ InterfaceResets => HistoryInv'
<1> SUFFICES ASSUME HistoryInv, InterfaceResets PROVE HistoryInv'
  OBVIOUS
<1>0. RowsOK /\ UsagesOK /\ SpeedsOK
  BY DEF HistoryInv
<1>1. rx' = 0 /\ UNCHANGED <<seconds, flowed, ticks, cores, series, table, counted>>
  BY DEF InterfaceResets
<1>2. RowsOK'
  <2>1. ASSUME NEW i \in DOMAIN table PROVE 0 - table[i].rx <= flowed - table[i].flowed
    <3>1. table[i].rx \in Nat /\ table[i].flowed \in Nat /\ table[i].flowed <= flowed /\ flowed \in Nat
      BY <1>0, RowsAre DEF RowsOK
    <3> QED
      BY <3>1
  <2> QED
    BY <1>0, <1>1, <2>1 DEF RowsOK
<1>3. UsagesOK'
  BY <1>0, <1>1 DEF UsagesOK, UsageIsItsCores, CoresOK
<1>4. SpeedsOK'
  <2> DEFINE last == series.points[Len(series.points)]
  <2>1. ASSUME series.points # <<>> PROVE 0 - series.net.rx.new <= flowed - last.flowed
    <3>1. last.flowed \in Nat /\ series.net.rx.new \in Nat /\ last.flowed <= flowed /\ flowed \in Nat
      BY <1>0, <2>1 DEF SpeedsOK, RowsOK
    <3> HIDE DEF last
    <3> QED
      BY <3>1
  <2> QED
    BY <1>0, <1>1, <2>1 DEF SpeedsOK
<1> QED
  BY <1>2, <1>3, <1>4 DEF HistoryInv

LEMMA RebootKeeps ==
  HistoryInv /\ HostReboots => HistoryInv'
<1> SUFFICES ASSUME HistoryInv, HostReboots PROVE HistoryInv'
  OBVIOUS
<1>0. RowsOK
  BY DEF HistoryInv
<1>1. /\ rx' = 0 /\ ticks' = NoTicks /\ counted' = NoneCounted /\ cores' = <<>> /\ series' = NoSeries
      /\ UNCHANGED <<seconds, flowed, table>>
  BY DEF HostReboots
<1>2. RowsOK'
  <2>1. ASSUME NEW i \in DOMAIN table PROVE 0 - table[i].rx <= flowed - table[i].flowed
    <3>1. table[i].rx \in Nat /\ table[i].flowed \in Nat /\ table[i].flowed <= flowed /\ flowed \in Nat
      BY <1>0, RowsAre DEF RowsOK
    <3> QED
      BY <3>1
  <2> QED
    BY <1>0, <1>1, <2>1 DEF RowsOK
<1>3. UsagesOK'
  BY <1>1 DEF UsagesOK, UsageIsItsCores, CoresOK, NoTicks, NoneCounted
<1>4. SpeedsOK'
  <2>1. series'.points = <<>> /\ <<>> \in Seq({})
    BY <1>1 DEF NoSeries
  <2>2. series'.points \in Seq({}) /\ Len(series'.points) = 0 /\ DOMAIN series'.points = {}
    BY <2>1
  <2> QED
    BY <2>1, <2>2, HistoryAssumption DEF SpeedsOK
<1> QED
  BY <1>2, <1>3, <1>4 DEF HistoryInv

LEMMA CleanupKeeps ==
  HistoryInv /\ OldestRowGoes => HistoryInv'
<1> SUFFICES ASSUME HistoryInv, OldestRowGoes PROVE HistoryInv'
  OBVIOUS
<1>0. RowsOK /\ UsagesOK /\ SpeedsOK
  BY DEF HistoryInv
<1>1. table # <<>> /\ table' = Tail(table) /\ UNCHANGED <<seconds, rx, flowed, ticks, resets, cores, series, counted>>
  BY DEF OldestRowGoes
<1>2. /\ table' \in Seq(Rows) /\ Len(table') = Len(table) - 1 /\ Len(table) \in Nat /\ DOMAIN table = 1 .. Len(table)
      /\ DOMAIN table' = 1 .. Len(table) - 1
      /\ \A i \in 1 .. Len(table) - 1 : table'[i] = table[i + 1]
  BY <1>0, <1>1 DEF RowsOK
<1>3. RowsOK'
  <2>1. ASSUME NEW i \in DOMAIN table' PROVE i + 1 \in DOMAIN table /\ table'[i] = table[i + 1] /\ i \in Int
    BY <1>2
  <2>2. ASSUME NEW i \in DOMAIN table', NEW j \in DOMAIN table', i < j
        PROVE  /\ table'[i].at < table'[j].at
               /\ table'[i].flowed <= table'[j].flowed
               /\ table'[j].rx - table'[i].rx <= table'[j].flowed - table'[i].flowed
    <3>1. i + 1 \in DOMAIN table /\ j + 1 \in DOMAIN table /\ i + 1 < j + 1
      BY <2>1, <2>2
    <3>2. table'[i] = table[i + 1] /\ table'[j] = table[j + 1]
      BY <2>1
    <3> QED
      BY <1>0, <3>1, <3>2 DEF RowsOK
  <2>3. \A i \in DOMAIN table' :
          table'[i].at <= seconds' /\ table'[i].flowed <= flowed' /\ rx' - table'[i].rx <= flowed' - table'[i].flowed
    BY <1>0, <1>1, <2>1 DEF RowsOK
  <2>4. seconds' \in Nat /\ rx' \in Nat /\ flowed' \in Nat /\ table' \in Seq(Rows)
    BY <1>0, <1>1, <1>2 DEF RowsOK
  <2> QED
    BY <2>2, <2>3, <2>4 DEF RowsOK
<1>4. UsagesOK' /\ SpeedsOK'
  BY <1>0, <1>1 DEF UsagesOK, UsageIsItsCores, CoresOK, SpeedsOK
<1> QED
  BY <1>3, <1>4 DEF HistoryInv

\* What a list of cores reads as.
LEMMA ReadIs ==
  ASSUME ticks \in [Cores -> [used : Nat, total : Nat]], NEW list \in CoreLists
  PROVE  /\ ReadTicks(list) \in Seq(CoreTimes) /\ DOMAIN ReadTicks(list) = DOMAIN list
         /\ Len(ReadTicks(list)) = Len(list) /\ Len(list) \in Nat /\ DOMAIN list = 1 .. Len(list)
         /\ \A i \in DOMAIN list :
              /\ list[i] \in Cores /\ ReadTicks(list)[i].core = list[i]
              /\ ReadTicks(list)[i].used = ticks[list[i]].used
<1>1. list \in Seq(Cores)
  BY HistoryAssumption
<1>2. Len(list) \in Nat /\ DOMAIN list = 1 .. Len(list) /\ \A i \in DOMAIN list : list[i] \in Cores
  BY <1>1
<1>3. \A i \in DOMAIN list : ticks[list[i]].used \in Nat /\ ticks[list[i]].total \in Nat
  BY <1>2
<1>4. \A i \in DOMAIN list : ReadTicks(list)[i] \in CoreTimes
  BY <1>2, <1>3 DEF ReadTicks, CoreTimes
<1>5. ReadTicks(list) = [i \in 1 .. Len(list) |-> ReadTicks(list)[i]]
  BY <1>2 DEF ReadTicks
<1>6. ReadTicks(list) \in Seq(CoreTimes) /\ Len(ReadTicks(list)) = Len(list) /\ DOMAIN ReadTicks(list) = DOMAIN list
  <2> DEFINE r == ReadTicks(list)
  <2>1. r \in [1 .. Len(list) -> CoreTimes]
    BY <1>2, <1>4, <1>5
  <2> HIDE DEF r
  <2>2. r \in Seq(CoreTimes) /\ DOMAIN r = 1 .. Len(list)
    BY <1>2, <2>1
  <2>3. Len(r) = Len(list)
    BY <1>2, <2>2
  <2> QED
    BY <1>2, <2>2, <2>3 DEF r
<1> QED
  BY <1>2, <1>6 DEF ReadTicks

\* A usage counts no more than the core at its place was busy between the readings.
LEMMA UsageIs ==
  ASSUME NEW p \in Nat, NEW q \in Nat, NEW prev, NEW new, prev.used = p, new.used = q,
         prev.total \in Nat, new.total \in Nat, CoreUsage(prev, new) # None
  PROVE  CoreUsage(prev, new).num \in Nat /\ CoreUsage(prev, new).num <= q - p
BY DEF CoreUsage, Quotient

LEMMA AccountedIs ==
  ASSUME CoresKeepPlaces, UsagesOK, NEW list \in CoreLists, NEW c \in Cores
  PROVE  LET a == Accounted(c, list, UsagesOf(cores, ReadTicks(list)))
         IN  a \in Nat /\ counted[c] + a <= ticks[c].used
<1> DEFINE read == ReadTicks(list)
           usages == UsagesOf(cores, read)
           i == CHOOSE j \in DOMAIN list : list[j] = c
           a == Accounted(c, list, usages)
<1> SUFFICES a \in Nat /\ counted[c] + a <= ticks[c].used
  OBVIOUS
<1>0. ticks \in [Cores -> [used : Nat, total : Nat]] /\ counted[c] \in Nat /\ counted[c] <= ticks[c].used
      /\ ticks[c].used \in Nat /\ CoresOK
  BY DEF UsagesOK, UsageIsItsCores
<1>1. CASE ~\E j \in DOMAIN list : list[j] = c /\ usages[j] # None
  <2>1. a = 0
    BY <1>1 DEF Accounted
  <2> HIDE DEF a
  <2> QED
    BY <1>0, <2>1
<1>2. CASE \E j \in DOMAIN list : list[j] = c /\ usages[j] # None
  <2>1. PICK j \in DOMAIN list : list[j] = c /\ usages[j] # None
    BY <1>2
  <2>2. i = j
    <3>1. i \in DOMAIN list /\ list[i] = c
      BY <2>1
    <3>2. \A x, y \in DOMAIN list : list[x] = list[y] => x = y
      BY HistoryAssumption DEF IsInjective
    <3> HIDE DEF i
    <3> QED
      BY <2>1, <3>1, <3>2
  <2>3. a = usages[j].num
    BY <2>1, <2>2 DEF Accounted
  <2>4. /\ read \in Seq(CoreTimes) /\ Len(read) = Len(list) /\ j \in 1 .. Len(read)
        /\ read[j].core = c /\ read[j].used = ticks[c].used /\ read[j] \in CoreTimes
    <3>1. /\ read \in Seq(CoreTimes) /\ Len(read) = Len(list) /\ Len(list) \in Nat /\ DOMAIN list = 1 .. Len(list)
          /\ read[j].core = list[j] /\ read[j].used = ticks[list[j]].used
      BY <1>0, <2>1, ReadIs
    <3> HIDE DEF read
    <3>2. read[j] \in CoreTimes
      BY <2>1, <3>1
    <3> QED
      BY <2>1, <3>1, <3>2
  <2> HIDE DEF read
  <2>5. usages[j] = CoreUsage(IF j \in 1 .. Len(cores) THEN cores[j] ELSE None, read[j])
    BY <2>4 DEF UsagesOf, CoreUsages
  <2>6. j \in 1 .. Len(cores) /\ usages[j] = CoreUsage(cores[j], read[j])
    <3>1. SUFFICES ASSUME j \notin 1 .. Len(cores) PROVE FALSE
      BY <2>5
    <3>2. usages[j] = None
      BY <2>5, <3>1 DEF CoreUsage
    <3> QED
      BY <2>1, <3>2
  <2>7. cores # <<>>
    BY <2>6
  <2>8. PICK old \in CoreLists :
           /\ DOMAIN cores = DOMAIN old /\ cores \in Seq(CoreTimes)
           /\ \A k \in DOMAIN cores :
                cores[k].core = old[k] /\ counted[old[k]] <= cores[k].used /\ cores[k].used <= ticks[old[k]].used
    BY <1>0, <2>7 DEF CoresOK
  <2>9. j \in DOMAIN cores /\ j \in DOMAIN old /\ cores[j] \in CoreTimes
    BY <2>6, <2>8
  <2>10. old[j] = c
    BY <2>1, <2>8, <2>9 DEF CoresKeepPlaces
  <2>11. counted[c] <= cores[j].used /\ cores[j].used \in Nat /\ cores[j].total \in Nat /\ read[j].total \in Nat
    BY <2>4, <2>8, <2>9, <2>10 DEF CoreTimes
  <2>12. usages[j].num \in Nat /\ usages[j].num <= ticks[c].used - cores[j].used
    <3>1. CoreUsage(cores[j], read[j]) # None
      BY <2>1, <2>6
    <3>2. /\ CoreUsage(cores[j], read[j]).num \in Nat
          /\ CoreUsage(cores[j], read[j]).num <= ticks[c].used - cores[j].used
      BY <1>0, <2>4, <2>11, <3>1, UsageIs
    <3> QED
      BY <2>6, <3>2
  <2> HIDE DEF a, usages
  <2> QED
    BY <1>0, <2>3, <2>11, <2>12
<1> QED
  BY <1>1, <1>2

LEMMA CollectKeepsUsages ==
  CoresKeepPlaces /\ UsagesOK /\ Collects => UsagesOK'
<1> SUFFICES ASSUME CoresKeepPlaces, UsagesOK, Collects PROVE UsagesOK'
  OBVIOUS
<1>1. PICK list \in CoreLists :
         /\ cores' = ReadTicks(list)
         /\ counted' = [c \in DOMAIN counted |-> counted[c] + Accounted(c, list, UsagesOf(cores, ReadTicks(list)))]
  BY DEF Collects
<1>2. ticks' = ticks
  BY DEF Collects
<1>3. ticks \in [Cores -> [used : Nat, total : Nat]] /\ counted \in [Cores -> Nat]
  BY DEF UsagesOK
<1>4. ASSUME NEW c \in Cores
      PROVE  counted'[c] \in Nat /\ counted'[c] <= ticks[c].used /\ ticks[c].used \in Nat
  <2> DEFINE a == Accounted(c, list, UsagesOf(cores, ReadTicks(list)))
  <2>1. counted'[c] = counted[c] + a
    BY <1>1, <1>3
  <2>2. a \in Nat /\ counted[c] + a <= ticks[c].used
    BY AccountedIs
  <2> HIDE DEF a
  <2> QED
    BY <1>3, <2>1, <2>2
<1>5. counted' \in [Cores -> Nat]
  <2>1. DOMAIN counted = Cores
    BY <1>3
  <2>2. counted' = [c \in Cores |-> counted'[c]]
    BY <1>1, <2>1
  <2> QED
    BY <1>4, <2>2
<1>6. UsageIsItsCores'
  BY <1>2, <1>4, <1>5 DEF UsageIsItsCores
<1>7. CoresOK'
  <2>1. /\ cores' \in Seq(CoreTimes) /\ DOMAIN cores' = DOMAIN list
        /\ \A i \in DOMAIN list : list[i] \in Cores /\ cores'[i].core = list[i] /\ cores'[i].used = ticks[list[i]].used
    BY <1>1, <1>3, ReadIs
  <2>2. \A i \in DOMAIN cores' : counted'[list[i]] <= cores'[i].used /\ cores'[i].used <= ticks'[list[i]].used
    BY <1>2, <1>4, <2>1
  <2> QED
    BY <2>1, <2>2 DEF CoresOK
<1> QED
  BY <1>2, <1>3, <1>5, <1>6, <1>7 DEF UsagesOK

LEMMA CollectKeepsRows ==
  RowsOK /\ Collects => RowsOK'
<1> SUFFICES ASSUME RowsOK, Collects PROVE RowsOK'
  OBVIOUS
<1>1. UNCHANGED <<seconds, rx, flowed>> /\ (table # <<>> => Last(table).at < seconds)
  BY DEF Collects
<1> DEFINE row == [at |-> seconds, rx |-> rx, flowed |-> flowed]
<1>2. CASE table' = table
  BY <1>1, <1>2 DEF RowsOK
<1>3. CASE table' = Append(table, row)
  <2>0. seconds \in Nat /\ rx \in Nat /\ flowed \in Nat /\ table \in Seq(Rows)
    BY DEF RowsOK
  <2>1. row \in Rows
    BY <2>0 DEF Rows
  <2>2. /\ table' \in Seq(Rows) /\ Len(table) \in Nat /\ DOMAIN table = 1 .. Len(table)
        /\ DOMAIN table' = 1 .. Len(table) + 1 /\ table'[Len(table) + 1] = row
        /\ \A i \in 1 .. Len(table) : table'[i] = table[i]
    <3> HIDE DEF row
    <3> QED
      BY <1>3, <2>0, <2>1
  <2>3. ASSUME NEW i \in DOMAIN table
        PROVE  table[i].at < row.at /\ table[i].flowed <= row.flowed /\ row.rx - table[i].rx <= row.flowed - table[i].flowed
    <3>1. table[i].flowed <= row.flowed /\ row.rx - table[i].rx <= row.flowed - table[i].flowed
      BY DEF RowsOK
    <3>2. table # <<>> /\ Last(table) = table[Len(table)] /\ Len(table) \in DOMAIN table
      BY <2>2 DEF Last
    <3>3. table[Len(table)].at < seconds /\ table[Len(table)].at \in Nat /\ table[i].at \in Nat
      BY <1>1, <3>2, RowsAre
    <3>4. i = Len(table) \/ table[i].at < table[Len(table)].at
      BY <2>2, <3>2 DEF RowsOK
    <3> QED
      BY <2>0, <3>1, <3>3, <3>4
  <2>4. \A i \in DOMAIN table' :
           table'[i].at <= seconds' /\ table'[i].flowed <= flowed' /\ rx' - table'[i].rx <= flowed' - table'[i].flowed
    <3> TAKE i \in DOMAIN table'
    <3>1. CASE i \in DOMAIN table
      BY <1>1, <2>2, <3>1 DEF RowsOK
    <3>2. CASE i \notin DOMAIN table
      <4>1. table'[i] = row
        BY <2>2, <3>2
      <4> QED
        BY <1>1, <2>0, <4>1
    <3> QED
      BY <3>1, <3>2
  <2>5. ASSUME NEW i \in DOMAIN table', NEW j \in DOMAIN table', i < j
        PROVE  /\ table'[i].at < table'[j].at
               /\ table'[i].flowed <= table'[j].flowed
               /\ table'[j].rx - table'[i].rx <= table'[j].flowed - table'[i].flowed
    <3>1. i \in DOMAIN table /\ table'[i] = table[i]
      BY <2>2, <2>5
    <3>2. CASE j \in DOMAIN table
      BY <2>2, <2>5, <3>1, <3>2 DEF RowsOK
    <3>3. CASE j \notin DOMAIN table
      <4>1. table'[j] = row
        BY <2>2, <3>3
      <4> HIDE DEF row
      <4> QED
        BY <2>3, <3>1, <4>1
    <3> QED
      BY <3>2, <3>3
  <2> HIDE DEF row
  <2> QED
    BY <1>1, <2>0, <2>2, <2>4, <2>5 DEF RowsOK
<1> QED
  BY <1>2, <1>3 DEF Collects

\* A point goes behind the ones before it, of which the oldest may go.
LEMMA AddedPoint ==
  ASSUME NEW S, NEW old \in Seq(S), NEW point \in S, NEW n \in Nat \ {0}, Len(old) <= n,
         NEW new, new = AddPoint(old, point, n)
  PROVE  /\ new \in Seq(S) /\ Len(new) \in 1 .. n /\ new[Len(new)] = point
         /\ Len(new) - 1 <= Len(old)
         /\ \A i \in 1 .. Len(new) - 1 : new[i] = old[i + (Len(old) - Len(new) + 1)]
<1> DEFINE kept == IF Len(old) >= n THEN Tail(old) ELSE old
<1>1. new = Append(kept, point)
  BY DEF AddPoint
<1>2. /\ kept \in Seq(S) /\ Len(kept) \in 0 .. n - 1 /\ Len(kept) <= Len(old) /\ Len(old) \in Nat
      /\ \A i \in 1 .. Len(kept) : kept[i] = old[i + (Len(old) - Len(kept))]
  <2>1. CASE Len(old) >= n
    <3>1. old # <<>>
      BY <2>1
    <3>2. Tail(old) \in Seq(S) /\ Len(Tail(old)) = Len(old) - 1 /\ \A i \in 1 .. Len(old) - 1 : Tail(old)[i] = old[i + 1]
      BY <3>1
    <3> QED
      BY <2>1, <3>1, <3>2
  <2>2. CASE ~(Len(old) >= n)
    BY <2>2
  <2> QED
    BY <2>1, <2>2
<1> HIDE DEF kept
<1>4. new \in Seq(S) /\ Len(new) = Len(kept) + 1 /\ new[Len(new)] = point
      /\ \A i \in 1 .. Len(kept) : new[i] = kept[i]
  BY <1>1, <1>2
<1>5. Len(new) \in 1 .. n /\ Len(new) - 1 = Len(kept) /\ Len(old) - Len(new) + 1 = Len(old) - Len(kept)
  BY <1>2, <1>4
<1>6. \A i \in 1 .. Len(new) - 1 : new[i] = old[i + (Len(old) - Len(new) + 1)]
  BY <1>2, <1>4, <1>5
<1> QED
  BY <1>2, <1>4, <1>5, <1>6

\* The speed of a new point is of what arrived since the last one.
LEMMA NewSpeed ==
  ASSUME RowsOK, SpeedsOK, series.points # <<>>,
         Last(series.points).at < seconds
  PROVE  LET last == series.points[Len(series.points)]
             net == NetworkUpdate(series.net, rx, seconds)
             speed == Speed(net.rx, net.stamps)
         IN  speed # None => NoMoreThan(speed, seconds - last.at, flowed - last.flowed)
<1> DEFINE last == series.points[Len(series.points)]
           net == NetworkUpdate(series.net, rx, seconds)
           speed == Speed(net.rx, net.stamps)
           old == series.net.rx.new
<1> SUFFICES ASSUME speed # None PROVE NoMoreThan(speed, seconds - last.at, flowed - last.flowed)
  OBVIOUS
<1>1. /\ net.rx = [old |-> old, new |-> rx] /\ net.stamps = [old |-> last.at, new |-> seconds]
      /\ last.at \in Nat /\ last.flowed \in Nat /\ old \in Nat /\ last.at < seconds
      /\ rx - old <= flowed - last.flowed /\ last.flowed <= flowed
  BY DEF SpeedsOK, NetworkUpdate, SequenceUpdate, Last
<1>2. seconds \in Nat /\ rx \in Nat /\ flowed \in Nat
  BY DEF RowsOK
<1> HIDE DEF net, last, old
<1>3. speed = Quotient(rx - old, seconds - last.at) /\ rx >= old
  <2>1. ElapsedSeconds(net.stamps) = seconds - last.at \/ ElapsedSeconds(net.stamps) = None
    BY <1>1 DEF ElapsedSeconds
  <2> QED
    BY <1>1, <1>2, <2>1 DEF Speed
<1> DEFINE t == seconds - last.at
           a == rx - old
           b == flowed - last.flowed
<1>4. t \in Nat /\ a \in Nat /\ b \in Nat /\ a <= b
  BY <1>1, <1>2, <1>3
<1>5. speed = [num |-> a, den |-> t]
  BY <1>3 DEF Quotient
<1> HIDE DEF t, a, b, speed
<1>6. a * t <= b * t
  BY <1>4
<1>7. NoMoreThan(speed, t, b)
  BY <1>4, <1>5, <1>6 DEF NoMoreThan
<1> QED
  BY <1>7 DEF t, b

LEMMA CollectKeepsSpeeds ==
  RowsOK /\ SpeedsOK /\ Collects => SpeedsOK'
<1> SUFFICES ASSUME RowsOK, SpeedsOK, Collects PROVE SpeedsOK'
  OBVIOUS
<1> DEFINE old == series.points
           new == series'.points
           net == NetworkUpdate(series.net, rx, seconds)
           speed == Speed(net.rx, net.stamps)
<1>1. PICK list \in CoreLists : series' = UpdatedSeries(UsagesOf(cores, ReadTicks(list)))
  BY DEF Collects
<1> DEFINE point == [at |-> seconds, flowed |-> flowed, usages |-> ReadUsages(UsagesOf(cores, ReadTicks(list))),
                     rx_speed |-> speed]
<1>2. series'.net = net /\ new = AddPoint(old, point, VelocityPoints)
  BY <1>1 DEF UpdatedSeries
<1>3. UNCHANGED <<seconds, rx, flowed>> /\ (old # <<>> => Last(old).at < seconds)
  BY DEF Collects
<1>4. seconds \in Nat /\ rx \in Nat /\ flowed \in Nat /\ VelocityPoints \in Nat \ {0}
  BY HistoryAssumption DEF RowsOK
<1>5. net.rx.new = rx /\ net.stamps.new = seconds
  BY DEF NetworkUpdate, SequenceUpdate
<1>6. point.at = seconds /\ point.flowed = flowed /\ point.rx_speed = speed
  OBVIOUS
<1>7. PICK S : old \in Seq(S)
  BY DEF SpeedsOK
<1>8. Len(old) <= VelocityPoints
  BY DEF SpeedsOK
<1>9. ASSUME old # <<>>
      PROVE  speed # None => NoMoreThan(speed, seconds - old[Len(old)].at, flowed - old[Len(old)].flowed)
  BY <1>3, <1>9, NewSpeed
<1>10. ASSUME NEW i \in DOMAIN old, NEW j \in DOMAIN old, j = i + 1, old[j].rx_speed # None
       PROVE  NoMoreThan(old[j].rx_speed, old[j].at - old[i].at, old[j].flowed - old[i].flowed)
  BY <1>10 DEF SpeedsOK
<1> HIDE DEF old, net, speed, point, new
<1> DEFINE k == Len(old) - Len(new) + 1
<1> DEFINE T == S \cup {point}
<1>11. old \in Seq(T) /\ point \in T
  BY <1>7
<1> HIDE DEF T
<1>12. /\ new \in Seq(T) /\ Len(new) \in 1 .. VelocityPoints /\ new[Len(new)] = point
       /\ Len(new) - 1 <= Len(old)
       /\ \A i \in 1 .. Len(new) - 1 : new[i] = old[i + k]
  <2>1. new = AddPoint(old, point, VelocityPoints)
    BY <1>2
  <2>2. new \in Seq(T)
    BY <1>4, <1>8, <1>11, <2>1, AddedPoint
  <2>3. Len(new) \in 1 .. VelocityPoints /\ Len(new) - 1 <= Len(old)
    BY <1>4, <1>8, <1>11, <2>1, AddedPoint
  <2>4. new[Len(new)] = point
    BY <1>4, <1>8, <1>11, <2>1, AddedPoint
  <2>5. \A i \in 1 .. Len(new) - 1 : new[i] = old[i + (Len(old) - Len(new) + 1)]
    BY <1>4, <1>8, <1>11, <2>1, AddedPoint
  <2> QED
    BY <2>2, <2>3, <2>4, <2>5
<1>13. Len(old) \in Nat /\ Len(new) \in Nat /\ k \in Nat /\ DOMAIN old = 1 .. Len(old) /\ DOMAIN new = 1 .. Len(new)
  BY <1>7, <1>12
<1>14. \A i \in 1 .. Len(new) - 1 : i + k \in DOMAIN old /\ new[i] = old[i + k] /\ (i = Len(new) - 1 => i + k = Len(old))
  <2> TAKE i \in 1 .. Len(new) - 1
  <2>1. new[i] = old[i + k]
    BY <1>12
  <2>2. Len(old) \in Nat /\ Len(new) \in Nat /\ Len(new) - 1 <= Len(old)
    BY <1>12, <1>13
  <2>3. i + k \in 1 .. Len(old) /\ (i = Len(new) - 1 => i + k = Len(old))
    BY <2>2, PlaceBefore
  <2> QED
    BY <1>13, <2>1, <2>3
<1> HIDE DEF k
<1>15. ASSUME NEW i \in DOMAIN new, NEW j \in DOMAIN new, j = i + 1, new[j].rx_speed # None
       PROVE  NoMoreThan(new[j].rx_speed, new[j].at - new[i].at, new[j].flowed - new[i].flowed)
  <2>1. i \in 1 .. Len(new) - 1 /\ j \in 2 .. Len(new) /\ Len(new) \in Nat
    BY <1>12, <1>15
  <2>2. i + k \in DOMAIN old /\ new[i] = old[i + k] /\ (i = Len(new) - 1 => i + k = Len(old))
    BY <1>14, <2>1
  <2>3. CASE j = Len(new)
    <3>1. new[j] = point /\ new[i] = old[Len(old)]
      BY <1>12, <1>15, <2>1, <2>2, <2>3
    <3>2. old # <<>>
      BY <1>13, <2>2
    <3> QED
      BY <1>6, <1>9, <1>15, <3>1, <3>2
  <2>4. CASE j # Len(new)
    <3>1. j \in 1 .. Len(new) - 1
      BY <2>1, <2>4
    <3>2. j + k \in DOMAIN old /\ new[j] = old[j + k]
      BY <1>14, <3>1
    <3>3. j + k = (i + k) + 1
      BY <1>13, <1>15, <2>1
    <3> QED
      BY <1>10, <1>15, <2>2, <3>2, <3>3
  <2> QED
    BY <2>3, <2>4
<1>16. /\ series'.net.stamps.new = new[Len(new)].at /\ series'.net.rx.new = rx
       /\ new[Len(new)].at \in Nat /\ new[Len(new)].flowed = flowed
  BY <1>2, <1>4, <1>5, <1>6, <1>12
<1>17. Len(new) <= VelocityPoints
  BY <1>4, <1>12
<1>18. \E R : new \in Seq(R)
  BY <1>12
<1>19. \A i, j \in DOMAIN new : j = i + 1 =>
         (new[j].rx_speed # None => NoMoreThan(new[j].rx_speed, new[j].at - new[i].at, new[j].flowed - new[i].flowed))
  BY <1>15
<1>20. rx' - series'.net.rx.new <= flowed' - new[Len(new)].flowed /\ new[Len(new)].flowed <= flowed'
       /\ new[Len(new)].flowed \in Nat /\ series'.net.rx.new \in Nat
  BY <1>3, <1>4, <1>16
<1> USE DEF new
<1> QED
  BY <1>16, <1>17, <1>18, <1>19, <1>20 DEF SpeedsOK

THEOREM HistoryInvariant ==
  HistorySpec /\ CoresKeepPlaces => []HistoryInv
<1> SUFFICES ASSUME CoresKeepPlaces PROVE HistorySpec => []HistoryInv
  OBVIOUS
<1>1. HistoryInit => HistoryInv
  BY HistoryStarts
<1>2. HistoryInv /\ [HistoryNext]_historyVars => HistoryInv'
  <2> SUFFICES ASSUME HistoryInv, [HistoryNext]_historyVars PROVE HistoryInv'
    OBVIOUS
  <2>1. CASE SecondPassesBy
    BY <2>1, SecondKeeps
  <2>2. CASE InterfaceResets
    BY <2>2, ResetKeeps
  <2>3. CASE HostReboots
    BY <2>3, RebootKeeps
  <2>4. CASE Collects
    BY <2>4, CollectKeepsRows, CollectKeepsUsages, CollectKeepsSpeeds DEF HistoryInv
  <2>5. CASE OldestRowGoes
    BY <2>5, CleanupKeeps
  <2>6. CASE UNCHANGED historyVars
    BY <2>6 DEF historyVars, HistoryInv, RowsOK, UsagesOK, UsageIsItsCores, CoresOK, SpeedsOK
  <2> QED
    BY <2>1, <2>2, <2>3, <2>4, <2>5, <2>6 DEF HistoryNext
<1> QED
  BY <1>1, <1>2, PTL DEF HistorySpec

THEOREM HistoriesDoNotOverstate ==
  HistorySpec /\ CoresKeepPlaces => []HistoriesAreTrue
<1>1. HistoryInv => HistoriesAreTrue
  <2> SUFFICES ASSUME HistoryInv PROVE HistoriesAreTrue
    OBVIOUS
  <2>1. HistoryIsTrue
    BY TableIsTrue DEF HistoryInv
  <2>2. VelocityIsTrue
    BY DEF HistoryInv, UsagesOK, SpeedsOK, VelocityIsTrue
  <2> QED
    BY <2>1, <2>2 DEF HistoriesAreTrue
<1> QED
  BY <1>1, HistoryInvariant, PTL

----------------------------------------------------------------------------
(* The cleanup of the database *)

RetentionTypeOK ==
  /\ hour \in Nat
  /\ rows \in [Names -> Seq(Nat)]
  /\ cleaning \in {"idle", "expiring", "measuring", "trimming", "checking"}
  /\ table_at \in 1 .. Len(Tables)
  /\ round \in Nat

\* The tables a round has been at.
Visited == IF cleaning = "checking" THEN 1 .. table_at ELSE 1 .. table_at - 1

\* A round that has deleted nothing so far, and was not disturbed, has seen
\* tables with nothing to spare only.
RoundOK ==
  cleaning \in {"trimming", "checking"} /\ undisturbed /\ round = 0 =>
    \A i \in Visited : Len(rows[Tables[i]]) <= Floor(Tables[i])

RetentionInv == RetentionTypeOK /\ RoundOK

LEMMA TablesAreNamed ==
  /\ Len(Tables) \in Nat \ {0}
  /\ \A i \in 1 .. Len(Tables) : Tables[i] \in Names
  /\ \A t \in Names : \E i \in 1 .. Len(Tables) : t = Tables[i]
<1>1. Tables \in Seq(Names) /\ Tables # <<>>
  BY RetentionAssumption
<1>2. DOMAIN Tables = 1 .. Len(Tables) /\ Len(Tables) \in Nat /\ Len(Tables) # 0
  BY <1>1
<1> QED
  BY <1>1, <1>2 DEF Names, ToSet

LEMMA NatQuotient ==
  ASSUME NEW n \in Nat, NEW k \in Nat \ {0}
  PROVE  n \div k \in Nat
OBVIOUS

LEMMA TrimmedIsSpare ==
  ASSUME RetentionTypeOK, NEW t \in Names
  PROVE  /\ Trimmed(t) \in 0 .. Len(rows[t]) /\ Len(rows[t]) \in Nat /\ Floor(t) \in Nat
         /\ Trimmed(t) = 0 => Len(rows[t]) <= Floor(t)
<1>1. Floor(t) \in Nat /\ Len(rows[t]) \in Nat
  BY RetentionAssumption DEF RetentionTypeOK, Floor
<1> DEFINE n == Len(rows[t])
           f == Floor(t)
           spare == IF n > f THEN n - f ELSE 0
<1>2. Trimmed(t) = IF n \div 10 + 1 < spare THEN n \div 10 + 1 ELSE spare
  BY DEF Trimmed
<1>3. n \in Nat /\ f \in Nat /\ 10 \in Nat \ {0}
  BY <1>1
<1> HIDE DEF n, f
<1>4. n \div 10 \in Nat
  BY <1>3, NatQuotient
<1>5. Trimmed(t) \in 0 .. n /\ (Trimmed(t) = 0 => n <= f)
  BY <1>2, <1>3, <1>4
<1> QED
  BY <1>1, <1>5 DEF n, f

LEMMA OldAreSome ==
  ASSUME RetentionTypeOK, NEW t \in Names
  PROVE  Cardinality(Old(t)) \in 0 .. Len(rows[t])
<1>1. Len(rows[t]) \in Nat /\ DOMAIN rows[t] = 1 .. Len(rows[t])
  BY DEF RetentionTypeOK
<1>2. IsFiniteSet(1 .. Len(rows[t])) /\ Cardinality(1 .. Len(rows[t])) = Len(rows[t])
  BY <1>1, FS_Interval
<1>3. Old(t) \subseteq 1 .. Len(rows[t])
  BY <1>1 DEF Old
<1>4. IsFiniteSet(Old(t)) /\ Cardinality(Old(t)) <= Len(rows[t])
  BY <1>2, <1>3, FS_Subset
<1> QED
  BY <1>1, <1>4, FS_CardinalityType

LEMMA WithoutIsShorter ==
  ASSUME RetentionTypeOK, NEW t \in Names, NEW n \in 0 .. Len(rows[t])
  PROVE  /\ Without(t, n) \in [Names -> Seq(Nat)]
         /\ Len(Without(t, n)[t]) = Len(rows[t]) - n
         /\ \A u \in Names : Len(Without(t, n)[u]) <= Len(rows[u])
<1>1. rows \in [Names -> Seq(Nat)] /\ rows[t] \in Seq(Nat) /\ Len(rows[t]) \in Nat
  BY DEF RetentionTypeOK
<1> DEFINE left == SubSeq(rows[t], n + 1, Len(rows[t]))
<1>2. left \in Seq(Nat) /\ Len(left) = Len(rows[t]) - n
  BY <1>1
<1>3. Without(t, n) = [rows EXCEPT ![t] = left]
  BY DEF Without
<1> HIDE DEF left
<1>4. Without(t, n) \in [Names -> Seq(Nat)] /\ Without(t, n)[t] = left
  BY <1>1, <1>2, <1>3
<1>5. ASSUME NEW u \in Names PROVE Len(Without(t, n)[u]) <= Len(rows[u])
  <2>1. CASE u = t
    BY <1>1, <1>2, <1>4, <2>1
  <2>2. CASE u # t
    <3>1. Without(t, n)[u] = rows[u] /\ Len(rows[u]) \in Nat
      BY <1>1, <1>3, <2>2
    <3> QED
      BY <3>1
  <2> QED
    BY <2>1, <2>2
<1> QED
  BY <1>2, <1>4, <1>5

LEMMA RetentionStarts ==
  RetentionInit => RetentionInv
BY TablesAreNamed DEF RetentionInit, RetentionInv, RetentionTypeOK, RoundOK

LEMMA AddsRowKeeps ==
  ASSUME RetentionInv, NEW t \in Names, AddsRow(t)
  PROVE  RetentionInv'
<1>1. rows' \in [Names -> Seq(Nat)]
  BY DEF RetentionInv, RetentionTypeOK, AddsRow
<1> QED
  BY <1>1 DEF RetentionInv, RetentionTypeOK, RoundOK, AddsRow

LEMMA ExpiresKeeps ==
  ASSUME RetentionInv, Expires
  PROVE  RetentionInv'
<1> DEFINE t == Tables[table_at]
<1>1. RetentionTypeOK /\ t \in Names
  BY TablesAreNamed DEF RetentionInv, RetentionTypeOK
<1>2. rows' \in [Names -> Seq(Nat)]
  BY <1>1, OldAreSome, WithoutIsShorter DEF Expires
<1>3. cleaning' \in {"idle", "expiring", "measuring"} /\ table_at' \in 1 .. Len(Tables)
  BY <1>1, TablesAreNamed DEF Expires, RetentionTypeOK
<1> QED
  BY <1>1, <1>2, <1>3 DEF RetentionInv, RetentionTypeOK, RoundOK, Expires

LEMMA TrimsKeeps ==
  ASSUME RetentionInv, Trims
  PROVE  RetentionInv'
<1> DEFINE t == Tables[table_at]
           n == Trimmed(t)
<1>1. RetentionTypeOK /\ t \in Names /\ table_at \in 1 .. Len(Tables)
  BY TablesAreNamed DEF RetentionInv, RetentionTypeOK
<1>2. /\ n \in 0 .. Len(rows[t]) /\ Len(rows[t]) \in Nat /\ Floor(t) \in Nat
      /\ n = 0 => Len(rows[t]) <= Floor(t)
  BY <1>1, TrimmedIsSpare
<1>3. rows' = Without(t, n) /\ round' = round + n /\ cleaning = "trimming" /\ cleaning' = "checking"
      /\ table_at' = table_at /\ undisturbed' = undisturbed /\ hour' = hour
  BY DEF Trims
<1> HIDE DEF n
<1>4. /\ rows' \in [Names -> Seq(Nat)]
      /\ Len(rows'[t]) = Len(rows[t]) - n
      /\ \A u \in Names : Len(rows'[u]) <= Len(rows[u])
  BY <1>1, <1>2, <1>3, WithoutIsShorter
<1>5. RetentionTypeOK'
  BY <1>1, <1>2, <1>3, <1>4 DEF RetentionTypeOK
<1>6. ASSUME undisturbed', round' = 0, NEW i \in 1 .. table_at
      PROVE  Len(rows'[Tables[i]]) <= Floor(Tables[i])
  <2>1. n = 0 /\ round = 0
    BY <1>1, <1>2, <1>3, <1>6 DEF RetentionTypeOK
  <2>2. i \in 1 .. Len(Tables) /\ Tables[i] \in Names
    BY <1>1, TablesAreNamed
  <2>3. Len(rows[Tables[i]]) <= Floor(Tables[i])
    <3>1. CASE i = table_at
      BY <1>2, <2>1, <3>1
    <3>2. CASE i # table_at
      <4>1. i \in Visited /\ undisturbed
        BY <1>1, <1>3, <1>6, <3>2 DEF Visited
      <4> QED
        BY <1>3, <2>1, <4>1 DEF RetentionInv, RoundOK
    <3> QED
      BY <3>1, <3>2
  <2>4. Len(rows'[Tables[i]]) \in Nat /\ Len(rows[Tables[i]]) \in Nat /\ Floor(Tables[i]) \in Nat
    BY <1>1, <1>4, <2>2, TrimmedIsSpare
  <2> QED
    BY <1>4, <2>2, <2>3, <2>4
<1>7. Visited' = 1 .. table_at
  BY <1>3 DEF Visited
<1>8. RoundOK'
  BY <1>6, <1>7 DEF RoundOK
<1> QED
  BY <1>5, <1>8 DEF RetentionInv

LEMMA ChecksSizeKeeps ==
  ASSUME RetentionInv, ChecksSize
  PROVE  RetentionInv'
<1>1. RetentionTypeOK /\ RoundOK /\ Len(Tables) \in Nat \ {0}
  BY TablesAreNamed DEF RetentionInv
<1>2. CASE ~Fits /\ table_at < Len(Tables)
  <2>1. /\ table_at' = table_at + 1 /\ cleaning = "checking" /\ cleaning' = "trimming"
        /\ UNCHANGED <<hour, rows, round, undisturbed>>
    BY <1>2 DEF ChecksSize
  <2>2. Visited' = Visited
    BY <1>1, <2>1 DEF Visited, RetentionTypeOK
  <2> QED
    BY <1>1, <1>2, <2>1, <2>2 DEF RetentionInv, RetentionTypeOK, RoundOK
<1>3. CASE ~(~Fits /\ table_at < Len(Tables))
  <2>1. /\ table_at' = 1 /\ cleaning' \in {"idle", "measuring"}
        /\ UNCHANGED <<hour, rows, round, undisturbed>>
    BY <1>3 DEF ChecksSize
  <2> QED
    BY <1>1, <2>1 DEF RetentionInv, RetentionTypeOK, RoundOK
<1> QED
  BY <1>2, <1>3

LEMMA RetentionStep ==
  ASSUME RetentionInv, [RetentionNext]_retentionVars
  PROVE  RetentionInv'
<1>1. CASE \E t \in Names : AddsRow(t)
  BY <1>1, AddsRowKeeps
<1>2. CASE HourPasses
  BY <1>2 DEF RetentionInv, RetentionTypeOK, RoundOK, Visited, HourPasses
<1>3. CASE StartsCleanup
  BY <1>3, TablesAreNamed DEF RetentionInv, RetentionTypeOK, RoundOK, StartsCleanup
<1>4. CASE Expires
  BY <1>4, ExpiresKeeps
<1>5. CASE Measures
  <2>1. RetentionTypeOK'
    BY <1>5, TablesAreNamed DEF RetentionInv, RetentionTypeOK, Measures
  <2>2. cleaning' # "checking" /\ table_at' = 1
    BY <1>5 DEF Measures
  <2>3. Visited' = {}
    BY <2>2 DEF Visited
  <2> QED
    BY <2>1, <2>3 DEF RetentionInv, RoundOK
<1>6. CASE Trims
  BY <1>6, TrimsKeeps
<1>7. CASE ChecksSize
  BY <1>7, ChecksSizeKeeps
<1>8. CASE UNCHANGED retentionVars
  BY <1>8 DEF RetentionInv, RetentionTypeOK, RoundOK, Visited, retentionVars
<1> QED
  BY <1>1, <1>2, <1>3, <1>4, <1>5, <1>6, <1>7, <1>8 DEF RetentionNext, CleanupNext

\* A cleanup that was not disturbed ends with a file that fits, or where
\* nothing is left but what is kept for audits (enforce_db_size_limit).
THEOREM CleanupsMeetTheCap == RetentionSpec => CapIsMet
<1>1. RetentionInit => RetentionInv
  BY RetentionStarts
<1>2. RetentionInv /\ [RetentionNext]_retentionVars => RetentionInv'
  BY RetentionStep
<1>3. RetentionInv /\ [RetentionNext]_retentionVars
        => [cleaning = "checking" /\ cleaning' = "idle" /\ undisturbed
              => Fits \/ \A t \in Names : Len(rows[t]) <= Floor(t)]_retentionVars
  <2> SUFFICES ASSUME RetentionInv, RetentionNext, cleaning = "checking", cleaning' = "idle", undisturbed, ~Fits
               PROVE  \A t \in Names : Len(rows[t]) <= Floor(t)
    OBVIOUS
  <2>1. ChecksSize
    BY DEF RetentionNext, CleanupNext, AddsRow, HourPasses, StartsCleanup, Expires, Measures, Trims
  <2>2. table_at = Len(Tables) /\ round = 0
    BY <2>1, TablesAreNamed DEF ChecksSize, NothingLeft, RetentionInv, RetentionTypeOK
  <2>3. \A i \in 1 .. Len(Tables) : Len(rows[Tables[i]]) <= Floor(Tables[i])
    BY <2>2 DEF RetentionInv, RoundOK, Visited
  <2> QED
    BY <2>3, TablesAreNamed
<1> QED
  BY <1>1, <1>2, <1>3, PTL DEF RetentionSpec, CapIsMet

----------------------------------------------------------------------------
(* The totals of the disks: sums in another order and under other names *)

\* Any element may be taken out first.
LEMMA SumTakesOut ==
  ASSUME NEW f, NEW S, IsFiniteSet(S), \A x \in S : f[x] \in Int
  PROVE  /\ SumFunctionOnSet(f, S) \in Int
         /\ \A x \in S : SumFunctionOnSet(f, S) = f[x] + SumFunctionOnSet(f, S \ {x})
<1> DEFINE Good(T) == /\ SumFunctionOnSet(f, T) \in Int
                      /\ \A x \in T : SumFunctionOnSet(f, T) = f[x] + SumFunctionOnSet(f, T \ {x})
           A == {n \in Nat : \A T \in UpTo(S, n) : Good(T)}
<1>1. 0 \in A
  <2>1. \A T \in UpTo(S, 0) : T = {}
    BY FS_Subset, FS_CardinalityType, FS_EmptySet DEF UpTo
  <2>2. SumFunctionOnSet(f, {}) = 0
    BY SumUnfolds, FS_EmptySet
  <2>3. Good({})
    BY <2>2
  <2> HIDE DEF Good
  <2> QED
    BY <2>1, <2>3
<1>2. ASSUME NEW n \in Nat, n \in A PROVE n + 1 \in A
  <2> SUFFICES ASSUME NEW T \in UpTo(S, n + 1) PROVE Good(T)
    OBVIOUS
  <2>1. CASE T = {}
    <3>1. SumFunctionOnSet(f, {}) = 0
      BY SumUnfolds, FS_EmptySet
    <3> QED
      BY <2>1, <3>1
  <2>2. CASE T # {}
    <3> DEFINE y == One(T)
               R == T \ {y}
    <3>1. y \in T /\ IsFiniteSet(T) /\ R \in UpTo(S, n) /\ y \in S /\ T \subseteq S
      <4>1. y \in T /\ IsFiniteSet(T) /\ R \in UpTo(S, n)
        BY <2>2, OneLess
      <4> QED
        BY <4>1 DEF UpTo
    <3>2. SumFunctionOnSet(f, T) = f[y] + SumFunctionOnSet(f, R)
      BY <2>2, <3>1, SumUnfolds
    <3>3. Good(R)
      BY <1>2, <3>1
    <3> HIDE DEF y
    <3>4. ASSUME NEW x \in T, x # y
          PROVE  SumFunctionOnSet(f, T) = f[x] + SumFunctionOnSet(f, T \ {x})
      <4> DEFINE Q == T \ {x}
      <4>1. x \in R /\ y \in Q /\ Q \ {y} = R \ {x} /\ IsFiniteSet(Q) /\ Q \subseteq S
        BY <3>1, <3>4, FS_Subset
      <4>2. SumFunctionOnSet(f, R) = f[x] + SumFunctionOnSet(f, R \ {x})
        BY <3>3, <4>1
      <4>3. Q \in UpTo(S, n)
        <5>1. Cardinality(T) \in Nat /\ Cardinality(T) <= n + 1
          BY <3>1, FS_CardinalityType DEF UpTo
        <5>2. Cardinality(Q) = Cardinality(T) - 1
          BY <3>1, FS_RemoveElement
        <5> QED
          BY <4>1, <5>1, <5>2 DEF UpTo
      <4>4. Good(Q)
        BY <1>2, <4>3
      <4>5. SumFunctionOnSet(f, Q) = f[y] + SumFunctionOnSet(f, R \ {x})
        BY <4>1, <4>4
      <4>6. R \ {x} \in UpTo(S, n)
        <5>1. IsFiniteSet(R) /\ R \ {x} \subseteq R /\ Cardinality(R) <= n /\ R \subseteq S
          BY <3>1, FS_Subset DEF UpTo
        <5>2. Cardinality(R \ {x}) <= Cardinality(R) /\ Cardinality(R \ {x}) \in Nat /\ Cardinality(R) \in Nat
          BY <5>1, FS_Subset, FS_CardinalityType
        <5> HIDE DEF R
        <5> QED
          BY <5>1, <5>2 DEF UpTo
      <4>7. SumFunctionOnSet(f, R \ {x}) \in Int
        BY <1>2, <4>6
      <4>8. f[x] \in Int /\ f[y] \in Int
        BY <3>1
      <4> HIDE DEF Q, R
      <4>9. SumFunctionOnSet(f, T) = f[x] + SumFunctionOnSet(f, Q)
        BY <3>2, <4>2, <4>5, <4>7, <4>8
      <4> QED
        BY <4>9 DEF Q
    <3>5. SumFunctionOnSet(f, T) \in Int
      BY <3>1, <3>2, <3>3
    <3> QED
      BY <3>2, <3>4, <3>5
  <2> QED
    BY <2>1, <2>2
<1>3. Nat \subseteq A
  <2> HIDE DEF A
  <2> QED
    BY <1>1, <1>2, EachNumber
<1>4. Cardinality(S) \in Nat /\ S \in UpTo(S, Cardinality(S))
  BY FS_CardinalityType DEF UpTo
<1>5. Good(S)
  BY <1>3, <1>4
<1> QED
  BY <1>5

\* The same numbers under other names.
LEMMA SumMoved ==
  ASSUME NEW f, NEW g, NEW key, NEW S, IsFiniteSet(S),
         \A x \in S : f[x] \in Int /\ g[key[x]] = f[x],
         \A x, y \in S : key[x] = key[y] => x = y
  PROVE  SumFunctionOnSet(f, S) = SumFunctionOnSet(g, {key[x] : x \in S})
<1> DEFINE To(R) == {key[x] : x \in R}
           A == {n \in Nat : \A R \in UpTo(S, n) : SumFunctionOnSet(f, R) = SumFunctionOnSet(g, To(R))}
<1>1. 0 \in A
  <2>1. \A R \in UpTo(S, 0) : R = {}
    BY FS_Subset, FS_CardinalityType, FS_EmptySet DEF UpTo
  <2>2. To({}) = {}
    OBVIOUS
  <2>3. SumFunctionOnSet(f, {}) = 0 /\ SumFunctionOnSet(g, {}) = 0
    BY SumUnfolds, FS_EmptySet
  <2> HIDE DEF To
  <2> QED
    BY <2>1, <2>2, <2>3
<1>2. ASSUME NEW n \in Nat, n \in A PROVE n + 1 \in A
  <2> SUFFICES ASSUME NEW T \in UpTo(S, n + 1) PROVE SumFunctionOnSet(f, T) = SumFunctionOnSet(g, To(T))
    OBVIOUS
  <2>1. CASE T = {}
    <3>1. To({}) = {}
      OBVIOUS
    <3>2. SumFunctionOnSet(f, {}) = 0 /\ SumFunctionOnSet(g, {}) = 0
      BY SumUnfolds, FS_EmptySet
    <3> HIDE DEF To
    <3> QED
      BY <2>1, <3>1, <3>2
  <2>2. CASE T # {}
    <3> DEFINE y == One(T)
               R == T \ {y}
    <3>1. y \in T /\ IsFiniteSet(T) /\ R \in UpTo(S, n) /\ y \in S /\ T \subseteq S
      <4>1. y \in T /\ IsFiniteSet(T) /\ R \in UpTo(S, n)
        BY <2>2, OneLess
      <4> QED
        BY <4>1 DEF UpTo
    <3>2. SumFunctionOnSet(f, T) = f[y] + SumFunctionOnSet(f, R)
      BY <2>2, <3>1, SumUnfolds
    <3>3. SumFunctionOnSet(f, R) = SumFunctionOnSet(g, To(R))
      BY <1>2, <3>1
    <3> HIDE DEF y
    <3>4. To(R) = To(T) \ {key[y]} /\ key[y] \in To(T)
      BY <3>1
    <3>5. IsFiniteSet(To(T))
      BY <3>1, ImageIsFinite
    <3>6. \A k \in To(T) : g[k] \in Int
      BY <3>1
    <3> HIDE DEF To
    <3>7. SumFunctionOnSet(g, To(T)) = g[key[y]] + SumFunctionOnSet(g, To(T) \ {key[y]})
      BY <3>4, <3>5, <3>6, SumTakesOut
    <3>8. g[key[y]] = f[y]
      BY <3>1
    <3> QED
      BY <3>2, <3>3, <3>4, <3>7, <3>8
  <2> QED
    BY <2>1, <2>2
<1>3. Nat \subseteq A
  <2> HIDE DEF A
  <2> QED
    BY <1>1, <1>2, EachNumber
<1>4. Cardinality(S) \in Nat /\ S \in UpTo(S, Cardinality(S))
  BY FS_CardinalityType DEF UpTo
<1> QED
  BY <1>3, <1>4

LEMMA SumGrows ==
  ASSUME NEW f, NEW g, NEW S, IsFiniteSet(S),
         \A x \in S : f[x] \in Int /\ g[x] \in Int /\ f[x] <= g[x]
  PROVE  SumFunctionOnSet(f, S) <= SumFunctionOnSet(g, S)
<1> DEFINE A == {n \in Nat : \A R \in UpTo(S, n) : SumFunctionOnSet(f, R) <= SumFunctionOnSet(g, R)}
<1>1. 0 \in A
  <2>1. \A R \in UpTo(S, 0) : R = {}
    BY FS_Subset, FS_CardinalityType, FS_EmptySet DEF UpTo
  <2>2. SumFunctionOnSet(f, {}) = 0 /\ SumFunctionOnSet(g, {}) = 0
    BY SumUnfolds, FS_EmptySet
  <2> QED
    BY SMTT(30), <2>1, <2>2
<1>2. ASSUME NEW n \in Nat, n \in A PROVE n + 1 \in A
  <2> SUFFICES ASSUME NEW T \in UpTo(S, n + 1) PROVE SumFunctionOnSet(f, T) <= SumFunctionOnSet(g, T)
    OBVIOUS
  <2>1. CASE T = {}
    <3>1. SumFunctionOnSet(f, {}) = 0 /\ SumFunctionOnSet(g, {}) = 0
      BY SumUnfolds, FS_EmptySet
    <3> QED
      BY <2>1, <3>1
  <2>2. CASE T # {}
    <3> DEFINE y == One(T)
               R == T \ {y}
    <3>1. y \in T /\ IsFiniteSet(T) /\ R \in UpTo(S, n) /\ y \in S
      <4>1. y \in T /\ IsFiniteSet(T) /\ R \in UpTo(S, n)
        BY <2>2, OneLess
      <4> QED
        BY <4>1 DEF UpTo
    <3>2. SumFunctionOnSet(f, T) = f[y] + SumFunctionOnSet(f, R) /\ SumFunctionOnSet(g, T) = g[y] + SumFunctionOnSet(g, R)
      BY <2>2, <3>1, SumUnfolds
    <3>3. SumFunctionOnSet(f, R) <= SumFunctionOnSet(g, R)
      BY <1>2, <3>1
    <3>4. IsFiniteSet(R) /\ R \subseteq S
      BY <3>1, FS_Subset DEF UpTo
    <3> HIDE DEF y, R
    <3>5. SumFunctionOnSet(f, R) \in Int /\ SumFunctionOnSet(g, R) \in Int
      BY <3>4, SumTakesOut
    <3>6. f[y] \in Int /\ g[y] \in Int /\ f[y] <= g[y]
      BY <3>1
    <3> QED
      BY <3>2, <3>3, <3>5, <3>6
  <2> QED
    BY <2>1, <2>2
<1>3. Nat \subseteq A
  <2> HIDE DEF A
  <2> QED
    BY <1>1, <1>2, EachNumber
<1>4. Cardinality(S) \in Nat /\ S \in UpTo(S, Cardinality(S))
  BY FS_CardinalityType DEF UpTo
<1> QED
  BY <1>3, <1>4

----------------------------------------------------------------------------
(* Sequences one after the other *)

IsFlat(g, seqs, n) ==
  /\ g = [i \in 1 .. n |-> g[i]]
  /\ \A i \in 1 .. n : g[i] = IF i = 1 THEN seqs[i] ELSE g[i - 1] \o seqs[i]

LEMMA FlatExists ==
  ASSUME NEW seqs, NEW n \in Nat
  PROVE  \E g : IsFlat(g, seqs, n)
<1> DEFINE A == {m \in Nat : \E g : IsFlat(g, seqs, m)}
<1>1. 0 \in A
  <2>1. IsFlat([i \in 1 .. 0 |-> <<>>], seqs, 0)
    BY DEF IsFlat
  <2> QED
    BY <2>1
<1>2. ASSUME NEW m \in Nat, m \in A PROVE m + 1 \in A
  <2>1. PICK g : IsFlat(g, seqs, m)
    BY <1>2
  <2> DEFINE h == [i \in 1 .. m + 1 |-> IF i = m + 1 THEN (IF i = 1 THEN seqs[i] ELSE g[m] \o seqs[i]) ELSE g[i]]
  <2>2. ASSUME NEW i \in 1 .. m + 1 PROVE h[i] = IF i = 1 THEN seqs[i] ELSE h[i - 1] \o seqs[i]
    <3>1. CASE i = m + 1
      <4>1. i # 1 => h[i - 1] = g[m]
        BY <3>1
      <4> QED
        BY <3>1, <4>1
    <3>2. CASE i # m + 1
      <4>1. i \in 1 .. m /\ h[i] = g[i] /\ (i # 1 => h[i - 1] = g[i - 1])
        BY <3>2
      <4>2. g[i] = IF i = 1 THEN seqs[i] ELSE g[i - 1] \o seqs[i]
        BY <2>1, <4>1 DEF IsFlat
      <4> HIDE DEF h
      <4> QED
        BY <4>1, <4>2
    <3> QED
      BY <3>1, <3>2
  <2>3. h = [i \in 1 .. m + 1 |-> h[i]]
    OBVIOUS
  <2> HIDE DEF h
  <2>4. IsFlat(h, seqs, m + 1)
    BY <2>2, <2>3 DEF IsFlat
  <2> QED
    BY <2>4
<1>3. Nat \subseteq A
  <2> HIDE DEF A
  <2> QED
    BY <1>1, <1>2, EachNumber
<1> QED
  BY <1>3

LEMMA FlatIs ==
  ASSUME NEW seqs, Len(seqs) \in Nat, Len(seqs) # 0
  PROVE  \E g : IsFlat(g, seqs, Len(seqs)) /\ FlattenSeq(seqs) = g[Len(seqs)]
<1> DEFINE n == Len(seqs)
           Is(f) == f = [i \in 1 .. n |-> IF i = 1 THEN seqs[i] ELSE f[i - 1] \o seqs[i]]
           flat == CHOOSE f : Is(f)
<1>1. FlattenSeq(seqs) = flat[n]
  BY DEF FlattenSeq
<1>2. \A f : Is(f) <=> IsFlat(f, seqs, n)
  BY DEF IsFlat
<1>3. PICK g : Is(g)
  BY <1>2, FlatExists
<1>4. Is(flat)
  <2> HIDE DEF Is
  <2> QED
    BY <1>3
<1> HIDE DEF Is, flat
<1> QED
  BY <1>1, <1>2, <1>4

\* Lists one after the other are a list of what they list.
LEMMA FlattenedIsList ==
  ASSUME NEW S, NEW seqs \in Seq(Seq(S))
  PROVE  FlattenSeq(seqs) \in Seq(S)
<1>1. Len(seqs) \in Nat /\ \A i \in 1 .. Len(seqs) : seqs[i] \in Seq(S)
  OBVIOUS
<1>2. CASE Len(seqs) = 0
  <2>1. seqs = <<>>
    BY <1>2
  <2> QED
    BY <1>2, <2>1 DEF FlattenSeq
<1>3. CASE Len(seqs) # 0
  <2>1. PICK g : IsFlat(g, seqs, Len(seqs)) /\ FlattenSeq(seqs) = g[Len(seqs)]
    BY <1>1, <1>3, FlatIs
  <2> DEFINE A == {n \in Nat : n \in 1 .. Len(seqs) => g[n] \in Seq(S)}
  <2>2. 0 \in A
    OBVIOUS
  <2>3. ASSUME NEW n \in Nat, n \in A PROVE n + 1 \in A
    <3> SUFFICES ASSUME n + 1 \in 1 .. Len(seqs) PROVE g[n + 1] \in Seq(S)
      OBVIOUS
    <3>1. g[n + 1] = IF n + 1 = 1 THEN seqs[n + 1] ELSE g[(n + 1) - 1] \o seqs[n + 1]
      BY <2>1 DEF IsFlat
    <3>2. seqs[n + 1] \in Seq(S)
      BY <1>1
    <3>3. CASE n = 0
      BY <3>1, <3>2, <3>3
    <3>4. CASE n # 0
      <4>1. n \in 1 .. Len(seqs) /\ (n + 1) - 1 = n /\ n + 1 # 1
        BY <1>1, <3>4
      <4>2. g[n] \in Seq(S)
        BY <2>3, <4>1
      <4>3. g[n + 1] = g[n] \o seqs[n + 1]
        BY <3>1, <4>1
      <4> QED
        BY <3>2, <4>2, <4>3
    <3> QED
      BY <3>3, <3>4
  <2>4. Nat \subseteq A
    <3> HIDE DEF A
    <3> QED
      BY <2>2, <2>3, EachNumber
  <2> QED
    BY <1>1, <1>3, <2>1, <2>4
<1> QED
  BY <1>2, <1>3

----------------------------------------------------------------------------
(* The walk over lsblk's trees *)

Below(g, node, d) == FlattenSeq([i \in DOMAIN node[d].children |-> g[node[d].children[i]]])
Expanded(g, node, d) ==
  IF HasOwnFs(node[d]) \/ Below(g, node, d) # <<>> THEN <<RowOf(node[d])>> \o Below(g, node, d) ELSE <<>>

\* What DisksAssumption says of one forest.
IsForest(f) ==
  /\ f.roots \in Seq(Ids) /\ DOMAIN f.node = Ids
  /\ \A d \in Ids : f.node[d].children \in Seq(Ids)

Levels(f, level) ==
  /\ Cardinality(Ids) \in Nat /\ level \in [Ids -> 0 .. Cardinality(Ids)]
  /\ \A d \in Ids : \A c \in ToSet(f.node[d].children) : level[c] < level[d]

LEMMA ForestsAre ==
  ASSUME NEW f \in Forests
  PROVE  /\ IsForest(f)
         /\ \E level : Levels(f, level)
<1>1. IsForest(f)
  BY DisksAssumption DEF IsForest
<1>2. Cardinality(Ids) \in Nat
  BY DisksAssumption, FS_CardinalityType
<1>3. PICK level \in [Ids -> 0 .. Cardinality(Ids)] :
        \A d \in Ids : \A c \in ToSet(f.node[d].children) : level[c] < level[d]
  BY DisksAssumption
<1>4. Levels(f, level)
  BY <1>2, <1>3 DEF Levels
<1> QED
  BY <1>1, <1>4

\* Only the children of a node matter to it.
LEMMA ExpandedAgrees ==
  ASSUME NEW f, IsForest(f), NEW g, NEW h, NEW d \in Ids,
         \A c \in ToSet(f.node[d].children) : g[c] = h[c]
  PROVE  Expanded(g, f.node, d) = Expanded(h, f.node, d)
<1> DEFINE ids == f.node[d].children
<1>1. \A i \in DOMAIN ids : ids[i] \in ToSet(ids)
  BY DEF ToSet
<1>2. [i \in DOMAIN ids |-> g[ids[i]]] = [i \in DOMAIN ids |-> h[ids[i]]]
  BY <1>1
<1>3. Below(g, f.node, d) = Below(h, f.node, d)
  BY <1>2 DEF Below
<1> QED
  BY <1>3 DEF Expanded

LEMMA WalkExists ==
  ASSUME NEW f, IsForest(f), NEW level, Levels(f, level)
  PROVE  \A n \in Nat : \E g : \A d \in Ids : level[d] < n => g[d] = Expanded(g, f.node, d)
<1> DEFINE Good(g, n) == \A d \in Ids : level[d] < n => g[d] = Expanded(g, f.node, d)
           A == {n \in Nat : \E g : Good(g, n)}
<1>1. 0 \in A
  <2>1. \A d \in Ids : ~(level[d] < 0)
    BY DEF Levels
  <2>2. Good(level, 0)
    BY <2>1
  <2> QED
    BY <2>2
<1>2. ASSUME NEW n \in Nat, n \in A PROVE n + 1 \in A
  <2>1. PICK g : Good(g, n)
    BY <1>2
  <2> DEFINE h == [d \in Ids |-> Expanded(g, f.node, d)]
  <2>2. ASSUME NEW d \in Ids, level[d] < n + 1 PROVE h[d] = Expanded(h, f.node, d)
    <3>1. ASSUME NEW c \in ToSet(f.node[d].children) PROVE g[c] = h[c]
      <4>1. c \in Ids
        BY DEF IsForest, ToSet
      <4>2. level[c] < n
        BY <2>2, <4>1 DEF Levels
      <4> QED
        BY <2>1, <4>1, <4>2
    <3>2. h[d] = Expanded(g, f.node, d)
      OBVIOUS
    <3> HIDE DEF h
    <3> QED
      BY <3>1, <3>2, ExpandedAgrees
  <2> HIDE DEF h
  <2>3. Good(h, n + 1)
    BY <2>2
  <2> HIDE DEF Good
  <2> QED
    BY <2>3
<1>3. Nat \subseteq A
  <2> HIDE DEF A
  <2> QED
    BY <1>1, <1>2, EachNumber
<1> QED
  BY <1>3

\* lsblk_device is what its definition says: each node's rows from those of its
\* children.
LEMMA DeviceIs ==
  ASSUME NEW f \in Forests
  PROVE  lsblk_device(f.node) = [d \in Ids |-> Expanded(lsblk_device(f.node), f.node, d)]
<1>1. IsForest(f)
  BY ForestsAre
<1>2. PICK level : Levels(f, level)
  BY ForestsAre
<1> DEFINE Is(g) == g = [d \in Ids |->
                          LET below == FlattenSeq([i \in DOMAIN f.node[d].children |-> g[f.node[d].children[i]]])
                          IN IF HasOwnFs(f.node[d]) \/ below # <<>> THEN <<RowOf(f.node[d])>> \o below ELSE <<>>]
           walk == CHOOSE g : Is(g)
           Walk(g) == g = [d \in Ids |-> Expanded(g, f.node, d)]
<1>3. lsblk_device(f.node) = walk
  BY DEF lsblk_device
<1>4. \A g : Is(g) <=> Walk(g)
  BY DEF Expanded, Below
<1>5. \E g : Walk(g)
  <2> DEFINE n == Cardinality(Ids) + 1
  <2>1. n \in Nat /\ \A d \in Ids : level[d] < n
    BY <1>2 DEF Levels
  <2> HIDE DEF n
  <2>2. PICK g : \A d \in Ids : level[d] < n => g[d] = Expanded(g, f.node, d)
    BY <1>1, <1>2, <2>1, WalkExists
  <2> DEFINE h == [d \in Ids |-> g[d]]
  <2>3. ASSUME NEW d \in Ids PROVE h[d] = Expanded(h, f.node, d)
    <3>1. \A c \in ToSet(f.node[d].children) : g[c] = h[c]
      <4>1. \A c \in ToSet(f.node[d].children) : c \in Ids
        BY <1>1 DEF IsForest, ToSet
      <4> QED
        BY <4>1
    <3>2. h[d] = g[d] /\ g[d] = Expanded(g, f.node, d)
      BY <2>1, <2>2
    <3> HIDE DEF h
    <3> QED
      BY <1>1, <3>1, <3>2, ExpandedAgrees
  <2>4. h = [d \in Ids |-> h[d]]
    OBVIOUS
  <2> HIDE DEF h
  <2>5. Walk(h)
    BY <2>3, <2>4
  <2> HIDE DEF Walk
  <2> QED
    BY <2>5
<1>6. Is(walk)
  <2> HIDE DEF Is, Walk
  <2> QED
    BY <1>4, <1>5
<1> HIDE DEF Is, walk
<1>7. Walk(walk)
  BY <1>4, <1>6
<1> QED
  BY <1>3, <1>7

\* What may be listed of a forest.
NodeRows(f) == {RowOf(f.node[d]) : d \in Ids}

LEMMA DeviceRows ==
  ASSUME NEW f \in Forests, NEW d \in Ids
  PROVE  lsblk_device(f.node)[d] \in Seq(NodeRows(f))
<1>1. IsForest(f)
  BY ForestsAre
<1>2. PICK level : Levels(f, level)
  BY ForestsAre
<1> DEFINE g == lsblk_device(f.node)
           S == NodeRows(f)
           A == {n \in Nat : \A e \in Ids : level[e] < n => g[e] \in Seq(S)}
<1>3. \A e \in Ids : g[e] = Expanded(g, f.node, e)
  BY DeviceIs
<1>4. \A e \in Ids : RowOf(f.node[e]) \in S
  BY DEF NodeRows
<1> HIDE DEF g, S
<1>5. 0 \in A
  BY <1>2 DEF Levels
<1>6. ASSUME NEW n \in Nat, n \in A PROVE n + 1 \in A
  <2> SUFFICES ASSUME NEW e \in Ids, level[e] < n + 1 PROVE g[e] \in Seq(S)
    OBVIOUS
  <2> DEFINE ids == f.node[e].children
             seqs == [i \in DOMAIN ids |-> g[ids[i]]]
  <2>1. ids \in Seq(Ids)
    BY <1>1 DEF IsForest
  <2>2. \A i \in DOMAIN ids : ids[i] \in ToSet(ids) /\ ids[i] \in Ids
    BY <2>1 DEF ToSet
  <2>3. ASSUME NEW i \in DOMAIN ids PROVE g[ids[i]] \in Seq(S)
    <3>1. level[ids[i]] < n
      BY <1>2, <2>2 DEF Levels
    <3> QED
      BY <1>6, <2>2, <3>1
  <2>4. DOMAIN ids = 1 .. Len(ids) /\ Len(ids) \in Nat
    BY <2>1
  <2>5. seqs \in Seq(Seq(S))
    BY <2>3, <2>4
  <2>6. FlattenSeq(seqs) \in Seq(S)
    BY <2>5, FlattenedIsList
  <2>7. g[e] = IF HasOwnFs(f.node[e]) \/ FlattenSeq(seqs) # <<>> THEN <<RowOf(f.node[e])>> \o FlattenSeq(seqs) ELSE <<>>
    BY <1>3 DEF Expanded, Below
  <2> HIDE DEF seqs
  <2>8. <<RowOf(f.node[e])>> \in Seq(S)
    BY <1>4
  <2> QED
    BY <2>6, <2>7, <2>8
<1>7. Nat \subseteq A
  <2> HIDE DEF A
  <2> QED
    BY <1>5, <1>6, EachNumber
<1>8. Cardinality(Ids) + 1 \in A /\ level[d] < Cardinality(Ids) + 1
  BY <1>2, <1>7 DEF Levels
<1> QED
  BY <1>8 DEF g, S

LEMMA LsblkRows ==
  ASSUME NEW f \in Forests
  PROVE  parse_lsblk(f) \in Seq(NodeRows(f))
<1> DEFINE S == NodeRows(f)
           Kept(d) == lsblk_device(f.node)[d]
           Again(d) == IF f.node[d].fs = "btrfs" /\ HasOwnFs(f.node[d]) THEN <<RowOf(f.node[d])>> ELSE <<>>
           Container(n) == n.size = 0 /\ n.used = 0 /\ ~HasOwnFs(n) /\ n.children # <<>>
           Top(d) == LET n == f.node[d]
                     IN IF Container(n) THEN FlattenSeq([i \in DOMAIN n.children |-> Kept(n.children[i])])
                        ELSE Kept(d) \o FlattenSeq([i \in DOMAIN n.children |-> Again(n.children[i])])
<1>1. IsForest(f)
  BY ForestsAre
<1>2. parse_lsblk(f) = FlattenSeq([i \in DOMAIN f.roots |-> Top(f.roots[i])])
  BY DEF parse_lsblk
<1>3. \A d \in Ids : Kept(d) \in Seq(S)
  BY DeviceRows
<1>10. \A d \in Ids : RowOf(f.node[d]) \in S
  BY DEF NodeRows
<1> HIDE DEF S
<1>11. \A r \in S : <<r>> \in Seq(S)
  OBVIOUS
<1>12. <<>> \in Seq(S)
  OBVIOUS
<1>4. \A d \in Ids : Again(d) \in Seq(S)
  BY <1>10, <1>11, <1>12
<1> HIDE DEF Kept, Again, Container
<1>5. ASSUME NEW d \in Ids PROVE Top(d) \in Seq(S)
  <2> DEFINE ids == f.node[d].children
             below == [i \in DOMAIN ids |-> Kept(ids[i])]
             again == [i \in DOMAIN ids |-> Again(ids[i])]
  <2>1. ids \in Seq(Ids)
    BY <1>1 DEF IsForest
  <2>2. DOMAIN ids = 1 .. Len(ids) /\ Len(ids) \in Nat /\ \A i \in DOMAIN ids : ids[i] \in Ids
    BY <2>1
  <2>3. below \in Seq(Seq(S))
    BY <1>3, <2>2
  <2>4. again \in Seq(Seq(S))
    BY <1>4, <2>2
  <2> HIDE DEF below, again
  <2>5. FlattenSeq(below) \in Seq(S) /\ FlattenSeq(again) \in Seq(S)
    BY <2>3, <2>4, FlattenedIsList
  <2>6. Top(d) = IF Container(f.node[d]) THEN FlattenSeq(below) ELSE Kept(d) \o FlattenSeq(again)
    BY DEF below, again
  <2>7. Kept(d) \in Seq(S)
    BY <1>3
  <2> HIDE DEF Top
  <2>8. Kept(d) \o FlattenSeq(again) \in Seq(S)
    BY <2>5, <2>7
  <2> QED
    BY <2>5, <2>6, <2>8
<1> HIDE DEF Top
<1>6. f.roots \in Seq(Ids)
  BY <1>1 DEF IsForest
<1>7. DOMAIN f.roots = 1 .. Len(f.roots) /\ Len(f.roots) \in Nat /\ \A i \in DOMAIN f.roots : f.roots[i] \in Ids
  BY <1>6
<1>8. [i \in DOMAIN f.roots |-> Top(f.roots[i])] \in Seq(Seq(S))
  BY <1>5, <1>7
<1>9. parse_lsblk(f) \in Seq(S)
  BY <1>2, <1>8, FlattenedIsList
<1> QED
  BY <1>9 DEF S

----------------------------------------------------------------------------
(* The lines df prints, and what is read of them *)

Places == {m.at : m \in Mounts}
NameLines == {<<p>> : p \in Paths}
NumberLines == {<<sizes[p], u, sizes[p] - u, "%", a>> : p \in Paths, u \in Nat, a \in Places}
DfRows == {r \in [path : Paths, at : Places, size : Nat, used : Nat] :
             r.size = sizes[r.path] /\ r.used <= r.size}
WholeLines == {<<r.path, r.size, r.used, r.size - r.used, "%", r.at>> : r \in DfRows}
DfLines == NameLines \cup NumberLines \cup WholeLines

\* After a name on a line of its own come its numbers.
WellBroken(ls) ==
  /\ ls \in Seq(DfLines)
  /\ \A i \in 1 .. Len(ls) : ls[i] \in NameLines => i < Len(ls) /\ ls[i + 1] \in NumberLines

\* What is read of one line: a whole one gives its row, a name and the numbers
\* below it give none.
DfStart == [cache |-> <<>>, rows |-> <<>>]
DfStates == [cache : NameLines \cup {<<>>}, rows : Seq(DfRows)]

LEMMA RowIsRead ==
  ASSUME NEW p \in DfStates, NEW line \in DfLines, p.cache # <<>> => line \in NumberLines
  PROVE  LET q == ParsedRow(p, line)
         IN /\ q \in DfStates
            /\ q.cache # <<>> => q.cache = line /\ line \in NameLines
<1> DEFINE fields == IF p.cache = <<>> THEN line ELSE p.cache \o Tail(line)
           row == [path |-> fields[1], at |-> fields[Len(fields)], size |-> fields[2], used |-> fields[3]]
           Takes == /\ Len(fields) >= 6 /\ disk_should_calc(row.path, row.at)
                    /\ ~\E i \in DOMAIN p.rows : [p.rows[i] EXCEPT !.at = row.at] = row
           q == ParsedRow(p, line)
<1>1. q = IF Len(line) = 1 THEN [p EXCEPT !.cache = line]
          ELSE IF Takes THEN [cache |-> <<>>, rows |-> Append(p.rows, row)]
          ELSE [p EXCEPT !.cache = <<>>]
  BY DEF ParsedRow
<1>2. p = [cache |-> p.cache, rows |-> p.rows] /\ p.cache \in NameLines \cup {<<>>} /\ p.rows \in Seq(DfRows)
  BY DEF DfStates
<1>3. CASE line \in NameLines
  <2>1. Len(line) = 1 /\ line # <<>>
    BY <1>3 DEF NameLines
  <2>2. q = [cache |-> line, rows |-> p.rows]
    BY <1>1, <1>2, <2>1
  <2> HIDE DEF q
  <2>3. q \in DfStates /\ q.cache = line
    BY <1>2, <1>3, <2>2 DEF DfStates
  <2> QED
    BY <1>3, <2>3 DEF q
<1>4. CASE line \in NumberLines
  <2>1. Len(line) = 5
    BY <1>4 DEF NumberLines
  <2>2. Len(fields) = 5
    <3>1. CASE p.cache = <<>>
      BY <2>1, <3>1
    <3>2. CASE p.cache # <<>>
      <4>1. PICK a \in Paths : p.cache = <<a>>
        BY <1>2, <3>2 DEF NameLines
      <4> DEFINE S == {line[i] : i \in 1 .. 5} \cup {a}
      <4>2. line \in Seq(S) /\ line # <<>>
        <5>1. PICK b \in Paths, u \in Nat, c \in Places : line = <<sizes[b], u, sizes[b] - u, "%", c>>
          BY <1>4 DEF NumberLines
        <5>2. \A i \in 1 .. 5 : line[i] \in S
          OBVIOUS
        <5> HIDE DEF S
        <5>3. sizes[b] \in S /\ u \in S /\ sizes[b] - u \in S /\ "%" \in S /\ c \in S
          <6>1. line[1] = sizes[b] /\ line[2] = u /\ line[3] = sizes[b] - u /\ line[4] = "%" /\ line[5] = c
            BY <5>1
          <6> QED
            BY <5>2, <6>1
        <5>4. <<sizes[b], u, sizes[b] - u, "%", c>> \in Seq(S)
          BY <5>3
        <5>5. line # <<>>
          BY <5>1
        <5> QED
          BY <5>1, <5>4, <5>5
      <4>3. <<a>> \in Seq(S) /\ Len(<<a>>) = 1
        OBVIOUS
      <4> HIDE DEF S
      <4>4. Tail(line) \in Seq(S) /\ Len(Tail(line)) = 4
        BY <2>1, <4>2, HeadTailProperties
      <4>5. Len(<<a>> \o Tail(line)) = 5
        BY <4>3, <4>4, ConcatProperties
      <4> QED
        BY <3>2, <4>1, <4>5
    <3> QED
      BY <3>1, <3>2
  <2>3. ~Takes
    <3> HIDE DEF fields
    <3> QED
      BY <2>2
  <2> HIDE DEF Takes
  <2>4. q = [cache |-> <<>>, rows |-> p.rows]
    BY <1>1, <1>2, <2>1, <2>3
  <2> HIDE DEF q
  <2>5. q \in DfStates /\ q.cache = <<>>
    BY <1>2, <2>4 DEF DfStates
  <2> QED
    BY <2>5 DEF q
<1>5. CASE line \in WholeLines
  <2>1. PICK r \in DfRows : line = <<r.path, r.size, r.used, r.size - r.used, "%", r.at>>
    BY <1>5 DEF WholeLines
  <2>2. Len(line) = 6
    BY <2>1
  <2>3. line \notin NumberLines
    BY <2>2 DEF NumberLines
  <2>4. fields = line
    BY <2>3
  <2>5. row = [path |-> r.path, at |-> r.at, size |-> r.size, used |-> r.used]
    <3>1. Len(fields) = 6 /\ fields[1] = line[1] /\ fields[6] = line[6] /\ fields[2] = line[2] /\ fields[3] = line[3]
      BY <2>2, <2>4
    <3>2. line[1] = r.path /\ line[2] = r.size /\ line[3] = r.used /\ line[6] = r.at
      BY <2>1
    <3> HIDE DEF fields
    <3> QED
      BY <3>1, <3>2
  <2>6. row \in DfRows
    <3>1. r = [path |-> r.path, at |-> r.at, size |-> r.size, used |-> r.used]
      BY DEF DfRows
    <3> HIDE DEF row
    <3> QED
      BY <2>5, <3>1
  <2> HIDE DEF Takes, row
  <2>7. q = [cache |-> <<>>, rows |-> Append(p.rows, row)] \/ q = [cache |-> <<>>, rows |-> p.rows]
    BY <1>1, <1>2, <2>2
  <2>8. Append(p.rows, row) \in Seq(DfRows)
    BY <1>2, <2>6
  <2> HIDE DEF q
  <2>9. q \in DfStates /\ q.cache = <<>>
    BY <1>2, <2>7, <2>8 DEF DfStates
  <2> QED
    BY <2>9 DEF q
<1> QED
  BY <1>3, <1>4, <1>5 DEF DfLines

IsDfParse(g, ls, n) ==
  /\ g = [i \in 0 .. n |-> g[i]]
  /\ g[0] = DfStart
  /\ \A i \in 1 .. n : g[i] = ParsedRow(g[i - 1], ls[i])

LEMMA DfParseExists ==
  ASSUME NEW ls, NEW n \in Nat
  PROVE  \E g : IsDfParse(g, ls, n)
<1> DEFINE A == {m \in Nat : \E g : IsDfParse(g, ls, m)}
<1>1. 0 \in A
  <2>1. IsDfParse([i \in 0 .. 0 |-> DfStart], ls, 0)
    BY DEF IsDfParse
  <2> QED
    BY <2>1
<1>2. ASSUME NEW m \in Nat, m \in A PROVE m + 1 \in A
  <2>1. PICK g : IsDfParse(g, ls, m)
    BY <1>2
  <2> DEFINE h == [i \in 0 .. m + 1 |-> IF i = m + 1 THEN ParsedRow(g[m], ls[m + 1]) ELSE g[i]]
  <2>2. h[0] = DfStart
    BY <2>1 DEF IsDfParse
  <2>3. ASSUME NEW i \in 1 .. m + 1 PROVE h[i] = ParsedRow(h[i - 1], ls[i])
    <3>1. i - 1 \in 0 .. m /\ h[i - 1] = g[i - 1]
      OBVIOUS
    <3>2. CASE i = m + 1
      BY <3>1, <3>2
    <3>3. CASE i # m + 1
      <4>1. i \in 1 .. m /\ h[i] = g[i]
        BY <3>3
      <4>2. g[i] = ParsedRow(g[i - 1], ls[i])
        BY <2>1, <4>1 DEF IsDfParse
      <4> QED
        BY <3>1, <4>1, <4>2
    <3> QED
      BY <3>2, <3>3
  <2>4. h = [i \in 0 .. m + 1 |-> h[i]]
    OBVIOUS
  <2> HIDE DEF h
  <2>5. IsDfParse(h, ls, m + 1)
    BY <2>2, <2>3, <2>4 DEF IsDfParse
  <2> QED
    BY <2>5
<1>3. Nat \subseteq A
  <2> HIDE DEF A
  <2> QED
    BY <1>1, <1>2, EachNumber
<1> QED
  BY <1>3

\* Of lines that are well broken only rows that df meant are read.
LEMMA DfIsRead ==
  ASSUME NEW ls, WellBroken(ls)
  PROVE  parse_df(ls) \in Seq(DfRows)
<1> DEFINE n == Len(ls)
           Is(g) == g = [i \in 0 .. n |-> IF i = 0 THEN [cache |-> <<>>, rows |-> <<>>]
                                          ELSE ParsedRow(g[i - 1], ls[i])]
           parsed == CHOOSE g : Is(g)
<1>1. parse_df(ls) = parsed[n].rows
  BY DEF parse_df
<1>2. n \in Nat /\ \A i \in 1 .. n : ls[i] \in DfLines
  BY DEF WellBroken
<1>3. \A i \in 1 .. n : ls[i] \in NameLines => i < n /\ ls[i + 1] \in NumberLines
  BY DEF WellBroken
<1> HIDE DEF n
<1>4. \A g : IsDfParse(g, ls, n) <=> Is(g)
  <2> SUFFICES ASSUME NEW g PROVE IsDfParse(g, ls, n) <=> Is(g)
    OBVIOUS
  <2>1. ASSUME IsDfParse(g, ls, n) PROVE Is(g)
    <3>1. ASSUME NEW i \in 0 .. n PROVE g[i] = IF i = 0 THEN DfStart ELSE ParsedRow(g[i - 1], ls[i])
      <4>1. i = 0 \/ i \in 1 .. n
        BY <1>2
      <4> QED
        BY <2>1, <4>1 DEF IsDfParse
    <3>2. g = [i \in 0 .. n |-> g[i]]
      BY <2>1 DEF IsDfParse
    <3> QED
      BY <3>1, <3>2 DEF DfStart
  <2>2. ASSUME Is(g) PROVE IsDfParse(g, ls, n)
    <3>1. g[0] = DfStart
      BY <1>2, <2>2 DEF DfStart
    <3>2. \A i \in 1 .. n : g[i] = ParsedRow(g[i - 1], ls[i])
      BY <1>2, <2>2
    <3>3. g = [i \in 0 .. n |-> g[i]]
      BY <1>2, <2>2
    <3> QED
      BY <3>1, <3>2, <3>3 DEF IsDfParse
  <2> HIDE DEF Is
  <2> QED
    BY <2>1, <2>2
<1>5. IsDfParse(parsed, ls, n)
  <2> HIDE DEF Is
  <2>1. PICK g : Is(g)
    BY <1>2, <1>4, DfParseExists
  <2> QED
    BY <1>4, <2>1
<1> HIDE DEF parsed
<1> DEFINE Reads(i) == /\ parsed[i] \in DfStates
                       /\ parsed[i].cache # <<>> => i # 0 /\ parsed[i].cache = ls[i] /\ ls[i] \in NameLines
           A == {i \in Nat : i <= n => Reads(i)}
<1>6. 0 \in A
  <2>1. parsed[0] = DfStart
    BY <1>5 DEF IsDfParse
  <2>2. parsed[0] \in DfStates /\ parsed[0].cache = <<>>
    BY <2>1 DEF DfStart, DfStates
  <2> QED
    BY <2>2
<1>7. ASSUME NEW i \in Nat, i \in A PROVE i + 1 \in A
  <2> SUFFICES ASSUME i + 1 <= n PROVE Reads(i + 1)
    OBVIOUS
  <2>1. i + 1 \in 1 .. n /\ i <= n /\ (i + 1) - 1 = i /\ i + 1 # 0 /\ (i # 0 => i \in 1 .. n)
    BY <1>2
  <2>2. Reads(i)
    BY <1>7, <2>1
  <2>3. parsed[i + 1] = ParsedRow(parsed[i], ls[i + 1])
    BY <1>5, <2>1 DEF IsDfParse
  <2>4. parsed[i].cache # <<>> => ls[i + 1] \in NumberLines
    BY <1>3, <2>1, <2>2
  <2>5. ls[i + 1] \in DfLines
    BY <1>2, <2>1
  <2>6. /\ parsed[i + 1] \in DfStates
        /\ parsed[i + 1].cache # <<>> => parsed[i + 1].cache = ls[i + 1] /\ ls[i + 1] \in NameLines
    BY <2>2, <2>3, <2>4, <2>5, RowIsRead
  <2> QED
    BY <2>1, <2>6
<1>8. Nat \subseteq A
  <2> HIDE DEF A
  <2> QED
    BY <1>6, <1>7, EachNumber
<1>9. parsed[n] \in DfStates
  BY <1>2, <1>8
<1> QED
  BY <1>1, <1>9 DEF DfStates

----------------------------------------------------------------------------
(* The rows of a list *)

ListedRows(f) == DfRows \cup NodeRows(f)

DisksInv ==
  /\ used \in [Paths -> Nat] /\ \A p \in Paths : used[p] <= sizes[p]
  /\ mounted \in Seq(Mounts) /\ pending \in Seq(Mounts)
  /\ forest \in Forests
  /\ WellBroken(lines)
  /\ disks \in Seq(ListedRows(forest))

\* A row says no more is used than there is, and its size is the device's.
LEMMA ListedRow ==
  ASSUME forest \in Forests, NEW r \in ListedRows(forest)
  PROVE  r.size \in Nat /\ r.used \in Nat /\ r.used <= r.size /\ r.size = CapacityOf(r.path)
<1>1. CASE r \in DfRows
  BY <1>1 DEF DfRows, CapacityOf
<1>2. CASE r \in NodeRows(forest)
  <2>1. PICK d \in Ids : r = RowOf(forest.node[d])
    BY <1>2 DEF NodeRows
  <2>2. r.path = forest.node[d].path /\ r.size = forest.node[d].size /\ r.used = forest.node[d].used
    BY <2>1 DEF RowOf
  <2>3. /\ forest.node[d].size \in Nat /\ forest.node[d].used \in 0 .. forest.node[d].size
        /\ forest.node[d].path \in Paths => forest.node[d].size = sizes[forest.node[d].path]
        /\ \A e \in Ids : forest.node[d].path = forest.node[e].path => forest.node[d].size = forest.node[e].size
    BY DisksAssumption
  <2>4. CASE r.path \in Paths
    BY <2>2, <2>3, <2>4 DEF CapacityOf
  <2>5. CASE r.path \notin Paths
    <3> DEFINE e == CHOOSE e \in Ids : forest.node[e].path = r.path
    <3>1. e \in Ids /\ forest.node[e].path = r.path
      BY <2>2
    <3>2. CapacityOf(r.path) = forest.node[e].size
      BY <2>5 DEF CapacityOf
    <3> HIDE DEF e
    <3> QED
      BY <2>2, <2>3, <3>1, <3>2
  <2> QED
    BY <2>4, <2>5
<1> QED
  BY <1>1, <1>2 DEF ListedRows

\* What df prints of a mount.
LEMMA RowsAreBroken ==
  ASSUME DisksInv, NEW m \in Mounts
  PROVE  WellBroken(RowsOf(m)) /\ Len(RowsOf(m)) \in 1 .. 2
<1> DEFINE r == [path |-> m.path, at |-> m.at, size |-> sizes[m.path], used |-> used[m.path]]
           name == <<m.path>>
           numbers == <<sizes[m.path], used[m.path], sizes[m.path] - used[m.path], "%", m.at>>
           whole == <<r.path, r.size, r.used, r.size - r.used, "%", r.at>>
<1>1. /\ m.path \in Paths /\ m.at \in Places /\ m.long \in BOOLEAN
      /\ sizes[m.path] \in Nat /\ used[m.path] \in Nat /\ used[m.path] <= sizes[m.path]
  BY DisksAssumption DEF DisksInv, Paths, Places
<1>2. name \in NameLines /\ name \in DfLines /\ name \notin NumberLines
  <2>1. Len(name) = 1
    OBVIOUS
  <2> QED
    BY <1>1, <2>1 DEF NameLines, DfLines, NumberLines
<1>3. numbers \in NumberLines /\ numbers \in DfLines /\ numbers \notin NameLines
  <2>1. Len(numbers) = 5
    OBVIOUS
  <2>2. numbers \notin NameLines
    <3> HIDE DEF numbers
    <3> QED
      BY <2>1 DEF NameLines
  <2>3. numbers \in NumberLines
    BY <1>1 DEF NumberLines
  <2> QED
    BY <2>2, <2>3 DEF DfLines
<1>4. whole \in DfLines /\ whole \notin NameLines
  <2>1. Len(whole) = 6
    OBVIOUS
  <2>2. whole \notin NameLines
    <3> HIDE DEF whole
    <3> QED
      BY <2>1 DEF NameLines
  <2>3. r \in DfRows
    BY <1>1 DEF DfRows
  <2>4. whole \in WholeLines
    <3> HIDE DEF r
    <3> QED
      BY <2>3 DEF WholeLines
  <2> QED
    BY <2>2, <2>4 DEF DfLines
<1>5. RowsOf(m) = IF m.long THEN <<name, numbers>> ELSE <<whole>>
  BY DEF RowsOf
<1> HIDE DEF name, numbers, whole
<1>6. CASE m.long
  <2>1. RowsOf(m) = <<name, numbers>>
    BY <1>5, <1>6
  <2>2. RowsOf(m) \in Seq(DfLines) /\ Len(RowsOf(m)) = 2
    BY <1>2, <1>3, <2>1
  <2>3. \A i \in 1 .. 2 : RowsOf(m)[i] \in NameLines => i < 2 /\ RowsOf(m)[i + 1] \in NumberLines
    BY <1>2, <1>3, <2>1
  <2> QED
    BY <2>2, <2>3 DEF WellBroken
<1>7. CASE ~m.long
  <2>1. RowsOf(m) = <<whole>>
    BY <1>5, <1>7
  <2>2. RowsOf(m) \in Seq(DfLines) /\ Len(RowsOf(m)) = 1
    BY <1>4, <2>1
  <2>3. \A i \in 1 .. 1 : RowsOf(m)[i] \notin NameLines
    BY <1>4, <2>1
  <2> QED
    BY <2>2, <2>3 DEF WellBroken
<1> QED
  BY <1>6, <1>7

LEMMA BrokenBoth ==
  ASSUME NEW s, NEW t, WellBroken(s), WellBroken(t)
  PROVE  WellBroken(s \o t)
<1>1. s \in Seq(DfLines) /\ t \in Seq(DfLines)
  BY DEF WellBroken
<1> DEFINE ls == s \o t
<1>2. /\ ls \in Seq(DfLines) /\ Len(ls) = Len(s) + Len(t) /\ Len(s) \in Nat /\ Len(t) \in Nat
      /\ \A i \in 1 .. Len(s) + Len(t) : ls[i] = IF i <= Len(s) THEN s[i] ELSE t[i - Len(s)]
  BY <1>1, ConcatProperties
<1> HIDE DEF ls
<1>3. ASSUME NEW i \in 1 .. Len(ls), ls[i] \in NameLines
      PROVE  i < Len(ls) /\ ls[i + 1] \in NumberLines
  <2>1. CASE i <= Len(s)
    <3>1. i \in 1 .. Len(s) /\ ls[i] = s[i]
      BY <1>2, <2>1
    <3>2. i < Len(s) /\ s[i + 1] \in NumberLines
      BY <1>3, <3>1 DEF WellBroken
    <3>3. i + 1 \in 1 .. Len(s) + Len(t) /\ i + 1 <= Len(s)
      BY <1>2, <3>2
    <3>4. ls[i + 1] = s[i + 1]
      BY <1>2, <3>3
    <3> QED
      BY <1>2, <3>2, <3>3, <3>4
  <2>2. CASE ~(i <= Len(s))
    <3> DEFINE j == i - Len(s)
    <3>1. j \in 1 .. Len(t) /\ ls[i] = t[j] /\ i = j + Len(s)
      BY <1>2, <2>2
    <3> HIDE DEF j
    <3>2. j < Len(t) /\ t[j + 1] \in NumberLines
      BY <1>3, <3>1 DEF WellBroken
    <3>3. i + 1 \in 1 .. Len(s) + Len(t) /\ ~(i + 1 <= Len(s)) /\ (i + 1) - Len(s) = j + 1 /\ i < Len(ls)
      BY <1>2, <3>1, <3>2
    <3>4. ls[i + 1] = t[(i + 1) - Len(s)]
      BY <1>2, <3>3
    <3> QED
      BY <3>2, <3>3, <3>4
  <2> QED
    BY <2>1, <2>2
<1>4. WellBroken(ls)
  BY <1>2, <1>3 DEF WellBroken
<1> QED
  BY <1>4 DEF ls

\* A list stays one as long as the forest does.
LEMMA DisksInitInv == DisksInit => DisksInv
<1> SUFFICES ASSUME DisksInit PROVE DisksInv
  OBVIOUS
<1>1. WellBroken(<<>>)
  BY DEF WellBroken
<1>2. \A p \in Paths : 0 <= sizes[p]
  BY DisksAssumption
<1>3. disks \in Seq(ListedRows(forest)) /\ mounted \in Seq(Mounts) /\ pending \in Seq(Mounts)
  BY DEF DisksInit
<1>4. used \in [Paths -> Nat] /\ \A p \in Paths : used[p] = 0
  BY DEF DisksInit
<1>5. forest \in Forests /\ lines = <<>>
  BY DEF DisksInit
<1> QED
  BY <1>1, <1>2, <1>3, <1>4, <1>5 DEF DisksInv

LEMMA DisksNextInv == DisksInv /\ [DisksNext]_diskVars => DisksInv'
<1> SUFFICES ASSUME DisksInv, [DisksNext]_diskVars PROVE DisksInv'
  OBVIOUS
<1>9. forest' = forest /\ forest \in Forests
  BY DEF DisksInv, DisksNext, diskVars, MountsOne, UnmountsOne, WritesTo, DfStarts, DfPrints, DfEnds, Lsblk
<1>1. CASE MountsOne
  <2>1. PICK m \in Mounts : mounted' = Append(mounted, m)
    BY <1>1 DEF MountsOne
  <2>2. mounted' \in Seq(Mounts)
    BY <2>1, AppendProperties DEF DisksInv
  <2>3. UNCHANGED <<used, pending, lines, disks>>
    BY <1>1 DEF MountsOne
  <2> QED
    BY <1>9, <2>2, <2>3 DEF DisksInv
<1>2. CASE UnmountsOne
  <2>1. PICK i \in DOMAIN mounted : mounted' = RemoveAt(mounted, i)
    BY <1>2 DEF UnmountsOne
  <2>2. mounted' \in Seq(Mounts)
    <3>1. mounted \in Seq(Mounts) /\ i \in 1 .. Len(mounted) /\ Len(mounted) \in Nat
      BY <2>1 DEF DisksInv
    <3>2. SubSeq(mounted, 1, i - 1) \in Seq(Mounts) /\ SubSeq(mounted, i + 1, Len(mounted)) \in Seq(Mounts)
      BY <3>1
    <3> QED
      BY <2>1, <3>2, ConcatProperties DEF RemoveAt
  <2>3. UNCHANGED <<used, pending, lines, disks>>
    BY <1>2 DEF UnmountsOne
  <2> QED
    BY <1>9, <2>2, <2>3 DEF DisksInv
<1>3. ASSUME NEW p \in Paths, WritesTo(p) PROVE DisksInv'
  <2>1. used[p] < sizes[p] /\ used' = [used EXCEPT ![p] = used[p] + 1]
    BY <1>3 DEF WritesTo
  <2>2. used' \in [Paths -> Nat]
    BY <2>1 DEF DisksInv
  <2>3. \A q \in Paths : used'[q] <= sizes[q]
    <3>1. sizes \in [Paths -> Nat] /\ used \in [Paths -> Nat] /\ \A q \in Paths : used[q] <= sizes[q]
      BY DisksAssumption DEF DisksInv
    <3> QED
      BY <2>1, <3>1
  <2>4. UNCHANGED <<mounted, pending, lines, disks>>
    BY <1>3 DEF WritesTo
  <2> QED
    BY <1>9, <2>2, <2>3, <2>4 DEF DisksInv
<1>4. CASE DfStarts
  <2>1. pending' = mounted /\ UNCHANGED <<mounted, used, lines, disks>>
    BY <1>4 DEF DfStarts
  <2> QED
    BY <1>9, <2>1 DEF DisksInv
<1>5. CASE DfPrints
  <2>1. pending # <<>> /\ lines' = lines \o RowsOf(Head(pending)) /\ pending' = Tail(pending)
    BY <1>5 DEF DfPrints
  <2>2. Head(pending) \in Mounts /\ pending' \in Seq(Mounts)
    BY <2>1, HeadTailProperties DEF DisksInv
  <2>3. WellBroken(lines')
    BY <2>1, <2>2, RowsAreBroken, BrokenBoth DEF DisksInv
  <2>4. UNCHANGED <<mounted, used, disks>>
    BY <1>5 DEF DfPrints
  <2> QED
    BY <1>9, <2>2, <2>3, <2>4 DEF DisksInv
<1>6. CASE DfEnds
  <2>1. disks' = parse_df(lines) /\ lines' = <<>> /\ UNCHANGED <<mounted, used, pending>>
    BY <1>6 DEF DfEnds
  <2>2. disks' \in Seq(DfRows)
    BY <2>1, DfIsRead DEF DisksInv
  <2>3. disks' \in Seq(ListedRows(forest))
    BY <2>2 DEF ListedRows
  <2>4. WellBroken(lines')
    BY <2>1 DEF WellBroken
  <2> QED
    BY <1>9, <2>1, <2>3, <2>4 DEF DisksInv
<1>7. CASE Lsblk
  <2>1. disks' = parse_lsblk(forest) /\ UNCHANGED <<mounted, used, pending, lines>>
    BY <1>7 DEF Lsblk
  <2>2. disks' \in Seq(NodeRows(forest))
    BY <1>9, <2>1, LsblkRows
  <2>3. disks' \in Seq(ListedRows(forest))
    BY <2>2 DEF ListedRows
  <2> QED
    BY <1>9, <2>1, <2>3 DEF DisksInv
<1>8. CASE UNCHANGED diskVars
  BY <1>8 DEF diskVars, DisksInv
<1> QED
  BY <1>1, <1>2, <1>3, <1>4, <1>5, <1>6, <1>7, <1>8 DEF DisksNext

----------------------------------------------------------------------------
(* The totals of a list *)

\* Every key has one first place.
LEMMA FirstPlaces ==
  ASSUME NEW key, DOMAIN key \in SUBSET Nat
  PROVE  /\ FirstOfEach(key) \subseteq DOMAIN key
         /\ \A i, j \in FirstOfEach(key) : key[i] = key[j] => i = j
         /\ {key[i] : i \in FirstOfEach(key)} = {key[i] : i \in DOMAIN key}
<1>1. FirstOfEach(key) \subseteq DOMAIN key
  BY DEF FirstOfEach
<1>2. \A i, j \in FirstOfEach(key) : key[i] = key[j] => i = j
  BY DEF FirstOfEach
<1>3. ASSUME NEW i \in DOMAIN key PROVE \E j \in FirstOfEach(key) : key[j] = key[i]
  <2> DEFINE T == {j \in DOMAIN key : key[j] = key[i]}
  <2>1. T \in SUBSET Nat /\ T # {}
    OBVIOUS
  <2>2. PICK m \in T : \A n \in T : m <= n
    BY <2>1, LeastNatural
  <2>3. m \in DOMAIN key /\ key[m] = key[i] /\ \A n \in DOMAIN key : key[n] = key[m] => m <= n
    BY <2>2
  <2> QED
    BY <2>3 DEF FirstOfEach
<1>4. {key[i] : i \in FirstOfEach(key)} = {key[i] : i \in DOMAIN key}
  BY <1>1, <1>3
<1> QED
  BY <1>1, <1>2, <1>4

LEMMA ListCountsOnce == DisksInv => DisksCountOnce
<1> SUFFICES ASSUME DisksInv PROVE DisksCountOnce
  OBVIOUS
<1> DEFINE devices == {disks[i].path : i \in {j \in DOMAIN disks : is_real_disk(disks[j])}}
           key == [i \in RealDisks |-> disks[i].path]
           C == OncePerPath(RealDisks)
           f == [i \in C |-> disks[i].size]
           u == [i \in C |-> disks[i].used]
           g == [p \in devices |-> CapacityOf(p)]
<1>1. /\ forest \in Forests /\ Len(disks) \in Nat /\ DOMAIN disks = 1 .. Len(disks)
      /\ \A i \in DOMAIN disks : disks[i] \in ListedRows(forest)
  BY DEF DisksInv
<1>2. RealDisks \subseteq DOMAIN disks /\ RealDisks \in SUBSET Nat /\ devices = {disks[i].path : i \in RealDisks}
  BY <1>1 DEF RealDisks
<1>3. /\ C \subseteq RealDisks
      /\ \A i, j \in C : disks[i].path = disks[j].path => i = j
      /\ {disks[i].path : i \in C} = devices
  <2>1. DOMAIN key = RealDisks /\ \A i \in RealDisks : key[i] = disks[i].path
    OBVIOUS
  <2>2. C = FirstOfEach(key)
    BY DEF OncePerPath
  <2> HIDE DEF key
  <2>3. /\ FirstOfEach(key) \subseteq RealDisks
        /\ \A i, j \in FirstOfEach(key) : key[i] = key[j] => i = j
        /\ {key[i] : i \in FirstOfEach(key)} = {key[i] : i \in RealDisks}
    BY <1>2, <2>1, FirstPlaces
  <2> HIDE DEF C
  <2>4. {key[i] : i \in C} = {disks[i].path : i \in C} /\ {key[i] : i \in RealDisks} = {disks[i].path : i \in RealDisks}
    BY <2>1, <2>2, <2>3
  <2> QED
    BY ZenonT(30), <1>2, <2>1, <2>2, <2>3, <2>4
<1>4. ASSUME NEW i \in RealDisks
      PROVE  /\ disks[i].size \in Nat /\ disks[i].used \in Nat
             /\ disks[i].used <= disks[i].size /\ disks[i].size = CapacityOf(disks[i].path)
  BY <1>1, <1>2, ListedRow
<1>5. IsFiniteSet(C)
  <2>1. IsFiniteSet(1 .. Len(disks)) /\ C \subseteq 1 .. Len(disks)
    BY <1>1, <1>2, <1>3, FS_Interval
  <2> HIDE DEF C
  <2> QED
    BY <2>1, FS_Subset
<1>6. aggregate_disks.total = SumFunctionOnSet(f, C) /\ aggregate_disks.used = SumFunctionOnSet(u, C)
  BY DEF aggregate_disks, SumFunction
<1>7. SumFunction(g) = SumFunctionOnSet(g, devices)
  BY DEF SumFunction
<1> HIDE DEF C, devices
<1>8. \A i \in C : f[i] \in Int /\ u[i] \in Int /\ u[i] <= f[i] /\ f[i] = CapacityOf(disks[i].path)
  BY <1>3, <1>4
<1>9. \A i \in C : disks[i].path \in devices
  BY <1>3
<1>10. SumFunctionOnSet(f, C) = SumFunctionOnSet(g, devices)
  <2> DEFINE path == [i \in C |-> disks[i].path]
  <2>1. \A i \in C : g[path[i]] = f[i]
    BY <1>8, <1>9
  <2>2. \A i, j \in C : path[i] = path[j] => i = j
    BY <1>3
  <2>3. {path[i] : i \in C} = devices
    BY <1>3
  <2> HIDE DEF path, f, g
  <2>4. SumFunctionOnSet(f, C) = SumFunctionOnSet(g, {path[i] : i \in C})
    BY <1>5, <1>8, <2>1, <2>2, SumMoved
  <2> QED
    BY <2>3, <2>4
<1>11. SumFunctionOnSet(u, C) <= SumFunctionOnSet(f, C)
  <2> HIDE DEF f, u
  <2> QED
    BY <1>5, <1>8, SumGrows
<1>12. {d.path : d \in flatten_disks} = devices
  <2> DEFINE pair == [i \in RealDisks |-> <<disks[i].path, disks[i].at>>]
             F == FirstOfEach(pair)
  <2>1. DOMAIN pair = RealDisks /\ \A i \in RealDisks : pair[i] = <<disks[i].path, disks[i].at>>
    OBVIOUS
  <2>2. flatten_disks = {disks[i] : i \in F}
    BY DEF flatten_disks
  <2> HIDE DEF pair
  <2>3. F \subseteq RealDisks /\ {pair[i] : i \in F} = {pair[i] : i \in RealDisks}
    BY <1>2, <2>1, FirstPlaces
  <2> HIDE DEF F
  <2>4. ASSUME NEW i \in RealDisks PROVE \E j \in F : disks[j].path = disks[i].path
    <3>1. PICK j \in F : pair[j] = pair[i]
      BY <2>3
    <3>2. <<disks[j].path, disks[j].at>> = <<disks[i].path, disks[i].at>>
      BY <2>1, <2>3, <3>1
    <3> QED
      BY <3>2
  <2>5. {disks[i].path : i \in F} = {disks[i].path : i \in RealDisks}
    BY <2>3, <2>4
  <2> QED
    BY <1>2, <2>2, <2>5
<1>13. /\ aggregate_disks.total = SumFunction(g)
       /\ aggregate_disks.used <= aggregate_disks.total
  BY <1>6, <1>7, <1>10, <1>11
<1> QED
  BY <1>12, <1>13 DEF DisksCountOnce, devices

(* Every row of a list is of a device whose one size it gives, with no more *)
(* used than that.                                                          *)
THEOREM DisksInvariant == DisksSpec => []DisksInv
<1>1. DisksInit => DisksInv
  BY DisksInitInv
<1>2. DisksInv /\ [DisksNext]_diskVars => DisksInv'
  BY DisksNextInv
<1> QED
  BY <1>1, <1>2, PTL DEF DisksSpec

(* However often the host lists a device, mounted at many places, below      *)
(* several parents or written to in between, its capacity counts once, no    *)
(* more is used than there is, and every device that counts has a row        *)
(* (aggregate_disks, flatten_disks), for any mounts, sizes and trees.        *)
THEOREM DevicesCountOnce == DisksSpec => []DisksCountOnce
<1>1. DisksInv => DisksCountOnce
  BY ListCountsOnce
<1> QED
  BY <1>1, DisksInvariant, PTL
=============================================================================
