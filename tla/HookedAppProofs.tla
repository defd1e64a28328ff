---------------------------- MODULE HookedAppProofs ----------------------------
(***************************************************************************)
(* What a call of a hooked application gets, wherever its connection is    *)
(* cut and whatever reads fail: the proofs of the safety properties of     *)
(* HookedApp, for every size of the buffer, every address and every number *)
(* of failed reads.                                                        *)
(***************************************************************************)
EXTENDS HookedApp, FiniteSetTheorems, SequenceTheorems, TLAPS

(***************************************************************************)
(* The lines of a response                                                 *)
(***************************************************************************)
\* The bytes of a response.
Chars == Words \cup {"status", "Host", "Date", "time", "<nil>", "address", "data", "text",
                   "COLON", "SP", "CR", "LF"}
\* Lines are counted from 0, the status line, to the empty one.
LastLine(r) == IF r.host # <<>> THEN 3 ELSE IF Len(r.head) > 5 THEN 2 ELSE 1
\* How many bytes are in front of a line.
Start(r, i) ==
    IF i = 0 THEN 0 ELSE IF i = 1 THEN 3
    ELSE IF r.host # <<>> THEN (IF i = 2 THEN 8 ELSE IF i = 3 THEN 16 ELSE 18) + Len(r.host)
    ELSE IF Len(r.head) > 5 THEN (IF i = 2 THEN 11 ELSE 13)
    ELSE 5

\* The parts of a response are sequences of bytes.
Bytes(r) == r.host \in Seq(Chars) /\ r.head \in Seq(Chars) /\ r.rest \in Seq(Chars)
\* A line ends with CR LF, which is nowhere else in it; only the last line is empty.
LineOf(r, i) ==
    /\ r.head[Start(r, i + 1)] = "LF" /\ r.head[Start(r, i + 1) - 1] = "CR"
    /\ \A q \in Start(r, i) + 1 .. Start(r, i + 1) - 2 : r.head[q] \notin {"CR", "LF", NUL}
    /\ 0 < i /\ i < LastLine(r) =>
          Start(r, i) + 3 <= Start(r, i + 1) /\ r.head[Start(r, i) + 1] # "COLON"
Layout(r) ==
    /\ Bytes(r)
    /\ \A i \in 0 .. LastLine(r) : LineOf(r, i)
    /\ Start(r, LastLine(r) + 1) = Len(r.head) /\ Start(r, LastLine(r)) = Len(r.head) - 2
    /\ \A q \in 1 .. Len(r.rest) : r.rest[q] # "LF"
    /\ Cardinality({i \in 1 .. Len(r.head) : r.head[i] # "CR"}) = Len(r.head) - LastLine(r) - 1
    /\ r.host # <<>> => /\ r.head[4] = "Host" /\ r.head[5] = "COLON"
                        /\ \A i \in 1 .. Len(r.host) : r.head[6 + i] = r.host[i]

\* The lines follow one another.
LEMMA StartLemma ==
    ASSUME NEW r, Bytes(r)
    PROVE  /\ LastLine(r) \in 1 .. 3
           /\ Start(r, 0) = 0 /\ Start(r, 1) = 3
           /\ \A i \in 0 .. 4 : Start(r, i) \in Nat
           /\ \A i, j \in 0 .. LastLine(r) + 1 :
                 i < j => Start(r, i) + 2 * (j - i) <= Start(r, j)
<1>1. Len(r.host) \in Nat /\ Len(r.head) \in Nat
    BY LenProperties DEF Bytes
<1>2. CASE r.host # <<>>
  <2>1. /\ LastLine(r) = 3 /\ Start(r, 0) = 0 /\ Start(r, 1) = 3
        /\ Start(r, 2) = 8 + Len(r.host) /\ Start(r, 3) = 16 + Len(r.host)
        /\ Start(r, 4) = 18 + Len(r.host)
    BY <1>2 DEF LastLine, Start
  <2>2. \A i \in 0 .. 4 : i = 0 \/ i = 1 \/ i = 2 \/ i = 3 \/ i = 4
    BY SMT
  <2>3. \A i \in 0 .. 4 : Start(r, i) \in Nat
    BY <1>1, <2>1, <2>2
  <2>4. \A i, j \in 0 .. 4 : i < j => Start(r, i) + 2 * (j - i) <= Start(r, j)
    BY <1>1, <2>1, <2>2
  <2>. QED BY <2>1, <2>3, <2>4
<1>3. CASE r.host = <<>> /\ Len(r.head) > 5
    BY <1>1, <1>3, SMT DEF LastLine, Start
<1>4. CASE r.host = <<>> /\ ~(Len(r.head) > 5)
    BY <1>1, <1>4, SMT DEF LastLine, Start
<1>. QED BY <1>2, <1>3, <1>4

\* An interval without some of its elements.
LEMMA RemoveTwo ==
    ASSUME NEW n \in Nat, NEW a \in 1 .. n, NEW b \in 1 .. n, a # b
    PROVE  IsFiniteSet((1 .. n) \ {a, b}) /\ Cardinality((1 .. n) \ {a, b}) = n - 2
<1>1. IsFiniteSet(1 .. n) /\ Cardinality(1 .. n) = n
    BY FS_Interval, SMT
<1>2. IsFiniteSet((1 .. n) \ {a}) /\ Cardinality((1 .. n) \ {a}) = n - 1
    BY <1>1, FS_RemoveElement
<1>3. b \in (1 .. n) \ {a} /\ (1 .. n) \ {a, b} = ((1 .. n) \ {a}) \ {b}
    OBVIOUS
<1>4. /\ IsFiniteSet(((1 .. n) \ {a}) \ {b})
      /\ Cardinality(((1 .. n) \ {a}) \ {b}) = Cardinality((1 .. n) \ {a}) - 1
    BY <1>2, <1>3, FS_RemoveElement
<1>. QED BY <1>2, <1>3, <1>4
LEMMA RemoveThree ==
    ASSUME NEW n \in Nat, NEW a \in 1 .. n, NEW b \in 1 .. n, NEW c \in 1 .. n,
           a # b, c # a, c # b
    PROVE  IsFiniteSet((1 .. n) \ {a, b, c}) /\ Cardinality((1 .. n) \ {a, b, c}) = n - 3
<1>1. IsFiniteSet((1 .. n) \ {a, b}) /\ Cardinality((1 .. n) \ {a, b}) = n - 2
    BY RemoveTwo
<1>2. c \in (1 .. n) \ {a, b} /\ (1 .. n) \ {a, b, c} = ((1 .. n) \ {a, b}) \ {c}
    OBVIOUS
<1>3. /\ IsFiniteSet(((1 .. n) \ {a, b}) \ {c})
      /\ Cardinality(((1 .. n) \ {a, b}) \ {c}) = Cardinality((1 .. n) \ {a, b}) - 1
    BY <1>1, <1>2, FS_RemoveElement
<1>. QED BY <1>1, <1>2, <1>3
LEMMA RemoveFour ==
    ASSUME NEW n \in Nat, NEW a \in 1 .. n, NEW b \in 1 .. n, NEW c \in 1 .. n, NEW d \in 1 .. n,
           a # b, c # a, c # b, d # a, d # b, d # c
    PROVE  Cardinality((1 .. n) \ {a, b, c, d}) = n - 4
<1>1. IsFiniteSet((1 .. n) \ {a, b, c}) /\ Cardinality((1 .. n) \ {a, b, c}) = n - 3
    BY RemoveThree
<1>2. d \in (1 .. n) \ {a, b, c} /\ (1 .. n) \ {a, b, c, d} = ((1 .. n) \ {a, b, c}) \ {d}
    OBVIOUS
<1>3. Cardinality(((1 .. n) \ {a, b, c}) \ {d}) = Cardinality((1 .. n) \ {a, b, c}) - 1
    BY <1>1, <1>2, FS_RemoveElement
<1>. QED BY <1>1, <1>2, <1>3

\* The bytes of a concatenation.
Joins(w, s, u) ==
    /\ w \in Seq(Chars) /\ Len(w) = Len(s) + Len(u)
    /\ \A i \in 1 .. Len(s) : w[i] = s[i]
    /\ \A i \in 1 .. Len(u) : w[Len(s) + i] = u[i]
LEMMA JoinLemma ==
    ASSUME NEW s \in Seq(Chars), NEW u \in Seq(Chars)
    PROVE  Joins(s \o u, s, u)
BY DEF Joins

\* The bytes of a header, of the line with the date and of a head.
LEMMA LineLemma ==
    ASSUME NEW key \in Chars, NEW value \in Seq(Chars), NEW n \in Nat, n = Len(value),
           NEW l, l = Line(key, value)
    PROVE  /\ l \in Seq(Chars) /\ Len(l) = 5 + n
           /\ l[1] = key /\ l[2] = "COLON" /\ l[3] = "SP"
           /\ \A i \in 1 .. n : l[3 + i] = value[i]
           /\ l[4 + n] = "CR" /\ l[5 + n] = "LF"
<1>1. l \in Seq(Chars) /\ Len(l) = 5 + n
    BY DEF Line, Chars
<1>2. l[1] = key /\ l[2] = "COLON" /\ l[3] = "SP"
    BY DEF Line
<1>3. \A i \in 1 .. n : l[3 + i] = value[i]
    BY DEF Line
<1>4. l[4 + n] = "CR" /\ l[5 + n] = "LF"
    BY DEF Line
<1>. QED BY <1>1, <1>2, <1>3, <1>4
LEMMA DateLemma ==
    /\ Date \in Seq(Chars) /\ Len(Date) = 8
    /\ Date[1] = "Date" /\ Date[2] = "COLON" /\ Date[3] = "SP" /\ Date[4] = "time"
    /\ Date[5] = "COLON" /\ Date[6] = "time" /\ Date[7] = "CR" /\ Date[8] = "LF"
<1>1. Date \in Seq(Chars) /\ Len(Date) = 8
    BY DEF Date, Line, Chars
<1>2. /\ Date[1] = "Date" /\ Date[2] = "COLON" /\ Date[3] = "SP" /\ Date[4] = "time"
      /\ Date[5] = "COLON" /\ Date[6] = "time" /\ Date[7] = "CR" /\ Date[8] = "LF"
    BY DEF Date, Line
<1>. QED BY <1>1, <1>2
IsHead(h, lines) ==
    /\ h \in Seq(Chars) /\ Len(h) = 5 + Len(lines)
    /\ h[1] = "status" /\ h[2] = "CR" /\ h[3] = "LF"
    /\ \A i \in 1 .. Len(lines) : h[3 + i] = lines[i]
    /\ h[4 + Len(lines)] = "CR" /\ h[5 + Len(lines)] = "LF"
LEMMA HeadLemma ==
    ASSUME NEW lines \in Seq(Chars)
    PROVE  IsHead(HeadOf(lines), lines)
<1>. DEFINE h == HeadOf(lines)
<1>1. h \in Seq(Chars) /\ Len(h) = 5 + Len(lines)
    BY DEF HeadOf, Chars
<1>2. h[1] = "status" /\ h[2] = "CR" /\ h[3] = "LF"
    BY DEF HeadOf
<1>3. \A i \in 1 .. Len(lines) : h[3 + i] = lines[i]
    BY DEF HeadOf
<1>4. h[4 + Len(lines)] = "CR" /\ h[5 + Len(lines)] = "LF"
    BY DEF HeadOf
<1>. QED BY <1>1, <1>2, <1>3, <1>4 DEF IsHead

\* The response to a request to resolve a name.
IsResolved(h, host) ==
    /\ h \in Seq(Chars) /\ Len(h) = 18 + Len(host)
    /\ h[1] = "status" /\ h[2] = "CR" /\ h[3] = "LF"
    /\ h[4] = "Host" /\ h[5] = "COLON" /\ h[6] = "SP"
    /\ \A i \in 1 .. Len(host) : h[6 + i] = host[i]
    /\ h[7 + Len(host)] = "CR" /\ h[8 + Len(host)] = "LF"
    /\ \A i \in 1 .. 8 : h[8 + Len(host) + i] = Date[i]
    /\ h[17 + Len(host)] = "CR" /\ h[18 + Len(host)] = "LF"
LEMMA ResolveBytes ==
    ASSUME NEW host \in Seq(Chars), NEW h, h = HeadOf(Line("Host", host) \o Date)
    PROVE  IsResolved(h, host)
<1>. DEFINE n == Len(host)
<1>0. n \in Nat
    OBVIOUS
<1>. HIDE DEF n
<1>. DEFINE l == Line("Host", host)
            lines == l \o Date
<1>1. /\ l \in Seq(Chars) /\ Len(l) = 5 + n
      /\ l[1] = "Host" /\ l[2] = "COLON" /\ l[3] = "SP"
      /\ \A i \in 1 .. n : l[3 + i] = host[i]
      /\ l[4 + n] = "CR" /\ l[5 + n] = "LF"
  <2>1. "Host" \in Chars
    BY DEF Chars
  <2>. QED BY <1>0, <2>1, LineLemma DEF n
<1>. HIDE DEF l
<1>2. /\ lines \in Seq(Chars) /\ Len(lines) = 13 + n
      /\ \A i \in 1 .. 5 + n : lines[i] = l[i]
      /\ \A i \in 1 .. 8 : lines[5 + n + i] = Date[i]
  <2>1. Joins(lines, l, Date)
    BY <1>1, DateLemma, JoinLemma
  <2>. HIDE DEF lines
  <2>. QED BY <1>0, <1>1, <2>1, DateLemma DEF Joins
<1>. HIDE DEF lines
<1>3. /\ lines[1] = "Host" /\ lines[2] = "COLON" /\ lines[3] = "SP"
      /\ \A i \in 1 .. n : lines[3 + i] = host[i]
      /\ lines[4 + n] = "CR" /\ lines[5 + n] = "LF"
  <2>1. /\ 1 \in 1 .. 5 + n /\ 2 \in 1 .. 5 + n /\ 3 \in 1 .. 5 + n
        /\ 4 + n \in 1 .. 5 + n /\ 5 + n \in 1 .. 5 + n
        /\ \A i \in 1 .. n : 3 + i \in 1 .. 5 + n
    BY <1>0
  <2>. QED BY <1>1, <1>2, <2>1, Zenon
<1>4. /\ h \in Seq(Chars) /\ Len(h) = 5 + (13 + n)
      /\ h[1] = "status" /\ h[2] = "CR" /\ h[3] = "LF"
      /\ \A i \in 1 .. 13 + n : h[3 + i] = lines[i]
      /\ h[4 + (13 + n)] = "CR" /\ h[5 + (13 + n)] = "LF"
  <2>1. h = HeadOf(lines)
    BY DEF lines, l
  <2>2. IsHead(h, lines)
    BY <1>2, <2>1, HeadLemma
  <2>. QED BY <1>0, <1>2, <2>2 DEF IsHead
<1>5. /\ h[3 + 1] = "Host" /\ h[3 + 2] = "COLON" /\ h[3 + 3] = "SP"
      /\ h[3 + (4 + n)] = "CR" /\ h[3 + (5 + n)] = "LF"
  <2>1. /\ 1 \in 1 .. 13 + n /\ 2 \in 1 .. 13 + n /\ 3 \in 1 .. 13 + n
        /\ 4 + n \in 1 .. 13 + n /\ 5 + n \in 1 .. 13 + n
    BY <1>0
  <2>. QED BY <1>3, <1>4, <2>1, Zenon
<1>6. ASSUME NEW i \in 1 .. n
      PROVE  h[6 + i] = host[i]
  <2>1. 3 + i \in 1 .. 13 + n /\ 3 + (3 + i) = 6 + i
    BY <1>0
  <2>. QED BY <1>3, <1>4, <2>1
<1>7. ASSUME NEW i \in 1 .. 8
      PROVE  h[8 + n + i] = Date[i]
  <2>1. 5 + n + i \in 1 .. 13 + n /\ 3 + (5 + n + i) = 8 + n + i
    BY <1>0
  <2>. QED BY <1>2, <1>4, <2>1
<1>8. h[7 + n] = "CR" /\ h[8 + n] = "LF" /\ h[17 + n] = "CR" /\ h[18 + n] = "LF"
    BY <1>0, <1>4, <1>5
<1>9. h \in Seq(Chars) /\ Len(h) = 18 + n /\ h[4] = "Host" /\ h[5] = "COLON" /\ h[6] = "SP"
    BY <1>0, <1>4, <1>5
<1>. QED BY <1>4, <1>6, <1>7, <1>8, <1>9 DEF IsResolved, n

\* The response to a request for a tunnel.
LEMMA TunnelBytes ==
    ASSUME NEW h
    PROVE  /\ h = HeadOf(<<>>) =>
                /\ h \in Seq(Chars) /\ Len(h) = 5
                /\ h[1] = "status" /\ h[2] = "CR" /\ h[3] = "LF" /\ h[4] = "CR" /\ h[5] = "LF"
           /\ h = HeadOf(Date) =>
                /\ h \in Seq(Chars) /\ Len(h) = 13
                /\ h[1] = "status" /\ h[2] = "CR" /\ h[3] = "LF"
                /\ \A i \in 1 .. 8 : h[3 + i] = Date[i]
                /\ h[12] = "CR" /\ h[13] = "LF"
<1>1. ASSUME h = HeadOf(<<>>)
      PROVE  /\ h \in Seq(Chars) /\ Len(h) = 5
             /\ h[1] = "status" /\ h[2] = "CR" /\ h[3] = "LF" /\ h[4] = "CR" /\ h[5] = "LF"
    BY <1>1 DEF HeadOf, Chars
<1>2. ASSUME h = HeadOf(Date)
      PROVE  /\ h \in Seq(Chars) /\ Len(h) = 13
             /\ h[1] = "status" /\ h[2] = "CR" /\ h[3] = "LF"
             /\ \A i \in 1 .. 8 : h[3 + i] = Date[i]
             /\ h[12] = "CR" /\ h[13] = "LF"
  <2>1. IsHead(h, Date)
    BY <1>2, DateLemma, HeadLemma
  <2>. QED BY <2>1, DateLemma DEF IsHead
<1>. QED BY <1>1, <1>2

\* Both have the lines that LastLine and Start say.
LEMMA ResolveLayout ==
    ASSUME NEW host \in Seq(Chars), host # <<>>, NEW n \in Nat, n = Len(host),
           \A i \in 1 .. n : host[i] \notin {"CR", "LF", NUL},
           NEW h, h = HeadOf(Line("Host", host) \o Date),
           NEW r, r.host = host, r.head = h, r.rest = <<>>
    PROVE  Layout(r) /\ r # NoReply
<1>0. IsResolved(h, host)
    BY ResolveBytes
<1>1. \A i \in 1 .. n : h[6 + i] = host[i]
    BY <1>0 DEF IsResolved
<1>2. \A i \in 1 .. 8 : h[8 + n + i] = Date[i]
    BY <1>0 DEF IsResolved
<1>3. /\ h \in Seq(Chars) /\ Len(h) = 18 + n
      /\ h[1] = "status" /\ h[2] = "CR" /\ h[3] = "LF"
      /\ h[4] = "Host" /\ h[5] = "COLON" /\ h[6] = "SP"
      /\ h[7 + n] = "CR" /\ h[8 + n] = "LF" /\ h[17 + n] = "CR" /\ h[18 + n] = "LF"
    BY <1>0 DEF IsResolved
<1>4. /\ h[9 + n] = "Date" /\ h[10 + n] = "COLON" /\ h[11 + n] = "SP" /\ h[12 + n] = "time"
      /\ h[13 + n] = "COLON" /\ h[14 + n] = "time" /\ h[15 + n] = "CR" /\ h[16 + n] = "LF"
  <2>1. /\ h[8 + n + 1] = Date[1] /\ h[8 + n + 2] = Date[2] /\ h[8 + n + 3] = Date[3]
        /\ h[8 + n + 4] = Date[4] /\ h[8 + n + 5] = Date[5] /\ h[8 + n + 6] = Date[6]
        /\ h[8 + n + 7] = Date[7] /\ h[8 + n + 8] = Date[8]
    <3>1. /\ 1 \in 1 .. 8 /\ 2 \in 1 .. 8 /\ 3 \in 1 .. 8 /\ 4 \in 1 .. 8
          /\ 5 \in 1 .. 8 /\ 6 \in 1 .. 8 /\ 7 \in 1 .. 8 /\ 8 \in 1 .. 8
      OBVIOUS
    <3>. QED BY <1>2, <3>1, Zenon
  <2>. QED BY <2>1, DateLemma
<1>5. \A q \in 7 .. 6 + n : h[q] = host[q - 6] /\ q - 6 \in 1 .. n
  <2>1. \A q \in 7 .. 6 + n : q - 6 \in 1 .. n /\ 6 + (q - 6) = q
    OBVIOUS
  <2>. QED BY <1>1, <2>1
<1>6. /\ LastLine(r) = 3 /\ Start(r, 0) = 0 /\ Start(r, 1) = 3 /\ Start(r, 2) = 8 + n
      /\ Start(r, 3) = 16 + n /\ Start(r, 4) = 18 + n
    BY DEF LastLine, Start
<1>7. Bytes(r)
    BY <1>3 DEF Bytes
<1>8. \A q \in 7 .. 6 + n : h[q] \notin {"CR", "LF", NUL}
    BY <1>5
<1>9. LineOf(r, 0) /\ LineOf(r, 1) /\ LineOf(r, 2) /\ LineOf(r, 3)
  <2>1. LineOf(r, 0)
    BY <1>3, <1>6 DEF LineOf, NUL
  <2>2. LineOf(r, 1)
    <3>1. \A q \in 4 .. 6 + n : q = 4 \/ q = 5 \/ q = 6 \/ q \in 7 .. 6 + n
      OBVIOUS
    <3>2. \A q \in 4 .. 6 + n : h[q] \notin {"CR", "LF", NUL}
      BY <1>3, <1>8, <3>1 DEF NUL
    <3>3. h[8 + n] = "LF" /\ h[8 + n - 1] = "CR" /\ h[3 + 1] # "COLON" /\ 3 + 3 <= 8 + n
      BY <1>3
    <3>4. 8 + n - 2 = 6 + n /\ 3 + 1 = 4 /\ 1 + 1 = 2
      OBVIOUS
    <3>. QED BY <1>6, <3>2, <3>3, <3>4 DEF LineOf
  <2>3. LineOf(r, 2)
    <3>1. \A q \in 9 + n .. 14 + n : \/ q = 9 + n \/ q = 10 + n \/ q = 11 + n
                                     \/ q = 12 + n \/ q = 13 + n \/ q = 14 + n
      OBVIOUS
    <3>2. \A q \in 9 + n .. 14 + n : h[q] \notin {"CR", "LF", NUL}
      BY <1>4, <3>1 DEF NUL
    <3>. QED BY <1>4, <1>6, <3>2 DEF LineOf
  <2>4. LineOf(r, 3)
    BY <1>3, <1>6 DEF LineOf
  <2>. QED BY <2>1, <2>2, <2>3, <2>4
<1>10. \A i \in 0 .. LastLine(r) : LineOf(r, i)
  <2>1. \A i \in 0 .. 3 : i = 0 \/ i = 1 \/ i = 2 \/ i = 3
    OBVIOUS
  <2>. QED BY <1>6, <1>9, <2>1
<1>11. Cardinality({i \in 1 .. Len(h) : h[i] # "CR"}) = 14 + n
  <2>1. {i \in 1 .. Len(h) : h[i] # "CR"} = (1 .. 18 + n) \ {2, 7 + n, 15 + n, 17 + n}
    <3>1. \A q \in 1 .. 18 + n : h[q] = "CR" <=> q \in {2, 7 + n, 15 + n, 17 + n}
      <4>1. \A q \in 1 .. 18 + n :
               \/ q \in 1 .. 6 \/ q \in 7 .. 6 + n
               \/ q = 7 + n \/ q = 8 + n \/ q = 9 + n \/ q = 10 + n \/ q = 11 + n \/ q = 12 + n
               \/ q = 13 + n \/ q = 14 + n \/ q = 15 + n \/ q = 16 + n \/ q = 17 + n \/ q = 18 + n
        OBVIOUS
      <4>2. \A q \in 1 .. 6 : /\ h[q] = "CR" <=> q = 2
                              /\ q \notin {7 + n, 15 + n, 17 + n}
        BY <1>3
      <4>3. \A q \in 7 .. 6 + n : h[q] # "CR" /\ q \notin {2, 7 + n, 15 + n, 17 + n}
        BY <1>8
      <4>4. \A q \in 1 .. 18 + n : ~(q \in 1 .. 6) /\ ~(q \in 7 .. 6 + n) =>
               (h[q] = "CR" <=> q \in {2, 7 + n, 15 + n, 17 + n})
        <5>1. /\ h[7 + n] = "CR" /\ h[15 + n] = "CR" /\ h[17 + n] = "CR"
              /\ \A q \in {8 + n, 9 + n, 10 + n, 11 + n, 12 + n, 13 + n, 14 + n, 16 + n, 18 + n} :
                    h[q] # "CR"
          <6>1. /\ h[7 + n] = "CR" /\ h[15 + n] = "CR" /\ h[17 + n] = "CR"
                /\ h[8 + n] # "CR" /\ h[16 + n] # "CR" /\ h[18 + n] # "CR"
                /\ h[9 + n] # "CR" /\ h[10 + n] # "CR" /\ h[11 + n] # "CR"
                /\ h[12 + n] # "CR" /\ h[13 + n] # "CR" /\ h[14 + n] # "CR"
            BY <1>3, <1>4, Zenon
          <6>2. ASSUME NEW q \in {8 + n, 9 + n, 10 + n, 11 + n, 12 + n, 13 + n, 14 + n,
                                 16 + n, 18 + n}
                PROVE  h[q] # "CR"
            <7>1. CASE q = 8 + n \/ q = 9 + n \/ q = 10 + n
              BY <6>1, <7>1, Zenon
            <7>2. CASE q = 11 + n \/ q = 12 + n \/ q = 13 + n
              BY <6>1, <7>2, Zenon
            <7>3. CASE q = 14 + n \/ q = 16 + n \/ q = 18 + n
              BY <6>1, <7>3, Zenon
            <7>. QED BY <7>1, <7>2, <7>3
          <6>. QED BY <6>1, <6>2
        <5>2. \A q \in {8 + n, 9 + n, 10 + n, 11 + n, 12 + n, 13 + n, 14 + n, 16 + n, 18 + n} :
                 q \notin {2, 7 + n, 15 + n, 17 + n}
          OBVIOUS
        <5>. QED BY <4>1, <5>1, <5>2, Zenon
      <4>. QED BY <4>2, <4>3, <4>4
    <3>2. Len(h) = 18 + n
      BY <1>3
    <3>. QED BY <3>1, <3>2
  <2>2. PICK m \in Nat, b \in Nat, c \in Nat, d \in Nat :
           m = 18 + n /\ b = 7 + n /\ c = 15 + n /\ d = 17 + n
    OBVIOUS
  <2>3. Cardinality((1 .. m) \ {2, b, c, d}) = m - 4
    <3>1. /\ 2 \in 1 .. m /\ b \in 1 .. m /\ c \in 1 .. m /\ d \in 1 .. m
          /\ 2 # b /\ c # 2 /\ c # b /\ d # 2 /\ d # b /\ d # c
      BY <2>2
    <3>. QED BY <3>1, RemoveFour
  <2>4. m - 4 = 14 + n
    BY <2>2
  <2>. QED BY <2>1, <2>2, <2>3, <2>4
<1>12. r # NoReply
    BY DEF NoReply
<1>13. Start(r, LastLine(r) + 1) = Len(h) /\ Start(r, LastLine(r)) = Len(h) - 2
    BY <1>3, <1>6
<1>14. Cardinality({i \in 1 .. Len(h) : h[i] # "CR"}) = Len(h) - LastLine(r) - 1
    BY <1>3, <1>6, <1>11
<1>. QED BY <1>1, <1>3, <1>7, <1>10, <1>12, <1>13, <1>14 DEF Layout

LEMMA TunnelLayout ==
    ASSUME NEW lines \in {<<>>, Date}, NEW rest \in {<<"data">>, <<"text">>},
           NEW h, h = HeadOf(lines), NEW r, r.host = <<>>, r.head = h, r.rest = rest
    PROVE  Layout(r) /\ r # NoReply
<1>1. rest \in Seq(Chars) /\ Len(rest) = 1 /\ \A q \in 1 .. Len(rest) : rest[q] # "LF"
  <2>1. CASE rest = <<"data">>
    BY <2>1 DEF Chars
  <2>2. CASE rest = <<"text">>
    BY <2>2 DEF Chars
  <2>. QED BY <2>1, <2>2
<1>2. r # NoReply
  <2>1. NoReply.rest = <<>>
    BY DEF NoReply
  <2>2. rest # <<>>
    OBVIOUS
  <2>. QED BY <2>1, <2>2, Zenon
<1>3. CASE lines = <<>>
  <2>1. /\ h \in Seq(Chars) /\ Len(h) = 5
        /\ h[1] = "status" /\ h[2] = "CR" /\ h[3] = "LF" /\ h[4] = "CR" /\ h[5] = "LF"
    BY <1>3, TunnelBytes
  <2>2. LastLine(r) = 1 /\ Start(r, 0) = 0 /\ Start(r, 1) = 3 /\ Start(r, 2) = 5
    BY <2>1 DEF LastLine, Start
  <2>3. LineOf(r, 0) /\ LineOf(r, 1)
    BY <2>1, <2>2 DEF LineOf, NUL
  <2>4. \A i \in 0 .. LastLine(r) : LineOf(r, i)
    <3>1. \A i \in 0 .. 1 : i = 0 \/ i = 1
      OBVIOUS
    <3>. QED BY <2>2, <2>3, <3>1
  <2>5. Cardinality({i \in 1 .. Len(h) : h[i] # "CR"}) = 3
    <3>1. {i \in 1 .. Len(h) : h[i] # "CR"} = (1 .. 5) \ {2, 4}
      BY <2>1
    <3>2. PICK m \in Nat, a \in Nat, b \in Nat : m = 5 /\ a = 2 /\ b = 4
      OBVIOUS
    <3>3. Cardinality((1 .. m) \ {a, b}) = m - 2
      <4>1. a \in 1 .. m /\ b \in 1 .. m /\ a # b
        BY <3>2
      <4>. QED BY <4>1, RemoveTwo
    <3>4. m - 2 = 3
      BY <3>2
    <3>. QED BY <3>1, <3>2, <3>3, <3>4
  <2>6. Bytes(r)
    BY <1>1, <2>1 DEF Bytes
  <2>. QED BY <1>1, <1>2, <2>1, <2>2, <2>4, <2>5, <2>6 DEF Layout
<1>4. CASE lines = Date
  <2>1. /\ h \in Seq(Chars) /\ Len(h) = 13
        /\ h[1] = "status" /\ h[2] = "CR" /\ h[3] = "LF"
        /\ \A i \in 1 .. 8 : h[3 + i] = Date[i]
        /\ h[12] = "CR" /\ h[13] = "LF"
    BY <1>4, TunnelBytes
  <2>2. /\ h[4] = "Date" /\ h[5] = "COLON" /\ h[6] = "SP" /\ h[7] = "time" /\ h[8] = "COLON"
        /\ h[9] = "time" /\ h[10] = "CR" /\ h[11] = "LF"
    <3>1. /\ h[3 + 1] = Date[1] /\ h[3 + 2] = Date[2] /\ h[3 + 3] = Date[3]
          /\ h[3 + 4] = Date[4] /\ h[3 + 5] = Date[5] /\ h[3 + 6] = Date[6]
          /\ h[3 + 7] = Date[7] /\ h[3 + 8] = Date[8]
      <4>1. /\ 1 \in 1 .. 8 /\ 2 \in 1 .. 8 /\ 3 \in 1 .. 8 /\ 4 \in 1 .. 8
            /\ 5 \in 1 .. 8 /\ 6 \in 1 .. 8 /\ 7 \in 1 .. 8 /\ 8 \in 1 .. 8
        OBVIOUS
      <4>. QED BY <2>1, <4>1, Zenon
    <3>. QED BY <3>1, DateLemma
  <2>3. /\ h \in Seq(Chars) /\ Len(h) = 13
        /\ h[1] = "status" /\ h[2] = "CR" /\ h[3] = "LF" /\ h[12] = "CR" /\ h[13] = "LF"
    BY <2>1
  <2>4. /\ LastLine(r) = 2 /\ Start(r, 0) = 0 /\ Start(r, 1) = 3 /\ Start(r, 2) = 11
        /\ Start(r, 3) = 13
    BY <2>3 DEF LastLine, Start
  <2>5. LineOf(r, 0) /\ LineOf(r, 1) /\ LineOf(r, 2)
    <3>1. LineOf(r, 0) /\ LineOf(r, 2)
      BY <2>3, <2>4 DEF LineOf, NUL
    <3>2. \A q \in 4 .. 9 : h[q] \notin {"CR", "LF", NUL}
      BY <2>2 DEF NUL
    <3>3. LineOf(r, 1)
      BY <2>2, <2>4, <3>2 DEF LineOf
    <3>. QED BY <3>1, <3>3
  <2>6. \A i \in 0 .. LastLine(r) : LineOf(r, i)
    <3>1. \A i \in 0 .. 2 : i = 0 \/ i = 1 \/ i = 2
      OBVIOUS
    <3>. QED BY <2>4, <2>5, <3>1
  <2>7. Cardinality({i \in 1 .. Len(h) : h[i] # "CR"}) = 10
    <3>1. \A q \in 1 .. 13 : h[q] = "CR" <=> q \in {2, 10, 12}
      BY <2>2, <2>3
    <3>2. {i \in 1 .. Len(h) : h[i] # "CR"} = (1 .. 13) \ {2, 10, 12}
      BY <2>3, <3>1
    <3>3. PICK m \in Nat, a \in Nat, b \in Nat, c \in Nat : m = 13 /\ a = 2 /\ b = 10 /\ c = 12
      OBVIOUS
    <3>4. Cardinality((1 .. m) \ {a, b, c}) = m - 3
      <4>1. /\ a \in 1 .. m /\ b \in 1 .. m /\ c \in 1 .. m
            /\ a # b /\ c # a /\ c # b
        BY <3>3
      <4>. QED BY <4>1, RemoveThree
    <3>5. m - 3 = 10
      BY <3>3
    <3>. QED BY <3>2, <3>3, <3>4, <3>5
  <2>8. Bytes(r)
    BY <1>1, <2>3 DEF Bytes
  <2>. QED BY <1>1, <1>2, <2>3, <2>4, <2>6, <2>7, <2>8 DEF Layout
<1>. QED BY <1>3, <1>4

\* Byte k + 1 is in line j, or behind the last one.
LineAt(r, j, k) ==
    /\ j <= LastLine(r) + 1 /\ Start(r, j) <= k
    /\ j <= LastLine(r) => k < Start(r, j + 1)

\* The bytes of line j.
LEMMA ByteAt ==
    ASSUME NEW r, Layout(r), NEW k \in Nat, NEW j \in 0 .. LastLine(r),
           Start(r, j) <= k, k < Start(r, j + 1)
    PROVE  /\ k + 1 \in 1 .. Len(r.head)
           /\ r.head[k + 1] = "LF" <=> k + 1 = Start(r, j + 1)
           /\ r.head[k + 1] = "CR" <=> k + 1 = Start(r, j + 1) - 1
           /\ r.head[k + 1] # NUL
           /\ 0 < j /\ j < LastLine(r) =>
                /\ Start(r, j) + 3 <= Start(r, j + 1)
                /\ k = Start(r, j) => r.head[k + 1] # "COLON"
<1>1. /\ LastLine(r) \in 1 .. 3
      /\ \A i \in 0 .. 4 : Start(r, i) \in Nat
      /\ \A i, l \in 0 .. LastLine(r) + 1 : i < l => Start(r, i) + 2 * (l - i) <= Start(r, l)
    BY StartLemma DEF Layout
<1>2. LineOf(r, j)
    BY DEF Layout
<1>3. j \in 0 .. 4 /\ j + 1 \in 0 .. 4 /\ j + 1 \in 0 .. LastLine(r) + 1
    BY <1>1
<1>4. PICK a \in Nat, b \in Nat : a = Start(r, j) /\ b = Start(r, j + 1)
    BY <1>1, <1>3
<1>5. b <= Len(r.head)
  <2>1. Start(r, LastLine(r) + 1) = Len(r.head)
    BY DEF Layout
  <2>2. j + 1 = LastLine(r) + 1 \/ j + 1 < LastLine(r) + 1
    BY <1>1
  <2>3. LastLine(r) + 1 \in 0 .. LastLine(r) + 1 /\ LastLine(r) + 1 \in 0 .. 4
    BY <1>1
  <2>4. CASE j + 1 < LastLine(r) + 1
    <3>1. Start(r, j + 1) + 2 * (LastLine(r) + 1 - (j + 1)) <= Start(r, LastLine(r) + 1)
      BY <1>1, <1>3, <2>3, <2>4
    <3>2. PICK d \in Nat : d = LastLine(r) + 1 - (j + 1)
      BY <1>1, <2>4
    <3>3. b + 2 * d <= Len(r.head)
      BY <1>4, <2>1, <3>1, <3>2
    <3>4. Len(r.head) \in Nat
      BY LenProperties DEF Layout, Bytes
    <3>. QED BY <3>2, <3>3, <3>4
  <2>. QED BY <1>4, <2>1, <2>2, <2>4
<1>6. /\ r.head[b] = "LF" /\ r.head[b - 1] = "CR"
      /\ \A q \in a + 1 .. b - 2 : r.head[q] \notin {"CR", "LF", NUL}
      /\ 0 < j /\ j < LastLine(r) => a + 3 <= b /\ r.head[a + 1] # "COLON"
    BY <1>2, <1>4 DEF LineOf
<1>7. a <= k /\ k < b /\ (k + 1 \in a + 1 .. b - 2 \/ k + 1 = b - 1 \/ k + 1 = b)
    BY <1>4
<1>8. Len(r.head) \in Nat
    BY LenProperties DEF Layout, Bytes
<1>9. k + 1 \in 1 .. Len(r.head)
    BY <1>5, <1>7, <1>8
<1>10. /\ r.head[k + 1] = "LF" <=> k + 1 = b
       /\ r.head[k + 1] = "CR" <=> k + 1 = b - 1
       /\ r.head[k + 1] # NUL
    BY <1>6, <1>7 DEF NUL
<1>. QED BY <1>4, <1>6, <1>9, <1>10

\* The bytes of a response are those of its head and then those of its rest.
IsSource(src, h, u) ==
    /\ src \in Seq(Chars) /\ Len(h) \in Nat /\ Len(u) \in Nat /\ Len(src) = Len(h) + Len(u)
    /\ \A q \in 1 .. Len(src) : /\ q <= Len(h) => src[q] = h[q]
                                /\ q > Len(h) => src[q] = u[q - Len(h)]
LEMMA SourceLemma ==
    ASSUME NEW h \in Seq(Chars), NEW u \in Seq(Chars)
    PROVE  IsSource(h \o u, h, u)
<1>. DEFINE src == h \o u
<1>1. Len(h) \in Nat /\ Len(u) \in Nat
    BY LenProperties
<1>2. /\ src \in Seq(Chars) /\ Len(src) = Len(h) + Len(u)
      /\ \A i \in 1 .. Len(h) + Len(u) : src[i] = IF i <= Len(h) THEN h[i] ELSE u[i - Len(h)]
    BY ConcatProperties
<1>. HIDE DEF src
<1>3. IsSource(src, h, u)
    BY <1>1, <1>2 DEF IsSource
<1>. QED BY <1>3 DEF src

\* Counting the ends of lines finds the line of the next byte.
LEMMA LineStep ==
    ASSUME NEW r, Layout(r), NEW k \in Nat, NEW j \in Nat, LineAt(r, j, k),
           NEW src, IsSource(src, r.head, r.rest), k + 1 <= Len(src), NEW c, c = src[k + 1],
           NEW l, l = IF c = "LF" THEN j + 1 ELSE j
    PROVE  /\ LineAt(r, l, k + 1) /\ (c = "LF" => j <= LastLine(r))
           /\ j <= LastLine(r) => c = r.head[k + 1]
<1>. DEFINE n == LastLine(r)
            h == r.head
            u == r.rest
<1>1. /\ n \in 1 .. 3 /\ \A i \in 0 .. 4 : Start(r, i) \in Nat
    BY StartLemma DEF Layout
<1>2. h \in Seq(Chars) /\ u \in Seq(Chars)
    BY DEF Layout, Bytes
<1>. HIDE DEF h, u, n
<1>3. /\ Len(h) \in Nat /\ Len(u) \in Nat /\ Len(src) = Len(h) + Len(u)
      /\ k + 1 <= Len(h) => c = h[k + 1]
      /\ k + 1 > Len(h) => c = u[k + 1 - Len(h)] /\ k + 1 - Len(h) \in 1 .. Len(u)
  <2>2. /\ Len(h) \in Nat /\ Len(u) \in Nat /\ Len(src) = Len(h) + Len(u)
        /\ \A q \in 1 .. Len(src) : /\ q <= Len(h) => src[q] = h[q]
                                    /\ q > Len(h) => src[q] = u[q - Len(h)]
    BY DEF IsSource, h, u
  <2>3. k + 1 \in 1 .. Len(src)
    BY <2>2
  <2>. QED BY <2>2, <2>3
<1>4. /\ j <= n + 1 /\ Start(r, j) <= k
      /\ j <= n => k < Start(r, j + 1)
    BY DEF LineAt, n
<1>5. CASE j <= n
  <2>1. /\ k + 1 \in 1 .. Len(h)
        /\ h[k + 1] = "LF" <=> k + 1 = Start(r, j + 1)
    <3>1. j \in 0 .. LastLine(r)
      BY <1>1, <1>5 DEF n
    <3>. QED BY <1>4, <1>5, <3>1, ByteAt DEF h
  <2>2. c = h[k + 1]
    BY <1>3, <2>1
  <2>3. j \in 0 .. 4 /\ j + 1 \in 0 .. 4
    BY <1>1, <1>5
  <2>4. CASE c = "LF"
    <3>1. l = j + 1 /\ k + 1 = Start(r, l)
      BY <2>1, <2>2, <2>4
    <3>2. ASSUME l <= n PROVE k + 1 < Start(r, l + 1)
      <4>1. l \in 0 .. n + 1 /\ l + 1 \in 0 .. n + 1 /\ l + 1 \in 0 .. 4 /\ l < l + 1
        BY <1>1, <3>1, <3>2
      <4>2. Start(r, l) + 2 * (l + 1 - l) <= Start(r, l + 1)
        BY <4>1, StartLemma DEF Layout, n
      <4>3. 2 * (l + 1 - l) = 2
        BY <4>1
      <4>4. Start(r, l + 1) \in Nat
        BY <1>1, <4>1
      <4>. QED BY <3>1, <4>2, <4>3, <4>4
    <3>3. l <= n + 1
      BY <1>1, <1>5, <3>1
    <3>. QED BY <1>5, <2>2, <3>1, <3>2, <3>3 DEF h, n, LineAt
  <2>5. CASE c # "LF"
    <3>1. l = j /\ k + 1 # Start(r, j + 1) /\ k < Start(r, j + 1) /\ Start(r, j + 1) \in Nat
      BY <1>1, <1>4, <1>5, <2>1, <2>2, <2>3, <2>5
    <3>2. Start(r, j) <= k + 1 /\ k + 1 < Start(r, j + 1)
      BY <1>1, <1>4, <2>3, <3>1
    <3>. QED BY <1>4, <2>2, <2>5, <3>1, <3>2 DEF h, n, LineAt
  <2>. QED BY <2>4, <2>5
<1>6. CASE j = n + 1
  <2>1. Len(h) <= k
    BY <1>4, <1>6 DEF Layout, h, n
  <2>2. c # "LF"
    <3>1. \A q \in 1 .. Len(u) : u[q] # "LF"
      BY DEF Layout, u
    <3>2. k + 1 > Len(h)
      BY <1>3, <2>1
    <3>. QED BY <1>3, <3>1, <3>2
  <2>3. l = j /\ j \in 0 .. 4 /\ ~(j <= n)
    BY <1>1, <1>6, <2>2
  <2>4. Start(r, j) <= k + 1
    BY <1>1, <1>4, <2>3
  <2>. QED BY <1>4, <2>2, <2>3, <2>4 DEF LineAt, n
<1>. QED BY <1>1, <1>4, <1>5, <1>6

(***************************************************************************)
(* The inductive invariant                                                 *)
(***************************************************************************)
\* Behind the byte that is read next, m_buffer is empty; a read that fails finds
\* nothing there, or the CR that has been read last.
TypeInv ==
    /\ alive \in BOOLEAN /\ listening \subseteq DOMAIN TcpPort
    /\ dnsTarget \in Targets \cup {""}
    /\ DOMAIN m_buffer = Positions
    /\ p \in 0 .. BufSize - 1 /\ m_nvalues \in 0 .. 4
    /\ m_keys \in [0 .. Slots - 1 -> {NULL} \cup Positions]
    /\ m_values \in [0 .. Slots - 1 -> {NULL} \cup 0 .. BufSize]
    /\ errors \in Nat /\ cut \in BOOLEAN
    /\ call \in [op : {"none", "getaddrinfo", "connect"},
                 at : {"idle", "blocking", "socket", "connect", "send", "read", "parsed",
                       "leave", "return"}]
BufferInv ==
    call.at = "read" =>
        /\ p < BufSize - 1
        /\ m_buffer[p] \in {NUL, "CR"}
        /\ \A q \in Positions : q > p => m_buffer[q] = NUL

\* The socket of each call.
SocketInv ==
    /\ fd \in [owner : {"none", "application", "hook"}, nonblock : BOOLEAN]
    /\ was \in BOOLEAN /\ m_old_flags \in BOOLEAN
    /\ call.at = "idle" => fd = NoSocket /\ m_old_flags = FALSE
    /\ call.at \notin {"idle", "return"} =>
          /\ call.op = "connect" => fd.owner = "application"
          /\ call.op = "getaddrinfo" => fd.owner # "application"
          /\ call.op # "none"
    /\ call.at \in {"blocking", "return"} /\ fd.owner = "application" => fd.nonblock = was
    /\ call.at \notin {"idle", "blocking", "return"} /\ fd.owner = "application" =>
          m_old_flags = was /\ fd.nonblock = FALSE
    /\ call.at = "blocking" => call.op = "connect"
    /\ call.at = "socket" => call.op = "getaddrinfo"
    /\ call.at = "return" => fd.owner # "hook"

\* Who is at the other end.  A response comes while the hook waits for it, unless
\* failed reads have filled the buffer; after it the connection ends only by a cut.
PeerInv ==
    /\ peer \in {"none", "http", "socks5", "stranger", "getaddrinfo", "connect", "answered",
                 "closed"}
    /\ call.at \in {"idle", "blocking", "socket", "connect"} => peer = "none" /\ errors = 0
    /\ call.at = "send" => errors = 0
    /\ peer \in {"http", "socks5"} => call.at = "send"
    /\ peer = "answered" <=> reply # NoReply /\ ~cut
    /\ peer \in {"none", "http", "socks5", "stranger", "getaddrinfo", "connect"} =>
          reply = NoReply /\ ~cut
    /\ peer \in {"getaddrinfo", "connect"} =>
          /\ peer = call.op
          /\ call.at \in {"read", "parsed", "leave", "return"}
          /\ errors = 0 => call.at = "read"
    /\ reply = NoReply => wire = <<>> /\ m_nvalues = 0
    /\ reply # NoReply => call.at \in {"read", "parsed", "leave", "return"}
ReplyInv ==
    reply # NoReply =>
        /\ Layout(reply) /\ wire \in Seq(Chars)
        /\ call.op = "getaddrinfo" => reply.host # <<>>

\* What has been read: k bytes of the response, which end in the line m_nvalues.
Source == reply.head \o reply.rest
OnWire(k) ==
    /\ k + Len(wire) <= Len(Source)
    /\ ~cut => k + Len(wire) = Len(Source)
    /\ \A i \in 1 .. Len(wire) : wire[i] = Source[k + i]
\* Without a failed read, m_buffer holds these bytes without the CRs.
HostRead(k) ==
    /\ k <= 4 => m_values[1] = NULL
    /\ k >= 4 => m_buffer[2] = "Host"
    /\ k >= 5 => m_buffer[3] = NUL /\ m_values[1] = 5
    /\ \A i \in 1 .. Len(reply.host) : k >= 6 + i => m_buffer[4 + i] = reply.host[i]
    /\ k >= Start(reply, 2) => m_buffer[5 + Len(reply.host)] = NUL
LinesRead(k) ==
    /\ \A i \in 1 .. m_nvalues : m_keys[i] = Start(reply, i) - i
    /\ \A i \in 1 .. LastLine(reply) - 1 :
          Start(reply, i) < k => m_buffer[Start(reply, i) - i] # NUL
Position(k) ==
    p = k - m_nvalues - IF k = Start(reply, m_nvalues + 1) - 1 THEN 1 ELSE 0
ParsedTo(k) ==
    /\ m_nvalues <= LastLine(reply)
    /\ Position(k) /\ LinesRead(k)
    /\ reply.host # <<>> => HostRead(k)
ReadInv ==
    call.at = "read" =>
        /\ reply = NoReply /\ errors = 0 => p = 0 /\ \A i \in 0 .. Slots - 1 : m_values[i] = NULL
        /\ reply # NoReply => \E k \in Nat : /\ OnWire(k) /\ LineAt(reply, m_nvalues, k)
                                             /\ errors = 0 => ParsedTo(k)

\* The loop has ended, and the headers are looked at.
HostParsed ==
    /\ reply # NoReply /\ 2 <= m_nvalues
    /\ m_keys[1] = 2 /\ m_buffer[2] = "Host" /\ m_buffer[3] = NUL /\ 3 \in Positions
    /\ m_values[1] = 5 /\ 5 + Len(reply.host) \in Positions
    /\ \A i \in 1 .. Len(reply.host) : m_buffer[4 + i] = reply.host[i]
    /\ m_buffer[5 + Len(reply.host)] = NUL
ParsedInv ==
    call.at = "parsed" /\ call.op = "getaddrinfo" /\ errors = 0 =>
        HostParsed \/ (m_nvalues <= 1 /\ ~Clean)
ResultInv ==
    call.op = "getaddrinfo" /\ call.at \in {"socket", "connect", "send", "read", "parsed"} =>
        result = <<arg>>

HookInv ==
    /\ TypeInv /\ BufferInv /\ SocketInv /\ PeerInv /\ ReplyInv /\ ReadInv /\ ParsedInv
    /\ ResultInv /\ HeadConsumed /\ HostExplained

(***************************************************************************)
(* Reading a byte                                                          *)
(***************************************************************************)
LEMMA CounterTypes ==
    ASSUME TypeInv
    PROVE  p \in Nat /\ m_nvalues \in Nat
<1>1. p \in 0 .. BufSize - 1 /\ m_nvalues \in 0 .. 4
    BY DEF TypeInv
<1>. QED BY <1>1, HookAssumption

\* What the body of the loop does.
LEMMA ByteFacts ==
    ASSUME NEW c, Byte(c)
    PROVE  /\ m_nvalues' = IF c = "LF" THEN m_nvalues + 1 ELSE m_nvalues
           /\ m_buffer' = [m_buffer EXCEPT ![p] = IF c = "LF" \/ EndsKey(c) THEN NUL ELSE c]
           /\ m_keys' = IF c = "LF" THEN [m_keys EXCEPT ![m_nvalues'] = p + 1] ELSE m_keys
           /\ m_values' = IF EndsKey(c) THEN [m_values EXCEPT ![m_nvalues'] = p + 2] ELSE m_values
           /\ p' = IF Blank(m_buffer, m_keys, m_nvalues)' \/ c = "CR" THEN p ELSE p + 1
           /\ call' = [call EXCEPT !.at = IF \/ Blank(m_buffer, m_keys, m_nvalues)'
                                             \/ p' >= BufSize - 1
                                          THEN "parsed" ELSE "read"]
BY DEF Byte, Blank, Dropped, Full, ValueAt

\* It stays within m_buffer and its tables unless there are too many lines.
LEMMA ByteTypes ==
    ASSUME TypeInv, BufferInv, call.at = "read", NEW c, Byte(c), c = "LF" => m_nvalues <= 3
    PROVE  /\ DOMAIN m_buffer' = Positions /\ p' \in 0 .. BufSize - 1 /\ m_nvalues' \in 0 .. 4
           /\ m_keys' \in [0 .. Slots - 1 -> {NULL} \cup Positions]
           /\ m_values' \in [0 .. Slots - 1 -> {NULL} \cup 0 .. BufSize]
           /\ call'.op = call.op /\ call'.at \in {"read", "parsed"}
           /\ call' \in [op : {"none", "getaddrinfo", "connect"},
                         at : {"idle", "blocking", "socket", "connect", "send", "read",
                               "parsed", "leave", "return"}]
           /\ BufferInv'
<1>. USE HookAssumption
<1>1. /\ p \in Nat /\ p < BufSize - 1 /\ m_nvalues \in 0 .. 4 /\ BufSize \in Nat /\ Slots \in Nat
      /\ p \in Positions /\ p + 1 \in Positions /\ p + 2 \in 0 .. BufSize
  <2>1. p \in 0 .. BufSize - 1 /\ m_nvalues \in 0 .. 4
    BY DEF TypeInv
  <2>2. p < BufSize - 1
    BY DEF BufferInv
  <2>. QED BY <2>1, <2>2 DEF Positions
<1>2. m_nvalues' \in 0 .. 4 /\ m_nvalues' \in 0 .. Slots - 1
    BY <1>1, ByteFacts
<1>3. /\ DOMAIN m_buffer' = Positions
      /\ \A q \in Positions : q # p => m_buffer'[q] = m_buffer[q]
      /\ c = "CR" => m_buffer'[p] = "CR"
    BY <1>1, ByteFacts DEF TypeInv, EndsKey
<1>4. m_keys' \in [0 .. Slots - 1 -> {NULL} \cup Positions]
  <2>1. m_keys \in [0 .. Slots - 1 -> {NULL} \cup Positions]
    BY DEF TypeInv
  <2>2. m_keys' = IF c = "LF" THEN [m_keys EXCEPT ![m_nvalues'] = p + 1] ELSE m_keys
    BY ByteFacts
  <2>. QED BY <1>1, <1>2, <2>1, <2>2
<1>5. m_values' \in [0 .. Slots - 1 -> {NULL} \cup 0 .. BufSize]
  <2>1. m_values \in [0 .. Slots - 1 -> {NULL} \cup 0 .. BufSize]
    BY DEF TypeInv
  <2>2. m_values' = IF EndsKey(c) THEN [m_values EXCEPT ![m_nvalues'] = p + 2] ELSE m_values
    BY ByteFacts
  <2>. QED BY <1>1, <1>2, <2>1, <2>2
<1>6. p' \in 0 .. BufSize - 1 /\ (p' = p \/ p' = p + 1)
    BY <1>1, ByteFacts
<1>7. /\ call'.op = call.op /\ call'.at \in {"read", "parsed"}
      /\ call' \in [op : {"none", "getaddrinfo", "connect"},
                    at : {"idle", "blocking", "socket", "connect", "send", "read",
                          "parsed", "leave", "return"}]
      /\ call'.at = "read" => ~Blank(m_buffer, m_keys, m_nvalues)' /\ ~(p' >= BufSize - 1)
  <2>1. call.op \in {"none", "getaddrinfo", "connect"}
    BY DEF TypeInv
  <2>. QED BY <2>1, ByteFacts DEF TypeInv
<1>8. BufferInv'
  <2>. SUFFICES ASSUME call'.at = "read"
                PROVE  /\ p' < BufSize - 1 /\ m_buffer'[p'] \in {NUL, "CR"}
                       /\ \A q \in Positions : q > p' => m_buffer'[q] = NUL
    BY DEF BufferInv, Positions
  <2>1. p' < BufSize - 1
    BY <1>1, <1>6, <1>7
  <2>2. p' = IF c = "CR" THEN p ELSE p + 1
    BY <1>7, ByteFacts
  <2>3. m_buffer'[p'] \in {NUL, "CR"}
    BY <1>1, <1>3, <2>2 DEF BufferInv
  <2>4. \A q \in Positions : q > p' => m_buffer'[q] = NUL
    BY <1>1, <1>3, <2>2 DEF BufferInv, Positions
  <2>. QED BY <2>1, <2>3, <2>4
<1>. QED BY <1>2, <1>3, <1>4, <1>5, <1>6, <1>7, <1>8

\* The position of byte k + 1 in m_buffer, and the bytes in front of it.
LEMMA PositionLemma ==
    ASSUME Layout(reply), NEW k \in Nat, m_nvalues \in Nat, LineAt(reply, m_nvalues, k),
           m_nvalues <= LastLine(reply), Position(k)
    PROVE  /\ m_nvalues \in 0 .. LastLine(reply) /\ LastLine(reply) \in 1 .. 3
           /\ \A i \in 0 .. 4 : Start(reply, i) \in Nat
           /\ Start(reply, m_nvalues) <= k /\ k < Start(reply, m_nvalues + 1)
           /\ Start(reply, m_nvalues) + 2 <= Start(reply, m_nvalues + 1)
           /\ k < Start(reply, m_nvalues + 1) - 1 => p = k - m_nvalues
           /\ k = Start(reply, m_nvalues + 1) - 1 => p = k - m_nvalues - 1
           /\ Start(reply, m_nvalues) - m_nvalues <= p
           /\ \A i \in 0 .. m_nvalues - 1 : Start(reply, i) - i < Start(reply, m_nvalues) - m_nvalues
           /\ \A i \in 0 .. LastLine(reply) + 1 : Start(reply, i) <= k <=> i <= m_nvalues
<1>. DEFINE n == LastLine(reply)
            j == m_nvalues
            S(i) == Start(reply, i)
<1>1. /\ n \in 1 .. 3
      /\ \A i \in 0 .. 4 : S(i) \in Nat
      /\ \A i, l \in 0 .. n + 1 : i < l => S(i) + 2 * (l - i) <= S(l)
    BY StartLemma DEF Layout
<1>2. j \in 0 .. n /\ j \in 0 .. 4 /\ j + 1 \in 0 .. 4 /\ j \in 0 .. n + 1 /\ j + 1 \in 0 .. n + 1
    BY <1>1
<1>3. S(j) <= k /\ k < S(j + 1) /\ p = k - j - IF k = S(j + 1) - 1 THEN 1 ELSE 0
    BY DEF LineAt, Position
<1>. HIDE DEF n, j, S
<1>4. PICK a \in Nat, b \in Nat : a = S(j) /\ b = S(j + 1)
    BY <1>1, <1>2
<1>5. a + 2 <= b
  <2>1. S(j) + 2 * (j + 1 - j) <= S(j + 1)
    BY <1>1, <1>2
  <2>2. 2 * (j + 1 - j) = 2
    BY <1>2
  <2>. QED BY <1>4, <2>1, <2>2
<1>6. /\ k < b - 1 => p = k - j
      /\ k = b - 1 => p = k - j - 1
      /\ a - j <= p
    BY <1>2, <1>3, <1>4, <1>5
<1>7. ASSUME NEW i \in 0 .. j - 1
      PROVE  S(i) - i < a - j
  <2>1. i \in 0 .. n + 1 /\ i < j /\ i \in 0 .. 4
    BY <1>1, <1>2
  <2>2. S(i) + 2 * (j - i) <= S(j) /\ S(i) \in Nat
    BY <1>1, <1>2, <2>1
  <2>. QED BY <1>2, <1>4, <2>1, <2>2
<1>8. ASSUME NEW i \in 0 .. n + 1
      PROVE  S(i) <= k <=> i <= j
  <2>1. i \in 0 .. 4 /\ S(i) \in Nat
    BY <1>1
  <2>2. CASE i = j \/ i = j + 1
    BY <1>2, <1>3, <1>4, <2>2
  <2>3. CASE i < j
    <3>1. S(i) + 2 * (j - i) <= S(j)
      BY <1>1, <1>2, <2>3
    <3>. QED BY <1>2, <1>3, <1>4, <2>1, <2>3, <3>1
  <2>4. CASE j + 1 < i
    <3>1. S(j + 1) + 2 * (i - (j + 1)) <= S(i)
      BY <1>1, <1>2, <2>4
    <3>. QED BY <1>2, <1>3, <1>4, <2>1, <2>4, <3>1
  <2>. QED BY <1>2, <2>1, <2>2, <2>3, <2>4
<1>. QED BY <1>1, <1>2, <1>3, <1>4, <1>5, <1>6, <1>7, <1>8 DEF n, j, S

\* A byte of the head that is read as it was sent.
LEMMA ParseStep ==
    ASSUME TypeInv, BufferInv, call.at = "read", Layout(reply), UNCHANGED reply,
           NEW k \in Nat, LineAt(reply, m_nvalues, k), ParsedTo(k),
           NEW c, c = reply.head[k + 1], Byte(c)
    PROVE  /\ LinesRead(k + 1)'
           /\ Blank(m_buffer, m_keys, m_nvalues)' <=> k + 1 = Len(reply.head)
           /\ k + 1 # Len(reply.head) => /\ m_nvalues' <= LastLine(reply)
                                         /\ Position(k + 1)'
                                         /\ p' <= Len(reply.head) - LastLine(reply) - 2
           /\ k + 1 = Len(reply.head) => m_nvalues' = LastLine(reply) + 1
<1>. DEFINE n == LastLine(reply)
            j == m_nvalues
            S(i) == Start(reply, i)
            N == Len(reply.head)
<1>1. j \in Nat /\ p \in Nat /\ p \in Positions /\ DOMAIN m_buffer = Positions
  <2>1. j \in 0 .. 4 /\ p \in 0 .. BufSize - 1 /\ DOMAIN m_buffer = Positions
    BY DEF TypeInv
  <2>. QED BY <2>1, HookAssumption DEF Positions
<1>2. j <= n /\ Position(k) /\ LinesRead(k)
    BY DEF ParsedTo
<1>3. /\ j \in 0 .. n /\ n \in 1 .. 3
      /\ \A i \in 0 .. 4 : S(i) \in Nat
      /\ S(j) <= k /\ k < S(j + 1) /\ S(j) + 2 <= S(j + 1)
      /\ k < S(j + 1) - 1 => p = k - j
      /\ k = S(j + 1) - 1 => p = k - j - 1
      /\ S(j) - j <= p
      /\ \A i \in 0 .. j - 1 : S(i) - i < S(j) - j
      /\ \A i \in 0 .. n + 1 : S(i) <= k <=> i <= j
    BY <1>1, <1>2, PositionLemma
<1>4. /\ k + 1 \in 1 .. N
      /\ c = "LF" <=> k + 1 = S(j + 1)
      /\ c = "CR" <=> k + 1 = S(j + 1) - 1
      /\ c # NUL
      /\ 0 < j /\ j < n => S(j) + 3 <= S(j + 1) /\ (k = S(j) => c # "COLON")
    BY <1>3, ByteAt
<1>5. N = S(n + 1) /\ S(n) = N - 2 /\ N \in Nat
    BY LenProperties DEF Layout, Bytes
<1>6. /\ \A q \in Positions : q # p => m_buffer'[q] = m_buffer[q]
      /\ m_buffer'[p] = IF c = "LF" \/ EndsKey(c) THEN NUL ELSE c
    BY <1>1, ByteFacts
<1>. DEFINE blank == Blank(m_buffer, m_keys, m_nvalues)'
<1>7. /\ m_nvalues' = IF c = "LF" THEN j + 1 ELSE j
      /\ p' = IF blank \/ c = "CR" THEN p ELSE p + 1
    BY ByteFacts
<1>8. /\ \A i \in 1 .. j : m_keys'[i] = S(i) - i
      /\ c = "LF" => m_keys'[j + 1] = S(j + 1) - (j + 1)
  <2>1. \A i \in 1 .. j : m_keys[i] = S(i) - i
    BY <1>2 DEF LinesRead
  <2>2. m_keys \in [0 .. Slots - 1 -> {NULL} \cup Positions]
    BY DEF TypeInv
  <2>3. CASE c = "LF"
    <3>1. m_keys' = [m_keys EXCEPT ![j + 1] = p + 1]
      BY <1>7, <2>3, ByteFacts
    <3>2. j + 1 \in 0 .. Slots - 1 /\ \A i \in 1 .. j : i # j + 1 /\ i \in 0 .. Slots - 1
      BY <1>3, HookAssumption
    <3>3. p + 1 = S(j + 1) - (j + 1)
      <4>1. PICK b \in Nat : b = S(j + 1)
        BY <1>3
      <4>. QED BY <1>3, <1>4, <2>3, <4>1
    <3>. QED BY <2>1, <2>2, <3>1, <3>2, <3>3
  <2>4. CASE c # "LF"
    BY <2>1, <2>4, ByteFacts
  <2>. QED BY <2>3, <2>4
<1>. HIDE DEF n, j, S, N, blank
<1>9. ASSUME NEW i \in 1 .. n - 1, S(i) <= k
      PROVE  m_buffer'[S(i) - i] # NUL /\ i <= j
  <2>1. i \in 0 .. 4 /\ S(i) \in Nat /\ i <= j /\ 0 < j /\ i \in Int
    BY <1>3, <1>9
  <2>2. PICK a \in Nat, b \in Nat : a = S(j) /\ b = S(j + 1)
    BY <1>3
  <2>3. CASE S(i) = k
    <3>1. i = j
      <4>1. i < j => S(i) - i < a - j
        BY <1>3, <2>1, <2>2
      <4>. QED BY <1>3, <2>1, <2>2, <2>3, <4>1
    <3>2. a + 3 <= b /\ k = a /\ c # "COLON"
      BY <1>3, <1>4, <2>1, <2>2, <2>3, <3>1
    <3>3. c # "LF" /\ ~EndsKey(c) /\ p = S(i) - i
      BY <1>3, <1>4, <2>1, <2>2, <2>3, <3>1, <3>2 DEF EndsKey
    <3>. QED BY <1>4, <1>6, <2>1, <3>3
  <2>4. CASE S(i) < k
    <3>1. m_buffer[S(i) - i] # NUL
      BY <1>2, <2>4 DEF LinesRead, n, S
    <3>2. S(i) - i < p
      <4>1. CASE i < j
        BY <1>3, <2>1, <2>2, <4>1
      <4>2. CASE i = j
        <5>1. a + 3 <= b
          BY <1>3, <1>4, <2>1, <2>2, <4>2
        <5>. QED BY <1>3, <2>1, <2>2, <2>4, <4>2, <5>1
      <4>. QED BY <1>3, <2>1, <4>1, <4>2
    <3>3. S(i) - i \in Positions
      <4>1. i <= S(i)
        <5>1. i = 1 \/ i = 2
          BY <1>3, <2>1
        <5>2. S(1) = 3 /\ S(1) < S(2)
          <6>1. /\ S(1) = 3 /\ S(1) \in Nat /\ S(2) \in Nat
                /\ \A x, y \in 0 .. LastLine(reply) + 1 : x < y => S(x) + 2 * (y - x) <= S(y)
            BY StartLemma DEF S, Layout
          <6>2. 1 \in 0 .. LastLine(reply) + 1 /\ 2 \in 0 .. LastLine(reply) + 1
            BY <1>3 DEF n
          <6>3. S(1) + 2 * (2 - 1) <= S(2)
            BY <6>1, <6>2
          <6>. QED BY <6>1, <6>3
        <5>. QED BY <1>3, <2>1, <5>1, <5>2
      <4>. QED BY <1>1, <2>1, <3>2, <4>1, HookAssumption DEF Positions
    <3>. QED BY <1>1, <1>6, <2>1, <3>1, <3>2, <3>3
  <2>. QED BY <1>9, <2>1, <2>3, <2>4
<1>10. LinesRead(k + 1)'
  <2>1. \A i \in 1 .. m_nvalues' : m_keys'[i] = S(i) - i
    BY <1>3, <1>7, <1>8
  <2>2. \A i \in 1 .. n - 1 : S(i) < k + 1 => m_buffer'[S(i) - i] # NUL
    <3>1. \A i \in 1 .. n - 1 : S(i) \in Nat
      BY <1>3
    <3>. QED BY <1>9, <3>1
  <2>. QED BY <2>1, <2>2 DEF LinesRead, n, S
<1>11. k + 1 = N <=> c = "LF" /\ j = n
  <2>1. PICK b \in Nat : b = S(j + 1)
    BY <1>3
  <2>2. ASSUME k + 1 = N PROVE j = n
    <3>1. S(n) <= k /\ n \in 0 .. n + 1
      BY <1>3, <1>5, <2>2
    <3>. QED BY <1>3, <3>1
  <2>. QED BY <1>4, <1>5, <2>2
<1>12. blank <=> k + 1 = N
  <2>1. blank <=> m_nvalues' > 1 /\ m_buffer'[m_keys'[m_nvalues' - 1]] = NUL
    BY DEF blank, Blank
  <2>2. CASE c # "LF"
    <3>1. m_nvalues' = j /\ k + 1 # N
      BY <1>7, <1>11, <2>2
    <3>2. ASSUME j > 1 PROVE m_buffer'[m_keys'[j - 1]] # NUL
      <4>1. j - 1 \in 1 .. n - 1 /\ j - 1 \in 1 .. j /\ j - 1 \in 0 .. n + 1 /\ j - 1 <= j
        BY <1>3, <3>2
      <4>2. S(j - 1) <= k
        BY <1>3, <4>1
      <4>. QED BY <1>8, <1>9, <4>1, <4>2
    <3>. QED BY <2>1, <3>1, <3>2
  <2>3. CASE c = "LF" /\ j = 0
    BY <1>3, <1>7, <1>11, <2>1, <2>3
  <2>4. CASE c = "LF" /\ 0 < j /\ j < n
    <3>1. m_nvalues' = j + 1 /\ m_nvalues' - 1 = j /\ k + 1 # N
      BY <1>3, <1>7, <1>11, <2>4
    <3>2. j \in 1 .. n - 1 /\ j \in 1 .. j
      BY <1>3, <2>4
    <3>3. m_buffer'[m_keys'[j]] # NUL
      BY <1>3, <1>8, <1>9, <3>2
    <3>. QED BY <2>1, <3>1, <3>3
  <2>5. CASE c = "LF" /\ j = n
    <3>1. m_nvalues' = j + 1 /\ j + 1 - 1 = j /\ j + 1 > 1 /\ k + 1 = N /\ j \in 1 .. j
      BY <1>3, <1>7, <1>11, <2>5
    <3>2. p = S(j) - j
      <4>1. PICK b \in Nat : b = S(j + 1) /\ k + 1 = b
        BY <1>3, <1>4, <2>5
      <4>. QED BY <1>3, <1>5, <2>5, <3>1, <4>1
    <3>3. m_buffer'[m_keys'[j]] = NUL
      BY <1>6, <1>8, <2>5, <3>1, <3>2
    <3>. QED BY <2>1, <3>1, <3>3
  <2>. QED BY <1>3, <2>2, <2>3, <2>4, <2>5
<1>13. ASSUME k + 1 # N
       PROVE  /\ m_nvalues' <= n /\ Position(k + 1)'
              /\ p' <= N - n - 2
  <2>1. /\ m_nvalues' \in 0 .. n /\ m_nvalues' + 1 \in 0 .. 4
        /\ c = "LF" => j + 1 <= n
    BY <1>3, <1>7, <1>11, <1>13
  <2>2. p' = IF c = "CR" THEN p ELSE p + 1
    BY <1>7, <1>12, <1>13
  <2>3. PICK b \in Nat, d \in Nat : b = S(j + 1) /\ d = S(m_nvalues' + 1)
    BY <1>3, <2>1
  <2>4. \A i, l \in 0 .. n + 1 : i < l => S(i) + 2 * (l - i) <= S(l)
    BY StartLemma DEF Layout, n, S
  <2>5. /\ k + 1 < d - 1 => p' = k + 1 - m_nvalues'
        /\ k + 1 = d - 1 => p' = k + 1 - m_nvalues' - 1
        /\ k + 1 < d
    <3>1. CASE c = "LF"
      <4>1. m_nvalues' = j + 1 /\ j + 1 \in 0 .. n + 1 /\ j + 1 + 1 \in 0 .. n + 1
        BY <1>3, <1>7, <2>1, <3>1
      <4>2. S(j + 1) + 2 * (j + 1 + 1 - (j + 1)) <= S(j + 1 + 1)
        BY <1>3, <2>4, <4>1
      <4>3. 2 * (j + 1 + 1 - (j + 1)) = 2
        BY <1>3
      <4>4. b + 2 <= d /\ k + 1 = b
        BY <1>4, <2>3, <3>1, <4>1, <4>2, <4>3
      <4>. QED BY <1>1, <1>3, <2>2, <2>3, <3>1, <4>1, <4>4
    <3>2. CASE c # "LF"
      <4>1. m_nvalues' = j /\ d = b
        BY <1>7, <2>3, <3>2
      <4>2. k + 1 < b /\ (k + 1 = b - 1 <=> c = "CR") /\ (k < b - 1 => p = k - j)
        BY <1>3, <1>4, <2>3, <3>2
      <4>. QED BY <1>1, <1>3, <2>2, <2>3, <4>1, <4>2
    <3>. QED BY <3>1, <3>2
  <2>6. PICK l \in 0 .. n : l = m_nvalues'
    BY <2>1
  <2>7. Position(k + 1)'
    <3>1. p' = k + 1 - l - IF k + 1 = d - 1 THEN 1 ELSE 0
      BY <1>3, <2>3, <2>5, <2>6
    <3>2. d = Start(reply', m_nvalues' + 1)
      BY <2>3 DEF S
    <3>. QED BY <2>6, <3>1, <3>2 DEF Position
  <2>8. p' <= N - n - 2
    <3>1. p' <= d - l - 2 /\ p' \in Int
      BY <1>3, <2>3, <2>5, <2>6
    <3>2. CASE l = n
      BY <1>3, <1>5, <2>3, <2>6, <3>1, <3>2
    <3>3. CASE l + 1 = n
      <4>1. m_nvalues' + 1 = n
        BY <2>6, <3>3
      <4>2. d = N - 2
        BY <1>5, <2>3, <4>1
      <4>. QED BY <1>3, <1>5, <3>1, <3>3, <4>2
    <3>4. CASE l + 1 < n
      <4>1. l + 1 \in 0 .. n + 1 /\ n \in 0 .. n + 1
        BY <1>3
      <4>2. S(l + 1) + 2 * (n - (l + 1)) <= S(n)
        BY <2>4, <3>4, <4>1
      <4>3. PICK e \in Nat : e = n - (l + 1)
        BY <1>3, <3>4
      <4>4. d + 2 * e <= N - 2
        BY <1>5, <2>3, <2>6, <4>2, <4>3
      <4>. QED BY <1>3, <1>5, <3>1, <4>3, <4>4
    <3>. QED BY <1>3, <3>2, <3>3, <3>4
  <2>. QED BY <2>1, <2>7, <2>8
<1>14. k + 1 = N => m_nvalues' = n + 1
    BY <1>7, <1>11
<1>. QED BY <1>10, <1>12, <1>13, <1>14 DEF n, N, blank

\* A byte of a response to a request to resolve a name.
LEMMA HostStep ==
    ASSUME TypeInv, BufferInv, call.at = "read", Layout(reply), UNCHANGED reply,
           NEW k \in Nat, LineAt(reply, m_nvalues, k), ParsedTo(k),
           NEW c, c = reply.head[k + 1], Byte(c), reply.host # <<>>
    PROVE  HostRead(k + 1)' /\ (m_nvalues' >= 2 => 5 + Len(reply.host) \in Positions)
<1>. DEFINE n == Len(reply.host)
            j == m_nvalues
<1>1. j \in 0 .. 4 /\ p \in Nat /\ p \in Positions /\ DOMAIN m_buffer = Positions /\ BufSize \in Nat
  <2>1. j \in 0 .. 4 /\ p \in 0 .. BufSize - 1 /\ DOMAIN m_buffer = Positions
    BY DEF TypeInv
  <2>. QED BY <2>1, HookAssumption DEF Positions
<1>2. j <= LastLine(reply) /\ Position(k) /\ HostRead(k)
    BY DEF ParsedTo
<1>3. n \in Nat
    BY LenProperties DEF Layout, Bytes
<1>4. /\ LastLine(reply) = 3 /\ Start(reply, 0) = 0 /\ Start(reply, 1) = 3
      /\ Start(reply, 2) = 8 + n /\ Start(reply, 3) = 16 + n /\ Start(reply, 4) = 18 + n
    BY DEF LastLine, Start
<1>5. /\ Start(reply, j) <= k /\ k < Start(reply, j + 1)
      /\ k < Start(reply, j + 1) - 1 => p = k - j
      /\ k = Start(reply, j + 1) - 1 => p = k - j - 1
      /\ Start(reply, j) - j <= p
    BY <1>1, <1>2, PositionLemma
<1>6. /\ c = "LF" <=> k + 1 = Start(reply, j + 1)
    <2>1. j \in 0 .. LastLine(reply)
      BY <1>1, <1>2, <1>4
    <2>. QED BY <1>5, <2>1, ByteAt
<1>. HIDE DEF n
<1>7. /\ j = 0 => k <= 2
      /\ j = 1 => /\ 3 <= k /\ k <= 7 + n
                  /\ k < 7 + n => p = k - 1
                  /\ k = 7 + n => p = 5 + n
                  /\ c = "LF" <=> k = 7 + n
      /\ j = 2 => k >= 8 + n /\ 6 + n <= p
      /\ j = 3 => k >= 16 + n /\ 6 + n <= p
      /\ j = 0 \/ j = 1 \/ j = 2 \/ j = 3
  <2>1. j = 0 \/ j = 1 \/ j = 2 \/ j = 3
    BY <1>1, <1>2, <1>4
  <2>2. CASE j = 0
    BY <1>3, <1>4, <1>5, <2>2
  <2>3. CASE j = 1
    BY <1>3, <1>4, <1>5, <1>6, <2>3
  <2>4. CASE j = 2
    BY <1>3, <1>4, <1>5, <2>4
  <2>5. CASE j = 3
    BY <1>3, <1>4, <1>5, <2>5
  <2>. QED BY <2>1, <2>2, <2>3, <2>4, <2>5
<1>8. /\ k <= 4 => m_values[1] = NULL
      /\ k >= 4 => m_buffer[2] = "Host"
      /\ k >= 5 => m_buffer[3] = NUL /\ m_values[1] = 5
      /\ k >= 8 + n => m_buffer[5 + n] = NUL
    BY <1>2, <1>4 DEF HostRead, n
<1>9. \A i \in 1 .. n : k >= 6 + i => m_buffer[4 + i] = reply.host[i]
    BY <1>2 DEF HostRead, n
<1>10. /\ k = 3 => c = "Host"
       /\ k = 4 => c = "COLON"
    BY DEF Layout
<1>11. /\ \A q \in Positions : q # p => m_buffer'[q] = m_buffer[q]
       /\ m_buffer'[p] = IF c = "LF" \/ EndsKey(c) THEN NUL ELSE c
    BY <1>1, ByteFacts
<1>12. /\ m_nvalues' = IF c = "LF" THEN j + 1 ELSE j
       /\ m_values'[1] = IF j = 1 /\ EndsKey(c) THEN p + 2 ELSE m_values[1]
  <2>1. m_values \in [0 .. Slots - 1 -> {NULL} \cup 0 .. BufSize]
    BY DEF TypeInv
  <2>2. 1 \in 0 .. Slots - 1
    BY HookAssumption
  <2>3. EndsKey(c) => c # "LF"
    BY DEF EndsKey
  <2>4. /\ m_nvalues' = IF c = "LF" THEN j + 1 ELSE j
        /\ m_values' = IF EndsKey(c) THEN [m_values EXCEPT ![m_nvalues'] = p + 2] ELSE m_values
    BY ByteFacts
  <2>. QED BY <2>1, <2>2, <2>3, <2>4
<1>. HIDE DEF j
<1>13. EndsKey(c) <=> c = "COLON" /\ m_values[j] = NULL
    BY DEF EndsKey, j
<1>14. m_nvalues' >= 2 => 5 + n \in Positions
  <2>1. CASE j >= 2
    BY <1>1, <1>3, <1>7, <2>1 DEF Positions
  <2>2. CASE j = 1 /\ c = "LF"
    BY <1>1, <1>3, <1>7, <2>2 DEF Positions
  <2>. QED BY <1>7, <1>12, <2>1, <2>2
<1>15. k + 1 <= 4 => m_values'[1] = NULL
    BY <1>7, <1>8, <1>10, <1>12, <1>13
<1>16. k + 1 >= 4 => m_buffer'[2] = "Host"
  <2>1. CASE k = 3
    <3>1. j = 1 /\ p = 2 /\ c # "LF"
      BY <1>3, <1>7, <2>1
    <3>. QED BY <1>10, <1>11, <1>13, <2>1, <3>1
  <2>2. CASE k >= 4
    <3>1. 2 < p
      BY <1>1, <1>3, <1>7, <2>2
    <3>2. 2 \in Positions /\ 2 # p
      BY <1>1, <3>1 DEF Positions
    <3>. QED BY <1>8, <1>11, <2>2, <3>2
  <2>. QED BY <2>1, <2>2
<1>17. k + 1 >= 5 => m_buffer'[3] = NUL /\ m_values'[1] = 5
  <2>1. CASE k = 4
    <3>1. j = 1 /\ p = 3
      BY <1>3, <1>7, <2>1
    <3>2. EndsKey(c)
      BY <1>8, <1>10, <1>13, <2>1, <3>1
    <3>. QED BY <1>11, <1>12, <3>1, <3>2
  <2>2. CASE k >= 5
    <3>1. 3 < p
      BY <1>1, <1>3, <1>7, <2>2
    <3>2. 3 \in Positions /\ 3 # p
      BY <1>1, <3>1 DEF Positions
    <3>3. m_values[1] = 5 /\ m_values[1] # NULL
      BY <1>8, <2>2 DEF NULL
    <3>. QED BY <1>8, <1>11, <1>12, <1>13, <2>2, <3>2, <3>3
  <2>. QED BY <2>1, <2>2
<1>18. ASSUME NEW i \in 1 .. n, k + 1 >= 6 + i
       PROVE  m_buffer'[4 + i] = reply.host[i]
  <2>1. m_values[1] # NULL
    BY <1>3, <1>8, <1>18 DEF NULL
  <2>2. CASE k + 1 = 6 + i
    <3>1. j = 1 /\ p = 4 + i /\ c # "LF"
      BY <1>3, <1>7, <2>2
    <3>2. c = reply.host[i]
      BY <2>2 DEF Layout, n
    <3>. QED BY <1>11, <1>13, <2>1, <3>1, <3>2
  <2>3. CASE k >= 6 + i
    <3>1. 4 + i < p
      BY <1>1, <1>3, <1>7, <2>3
    <3>2. 4 + i \in Positions /\ 4 + i # p
      BY <1>1, <1>3, <3>1 DEF Positions
    <3>. QED BY <1>9, <1>11, <2>3, <3>2
  <2>. QED BY <1>3, <1>18, <2>2, <2>3
<1>19. k + 1 >= 8 + n => m_buffer'[5 + n] = NUL
  <2>1. CASE k = 7 + n
    <3>1. j = 1
      BY <1>3, <1>7, <2>1
    <3>. QED BY <1>7, <1>11, <2>1, <3>1
  <2>2. CASE k >= 8 + n
    <3>1. 5 + n < p
      BY <1>1, <1>3, <1>7, <2>2
    <3>2. 5 + n \in Positions /\ 5 + n # p
      BY <1>1, <1>3, <3>1 DEF Positions
    <3>. QED BY <1>8, <1>11, <2>2, <3>2
  <2>. QED BY <1>3, <2>1, <2>2
<1>20. HostRead(k + 1)'
    BY <1>4, <1>15, <1>16, <1>17, <1>18, <1>19 DEF HostRead, n
<1>. QED BY <1>14, <1>20 DEF n

\* What is on the wire when a byte has been taken from it, when a response has been
\* sent, when the head has been read and when the connection is cut.
LEMMA SourceOf ==
    ASSUME Layout(reply)
    PROVE  IsSource(Source, reply.head, reply.rest)
BY SourceLemma DEF Layout, Bytes, Source

LEMMA WireStep ==
    ASSUME Layout(reply), wire \in Seq(Chars), wire # <<>>, NEW k \in Nat, OnWire(k),
           wire' = Tail(wire), UNCHANGED <<reply, cut>>
    PROVE  /\ k + 1 <= Len(Source) /\ Head(wire) = Source[k + 1]
           /\ wire' \in Seq(Chars) /\ OnWire(k + 1)'
<1>1. Source' = Source
    BY DEF Source
<1>2. Len(Source) \in Nat
    BY SourceOf DEF IsSource
<1>3. /\ Len(wire) \in Nat /\ Len(wire) >= 1 /\ Head(wire) = wire[1]
      /\ wire' \in Seq(Chars) /\ Len(wire') = Len(wire) - 1
      /\ \A i \in 1 .. Len(wire') : wire'[i] = wire[i + 1]
    BY HeadTailProperties
<1>4. /\ k + Len(wire) <= Len(Source)
      /\ ~cut => k + Len(wire) = Len(Source)
      /\ \A i \in 1 .. Len(wire) : wire[i] = Source[k + i]
    BY DEF OnWire
<1>5. ASSUME NEW i \in 1 .. Len(wire')
      PROVE  wire'[i] = Source[k + 1 + i]
  <2>1. i + 1 \in 1 .. Len(wire) /\ k + (i + 1) = k + 1 + i
    BY <1>3
  <2>. QED BY <1>3, <1>4, <2>1
<1>6. k + 1 + Len(wire') = k + Len(wire)
    BY <1>3
<1>7. OnWire(k + 1)'
    BY <1>1, <1>4, <1>5, <1>6 DEF OnWire
<1>8. k + 1 <= Len(Source) /\ Head(wire) = Source[k + 1]
    BY <1>2, <1>3, <1>4
<1>. QED BY <1>3, <1>7, <1>8

LEMMA WireEnd ==
    ASSUME Layout(reply), UNCHANGED reply, wire' \in Seq(Chars), OnWire(Len(reply.head))', ~cut'
    PROVE  wire' = reply.rest
<1>. DEFINE h == reply.head
            u == reply.rest
            w == wire'
            src == Source
<1>1. u \in Seq(Chars) /\ Len(w) \in Nat
    BY DEF Layout, Bytes
<1>2. /\ Len(h) \in Nat /\ Len(u) \in Nat /\ Len(src) = Len(h) + Len(u)
      /\ \A q \in 1 .. Len(src) : q > Len(h) => src[q] = u[q - Len(h)]
    BY SourceOf DEF IsSource
<1>3. Len(h) + Len(w) = Len(src) /\ \A i \in 1 .. Len(w) : w[i] = src[Len(h) + i]
    BY DEF OnWire, Source
<1>. HIDE DEF h, u, w, src
<1>4. Len(w) = Len(u)
    BY <1>1, <1>2, <1>3
<1>5. ASSUME NEW i \in 1 .. Len(w)
      PROVE  w[i] = u[i]
  <2>1. /\ Len(h) + i \in 1 .. Len(src) /\ Len(h) + i > Len(h) /\ Len(h) + i - Len(h) = i
    BY <1>1, <1>2, <1>3
  <2>. QED BY <1>2, <1>3, <2>1
<1>6. w \in Seq(Chars)
    BY DEF w
<1>7. w = u
    BY <1>1, <1>4, <1>5, <1>6, SeqEqual
<1>. QED BY <1>7 DEF u, w

LEMMA WireCut ==
    ASSUME wire \in Seq(Chars), NEW n \in 0 .. Len(wire), wire' = SubSeq(wire, 1, n),
           reply' = reply, cut' = TRUE
    PROVE  /\ wire' \in Seq(Chars) /\ (wire = <<>> => wire' = <<>>)
           /\ \A k \in Nat : OnWire(k) /\ Layout(reply) => OnWire(k)'
<1>1. Len(wire) \in Nat /\ n \in Nat /\ n <= Len(wire) /\ 1 \in Int /\ n \in Int
    BY LenProperties
<1>2. \A i \in 1 .. n : wire[i] \in Chars
    BY <1>1, ElementOfSeq
<1>3. /\ wire' \in Seq(Chars) /\ Len(wire') = IF 1 <= n THEN n - 1 + 1 ELSE 0
      /\ \A i \in 1 .. n - 1 + 1 : wire'[i] = wire[1 + i - 1]
    BY <1>1, <1>2, SubSeqProperties
<1>4. Len(wire') = n /\ \A i \in 1 .. n : wire'[i] = wire[i]
    BY <1>1, <1>3
<1>5. wire = <<>> => wire' = <<>>
    BY <1>1, <1>3, <1>4
<1>6. Source' = Source
    BY DEF Source
<1>7. ASSUME NEW k \in Nat, OnWire(k), Layout(reply)
      PROVE  OnWire(k)'
  <2>1. Len(Source) \in Nat
    BY <1>7, SourceOf DEF IsSource
  <2>2. k + Len(wire) <= Len(Source) /\ \A i \in 1 .. Len(wire) : wire[i] = Source[k + i]
    BY <1>7 DEF OnWire
  <2>3. k + Len(wire') <= Len(Source) /\ \A i \in 1 .. Len(wire') : wire'[i] = Source[k + i]
    BY <1>1, <1>4, <2>1, <2>2
  <2>. QED BY <1>6, <2>3 DEF OnWire
<1>. QED BY <1>3, <1>5, <1>7

(***************************************************************************)
(* Every step preserves the invariant                                      *)
(***************************************************************************)
LEMMA HookInit0 == Init => HookInv
<1>. SUFFICES ASSUME Init PROVE HookInv
    OBVIOUS
<1>. USE DEF Init, HookInit
<1>. USE HookAssumption
<1>1. TypeInv
  <2>0. /\ m_keys \in [0 .. Slots - 1 -> {NULL} \cup Positions]
        /\ m_values \in [0 .. Slots - 1 -> {NULL} \cup 0 .. BufSize]
    OBVIOUS
  <2>1. DOMAIN m_buffer = Positions /\ p \in 0 .. BufSize - 1 /\ m_nvalues \in 0 .. 4 /\ errors \in Nat
    <3>1. p = 0 /\ m_nvalues = 0 /\ errors = 0 /\ BufSize \in Nat /\ BufSize # 0
      BY HookAssumption
    <3>2. p \in 0 .. BufSize - 1 /\ m_nvalues \in 0 .. 4 /\ errors \in Nat
      BY ONLY <3>1
    <3>3. DOMAIN m_buffer = Positions
      OBVIOUS
    <3>. QED BY <3>2, <3>3
  <2>2. alive \in BOOLEAN /\ listening \subseteq DOMAIN TcpPort /\ cut \in BOOLEAN
    OBVIOUS
  <2>3. dnsTarget \in Targets \cup {""}
    OBVIOUS
  <2>4. call \in [op : {"none", "getaddrinfo", "connect"},
                  at : {"idle", "blocking", "socket", "connect", "send", "read", "parsed",
                        "leave", "return"}]
    OBVIOUS
  <2>. QED BY <2>0, <2>1, <2>2, <2>3, <2>4 DEF TypeInv
<1>2. SocketInv
    BY DEF SocketInv, NoSocket
<1>3. PeerInv
    BY DEF PeerInv
<1>4. BufferInv /\ ReplyInv /\ ReadInv /\ ParsedInv /\ ResultInv /\ HeadConsumed /\ HostExplained
    BY DEF BufferInv, ReplyInv, ReadInv, ParsedInv, ResultInv, HeadConsumed, HostExplained
<1>. QED BY <1>1, <1>2, <1>3, <1>4 DEF HookInv

\* A step that leaves the hook, its connection and the answer alone.
LEMMA FrameStep ==
    ASSUME HookInv, UNCHANGED <<hookVars, reply, cut>>, alive' \in BOOLEAN,
           listening' \subseteq DOMAIN TcpPort, dnsTarget' \in Targets \cup {""}
    PROVE  HookInv'
<1>. USE DEF hookVars, socket, parser
<1>1. TypeInv'
    BY DEF HookInv, TypeInv
<1>2. BufferInv'
    BY DEF HookInv, BufferInv
<1>3. SocketInv'
    BY DEF HookInv, SocketInv
<1>4. PeerInv'
    BY DEF HookInv, PeerInv
<1>5. ReplyInv' /\ ParsedInv' /\ ResultInv' /\ HeadConsumed' /\ HostExplained'
    BY DEF HookInv, ReplyInv, ParsedInv, HostParsed, ResultInv, HeadConsumed, HostExplained, Clean
<1>6. ReadInv'
    BY DEF HookInv, ReadInv, OnWire, Source, ParsedTo, Position, LinesRead, HostRead
<1>. QED BY <1>1, <1>2, <1>3, <1>4, <1>5, <1>6 DEF HookInv

LEMMA StartsProxyStep == HookInv /\ StartsProxy => HookInv'
<1>. SUFFICES ASSUME HookInv, StartsProxy PROVE HookInv'
    OBVIOUS
<1>1. alive' \in BOOLEAN /\ listening' \subseteq DOMAIN TcpPort /\ dnsTarget' \in Targets \cup {""}
    BY DEF StartsProxy, HookInv, TypeInv
<1>. QED BY <1>1, FrameStep DEF StartsProxy

\* The connection is lost: what is left on the wire is still the next of the response.
LEMMA EndsStep == HookInv /\ Ends => HookInv'
<1>. SUFFICES ASSUME HookInv, Ends PROVE HookInv'
    OBVIOUS
<1>1. UNCHANGED <<dnsTarget, s_port, call, arg, socket, parser, errors, result, reply>>
    BY DEF Ends
<1>2. PICK n \in 0 .. Len(wire) : wire' = SubSeq(wire, 1, n)
    BY DEF Ends
<1>3. /\ peer' = IF peer = "none" THEN "none" ELSE "closed"
      /\ cut' = (peer # "none")
      /\ alive' = FALSE /\ listening' = {}
    BY DEF Ends
<1>4. PeerInv /\ ReplyInv /\ ReadInv
    BY DEF HookInv
<1>5. wire = <<>> => wire' = <<>>
    BY <1>2
<1>6. ~cut' => peer = "none" /\ reply' = NoReply
    BY <1>1, <1>3, <1>4 DEF PeerInv
<1>. USE DEF socket, parser
<1>7. TypeInv'
    BY <1>1, <1>3 DEF HookInv, TypeInv
<1>8. BufferInv' /\ SocketInv'
    BY <1>1 DEF HookInv, BufferInv, SocketInv
<1>9. PeerInv'
    BY <1>1, <1>3, <1>4, <1>5 DEF PeerInv
<1>10. reply # NoReply => /\ Layout(reply) /\ wire' \in Seq(Chars) /\ cut' = TRUE
                          /\ \A k \in Nat : OnWire(k) => OnWire(k)'
  <2>. SUFFICES ASSUME reply # NoReply
                PROVE  /\ Layout(reply) /\ wire' \in Seq(Chars) /\ cut' = TRUE
                       /\ \A k \in Nat : OnWire(k) => OnWire(k)'
    OBVIOUS
  <2>1. cut' = TRUE
    BY <1>3, <1>4 DEF PeerInv
  <2>2. Layout(reply) /\ wire \in Seq(Chars)
    BY <1>4 DEF ReplyInv
  <2>. QED BY <1>1, <1>2, <2>1, <2>2, WireCut
<1>11. ReplyInv'
    BY <1>1, <1>4, <1>10 DEF ReplyInv
<1>12. ReadInv'
    BY <1>1, <1>4, <1>10 DEF ReadInv, ParsedTo, Position, LinesRead, HostRead
<1>13. ~Clean'
    BY <1>6 DEF Clean
<1>14. ParsedInv' /\ ResultInv' /\ HeadConsumed' /\ HostExplained'
    BY <1>1, <1>13 DEF HookInv, ParsedInv, HostParsed, ResultInv, HeadConsumed, HostExplained
<1>. QED BY <1>7, <1>8, <1>9, <1>11, <1>12, <1>14 DEF HookInv

\* A response is sent: nothing of it has been read.
LEMMA RespondsStep ==
    ASSUME HookInv, peer \in {"getaddrinfo", "connect"}, UNCHANGED daemon,
           NEW host, NEW head, NEW rest, Responds(host, head, rest),
           Layout(reply'), reply' # NoReply, peer = "getaddrinfo" => host # <<>>
    PROVE  HookInv'
<1>1. /\ wire' = head \o rest /\ peer' = "answered"
      /\ reply' = [host |-> host, head |-> head, rest |-> rest]
      /\ reply'.host = host /\ reply'.head = head /\ reply'.rest = rest
    BY DEF Responds
<1>2. UNCHANGED <<alive, listening, dnsTarget, s_port, call, arg, socket, parser, errors,
                  result, cut>>
    BY DEF Responds, daemon
<1>3. /\ reply = NoReply /\ ~cut /\ m_nvalues = 0 /\ peer = call.op
      /\ call.at \in {"read", "parsed", "leave", "return"}
      /\ errors = 0 => call.at = "read"
    BY DEF HookInv, PeerInv
<1>4. wire' \in Seq(Chars) /\ wire' = Source'
  <2>1. head \in Seq(Chars) /\ rest \in Seq(Chars)
    BY <1>1 DEF Layout, Bytes
  <2>. QED BY <1>1, <2>1, ConcatProperties DEF Source
<1>. USE DEF socket, parser
<1>5. /\ TypeInv'
      /\ BufferInv' /\ SocketInv'
  <2>1. TypeInv'
    BY <1>2 DEF HookInv, TypeInv
  <2>2. BufferInv'
    BY <1>2 DEF HookInv, BufferInv
  <2>3. SocketInv'
    BY <1>2 DEF HookInv, SocketInv
  <2>. QED BY <2>1, <2>2, <2>3
<1>6. PeerInv'
    BY <1>1, <1>2, <1>3 DEF PeerInv
<1>7. ReplyInv'
    BY <1>1, <1>2, <1>3, <1>4 DEF ReplyInv
<1>8. ReadInv'
  <2>. SUFFICES ASSUME call.at = "read"
                PROVE  OnWire(0)' /\ LineAt(reply', m_nvalues', 0) /\ (errors' = 0 => ParsedTo(0)')
    BY <1>2 DEF ReadInv
  <2>1. /\ LastLine(reply') \in 1 .. 3 /\ Start(reply', 0) = 0 /\ Start(reply', 1) = 3
        /\ \A i \in 0 .. 4 : Start(reply', i) \in Nat
    BY StartLemma DEF Layout
  <2>2. m_nvalues' = 0
    BY <1>2, <1>3
  <2>3. OnWire(0)'
    <3>1. Len(wire') \in Nat
      BY <1>4
    <3>. QED BY <1>4, <3>1 DEF OnWire
  <2>4. LineAt(reply', m_nvalues', 0)
    BY <2>1, <2>2 DEF LineAt
  <2>5. ASSUME errors' = 0 PROVE ParsedTo(0)'
    <3>1. p' = 0 /\ m_values'[1] = NULL
      <4>1. p = 0 /\ \A i \in 0 .. Slots - 1 : m_values[i] = NULL
        BY <1>2, <1>3, <2>5 DEF HookInv, ReadInv
      <4>. QED BY <1>2, <4>1, HookAssumption
    <3>2. LinesRead(0)'
      BY <2>1, <2>2 DEF LinesRead
    <3>3. Position(0)'
      <4>1. m_nvalues' + 1 = 1 /\ 0 - m_nvalues' - 0 = 0
        BY <2>2
      <4>. QED BY <2>1, <3>1, <4>1 DEF Position
    <3>4. ASSUME reply'.host # <<>> PROVE HostRead(0)'
      <4>1. Len(reply'.host) \in Nat
        BY LenProperties DEF Layout, Bytes
      <4>2. ~(0 >= Start(reply', 2))
        BY <3>4, <4>1 DEF Start
      <4>. QED BY <3>1, <4>1, <4>2 DEF HostRead
    <3>. QED BY <2>1, <2>2, <3>2, <3>3, <3>4 DEF ParsedTo
  <2>. QED BY <2>3, <2>4, <2>5
<1>9. ParsedInv' /\ HeadConsumed' /\ HostExplained'
    BY <1>2, <1>3 DEF ParsedInv, HeadConsumed, HostExplained, Clean
<1>10. ResultInv'
    BY <1>2 DEF HookInv, ResultInv
<1>. QED BY <1>5, <1>6, <1>7, <1>8, <1>9, <1>10 DEF HookInv

\* What the proxy answers to a request to resolve a name is never empty.
LEMMA HandleResolveStep == HookInv /\ HandleResolve => HookInv'
<1>. SUFFICES ASSUME HookInv, HandleResolve PROVE HookInv'
    OBVIOUS
<1>1. PICK host \in Resolutions(arg) : Responds(host, HeadOf(Line("Host", host) \o Date), <<>>)
    BY DEF HandleResolve
<1>2. dnsTarget \in Targets \cup {""}
    BY DEF HookInv, TypeInv
<1>3. /\ host \in Seq(Chars) /\ host # <<>>
      /\ \A i \in 1 .. Len(host) : host[i] \notin {"CR", "LF", NUL}
  <2>1. CASE \E w \in Chars \ {"CR", "LF", NUL} : host = <<w>>
    BY <2>1
  <2>2. CASE dnsTarget \in Targets /\ host = Address[dnsTarget]
    <3>1. host \in Seq(Words) /\ host # <<>>
      BY <2>2, AddressAssumption
    <3>2. \A i \in 1 .. Len(host) : host[i] \in Words
      BY <3>1, ElementOfSeq
    <3>3. \A i \in 1 .. Len(host) : host[i] \notin {"CR", "LF", NUL}
      BY <3>2, AddressAssumption
    <3>4. Words \subseteq Chars
      BY DEF Chars
    <3>5. host \in Seq(Chars)
      BY <3>1, <3>4
    <3>. QED BY <3>1, <3>3, <3>5
  <2>3. \/ \E w \in Chars \ {"CR", "LF", NUL} : host = <<w>>
        \/ dnsTarget \in Targets /\ host = Address[dnsTarget]
    <3>1. {"address", "<nil>"} \subseteq Chars \ {"CR", "LF", NUL}
      BY DEF Chars, NUL
    <3>. QED BY <1>2, <3>1 DEF Resolutions, Nil
  <2>. QED BY <2>1, <2>2, <2>3
<1>4. PICK n \in Nat : n = Len(host)
    BY <1>3, LenProperties
<1>. DEFINE h == HeadOf(Line("Host", host) \o Date)
<1>5. Responds(host, h, <<>>)
    BY <1>1
<1>6. h = HeadOf(Line("Host", host) \o Date)
    OBVIOUS
<1>. HIDE DEF h
<1>7. reply'.host = host /\ reply'.head = h /\ reply'.rest = <<>>
    BY <1>5 DEF Responds
<1>8. Layout(reply') /\ reply' # NoReply
    BY <1>3, <1>4, <1>6, <1>7, ResolveLayout
<1>9. peer = "getaddrinfo" /\ UNCHANGED daemon
    BY DEF HandleResolve
<1>. QED BY <1>3, <1>5, <1>8, <1>9, RespondsStep

LEMMA HandleTunnelingStep == HookInv /\ HandleTunneling => HookInv'
<1>. SUFFICES ASSUME HookInv, HandleTunneling PROVE HookInv'
    OBVIOUS
<1>1. PICK rest \in {<<"data">>, <<"text">>}, lines \in {<<>>, Date} :
          Responds(<<>>, HeadOf(lines), rest)
    BY DEF HandleTunneling
<1>. DEFINE h == HeadOf(lines)
<1>2. h = HeadOf(lines) /\ Responds(<<>>, h, rest)
    BY <1>1
<1>. HIDE DEF h
<1>3. reply'.host = <<>> /\ reply'.head = h /\ reply'.rest = rest
    BY <1>2 DEF Responds
<1>4. Layout(reply') /\ reply' # NoReply
    BY <1>2, <1>3, TunnelLayout
<1>5. peer = "connect" /\ UNCHANGED daemon
    BY DEF HandleTunneling
<1>. QED BY <1>2, <1>4, <1>5, RespondsStep

LEMMA SocksRefusesStep == HookInv /\ SocksRefuses => HookInv'
<1>. SUFFICES ASSUME HookInv, SocksRefuses PROVE HookInv'
    OBVIOUS
<1>. USE DEF SocksRefuses, daemon, socket, parser
<1>1. TypeInv'
    BY DEF HookInv, TypeInv
<1>2. BufferInv'
    BY DEF HookInv, BufferInv
<1>3. SocketInv'
    BY DEF HookInv, SocketInv
<1>4. PeerInv'
    BY DEF HookInv, PeerInv
<1>5. ReplyInv' /\ ParsedInv' /\ ResultInv' /\ HeadConsumed' /\ HostExplained'
    BY DEF HookInv, ReplyInv, ParsedInv, HostParsed, ResultInv, HeadConsumed, HostExplained, Clean
<1>6. ReadInv'
    BY DEF HookInv, ReadInv, OnWire, Source, ParsedTo, Position, LinesRead, HostRead
<1>. QED BY <1>1, <1>2, <1>3, <1>4, <1>5, <1>6 DEF HookInv

\* A step before the response, or behind the loop that reads it.
LEMMA OutsideStep ==
    ASSUME HookInv, call'.at \notin {"read", "parsed"}, TypeInv', SocketInv', PeerInv', ResultInv',
           UNCHANGED <<wire, reply>>, reply = NoReply \/ call'.op = call.op,
           HeadConsumed', HostExplained'
    PROVE  HookInv'
<1>1. BufferInv' /\ ReadInv' /\ ParsedInv'
    BY DEF BufferInv, ReadInv, ParsedInv
<1>2. ReplyInv'
    BY DEF HookInv, ReplyInv
<1>. QED BY <1>1, <1>2 DEF HookInv

LEMMA CallsStep == HookInv /\ Calls => HookInv'
<1>. SUFFICES ASSUME HookInv, Calls PROVE HookInv'
    OBVIOUS
<1>1. /\ call.at = "idle" /\ UNCHANGED <<alive, listening, dnsTarget, m_old_flags, m_buffer, p,
                                        m_keys, m_values, m_nvalues, errors, wire, peer, reply, cut>>
      /\ call'.op \in {"getaddrinfo", "connect"}
      /\ call' \in [op : {"getaddrinfo", "connect"}, at : {"return", "socket", "blocking"}]
    BY DEF Calls, GetAddrInfo, ConnectCall, SystemCall, HookedCall, daemon, parser, socket
<1>2. call'.at \in {"return", "socket", "blocking"}
    BY <1>1
<1>3. reply = NoReply /\ peer = "none" /\ errors = 0 /\ wire = <<>> /\ ~cut
    BY <1>1 DEF HookInv, PeerInv
<1>4. /\ call'.op = "getaddrinfo" => /\ result' = <<arg'>> /\ UNCHANGED <<fd, was>>
                                     /\ call'.at # "blocking"
      /\ call'.op = "connect" => /\ \E b \in BOOLEAN : /\ was' = b
                                                       /\ fd' = [owner |-> "application", nonblock |-> b]
                                 /\ call'.at # "socket"
    BY DEF Calls, GetAddrInfo, ConnectCall, SystemCall, HookedCall, socket
<1>5. TypeInv'
    BY <1>1 DEF HookInv, TypeInv
<1>6. SocketInv'
  <2>1. fd = NoSocket /\ m_old_flags = FALSE /\ was \in BOOLEAN
    BY <1>1 DEF HookInv, SocketInv
  <2>2. CASE call'.op = "getaddrinfo"
    <3>1. fd' = [owner |-> "none", nonblock |-> FALSE] /\ was' \in BOOLEAN /\ m_old_flags' \in BOOLEAN
      BY <1>1, <1>4, <2>1, <2>2 DEF NoSocket
    <3>2. /\ fd'.owner = "none"
          /\ fd' \in [owner : {"none", "application", "hook"}, nonblock : BOOLEAN]
      BY <3>1
    <3>. QED BY <1>2, <1>4, <2>2, <3>1, <3>2 DEF SocketInv
  <2>3. CASE call'.op = "connect"
    <3>1. PICK b \in BOOLEAN : was' = b /\ fd' = [owner |-> "application", nonblock |-> b]
      BY <1>4, <2>3
    <3>2. fd'.owner = "application" /\ fd'.nonblock = b
      BY <3>1
    <3>3. fd' \in [owner : {"none", "application", "hook"}, nonblock : BOOLEAN]
      BY <3>1
    <3>. QED BY <1>1, <1>2, <1>4, <2>1, <2>3, <3>1, <3>2, <3>3 DEF SocketInv
  <2>. QED BY <1>1, <2>2, <2>3
<1>7. PeerInv'
    BY <1>1, <1>2, <1>3 DEF HookInv, PeerInv
<1>8. ~Clean'
    BY <1>1, <1>3 DEF Clean
<1>9. ResultInv' /\ HeadConsumed' /\ HostExplained'
    BY <1>4, <1>8 DEF ResultInv, HeadConsumed, HostExplained
<1>. QED BY <1>1, <1>2, <1>3, <1>5, <1>6, <1>7, <1>9, OutsideStep

\* A step from one place of a call to the next one.
LEMMA ReachesFacts ==
    ASSUME HookInv, NEW from, NEW to \in {"idle", "connect", "send", "read", "parsed", "leave",
                                          "return"}, Reaches(from, to)
    PROVE  /\ call.at = from /\ call'.at = to /\ call'.op = call.op
           /\ call' \in [op : {"none", "getaddrinfo", "connect"},
                         at : {"idle", "blocking", "socket", "connect", "send", "read",
                               "parsed", "leave", "return"}]
<1>1. call \in [op : {"none", "getaddrinfo", "connect"},
                at : {"idle", "blocking", "socket", "connect", "send", "read",
                      "parsed", "leave", "return"}]
    BY DEF HookInv, TypeInv
<1>. QED BY <1>1 DEF Reaches

LEMMA SocketMakeBlockingStep ==
    HookInv /\ SocketMakeBlocking /\ UNCHANGED <<daemon, reply, cut>> => HookInv'
<1>. SUFFICES ASSUME HookInv, SocketMakeBlocking, UNCHANGED <<daemon, reply, cut>> PROVE HookInv'
    OBVIOUS
<1>1. /\ UNCHANGED <<alive, listening, dnsTarget, was, m_buffer, p, m_keys, m_values, m_nvalues>>
      /\ UNCHANGED <<arg, result, errors, wire, peer, reply, cut>>
    BY DEF SocketMakeBlocking, daemon, parser
<1>2. /\ call.at = "blocking" /\ call'.at = "connect" /\ call'.op = call.op
      /\ call' \in [op : {"none", "getaddrinfo", "connect"},
                    at : {"idle", "blocking", "socket", "connect", "send", "read",
                          "parsed", "leave", "return"}]
    BY ReachesFacts DEF SocketMakeBlocking
<1>3. TypeInv'
    BY <1>1, <1>2 DEF HookInv, TypeInv
<1>4. SocketInv'
  <2>1. /\ fd \in [owner : {"none", "application", "hook"}, nonblock : BOOLEAN]
        /\ was \in BOOLEAN /\ fd.owner = "application" /\ fd.nonblock = was /\ call.op = "connect"
    BY <1>2 DEF HookInv, SocketInv
  <2>2. /\ fd' \in [owner : {"none", "application", "hook"}, nonblock : BOOLEAN]
        /\ fd'.owner = "application" /\ fd'.nonblock = FALSE /\ m_old_flags' = was
    BY <2>1 DEF SocketMakeBlocking
  <2>. QED BY <1>1, <1>2, <2>1, <2>2 DEF SocketInv
<1>5. PeerInv'
    BY <1>1, <1>2 DEF HookInv, PeerInv
<1>6. ResultInv' /\ HeadConsumed' /\ HostExplained'
  <2>1. call.op = "connect"
    BY <1>2 DEF HookInv, SocketInv
  <2>. QED BY <1>2, <2>1 DEF ResultInv, HeadConsumed, HostExplained
<1>. QED BY <1>1, <1>2, <1>3, <1>4, <1>5, <1>6, OutsideStep

LEMMA NoConnectionStep ==
    ASSUME HookInv, NEW from \in {"socket", "connect"}, NoConnection(from),
           UNCHANGED <<fd, daemon, reply, cut>>
    PROVE  HookInv'
<1>1. /\ UNCHANGED <<alive, listening, dnsTarget, fd, was, m_old_flags>>
      /\ UNCHANGED <<m_buffer, p, m_keys, m_values, m_nvalues, arg, errors, wire, peer, reply, cut>>
    BY DEF NoConnection, daemon, parser
<1>2. /\ call.at = from /\ call'.at = "leave" /\ call'.op = call.op
      /\ call' \in [op : {"none", "getaddrinfo", "connect"},
                    at : {"idle", "blocking", "socket", "connect", "send", "read",
                          "parsed", "leave", "return"}]
    BY ReachesFacts DEF NoConnection
<1>3. TypeInv'
    BY <1>1, <1>2 DEF HookInv, TypeInv
<1>4. SocketInv'
    BY <1>1, <1>2 DEF HookInv, SocketInv
<1>5. PeerInv' /\ reply' = NoReply
    BY <1>1, <1>2 DEF HookInv, PeerInv
<1>6. ~Clean'
    BY <1>5 DEF Clean
<1>7. ResultInv' /\ HeadConsumed'
    BY <1>2, <1>6 DEF ResultInv, HeadConsumed
<1>8. call.op = "getaddrinfo" => result' = <<arg'>>
    BY <1>1, <1>2 DEF NoConnection, HookInv, ResultInv
<1>9. HostExplained'
    BY <1>2, <1>6, <1>8 DEF HostExplained
<1>. QED BY <1>1, <1>2, <1>3, <1>4, <1>5, <1>7, <1>9, OutsideStep

LEMMA SocketStep == HookInv /\ Socket /\ UNCHANGED <<daemon, reply, cut>> => HookInv'
<1>. SUFFICES ASSUME HookInv, Socket, UNCHANGED <<daemon, reply, cut>> PROVE HookInv'
    OBVIOUS
<1>1. CASE NoConnection("socket") /\ UNCHANGED fd
    BY <1>1, NoConnectionStep
<1>2. CASE /\ Reaches("socket", "connect")
           /\ fd' = [owner |-> "hook", nonblock |-> FALSE]
           /\ UNCHANGED <<s_port, arg, was, m_old_flags, parser, errors, result, wire, peer>>
  <2>1. /\ UNCHANGED <<alive, listening, dnsTarget, was, m_old_flags>>
        /\ UNCHANGED <<m_buffer, p, m_keys, m_values, m_nvalues>>
        /\ UNCHANGED <<arg, result, errors, wire, peer, reply, cut>>
    BY <1>2 DEF daemon, parser
  <2>2. /\ call.at = "socket" /\ call'.at = "connect" /\ call'.op = call.op
        /\ call' \in [op : {"none", "getaddrinfo", "connect"},
                      at : {"idle", "blocking", "socket", "connect", "send", "read",
                            "parsed", "leave", "return"}]
    BY <1>2, ReachesFacts
  <2>3. TypeInv'
    BY <2>1, <2>2 DEF HookInv, TypeInv
  <2>4. SocketInv'
    <3>1. was \in BOOLEAN /\ m_old_flags \in BOOLEAN /\ call.op # "none" /\ call.op # "connect"
      BY <2>2 DEF HookInv, SocketInv
    <3>2. /\ fd' \in [owner : {"none", "application", "hook"}, nonblock : BOOLEAN]
          /\ fd'.owner = "hook"
      BY <1>2
    <3>. QED BY <2>1, <2>2, <3>1, <3>2 DEF SocketInv
  <2>5. PeerInv'
    BY <2>1, <2>2 DEF HookInv, PeerInv
  <2>6. ResultInv' /\ HeadConsumed' /\ HostExplained'
    BY <2>1, <2>2 DEF HookInv, ResultInv, HeadConsumed, HostExplained
  <2>. QED BY <2>1, <2>2, <2>3, <2>4, <2>5, <2>6, OutsideStep
<1>. QED BY <1>1, <1>2 DEF Socket

LEMMA ConnectStep == HookInv /\ Connect(Listener) /\ UNCHANGED <<daemon, reply, cut>> => HookInv'
<1>. SUFFICES ASSUME HookInv, Connect(Listener), UNCHANGED <<daemon, reply, cut>> PROVE HookInv'
    OBVIOUS
<1>1. CASE NoConnection("connect") /\ UNCHANGED fd
    BY <1>1, NoConnectionStep
<1>2. CASE /\ Listener # "none"
           /\ Reaches("connect", "send") /\ peer' = Listener
           /\ UNCHANGED <<s_port, arg, socket, parser, errors, result, wire>>
  <2>1. /\ UNCHANGED <<alive, listening, dnsTarget, fd, was, m_old_flags>>
        /\ UNCHANGED <<m_buffer, p, m_keys, m_values, m_nvalues>>
        /\ UNCHANGED <<arg, result, errors, wire, reply, cut>>
    BY <1>2 DEF daemon, parser, socket
  <2>2. /\ call.at = "connect" /\ call'.at = "send" /\ call'.op = call.op
        /\ call' \in [op : {"none", "getaddrinfo", "connect"},
                      at : {"idle", "blocking", "socket", "connect", "send", "read",
                            "parsed", "leave", "return"}]
    BY <1>2, ReachesFacts
  <2>3. peer' \in {"http", "socks5"}
    <3>1. listening \subseteq {"http", "socks5"}
      BY AddressAssumption DEF HookInv, TypeInv
    <3>. QED BY <1>2, <3>1 DEF Listener
  <2>4. TypeInv'
    BY <2>1, <2>2 DEF HookInv, TypeInv
  <2>5. SocketInv'
    BY <2>1, <2>2 DEF HookInv, SocketInv
  <2>6. PeerInv'
    BY <2>1, <2>2, <2>3 DEF HookInv, PeerInv
  <2>7. ResultInv' /\ HeadConsumed' /\ HostExplained'
    BY <2>1, <2>2 DEF HookInv, ResultInv, HeadConsumed, HostExplained
  <2>. QED BY <2>1, <2>2, <2>4, <2>5, <2>6, <2>7, OutsideStep
<1>. QED BY <1>1, <1>2 DEF Connect

\* The request is sent, and the parser begins with an empty buffer.
LEMMA SendStep == HookInv /\ Send /\ UNCHANGED <<daemon, reply, cut>> => HookInv'
<1>. SUFFICES ASSUME HookInv, Send, UNCHANGED <<daemon, reply, cut>> PROVE HookInv'
    OBVIOUS
<1>1. /\ UNCHANGED <<alive, listening, dnsTarget, fd, was, m_old_flags>>
      /\ UNCHANGED <<arg, result, errors, wire, reply, cut>>
    BY DEF Send, daemon, socket
<1>2. /\ call.at = "send" /\ call'.at = "read" /\ call'.op = call.op
      /\ call' \in [op : {"none", "getaddrinfo", "connect"},
                    at : {"idle", "blocking", "socket", "connect", "send", "read",
                          "parsed", "leave", "return"}]
    BY ReachesFacts DEF Send
<1>3. /\ m_buffer' = [q \in Positions |-> NUL] /\ p' = 0
      /\ m_keys' = [i \in 0 .. Slots - 1 |-> NULL]
      /\ m_values' = [i \in 0 .. Slots - 1 |-> NULL] /\ m_nvalues' = 0
    BY DEF Send, Empty
<1>4. BufSize \in Nat /\ BufSize > 1
    BY HookAssumption
<1>5. TypeInv'
  <2>1. p' \in 0 .. BufSize - 1 /\ m_nvalues' \in 0 .. 4
    BY <1>3, <1>4
  <2>2. /\ DOMAIN m_buffer' = Positions /\ m_keys' \in [0 .. Slots - 1 -> {NULL} \cup Positions]
        /\ m_values' \in [0 .. Slots - 1 -> {NULL} \cup 0 .. BufSize]
    BY <1>3
  <2>. QED BY <1>1, <1>2, <2>1, <2>2 DEF HookInv, TypeInv
<1>6. BufferInv'
  <2>1. p' < BufSize - 1 /\ p' \in Positions
    BY <1>3, <1>4 DEF Positions
  <2>. QED BY <1>3, <2>1 DEF BufferInv, Positions
<1>7. SocketInv'
    BY <1>1, <1>2 DEF HookInv, SocketInv
<1>8. reply' = NoReply /\ errors' = 0
    BY <1>1, <1>2 DEF HookInv, PeerInv
<1>9. PeerInv'
  <2>1. call.op \in {"getaddrinfo", "connect"}
    BY <1>2 DEF HookInv, SocketInv, TypeInv
  <2>2. peer' \in {"closed", "stranger", call.op} /\ (peer = "closed" <=> peer' = "closed")
    BY <2>1 DEF Send
  <2>. QED BY <1>1, <1>2, <1>3, <1>8, <2>1, <2>2 DEF HookInv, PeerInv
<1>10. ReadInv'
    BY <1>3, <1>8 DEF ReadInv
<1>11. ReplyInv' /\ ParsedInv' /\ HeadConsumed' /\ HostExplained'
    BY <1>2, <1>8 DEF ReplyInv, ParsedInv, HeadConsumed, HostExplained
<1>12. ResultInv'
    BY <1>1, <1>2 DEF HookInv, ResultInv
<1>. QED BY <1>5, <1>6, <1>7, <1>9, <1>10, <1>11, <1>12 DEF HookInv

\* The flags are restored.
LEMMA DestroyStep == HookInv /\ Destroy /\ UNCHANGED <<daemon, reply, cut>> => HookInv'
<1>. SUFFICES ASSUME HookInv, Destroy, UNCHANGED <<daemon, reply, cut>> PROVE HookInv'
    OBVIOUS
<1>1. /\ UNCHANGED <<alive, listening, dnsTarget, was, m_old_flags>>
      /\ UNCHANGED <<m_buffer, p, m_keys, m_values, m_nvalues, arg, result, errors, wire, peer, reply, cut>>
    BY DEF Destroy, daemon, parser
<1>2. /\ call.at = "leave" /\ call'.at = "return" /\ call'.op = call.op
      /\ call' \in [op : {"none", "getaddrinfo", "connect"},
                    at : {"idle", "blocking", "socket", "connect", "send", "read",
                          "parsed", "leave", "return"}]
    BY ReachesFacts DEF Destroy
<1>3. TypeInv'
    BY <1>1, <1>2 DEF HookInv, TypeInv
<1>4. SocketInv'
  <2>1. /\ fd \in [owner : {"none", "application", "hook"}, nonblock : BOOLEAN]
        /\ was \in BOOLEAN /\ m_old_flags \in BOOLEAN
        /\ fd.owner = "application" => m_old_flags = was /\ fd.nonblock = FALSE
    BY <1>2 DEF HookInv, SocketInv
  <2>2. /\ fd' \in [owner : {"none", "application", "hook"}, nonblock : BOOLEAN]
        /\ fd'.owner = "application" => fd'.nonblock = was
        /\ fd'.owner # "hook"
    <3>1. CASE fd.owner # "application"
      <4>1. fd' = [owner |-> "none", nonblock |-> FALSE]
        BY <3>1 DEF Destroy, NoSocket
      <4>. QED BY <4>1
    <3>2. CASE fd.owner = "application" /\ m_old_flags
      <4>1. fd' = [fd EXCEPT !.nonblock = TRUE]
        BY <3>2 DEF Destroy
      <4>2. was = TRUE
        BY <2>1, <3>2
      <4>. QED BY <2>1, <3>2, <4>1, <4>2
    <3>3. CASE fd.owner = "application" /\ ~m_old_flags
      <4>1. fd' = fd
        BY <3>3 DEF Destroy
      <4>2. was = FALSE
        BY <2>1, <3>3
      <4>. QED BY <2>1, <3>3, <4>1, <4>2
    <3>. QED BY <3>1, <3>2, <3>3
  <2>. QED BY <1>1, <1>2, <2>1, <2>2 DEF SocketInv
<1>5. PeerInv'
    BY <1>1, <1>2 DEF HookInv, PeerInv
<1>6. ResultInv' /\ HeadConsumed' /\ HostExplained'
    BY <1>1, <1>2 DEF HookInv, ResultInv, HeadConsumed, HostExplained, Clean
<1>. QED BY <1>1, <1>2, <1>3, <1>4, <1>5, <1>6, OutsideStep

LEMMA ReturnsStep == HookInv /\ Returns => HookInv'
<1>. SUFFICES ASSUME HookInv, Returns PROVE HookInv'
    OBVIOUS
<1>1. /\ UNCHANGED <<alive, listening, dnsTarget>> /\ fd' = NoSocket /\ was' = FALSE
      /\ m_old_flags' = FALSE /\ errors' = 0 /\ wire' = <<>> /\ peer' = "none"
      /\ reply' = NoReply /\ cut' = FALSE
    BY DEF Returns, Return, daemon
<1>2. /\ call'.at = "idle"
      /\ call' \in [op : {"none", "getaddrinfo", "connect"},
                    at : {"idle", "blocking", "socket", "connect", "send", "read",
                          "parsed", "leave", "return"}]
    BY ReachesFacts DEF Returns, Return
<1>3. /\ m_buffer' = [q \in Positions |-> NUL] /\ p' = 0
      /\ m_keys' = [i \in 0 .. Slots - 1 |-> NULL]
      /\ m_values' = [i \in 0 .. Slots - 1 |-> NULL] /\ m_nvalues' = 0
    BY DEF Returns, Return, Empty
<1>4. TypeInv'
  <2>1. BufSize \in Nat /\ BufSize > 1
    BY HookAssumption
  <2>2. p' \in 0 .. BufSize - 1 /\ m_nvalues' \in 0 .. 4
    BY <1>3, <2>1
  <2>3. /\ DOMAIN m_buffer' = Positions /\ m_keys' \in [0 .. Slots - 1 -> {NULL} \cup Positions]
        /\ m_values' \in [0 .. Slots - 1 -> {NULL} \cup 0 .. BufSize]
    BY <1>3
  <2>. QED BY <1>1, <1>2, <2>2, <2>3 DEF HookInv, TypeInv
<1>5. SocketInv'
    BY <1>1, <1>2 DEF SocketInv, NoSocket
<1>6. PeerInv'
    BY <1>1, <1>2, <1>3 DEF PeerInv
<1>7. BufferInv' /\ ReplyInv' /\ ReadInv' /\ ParsedInv' /\ ResultInv' /\ HeadConsumed' /\ HostExplained'
    BY <1>1, <1>2 DEF BufferInv, ReplyInv, ReadInv, ParsedInv, ResultInv, HeadConsumed, HostExplained
<1>. QED BY <1>4, <1>5, <1>6, <1>7 DEF HookInv

\* The Host line has been read, and is in the buffer.
LEMMA HostComplete ==
    ASSUME Layout(reply), UNCHANGED reply, reply # NoReply, reply.host # <<>>, NEW k \in Nat,
           LineAt(reply, m_nvalues', k), m_nvalues' \in 2 .. 4, LinesRead(k)', HostRead(k)',
           5 + Len(reply.host) \in Positions
    PROVE  HostParsed'
<1>. DEFINE n == Len(reply.host)
<1>1. n \in Nat /\ BufSize \in Nat
    BY HookAssumption, LenProperties DEF Layout, Bytes
<1>2. /\ LastLine(reply) = 3 /\ Start(reply, 1) = 3 /\ Start(reply, 2) = 8 + n
      /\ Start(reply, 3) = 16 + n /\ Start(reply, 4) = 18 + n
    BY DEF LastLine, Start
<1>. HIDE DEF n
<1>3. k >= 8 + n
  <2>1. Start(reply, m_nvalues') <= k
    BY DEF LineAt
  <2>2. m_nvalues' = 2 \/ m_nvalues' = 3 \/ m_nvalues' = 4
    OBVIOUS
  <2>. QED BY <1>1, <1>2, <2>1, <2>2
<1>4. m_keys'[1] = 2
  <2>1. \A i \in 1 .. m_nvalues' : m_keys'[i] = Start(reply, i) - i
    BY DEF LinesRead
  <2>2. 1 \in 1 .. m_nvalues'
    OBVIOUS
  <2>. QED BY <1>2, <2>1, <2>2
<1>5. /\ m_buffer'[2] = "Host" /\ m_buffer'[3] = NUL /\ m_values'[1] = 5
      /\ m_buffer'[5 + n] = NUL
    BY <1>1, <1>2, <1>3 DEF HostRead, NUL, n
<1>6. \A i \in 1 .. n : m_buffer'[4 + i] = reply.host[i]
  <2>1. \A i \in 1 .. n : k >= 6 + i => m_buffer'[4 + i] = reply.host[i]
    BY DEF HostRead, n
  <2>2. \A i \in 1 .. n : k >= 6 + i
    BY <1>1, <1>3
  <2>. QED BY <2>1, <2>2
<1>7. 5 + n \in Positions /\ 3 \in Positions
    BY <1>1 DEF Positions, n
<1>8. 2 <= m_nvalues'
    OBVIOUS
<1>. QED BY <1>4, <1>5, <1>6, <1>7, <1>8 DEF HostParsed, Positions, NUL, n

\* A byte is read as it was sent, or after a failed read into the wrong place.
LEMMA ReadStep == HookInv /\ Read /\ UNCHANGED <<daemon, reply, cut>> => HookInv'
<1>. SUFFICES ASSUME HookInv, Read, UNCHANGED <<daemon, reply, cut>> PROVE HookInv'
    OBVIOUS
<1>. DEFINE c == Head(wire)
            n == LastLine(reply)
            N == Len(reply.head)
            l == m_nvalues'
<1>1. /\ UNCHANGED <<alive, listening, dnsTarget, fd, was, m_old_flags>>
      /\ UNCHANGED <<arg, result, errors, peer, reply, cut>>
      /\ call.at = "read" /\ wire # <<>> /\ wire' = Tail(wire) /\ Byte(c)
    BY DEF Read, daemon, socket
<1>2. TypeInv /\ BufferInv /\ SocketInv /\ PeerInv /\ ReplyInv /\ ReadInv /\ ResultInv
    BY DEF HookInv
<1>3. /\ reply # NoReply /\ Layout(reply) /\ wire \in Seq(Chars)
      /\ call.op = "getaddrinfo" => reply.host # <<>>
    BY <1>1, <1>2 DEF PeerInv, ReplyInv
<1>4. PICK k \in Nat : /\ OnWire(k) /\ LineAt(reply, m_nvalues, k)
                       /\ errors = 0 => ParsedTo(k)
    BY <1>1, <1>2, <1>3 DEF ReadInv
<1>. HIDE DEF c, n, N
<1>5. k + 1 <= Len(Source) /\ c = Source[k + 1] /\ wire' \in Seq(Chars) /\ OnWire(k + 1)'
    BY <1>1, <1>3, <1>4, WireStep DEF c
<1>6. m_nvalues \in Nat /\ n \in 1 .. 3
  <2>1. m_nvalues \in 0 .. 4
    BY <1>2 DEF TypeInv
  <2>2. n \in 1 .. 3
    BY <1>3, StartLemma DEF Layout, n
  <2>. QED BY <2>1, <2>2
<1>7. l = IF c = "LF" THEN m_nvalues + 1 ELSE m_nvalues
    BY <1>1, ByteFacts
<1>. HIDE DEF l
<1>8. /\ LineAt(reply, l, k + 1)
      /\ c = "LF" => m_nvalues <= n
      /\ m_nvalues <= n => c = reply.head[k + 1]
  <2>1. IsSource(Source, reply.head, reply.rest)
    BY <1>3, SourceOf
  <2>. QED BY <1>3, <1>4, <1>5, <1>6, <1>7, <2>1, LineStep DEF n
<1>9. c = "LF" => m_nvalues <= 3
    BY <1>6, <1>8
<1>10. /\ DOMAIN m_buffer' = Positions /\ p' \in 0 .. BufSize - 1 /\ m_nvalues' \in 0 .. 4
       /\ m_keys' \in [0 .. Slots - 1 -> {NULL} \cup Positions]
       /\ m_values' \in [0 .. Slots - 1 -> {NULL} \cup 0 .. BufSize]
       /\ call'.op = call.op /\ call'.at \in {"read", "parsed"}
       /\ call' \in [op : {"none", "getaddrinfo", "connect"},
                     at : {"idle", "blocking", "socket", "connect", "send", "read",
                           "parsed", "leave", "return"}]
       /\ BufferInv'
    BY <1>1, <1>2, <1>9, ByteTypes
<1>. DEFINE blank == Blank(m_buffer, m_keys, m_nvalues)'
<1>11. ASSUME errors = 0
       PROVE  /\ LinesRead(k + 1)'
              /\ blank <=> k + 1 = N
              /\ k + 1 # N => l <= n /\ Position(k + 1)' /\ p' <= N - n - 2
              /\ k + 1 = N => l = n + 1
              /\ reply.host # <<>> => /\ HostRead(k + 1)'
                                      /\ l >= 2 => 5 + Len(reply.host) \in Positions
  <2>1. ParsedTo(k)
    BY <1>4, <1>11
  <2>2. c = reply.head[k + 1]
    BY <1>8, <2>1 DEF ParsedTo, n
  <2>3. /\ LinesRead(k + 1)'
        /\ blank <=> k + 1 = N
        /\ k + 1 # N => l <= n /\ Position(k + 1)' /\ p' <= N - n - 2
        /\ k + 1 = N => l = n + 1
    BY <1>1, <1>2, <1>3, <1>4, <2>1, <2>2, ParseStep DEF n, N, l
  <2>4. reply.host # <<>> => /\ HostRead(k + 1)'
                             /\ l >= 2 => 5 + Len(reply.host) \in Positions
    BY <1>1, <1>2, <1>3, <1>4, <2>1, <2>2, HostStep DEF l
  <2>. QED BY <2>3, <2>4
<1>12. call'.at = "parsed" <=> blank \/ p' >= BufSize - 1
  <2>1. call' = [call EXCEPT !.at = IF blank \/ p' >= BufSize - 1 THEN "parsed" ELSE "read"]
    BY <1>1, ByteFacts
  <2>. QED BY <1>2, <2>1 DEF TypeInv
<1>. HIDE DEF blank
<1>13. TypeInv'
    BY <1>1, <1>2, <1>10 DEF TypeInv
<1>14. SocketInv'
    BY <1>1, <1>2, <1>10 DEF SocketInv
<1>15. PeerInv'
    BY <1>1, <1>2, <1>3, <1>10 DEF PeerInv
<1>16. ReplyInv'
    BY <1>1, <1>3, <1>5, <1>10 DEF ReplyInv
<1>17. ReadInv'
  <2>. SUFFICES ASSUME call'.at = "read"
                PROVE  \E i \in Nat : /\ OnWire(i)' /\ LineAt(reply', m_nvalues', i)
                                      /\ errors' = 0 => ParsedTo(i)'
    BY <1>1, <1>3 DEF ReadInv
  <2>1. ASSUME errors' = 0 PROVE ParsedTo(k + 1)'
    <3>1. k + 1 # N
      BY <1>1, <1>11, <1>12, <2>1
    <3>2. /\ l <= n /\ Position(k + 1)' /\ LinesRead(k + 1)'
          /\ reply.host # <<>> => HostRead(k + 1)'
      BY <1>1, <1>11, <2>1, <3>1
    <3>. QED BY <1>1, <3>2 DEF ParsedTo, l, n
  <2>. QED BY <1>1, <1>5, <1>8, <2>1 DEF l
<1>18. ASSUME call'.at = "parsed", Clean'
       PROVE  k + 1 = N
  <2>1. errors = 0 /\ Cardinality({i \in 1 .. Len(reply.head) : reply.head[i] # "CR"}) < BufSize
    BY <1>1, <1>18 DEF Clean
  <2>2. N - n - 1 < BufSize
    BY <1>3, <2>1 DEF Layout, n, N
  <2>3. N \in Nat
    BY <1>3, LenProperties DEF Layout, Bytes, N
  <2>4. p' \in Nat /\ BufSize \in Nat
    BY <1>10, HookAssumption
  <2>. QED BY <1>6, <1>11, <1>12, <1>18, <2>1, <2>2, <2>3, <2>4
<1>19. HeadConsumed'
  <2>. SUFFICES ASSUME call'.at = "parsed", Clean'
                PROVE  wire' = reply.rest
    BY <1>1, <1>10 DEF HeadConsumed
  <2>1. OnWire(Len(reply.head))' /\ ~cut'
    BY <1>5, <1>18 DEF N, Clean
  <2>. QED BY <1>1, <1>3, <1>5, <2>1, WireEnd
<1>20. ParsedInv'
  <2>. SUFFICES ASSUME call'.at = "parsed", call.op = "getaddrinfo", errors = 0,
                       ~(l <= 1 /\ ~Clean')
                PROVE  HostParsed'
    BY <1>1, <1>10 DEF ParsedInv, l
  <2>1. l \in 0 .. 4
    BY <1>10 DEF l
  <2>2. l >= 2
    BY <1>6, <1>11, <1>18, <2>1
  <2>3. reply.host # <<>>
    BY <1>3
  <2>4. k + 1 \in Nat /\ m_nvalues' \in 2 .. 4
    BY <2>1, <2>2 DEF l
  <2>. QED BY <1>1, <1>3, <1>8, <1>11, <2>2, <2>3, <2>4, HostComplete DEF l
<1>21. ResultInv' /\ HostExplained'
    BY <1>1, <1>2, <1>10 DEF ResultInv, HostExplained
<1>. QED BY <1>10, <1>13, <1>14, <1>15, <1>16, <1>17, <1>19, <1>20, <1>21 DEF HookInv

\* A read that fails finds no end of a line.
LEMMA ReadFailsStep == HookInv /\ Interrupted => HookInv'
<1>. SUFFICES ASSUME HookInv, Interrupted PROVE HookInv'
    OBVIOUS
<1>. DEFINE c == m_buffer[p]
<1>1. /\ UNCHANGED <<alive, listening, dnsTarget, fd, was, m_old_flags>>
      /\ UNCHANGED <<arg, result, wire, peer, reply, cut>>
      /\ call.at = "read" /\ errors' = errors + 1 /\ Byte(c)
    BY DEF Interrupted, ReadFails, daemon, socket
<1>2. TypeInv /\ BufferInv /\ SocketInv /\ PeerInv /\ ReplyInv /\ ReadInv /\ ResultInv
    BY DEF HookInv
<1>3. errors' \in Nat /\ errors' # 0
  <2>1. errors \in Nat
    BY <1>2 DEF TypeInv
  <2>. QED BY <1>1, <2>1
<1>4. c # "LF"
    BY <1>1, <1>2 DEF BufferInv, NUL
<1>5. m_nvalues' = m_nvalues
    BY <1>1, <1>4, ByteFacts
<1>. HIDE DEF c
<1>6. /\ DOMAIN m_buffer' = Positions /\ p' \in 0 .. BufSize - 1 /\ m_nvalues' \in 0 .. 4
      /\ m_keys' \in [0 .. Slots - 1 -> {NULL} \cup Positions]
      /\ m_values' \in [0 .. Slots - 1 -> {NULL} \cup 0 .. BufSize]
      /\ call'.op = call.op /\ call'.at \in {"read", "parsed"}
      /\ call' \in [op : {"none", "getaddrinfo", "connect"},
                    at : {"idle", "blocking", "socket", "connect", "send", "read",
                          "parsed", "leave", "return"}]
      /\ BufferInv'
    BY <1>1, <1>2, <1>4, ByteTypes
<1>7. TypeInv'
    BY <1>1, <1>2, <1>3, <1>6 DEF TypeInv
<1>8. SocketInv'
    BY <1>1, <1>2, <1>6 DEF SocketInv
<1>9. PeerInv'
    BY <1>1, <1>2, <1>3, <1>5, <1>6 DEF PeerInv
<1>10. ReplyInv'
    BY <1>1, <1>2, <1>6 DEF ReplyInv
<1>11. ReadInv'
    BY <1>1, <1>2, <1>3, <1>5 DEF ReadInv, OnWire, Source
<1>12. ParsedInv' /\ HeadConsumed' /\ HostExplained'
    BY <1>3 DEF ParsedInv, HeadConsumed, HostExplained, Clean
<1>13. ResultInv'
    BY <1>1, <1>2, <1>6 DEF ResultInv
<1>. QED BY <1>6, <1>7, <1>8, <1>9, <1>10, <1>11, <1>12, <1>13 DEF HookInv

\* The connection ends before the head does: nothing is found, or a whole Host line.
LEMMA ReadEndsStep == HookInv /\ ReadEnds /\ UNCHANGED <<daemon, reply, cut>> => HookInv'
<1>. SUFFICES ASSUME HookInv, ReadEnds, UNCHANGED <<daemon, reply, cut>> PROVE HookInv'
    OBVIOUS
<1>1. /\ UNCHANGED <<alive, listening, dnsTarget, fd, was, m_old_flags>>
      /\ UNCHANGED <<m_buffer, p, m_keys, m_values, m_nvalues>>
      /\ UNCHANGED <<arg, result, errors, wire, peer, reply, cut>>
      /\ peer = "closed"
    BY DEF ReadEnds, daemon, parser, socket
<1>2. /\ call.at = "read" /\ call'.at = "parsed" /\ call'.op = call.op
      /\ call' \in [op : {"none", "getaddrinfo", "connect"},
                    at : {"idle", "blocking", "socket", "connect", "send", "read",
                          "parsed", "leave", "return"}]
    BY ReachesFacts DEF ReadEnds
<1>3. TypeInv /\ BufferInv /\ SocketInv /\ PeerInv /\ ReplyInv /\ ReadInv /\ ResultInv
    BY DEF HookInv
<1>4. TypeInv'
    BY <1>1, <1>2, <1>3 DEF TypeInv
<1>5. SocketInv'
    BY <1>1, <1>2, <1>3 DEF SocketInv
<1>6. PeerInv'
    BY <1>1, <1>2, <1>3 DEF PeerInv
<1>7. ReplyInv'
    BY <1>1, <1>2, <1>3 DEF ReplyInv
<1>8. ~Clean'
    BY <1>1, <1>3 DEF Clean, PeerInv
<1>9. BufferInv' /\ ReadInv' /\ HeadConsumed' /\ HostExplained'
    BY <1>2, <1>8 DEF BufferInv, ReadInv, HeadConsumed, HostExplained
<1>10. ResultInv'
    BY <1>1, <1>2, <1>3 DEF ResultInv
<1>11. ParsedInv'
  <2>. SUFFICES ASSUME call.op = "getaddrinfo", errors = 0, ~(m_nvalues <= 1)
                PROVE  HostParsed'
    BY <1>1, <1>2, <1>8 DEF ParsedInv
  <2>1. m_nvalues \in 2 .. 4
    <3>1. m_nvalues \in 0 .. 4
      BY <1>3 DEF TypeInv
    <3>. QED BY <3>1
  <2>2. reply # NoReply
    <3>1. reply = NoReply => m_nvalues = 0
      BY <1>3 DEF PeerInv
    <3>. QED BY <2>1, <3>1
  <2>3. Layout(reply) /\ reply.host # <<>>
    BY <1>3, <2>2 DEF ReplyInv
  <2>4. PICK k \in Nat : LineAt(reply, m_nvalues, k) /\ ParsedTo(k)
    BY <1>2, <1>3, <2>2 DEF ReadInv
  <2>5. m_nvalues <= LastLine(reply) /\ Position(k) /\ LinesRead(k) /\ HostRead(k)
    BY <2>3, <2>4 DEF ParsedTo
  <2>6. 5 + Len(reply.host) \in Positions
    <3>1. PICK n \in Nat : n = Len(reply.host)
      BY <2>3, LenProperties DEF Layout, Bytes
    <3>2. LastLine(reply) = 3 /\ Start(reply, 2) = 8 + n /\ Start(reply, 3) = 16 + n
      BY <2>3, <3>1 DEF LastLine, Start
    <3>3. Start(reply, m_nvalues) - m_nvalues <= p
      BY <2>1, <2>3, <2>4, <2>5, PositionLemma
    <3>4. m_nvalues = 2 \/ m_nvalues = 3
      BY <2>1, <2>5, <3>2
    <3>5. 6 + n <= p
      <4>1. p \in Nat
        BY <1>3, CounterTypes
      <4>. QED BY <3>2, <3>3, <3>4, <4>1
    <3>6. p \in 0 .. BufSize - 1 /\ BufSize \in Nat
      BY <1>3, HookAssumption DEF TypeInv
    <3>. QED BY <3>1, <3>5, <3>6 DEF Positions
  <2>7. LinesRead(k)' /\ HostRead(k)'
    BY <1>1, <2>5 DEF LinesRead, HostRead
  <2>8. LineAt(reply, m_nvalues', k) /\ m_nvalues' \in 2 .. 4 /\ UNCHANGED reply
    BY <1>1, <2>1, <2>4
  <2>. QED BY <2>2, <2>3, <2>6, <2>7, <2>8, HostComplete
<1>. QED BY <1>4, <1>5, <1>6, <1>7, <1>9, <1>10, <1>11 DEF HookInv

\* The strings of the buffer: the Host line is found, and its value is the host.
LEMMA StringLemma ==
    ASSUME NEW q \in Positions, NEW e \in Positions, q <= e, m_buffer[e] = NUL,
           \A f \in q .. e - 1 : m_buffer[f] # NUL
    PROVE  String(q) = [i \in 1 .. e - q |-> m_buffer[q + i - 1]]
<1>. DEFINE IsEnd(x) == /\ x >= q /\ m_buffer[x] = NUL
                        /\ \A f \in q .. x - 1 : m_buffer[f] # NUL
            end == CHOOSE x \in Positions : IsEnd(x)
<1>1. q \in Nat /\ e \in Nat /\ Positions \subseteq Nat
    BY HookAssumption DEF Positions
<1>2. IsEnd(e)
    BY <1>1
<1>3. \A x \in Positions : IsEnd(x) => x = e
    BY <1>1
<1>. HIDE DEF IsEnd
<1>4. end = e
    BY <1>2, <1>3
<1>5. String(q) = [i \in 1 .. end - q |-> m_buffer[q + i - 1]]
    BY DEF String, IsEnd
<1>. QED BY <1>4, <1>5

LEMMA HeaderLemma ==
    ASSUME HostParsed, Layout(reply), reply.host # <<>>, TypeInv
    PROVE  GetHeader(<<"Host">>) = reply.host
<1>. DEFINE host == reply.host
            n == Len(reply.host)
<1>1. /\ m_keys[1] = 2 /\ m_buffer[2] = "Host" /\ m_buffer[3] = NUL /\ 3 \in Positions
      /\ m_values[1] = 5 /\ 5 + n \in Positions /\ 2 <= m_nvalues
      /\ m_buffer[5 + n] = NUL
    BY DEF HostParsed
<1>2. \A i \in 1 .. n : m_buffer[4 + i] = host[i]
    BY DEF HostParsed
<1>3. host \in Seq(Chars) /\ n \in Nat /\ m_nvalues \in Nat /\ BufSize \in Nat
  <2>1. host \in Seq(Chars) /\ n \in Nat
    BY LenProperties DEF Layout, Bytes
  <2>. QED BY <2>1, HookAssumption, CounterTypes
<1>4. \A i \in 1 .. n : host[i] # NUL
  <2>1. LastLine(reply) = 3 /\ Start(reply, 1) = 3 /\ Start(reply, 2) = 8 + n
    BY DEF LastLine, Start
  <2>2. LineOf(reply, 1)
    BY <2>1 DEF Layout
  <2>3. \A q \in 4 .. 6 + n : reply.head[q] # NUL
    BY <1>3, <2>1, <2>2 DEF LineOf
  <2>4. \A i \in 1 .. n : reply.head[6 + i] = host[i]
    BY DEF Layout
  <2>5. \A i \in 1 .. n : 6 + i \in 4 .. 6 + n
    BY <1>3
  <2>. QED BY <2>3, <2>4, <2>5
<1>. HIDE DEF host, n
<1>5. String(2) = <<"Host">>
  <2>1. 2 \in Positions /\ 2 <= 3 /\ \A f \in 2 .. 3 - 1 : m_buffer[f] # NUL
    BY <1>1, <1>3 DEF Positions, NUL
  <2>2. String(2) = [i \in 1 .. 3 - 2 |-> m_buffer[2 + i - 1]]
    BY <1>1, <2>1, StringLemma
  <2>3. 3 - 2 = 1 /\ \A i \in 1 .. 1 : 2 + i - 1 = 2
    OBVIOUS
  <2>4. [i \in 1 .. 3 - 2 |-> m_buffer[2 + i - 1]] = [i \in 1 .. 1 |-> "Host"]
    BY <1>1, <2>3
  <2>5. [i \in 1 .. 1 |-> "Host"] = <<"Host">>
    OBVIOUS
  <2>. QED BY <2>2, <2>4, <2>5
<1>6. String(5) = host
  <2>1. PICK e \in Positions : e = 5 + n
    BY <1>1
  <2>2. 5 \in Positions /\ 5 <= e /\ e \in Nat
    BY <1>1, <1>3, <2>1 DEF Positions
  <2>3. ASSUME NEW f \in 5 .. e - 1
        PROVE  m_buffer[f] # NUL
    <3>1. f - 4 \in 1 .. n /\ 4 + (f - 4) = f
      BY <1>3, <2>1, <2>2
    <3>. QED BY <1>2, <1>4, <3>1
  <2>4. m_buffer[e] = NUL
    BY <1>1, <2>1
  <2>5. String(5) = [i \in 1 .. e - 5 |-> m_buffer[5 + i - 1]]
    BY <2>2, <2>3, <2>4, StringLemma
  <2>6. e - 5 = n /\ \A i \in 1 .. n : 5 + i - 1 = 4 + i
    BY <1>3, <2>1, <2>2
  <2>7. [i \in 1 .. e - 5 |-> m_buffer[5 + i - 1]] = [i \in 1 .. n |-> host[i]]
    BY <1>2, <2>6
  <2>8. host = [i \in 1 .. n |-> host[i]]
    BY <1>3 DEF n, host
  <2>. QED BY <2>5, <2>7, <2>8
<1>. DEFINE match == {i \in Lines : String(m_keys[i]) = <<"Host">>}
            first == CHOOSE i \in match : \A j \in match : i <= j
<1>7. 1 \in match /\ match \subseteq Lines /\ Lines = 1 .. m_nvalues - 1
  <2>1. Lines = 1 .. m_nvalues - 1
    BY DEF Lines
  <2>2. 1 \in Lines
    BY <1>1, <1>3, <2>1
  <2>. QED BY <1>1, <1>5, <2>1, <2>2
<1>8. GetHeader(<<"Host">>) = IF match = {} THEN <<>> ELSE String(m_values[first])
    BY DEF GetHeader
<1>. HIDE DEF match
<1>9. first = 1
  <2>1. \A j \in match : 1 <= j
    BY <1>3, <1>7
  <2>2. \A i \in match : (\A j \in match : i <= j) => i = 1
    BY <1>3, <1>7
  <2>. QED BY <1>7, <2>1, <2>2
<1>10. match # {}
    BY <1>7
<1>. HIDE DEF first
<1>. QED BY <1>1, <1>6, <1>8, <1>9, <1>10 DEF host

LEMMA ParsedStep == HookInv /\ Parsed /\ UNCHANGED <<daemon, reply, cut>> => HookInv'
<1>. SUFFICES ASSUME HookInv, Parsed, UNCHANGED <<daemon, reply, cut>> PROVE HookInv'
    OBVIOUS
<1>1. /\ UNCHANGED <<alive, listening, dnsTarget, fd, was, m_old_flags>>
      /\ UNCHANGED <<m_buffer, p, m_keys, m_values, m_nvalues>>
      /\ UNCHANGED <<arg, errors, wire, peer, reply, cut>>
    BY DEF Parsed, daemon, parser, socket
<1>2. /\ call.at = "parsed" /\ call'.at = "leave" /\ call'.op = call.op
      /\ call' \in [op : {"none", "getaddrinfo", "connect"},
                    at : {"idle", "blocking", "socket", "connect", "send", "read",
                          "parsed", "leave", "return"}]
    BY ReachesFacts DEF Parsed
<1>3. /\ TypeInv /\ SocketInv /\ PeerInv /\ ReplyInv /\ ParsedInv /\ ResultInv /\ HeadConsumed
    BY DEF HookInv
<1>4. TypeInv'
    BY <1>1, <1>2, <1>3 DEF TypeInv
<1>5. SocketInv'
    BY <1>1, <1>2, <1>3 DEF SocketInv
<1>6. PeerInv'
    BY <1>1, <1>2, <1>3 DEF PeerInv
<1>7. ResultInv' /\ HeadConsumed' /\ Clean' = Clean
    BY <1>1, <1>2, <1>3 DEF ResultInv, HeadConsumed, Clean
<1>8. HostExplained'
  <2>. SUFFICES ASSUME call.op = "getaddrinfo", errors = 0
                PROVE  result' \in {<<arg>>, reply.host} /\ (Clean => result' = reply.host)
    BY <1>1, <1>2, <1>7 DEF HostExplained
  <2>1. result = <<arg>>
    BY <1>2, <1>3 DEF ResultInv
  <2>2. result' = IF GetHeader(<<"Host">>) = <<>> THEN result ELSE GetHeader(<<"Host">>)
    BY DEF Parsed
  <2>3. CASE HostParsed
    <3>1. Layout(reply) /\ reply.host # <<>>
      BY <1>3, <2>3 DEF HostParsed, ReplyInv
    <3>2. GetHeader(<<"Host">>) = reply.host
      BY <1>3, <2>3, <3>1, HeaderLemma
    <3>. QED BY <2>2, <3>1, <3>2
  <2>4. CASE m_nvalues <= 1 /\ ~Clean
    <3>1. m_nvalues \in Nat
      BY <1>3, CounterTypes
    <3>2. Lines = {}
      BY <2>4, <3>1 DEF Lines
    <3>3. GetHeader(<<"Host">>) = <<>>
      BY <3>2 DEF GetHeader
    <3>. QED BY <2>1, <2>2, <2>4, <3>3
  <2>. QED BY <1>2, <1>3, <2>3, <2>4 DEF ParsedInv
<1>. QED BY <1>1, <1>2, <1>4, <1>5, <1>6, <1>7, <1>8, OutsideStep

LEMMA HookStep == HookInv /\ [Next]_vars => HookInv'
<1>. SUFFICES ASSUME HookInv, [Next]_vars PROVE HookInv'
    OBVIOUS
<1>1. CASE UNCHANGED vars
  <2>1. alive' \in BOOLEAN /\ listening' \subseteq DOMAIN TcpPort /\ dnsTarget' \in Targets \cup {""}
    BY <1>1 DEF vars, daemon, HookInv, TypeInv
  <2>. QED BY <1>1, <2>1, FrameStep DEF vars
<1>2. CASE Hook
    BY <1>2, SocketMakeBlockingStep, SocketStep, ConnectStep, SendStep, ReadStep, ReadEndsStep,
       ParsedStep, DestroyStep DEF Hook
<1>3. CASE Handle
    BY <1>3, HandleResolveStep, HandleTunnelingStep, SocksRefusesStep DEF Handle
<1>. QED BY <1>1, <1>2, <1>3, StartsProxyStep, EndsStep, CallsStep, ReadFailsStep, ReturnsStep
         DEF Next

(***************************************************************************)
(* The theorems                                                            *)
(***************************************************************************)
\* Whatever is on the wire, the position and the tables of the parser are explained
\* by how many bytes of the response have been read.
THEOREM HookInvariant == Spec => []HookInv
<1>1. Init => HookInv
    BY HookInit0
<1>2. HookInv /\ [Next]_vars => HookInv'
    BY HookStep
<1>. QED BY <1>1, <1>2, PTL DEF Spec

\* The loop of Request stays within m_buffer and within m_keys and m_values, for
\* every response of the proxy, wherever it is cut and however many reads fail.
THEOREM HookTypes == Spec => []TypeOK
<1>1. HookInv => TypeOK
  <2>. SUFFICES ASSUME HookInv PROVE TypeOK
    OBVIOUS
  <2>0. TypeInv
    BY DEF HookInv
  <2>1. m_nvalues \in 0 .. Slots - 1
    <3>1. m_nvalues \in 0 .. 4
      BY <2>0 DEF TypeInv
    <3>. QED BY <3>1, HookAssumption
  <2>2. \A i \in 0 .. Slots - 1 : m_keys[i] \in {NULL} \cup Positions
    BY <2>0 DEF TypeInv
  <2>3. \A i \in 0 .. Slots - 1 : m_values[i] \in {NULL} \cup 0 .. BufSize
    BY <2>0 DEF TypeInv
  <2>. QED BY <2>0, <2>1, <2>2, <2>3 DEF TypeInv, TypeOK
<1>. QED BY <1>1, HookInvariant, PTL

\* When a response was read without an error, the hook has taken its head and
\* nothing else from the socket: the tunnel's first byte is the application's.
THEOREM TunnelUntouched == Spec => []HeadConsumed
<1>1. HookInv => HeadConsumed
    BY DEF HookInv
<1>. QED BY <1>1, HookInvariant, PTL

\* The system is asked for the whole address that the proxy has answered with or
\* for the application's own node, for every address and wherever the connection
\* is cut.
THEOREM WholeHost == Spec => []HostExplained
<1>1. HookInv => HostExplained
    BY DEF HookInv
<1>. QED BY <1>1, HookInvariant, PTL

\* Every way out of a call leaves the application's socket with its own flags and
\* the hook's socket closed.
THEOREM FlagsRestored == Spec => []SocketRestored
<1>1. HookInv => SocketRestored
    BY DEF HookInv, SocketInv, SocketRestored
<1>. QED BY <1>1, HookInvariant, PTL
================================================================================
