---------------------------- MODULE StreamProofs ----------------------------
(***************************************************************************)
(* What the server streams, for any tokens, any number of them and any     *)
(* limit of white space: nothing is sent twice or out of order, nothing is *)
(* withheld but the beginning of a marker, and in the end the channels     *)
(* carry what extract_reasoning_and_content() makes of the whole text.     *)
(* And what the terminal shows: in the end what terminal_output() makes of *)
(* the whole text.                                                         *)
(***************************************************************************)
EXTENDS Streams, SequenceTheorems, WellFoundedInduction, TLAPS

-----------------------------------------------------------------------------
(* Searching a text.                                                       *)

\* A nonempty set of naturals has a least element.
LEMMA LeastExists ==
    ASSUME NEW S \in SUBSET Nat, S # {}
    PROVE  \E x \in S : \A y \in S : x <= y
<1> DEFINE R == OpToRel(<, Nat)
<1> HIDE DEF R
<1>2. IsWellFoundedOn(R, Nat)
      BY NatLessThanWellFounded DEF R
<1>3. PICK x \in S : \A y \in S : <<y, x>> \notin R
      BY <1>2, WFMin
<1>4. \A y \in S : ~(y < x)
      BY <1>3 DEF OpToRel, R
<1> QED BY <1>4

LEMMA FindIs ==
    ASSUME NEW t \in Seq(STRING), NEW markers, NEW from \in Nat, NEW f, f = Find(t, markers, from)
    PROVE  \/ /\ f = Len(t) + 1
              /\ \A p \in from .. Len(t) : \A m \in markers : ~StartsAt(t, p, m)
           \/ /\ f \in from .. Len(t)
              /\ \E m \in markers : StartsAt(t, f, m)
              /\ \A p \in from .. f - 1 : \A m \in markers : ~StartsAt(t, p, m)
<1> DEFINE found == {p \in from .. Len(t) : \E m \in markers : StartsAt(t, p, m)}
<1>1. f = IF found = {} THEN Len(t) + 1 ELSE CHOOSE p \in found : \A q \in found : p <= q
  BY DEF Find
<1>2. found \in SUBSET Nat /\ found \subseteq from .. Len(t) /\ Len(t) \in Nat
  OBVIOUS
<1>3. CASE found = {}
  BY <1>1, <1>3
<1>4. CASE found # {}
  <2>1. f \in found /\ \A q \in found : f <= q
    <3> HIDE DEF found
    <3> QED BY <1>1, <1>2, <1>4, LeastExists
  <2>2. \A p \in from .. f - 1 : p \notin found
    <3> HIDE DEF found
    <3> QED BY <1>2, <2>1
  <2>3. \A p \in from .. f - 1 : p \in from .. Len(t)
    BY <1>2, <2>1
  <2> QED BY <2>1, <2>2, <2>3
<1> QED BY <1>3, <1>4

LEMMA FindWithin ==
    ASSUME NEW t \in Seq(STRING), NEW markers, NEW from \in 1 .. Len(t) + 1
    PROVE  /\ Find(t, markers, from) \in from .. Len(t) + 1
           /\ Find(t, markers, from) \in Nat
           /\ Len(t) \in Nat
BY FindIs

LEMMA SkipIs ==
    ASSUME NEW t \in Seq(STRING), NEW p \in 1 .. Len(t) + 1, NEW q, q = SkipNewlines(t, p)
    PROVE  /\ q \in p .. Len(t) + 1
           /\ \A i \in p .. q - 1 : t[i] = "n"
           /\ q <= Len(t) => t[q] # "n"
<1> DEFINE S == {k \in p .. Len(t) + 1 : k <= Len(t) => t[k] # "n"}
<1>1. S \in SUBSET Nat /\ Len(t) + 1 \in S /\ Len(t) \in Nat /\ S \subseteq p .. Len(t) + 1
  OBVIOUS
<1>2. PICK k \in S : \A j \in S : k <= j
  <2> HIDE DEF S
  <2> QED BY <1>1, LeastExists
<1>3. k \in p .. Len(t) + 1 /\ (k <= Len(t) => t[k] # "n")
  BY <1>2
<1>4. ASSUME NEW i \in p .. k - 1 PROVE t[i] = "n"
  <2>1. i \notin S
    <3> HIDE DEF S
    <3> QED BY <1>1, <1>2
  <2>2. i \in p .. Len(t) + 1 /\ i <= Len(t)
    BY <1>1, <1>3
  <2> QED BY <2>1, <2>2
<1> DEFINE P(j) == /\ \A i \in p .. j - 1 : t[i] = "n"
                   /\ j <= Len(t) => t[j] # "n"
<1>5. k \in p .. Len(t) + 1 /\ P(k)
  BY <1>3, <1>4
<1>6. q = CHOOSE j \in p .. Len(t) + 1 : P(j)
  BY DEF SkipNewlines
<1>7. q \in p .. Len(t) + 1 /\ P(q)
  <2> HIDE DEF P
  <2> QED BY <1>5, <1>6
<1> QED BY <1>7

\* The symbol itself.
LEMMA OneSymbol ==
    ASSUME NEW t \in Seq(STRING), NEW s, NEW p \in 1 .. Len(t)
    PROVE  StartsAt(t, p, <<s>>) <=> t[p] = s
<1>1. Len(<<s>>) = 1 /\ p + 1 - 1 = p /\ Len(t) \in Nat
  OBVIOUS
<1>2. SubSeq(t, p, p) = <<t[p]>>
  <2>1. SubSeq(t, p, p) = [i \in 1 .. 1 |-> t[p + i - 1]]
    BY <1>1, SubSeqProperties
  <2> QED BY <2>1
<1> QED BY <1>1, <1>2 DEF StartsAt

LEMMA TagEndIs ==
    ASSUME NEW t \in Seq(STRING), NEW p \in 1 .. Len(t), TagEnd(t, p) # NoEnd
    PROVE  TagEnd(t, p) \in p + 1 .. Len(t) + 1
<1> DEFINE bracket == Find(t, {<<">">>}, p)
           newline == Find(t, {<<"n">>}, p)
<1>0. Len(t) \in Nat /\ p \in Nat
  OBVIOUS
<1>1. bracket \in p .. Len(t) + 1 /\ newline \in p .. Len(t) + 1
  BY <1>0, FindWithin
<1>2. CASE Found(t, bracket)
  <2>1. TagEnd(t, p) = SkipNewlines(t, bracket + 1)
    BY <1>2 DEF TagEnd
  <2>2. bracket + 1 \in 1 .. Len(t) + 1
    BY <1>0, <1>1, <1>2 DEF Found
  <2> HIDE DEF bracket
  <2>3. SkipNewlines(t, bracket + 1) \in bracket + 1 .. Len(t) + 1
    BY <2>2, SkipIs
  <2> QED BY <1>0, <1>1, <2>1, <2>3
<1>3. CASE ~Found(t, bracket) /\ Found(t, newline)
  <2>1. TagEnd(t, p) = SkipNewlines(t, newline)
    BY <1>3 DEF TagEnd
  <2>2. newline \in p .. Len(t) /\ StartsAt(t, newline, <<"n">>)
    BY <1>0, <1>3, FindIs DEF Found
  <2>3. newline \in 1 .. Len(t) /\ newline \in 1 .. Len(t) + 1
    BY <1>0, <2>2
  <2> HIDE DEF newline
  <2>4. t[newline] = "n"
    BY <2>2, <2>3, OneSymbol
  <2>5. /\ SkipNewlines(t, newline) \in newline .. Len(t) + 1
        /\ SkipNewlines(t, newline) # newline
    BY <2>3, <2>4, SkipIs
  <2> QED BY <1>0, <2>1, <2>2, <2>5
<1>4. CASE ~Found(t, bracket) /\ ~Found(t, newline)
  BY <1>4 DEF TagEnd
<1> QED BY <1>2, <1>3, <1>4

\* What is held back is the end of the text, and the beginning of a marker:
\* the longest one.
Begins(t, k, m) == k < Len(m) /\ SubSeq(t, Len(t) - k + 1, Len(t)) = SubSeq(m, 1, k)

RightlyHeld(t, from, markers, n) ==
    /\ n \in 0 .. Len(t) + 1 - from
    /\ n > 0 => \E m \in markers : Begins(t, n, m)
    /\ \A k \in 1 .. Len(t) + 1 - from : \A m \in markers : Begins(t, k, m) => k <= n

LEMMA HeldIs ==
    ASSUME NEW t \in Seq(STRING), NEW from \in 1 .. Len(t) + 1, NEW markers
    PROVE  RightlyHeld(t, from, markers, HeldBack(t, from, markers))
<1> DEFINE rest == Len(t) + 1 - from
           held == {k \in 1 .. rest : \E m \in markers :
                        k < Len(m) /\ SubSeq(t, Len(t) - k + 1, Len(t)) = SubSeq(m, 1, k)}
           n == HeldBack(t, from, markers)
<1>0. rest \in Nat /\ Len(t) \in Nat
  OBVIOUS
<1>1. n = IF held = {} THEN 0 ELSE CHOOSE k \in held : \A i \in held : i <= k
  BY DEF HeldBack
<1>2. CASE held = {}
  <2>1. n = 0
    BY <1>1, <1>2
  <2>2. \A k \in 1 .. rest : k \notin held
    BY <1>2
  <2>3. \A k \in 1 .. rest : \A m \in markers : Begins(t, k, m) => k \in held
    BY DEF Begins
  <2> HIDE DEF n, held
  <2>4. n > 0 => \E m \in markers : Begins(t, n, m)
    BY <2>1
  <2> QED BY <1>0, <2>1, <2>2, <2>3, <2>4 DEF RightlyHeld, n
<1>3. CASE held # {}
  <2> DEFINE S == {rest - k : k \in held}
  <2>1. S \in SUBSET Nat /\ S # {} /\ held \in SUBSET (1 .. rest)
    <3>1. \A k \in held : rest - k \in Nat
      BY <1>0
    <3> QED BY <1>3, <3>1
  <2>2. PICK x \in S : \A y \in S : x <= y
    <3> HIDE DEF S, held
    <3> QED BY <2>1, LeastExists
  <2>3. PICK k \in held : x = rest - k
    BY <2>2
  <2>4. \A i \in held : i <= k
    <3> TAKE i \in held
    <3>1. rest - i \in S
      OBVIOUS
    <3>2. rest - k <= rest - i
      BY <2>2, <2>3, <3>1
    <3> HIDE DEF held, rest
    <3> QED BY <1>0, <2>1, <2>3, <3>2
  <2>5. n \in held /\ \A i \in held : i <= n
    <3> HIDE DEF held
    <3> QED BY <1>1, <1>3, <2>3, <2>4
  <2>6. \A i \in 1 .. rest : \A m \in markers : Begins(t, i, m) => i \in held
    BY DEF Begins
  <2>7. n \in 1 .. rest /\ \E m \in markers : Begins(t, n, m)
    BY <2>5 DEF Begins
  <2> HIDE DEF held, n
  <2>8. \A i \in 1 .. rest : \A m \in markers : Begins(t, i, m) => i <= n
    BY <2>5, <2>6
  <2>9. n \in 0 .. rest
    BY <1>0, <2>7
  <2>10. /\ n > 0 => \E m \in markers : Begins(t, n, m)
         /\ \A i \in 1 .. rest : \A m \in markers : Begins(t, i, m) => i <= n
    BY <2>7, <2>8
  <2> QED BY <2>9, <2>10 DEF RightlyHeld, n
<1> QED BY <1>2, <1>3

LEMMA SpanIs ==
    ASSUME NEW a \in Nat, NEW b \in Nat
    PROVE  /\ Span(a, b) \in Seq(Nat)
           /\ Len(Span(a, b)) = IF b > a THEN b - a ELSE 0
           /\ \A i \in 1 .. Len(Span(a, b)) : Span(a, b)[i] = a + i - 1
           /\ {Span(a, b)[i] : i \in DOMAIN Span(a, b)} = a .. b - 1
<1> DEFINE s == Span(a, b)
           n == IF b > a THEN b - a ELSE 0
<1>1. s = [i \in 1 .. n |-> a + i - 1] /\ n \in Nat
  BY DEF Span
<1>2. \A i \in 1 .. n : a + i - 1 \in Nat
  BY <1>1
<1>3. s \in Seq(Nat) /\ Len(s) = n /\ DOMAIN s = 1 .. n
  BY <1>1, <1>2
<1>4. \A i \in 1 .. n : s[i] = a + i - 1 /\ s[i] \in a .. b - 1
  BY <1>1
<1>5. ASSUME NEW k \in a .. b - 1 PROVE \E i \in 1 .. n : s[i] = k
  <2>1. k - a + 1 \in 1 .. n /\ a + (k - a + 1) - 1 = k
    BY <1>1
  <2> QED BY <1>4, <2>1
<1> HIDE DEF s, n
<1>6. {s[i] : i \in DOMAIN s} = a .. b - 1
  <2>1. \A i \in DOMAIN s : s[i] \in a .. b - 1
    BY <1>3, <1>4
  <2>2. \A k \in a .. b - 1 : \E i \in DOMAIN s : s[i] = k
    BY <1>3, <1>5
  <2> QED BY <2>1, <2>2
<1> QED BY <1>3, <1>4, <1>6 DEF s, n

-----------------------------------------------------------------------------
(* Nothing is sent twice.                                                  *)

Positions(s) == {s[i] : i \in DOMAIN s}

\* s is part of what comes before b, in order.
SentBelow(s, b) ==
    /\ s \in Seq(Nat) /\ Increasing(s)
    /\ \A i \in DOMAIN s : s[i] \in 1 .. b - 1

LEMMA SendMore ==
    ASSUME NEW a \in Nat \ {0}, NEW b \in Nat, NEW c \in Nat, a <= c, b <= c \/ b <= a,
           NEW s, SentBelow(s, a), NEW x, x = s \o Span(a, b)
    PROVE  SentBelow(x, c) /\ Positions(x) = Positions(s) \cup a .. b - 1
<1> DEFINE e == Span(a, b)
<1>1. /\ e \in Seq(Nat) /\ Len(e) = IF b > a THEN b - a ELSE 0
      /\ \A i \in 1 .. Len(e) : e[i] = a + i - 1
      /\ Positions(e) = a .. b - 1
  BY SpanIs DEF Positions
<1> HIDE DEF e
<1>2. /\ s \in Seq(Nat) /\ Len(s) \in Nat /\ DOMAIN s = 1 .. Len(s)
      /\ \A i \in 1 .. Len(s) : s[i] \in 1 .. a - 1
      /\ \A i, j \in 1 .. Len(s) : i < j => s[i] < s[j]
  BY DEF SentBelow, Increasing
<1>3. x = s \o e
  BY DEF e
<1>4. /\ x \in Seq(Nat) /\ Len(x) = Len(s) + Len(e) /\ Len(e) \in Nat
      /\ DOMAIN x = 1 .. Len(x)
      /\ \A i \in 1 .. Len(s) : x[i] = s[i]
      /\ \A i \in Len(s) + 1 .. Len(x) : x[i] = e[i - Len(s)]
  <2>1. x \in Seq(Nat) /\ Len(x) = Len(s) + Len(e)
        /\ \A i \in 1 .. Len(s) + Len(e) : x[i] = IF i <= Len(s) THEN s[i] ELSE e[i - Len(s)]
    <3>1. s \o e \in Seq(Nat) /\ Len(s \o e) = Len(s) + Len(e)
      BY <1>1, <1>2, ConcatProperties
    <3>2. \A i \in 1 .. Len(s) + Len(e) :
              (s \o e)[i] = IF i <= Len(s) THEN s[i] ELSE e[i - Len(s)]
      BY <1>1, <1>2, ConcatProperties
    <3> QED BY <1>3, <3>1, <3>2
  <2>2. Len(e) \in Nat /\ DOMAIN x = 1 .. Len(x)
    BY <1>1, <2>1
  <2>3. \A i \in 1 .. Len(s) : i \in 1 .. Len(s) + Len(e) /\ i <= Len(s)
    BY <1>2, <2>2
  <2>4. \A i \in Len(s) + 1 .. Len(x) : i \in 1 .. Len(s) + Len(e) /\ ~(i <= Len(s))
    BY <1>2, <2>1, <2>2
  <2>5. \A i \in 1 .. Len(s) : x[i] = s[i]
    BY <2>1, <2>3
  <2>6. \A i \in Len(s) + 1 .. Len(x) : x[i] = e[i - Len(s)]
    BY <2>1, <2>4
  <2> QED BY <2>1, <2>2, <2>5, <2>6
<1>5. \A i \in Len(s) + 1 .. Len(x) : /\ i - Len(s) \in 1 .. Len(e)
                                     /\ x[i] = a + (i - Len(s)) - 1
  <2> TAKE i \in Len(s) + 1 .. Len(x)
  <2>1. i - Len(s) \in 1 .. Len(e)
    BY <1>2, <1>4
  <2> QED BY <1>1, <1>4, <2>1
<1>6. \A i \in 1 .. Len(x) : x[i] \in 1 .. c - 1
  <2> TAKE i \in 1 .. Len(x)
  <2>1. CASE i \in 1 .. Len(s)
    BY <1>2, <1>4, <2>1
  <2>2. CASE i \notin 1 .. Len(s)
    <3>1. i \in Len(s) + 1 .. Len(x)
      BY <1>2, <2>2
    <3>2. i - Len(s) \in 1 .. b - a /\ b > a
      BY <1>1, <1>5, <3>1
    <3> QED BY <1>2, <1>5, <3>1, <3>2
  <2> QED BY <2>1, <2>2
<1>7. ASSUME NEW i \in 1 .. Len(x), NEW j \in 1 .. Len(x), i < j PROVE x[i] < x[j]
  <2>1. CASE j \in 1 .. Len(s)
    BY <1>2, <1>4, <1>7, <2>1
  <2>2. CASE j \notin 1 .. Len(s)
    <3>1. j \in Len(s) + 1 .. Len(x) /\ x[j] = a + (j - Len(s)) - 1 /\ j - Len(s) >= 1
      BY <1>2, <1>4, <1>5, <2>2
    <3>2. CASE i \in 1 .. Len(s)
      BY <1>2, <1>4, <3>1, <3>2
    <3>3. CASE i \notin 1 .. Len(s)
      <4>1. i \in Len(s) + 1 .. Len(x) /\ x[i] = a + (i - Len(s)) - 1
        BY <1>2, <1>4, <1>5, <3>3
      <4> QED BY <1>2, <1>7, <3>1, <4>1
    <3> QED BY <3>2, <3>3
  <2> QED BY <2>1, <2>2
<1>8. Positions(x) = Positions(s) \cup Positions(e)
  <2>1. DOMAIN e = 1 .. Len(e)
    BY <1>1
  <2>2. \A i \in 1 .. Len(e) : /\ i + Len(s) \in Len(s) + 1 .. Len(x)
                               /\ (i + Len(s)) - Len(s) = i
    BY <1>2, <1>4
  <2>3. \A i \in 1 .. Len(e) : x[i + Len(s)] = e[i] /\ i + Len(s) \in 1 .. Len(x)
    <3> TAKE i \in 1 .. Len(e)
    <3> DEFINE j == i + Len(s)
    <3>1. j \in Len(s) + 1 .. Len(x) /\ j - Len(s) = i /\ j \in 1 .. Len(x)
      BY <1>2, <1>4
    <3> HIDE DEF j
    <3>2. x[j] = e[i] /\ j \in 1 .. Len(x)
      BY <1>4, <3>1
    <3> QED BY <3>2 DEF j
  <2>4. \A i \in 1 .. Len(s) : i \in 1 .. Len(x)
    BY <1>2, <1>4
  <2>5. \A i \in 1 .. Len(x) : \/ i \in 1 .. Len(s)
                               \/ i - Len(s) \in 1 .. Len(e) /\ x[i] = e[i - Len(s)]
    BY <1>2, <1>4
  <2>6. \A i \in DOMAIN x : x[i] \in Positions(s) \cup Positions(e)
    BY <1>2, <1>4, <2>1, <2>5 DEF Positions
  <2>7. \A i \in DOMAIN s : s[i] \in Positions(x)
    BY <1>2, <1>4, <2>4 DEF Positions
  <2>8. \A i \in DOMAIN e : e[i] \in Positions(x)
    <3> TAKE i \in DOMAIN e
    <3> DEFINE j == i + Len(s)
    <3>1. x[j] = e[i] /\ j \in DOMAIN x
      BY <1>4, <2>1, <2>3
    <3> QED BY <3>1 DEF Positions
  <2> QED BY <2>6, <2>7, <2>8 DEF Positions
<1> QED BY <1>1, <1>4, <1>6, <1>7, <1>8 DEF SentBelow, Increasing

\* The inductive invariant: what has been sent lies before the first symbol
\* not dealt with, and each symbol was sent on one channel.
SentOnce ==
    /\ text \in Seq(STRING) /\ at \in 1 .. End
    /\ mode \in {"CONTENT", "THINKING"} /\ defer \in BOOLEAN
    /\ check \in {"CHECKING", "IS_CONTENT", "IS_TOOL_CALL"}
    /\ state \in {"idle", "work", "done", "lost"}
    /\ state \in {"idle", "work"} =>
          /\ SentBelow(content, at) /\ SentBelow(reasoning, at)
          /\ Positions(content) \cap Positions(reasoning) = {}

LEMMA SentOnceSays == SentOnce => StreamedOnce
<1> SUFFICES ASSUME SentOnce, state \in {"idle", "work"}
             PROVE  /\ Increasing(content) /\ Increasing(reasoning)
                    /\ \A i \in DOMAIN content, j \in DOMAIN reasoning :
                           content[i] # reasoning[j]
  BY DEF StreamedOnce
<1> QED BY DEF SentOnce, SentBelow, Positions

LEMMA PiecesAre == \A piece \in Pieces : piece \in Seq(STRING) /\ piece # <<>>
BY PiecesAssumption

\* More text.
LEMMA MoreText ==
    ASSUME NEW t \in Seq(STRING), NEW piece \in Seq(STRING), NEW x, x = t \o piece
    PROVE  /\ x \in Seq(STRING) /\ Len(x) = Len(t) + Len(piece)
           /\ Len(t) \in Nat /\ Len(piece) \in Nat /\ Len(x) \in Nat
           /\ \A i \in 1 .. Len(t) : x[i] = t[i]
BY ConcatProperties

\* What a turn of the loop may do with the channels: send a stretch from the
\* first symbol not dealt with, and go on at the end of it or later.
Sends(b) ==
    \/ content' = content \o Span(at, b) /\ UNCHANGED reasoning
    \/ reasoning' = reasoning \o Span(at, b) /\ UNCHANGED content

Turn ==
    /\ at' \in at .. End
    /\ \E b \in Nat : (b <= at' \/ b <= at) /\ Sends(b)

LEMMA TurnKeeps ==
    ASSUME SentOnce, state \in {"idle", "work"}, Turn
    PROVE  /\ SentBelow(content', at') /\ SentBelow(reasoning', at')
           /\ Positions(content') \cap Positions(reasoning') = {}
<1>1. at \in Nat \ {0} /\ at' \in Nat /\ at <= at'
  BY DEF SentOnce, Turn, End
<1>2. PICK b \in Nat : (b <= at' \/ b <= at) /\ Sends(b)
  BY DEF Turn
<1>3. /\ SentBelow(content, at) /\ SentBelow(reasoning, at)
      /\ Positions(content) \cap Positions(reasoning) = {}
  BY DEF SentOnce
<1>4. ASSUME NEW s, SentBelow(s, at)
      PROVE  SentBelow(s, at') /\ Positions(s) \cap (at .. b - 1) = {}
  BY <1>1, <1>4 DEF SentBelow, Positions
<1>5. CASE content' = content \o Span(at, b) /\ UNCHANGED reasoning
  <2>1. /\ SentBelow(content', at')
        /\ Positions(content') = Positions(content) \cup at .. b - 1
    BY <1>1, <1>2, <1>3, <1>5, SendMore
  <2> QED BY <1>3, <1>4, <1>5, <2>1
<1>6. CASE reasoning' = reasoning \o Span(at, b) /\ UNCHANGED content
  <2>1. /\ SentBelow(reasoning', at')
        /\ Positions(reasoning') = Positions(reasoning) \cup at .. b - 1
    BY <1>1, <1>2, <1>3, <1>6, SendMore
  <2> QED BY <1>3, <1>4, <1>6, <2>1
<1> QED BY <1>2, <1>5, <1>6 DEF Sends

LEMMA NothingSent == ASSUME SentOnce PROVE \A s \in Seq(Nat) : s = s \o Span(at, at)
<1>1. at \in Nat
  BY DEF SentOnce, End
<1>2. Span(at, at) \in Seq(Nat) /\ Len(Span(at, at)) = 0
  <2>1. ~(at > at)
    BY <1>1
  <2> QED BY <1>1, <2>1, SpanIs
<1>3. Span(at, at) = <<>>
  BY <1>2
<1> QED BY <1>3

\* Where the server goes on.
LEMMA Marked ==
    ASSUME SentOnce, NEW markers, NEW f, f = Find(text, markers, at)
    PROVE  /\ f \in at .. End /\ f \in Nat
           /\ Found(text, f) => f \in 1 .. Len(text)
           /\ Found(text, f) /\ TagEnd(text, f) # NoEnd =>
                 TagEnd(text, f) \in f + 1 .. End /\ TagEnd(text, f) \in at .. End
<1>1. text \in Seq(STRING) /\ at \in 1 .. Len(text) + 1 /\ Len(text) \in Nat
  BY DEF SentOnce, End
<1>2. f \in at .. End /\ f \in Nat
  BY <1>1, FindWithin DEF End
<1>3. Found(text, f) => f \in 1 .. Len(text)
  BY <1>1, <1>2 DEF Found
<1>4. Found(text, f) /\ TagEnd(text, f) # NoEnd => TagEnd(text, f) \in f + 1 .. End
  BY <1>1, <1>3, TagEndIs DEF End
<1> HIDE DEF End
<1> QED BY <1>1, <1>2, <1>3, <1>4

LEMMA Safely ==
    ASSUME SentOnce, NEW markers, NEW n, n = HeldBack(text, at, markers)
    PROVE  End - n \in at .. End /\ End - n \in Nat
<1>1. text \in Seq(STRING) /\ at \in 1 .. Len(text) + 1 /\ Len(text) \in Nat
  BY DEF SentOnce, End
<1>2. n \in 0 .. Len(text) + 1 - at
  BY <1>1, HeldIs DEF RightlyHeld
<1> QED BY <1>1, <1>2 DEF End

\* Every turn of the loop keeps to that.
LEMMA TurnsAre ==
    ASSUME SentOnce, state \in {"idle", "work"},
           OpenTag \/ PassContent \/ ToolWhileThinking \/ CloseTag \/ PassReasoning \/ LoopEnds
    PROVE  Turn
<1>0. /\ at \in Nat /\ at \in at .. End /\ text \in Seq(STRING)
      /\ \A s \in Seq(Nat) : s = s \o Span(at, at)
      /\ content \in Seq(Nat) /\ reasoning \in Seq(Nat)
  <2>1. at \in 1 .. Len(text) + 1 /\ Len(text) \in Nat
    BY DEF SentOnce, End
  <2> QED BY <2>1, NothingSent DEF SentOnce, SentBelow, End
<1>1. ASSUME OpenTag PROVE Turn
  <2> DEFINE start == Find(text, OpenThink, at)
  <2>1. /\ Found(text, start) /\ TagEnd(text, start) # NoEnd
        /\ at' = TagEnd(text, start) /\ UNCHANGED reasoning
        /\ \/ content' = content \o Span(at, start)
           \/ content' = content
    BY <1>1 DEF OpenTag, ThinkOpens, SendContent
  <2>2. start \in Nat /\ at' \in start + 1 .. End /\ at' \in at .. End
    BY <2>1, Marked
  <2> HIDE DEF start
  <2>3. start <= at' /\ at <= at'
    BY <1>0, <2>2
  <2>4. content' = content \o Span(at, start) \/ content' = content \o Span(at, at)
    BY <1>0, <2>1
  <2> QED BY <1>0, <2>1, <2>2, <2>3, <2>4 DEF Turn, Sends
<1>2. ASSUME PassContent PROVE Turn
  <2>1. SafeContent \in at .. End /\ SafeContent \in Nat
    BY Safely DEF SafeContent
  <2>2. at' = at \/ at' = SafeContent
    BY <1>2 DEF PassContent
  <2>3. \/ content' = content \o Span(at, SafeContent) /\ (at' = SafeContent \/ SafeContent <= at)
        \/ content' = content
    BY <1>2 DEF PassContent, SendContent
  <2>4. UNCHANGED reasoning
    BY <1>2 DEF PassContent
  <2>5. at' \in at .. End
    BY <1>0, <2>1, <2>2
  <2>6. CASE content' = content
    BY <1>0, <2>4, <2>5, <2>6 DEF Turn, Sends
  <2>7. CASE content' = content \o Span(at, SafeContent)
             /\ (at' = SafeContent \/ SafeContent <= at)
    <3> DEFINE b == SafeContent
    <3>1. b \in Nat /\ (b <= at' \/ b <= at) /\ content' = content \o Span(at, b)
      BY <2>1, <2>7
    <3> HIDE DEF b
    <3>2. Sends(b)
      BY <2>4, <3>1 DEF Sends
    <3> QED BY <2>5, <3>1, <3>2 DEF Turn
  <2> QED BY <2>3, <2>6, <2>7
<1>3. ASSUME ToolWhileThinking PROVE Turn
  <2>1. ToolAt \in at .. End /\ ToolAt \in Nat
    BY Marked DEF ToolAt
  <2>2. at' = ToolAt /\ reasoning' = reasoning \o Span(at, ToolAt) /\ UNCHANGED content
    BY <1>3 DEF ToolWhileThinking, SendReasoning
  <2> QED BY <2>1, <2>2 DEF Turn, Sends
<1>4. ASSUME CloseTag PROVE Turn
  <2>1. /\ Found(text, CloseAt) /\ TagEnd(text, CloseAt) # NoEnd /\ at' = TagEnd(text, CloseAt)
        /\ reasoning' = reasoning \o Span(at, CloseAt) /\ UNCHANGED content
    BY <1>4 DEF CloseTag, ThinkCloses, SendReasoning
  <2>2. CloseAt \in Nat /\ at' \in CloseAt + 1 .. End /\ at' \in at .. End
    BY <2>1, Marked DEF CloseAt
  <2>3. CloseAt <= at'
    BY <2>2
  <2> QED BY <2>1, <2>2, <2>3 DEF Turn, Sends
<1>5. ASSUME PassReasoning PROVE Turn
  <2>1. SafeReasoning \in at .. End /\ SafeReasoning \in Nat
    BY Safely DEF SafeReasoning
  <2>2. /\ reasoning' = reasoning \o Span(at, SafeReasoning) /\ UNCHANGED content
        /\ at' = IF SafeReasoning > at THEN SafeReasoning ELSE at
    BY <1>5 DEF PassReasoning, SendReasoning
  <2>3. at' \in at .. End /\ (SafeReasoning <= at' \/ SafeReasoning <= at)
    BY <1>0, <2>1, <2>2
  <2> QED BY <2>1, <2>2, <2>3 DEF Turn, Sends
<1>6. ASSUME LoopEnds PROVE Turn
  <2>1. at' = at /\ content' = content /\ reasoning' = reasoning
    BY <1>6 DEF LoopEnds
  <2>2. Sends(at)
    BY <1>0, <2>1 DEF Sends
  <2> QED BY <1>0, <2>1, <2>2 DEF Turn
<1> QED BY <1>1, <1>2, <1>3, <1>4, <1>5, <1>6

LEMMA ServeTypes ==
    ASSUME SentOnce, OpenTag \/ PassContent \/ ToolWhileThinking \/ CloseTag \/ PassReasoning
                     \/ LoopEnds
    PROVE  /\ mode' \in {"CONTENT", "THINKING"} /\ defer' = defer
           /\ check' \in {"CHECKING", "IS_CONTENT", "IS_TOOL_CALL"}
           /\ state = "work" /\ state' \in {"idle", "work"}
<1>1. ASSUME OpenTag PROVE mode' = "THINKING" /\ UNCHANGED <<defer, check, state>> /\ state = "work"
  BY <1>1 DEF OpenTag
<1>2. ASSUME PassContent
      PROVE  /\ UNCHANGED <<mode, defer>> /\ check' \in {check, Verdict}
             /\ state = "work" /\ state' = "idle"
  BY <1>2 DEF PassContent
<1>3. ASSUME ToolWhileThinking
      PROVE  /\ mode' = "CONTENT" /\ check' = "IS_TOOL_CALL" /\ UNCHANGED <<defer, state>>
             /\ state = "work"
  BY <1>3 DEF ToolWhileThinking
<1>4. ASSUME CloseTag
      PROVE  /\ mode' = "CONTENT" /\ check' \in {"CHECKING", "IS_CONTENT"}
             /\ UNCHANGED <<defer, state>> /\ state = "work"
  BY <1>4 DEF CloseTag
<1>5. ASSUME PassReasoning
      PROVE  UNCHANGED <<mode, defer, check>> /\ state' = "idle" /\ state = "work"
  BY <1>5 DEF PassReasoning
<1>6. ASSUME LoopEnds
      PROVE  UNCHANGED <<mode, defer, check>> /\ state' = "idle" /\ state = "work"
  BY <1>6 DEF LoopEnds
<1>7. Verdict \in {"CHECKING", "IS_CONTENT", "IS_TOOL_CALL"}
  BY DEF Verdict
<1>8. /\ mode \in {"CONTENT", "THINKING"}
      /\ check \in {"CHECKING", "IS_CONTENT", "IS_TOOL_CALL"}
  BY DEF SentOnce
<1> QED BY <1>1, <1>2, <1>3, <1>4, <1>5, <1>6, <1>7, <1>8

LEMMA SentOnceInit == Init => SentOnce
<1> SUFFICES ASSUME Init PROVE SentOnce
  OBVIOUS
<1>1. /\ text = <<>> /\ at = 1 /\ mode = "CONTENT" /\ defer \in BOOLEAN
      /\ check \in {"CHECKING", "IS_CONTENT"} /\ content = <<>> /\ reasoning = <<>>
      /\ state = "idle"
  BY DEF Init, ServeInit
<1>2. SentBelow(<<>>, 1)
  BY DEF SentBelow, Increasing
<1>3. Positions(<<>>) = {}
  BY DEF Positions
<1> QED BY <1>1, <1>2, <1>3 DEF SentOnce, End

LEMMA SentOnceStep == SentOnce /\ [Next]_vars => SentOnce'
<1> SUFFICES ASSUME SentOnce, [Next]_vars PROVE SentOnce'
  OBVIOUS
<1>1. CASE Token
  <2>1. PICK piece \in Pieces : text' = text \o piece
    BY <1>1 DEF Token
  <2>2. OnToken
    BY <1>1 DEF Token
  <2>3. text' \in Seq(STRING) /\ Len(text') >= Len(text) /\ Len(text) \in Nat /\ Len(text') \in Nat
    BY <2>1, PiecesAre, MoreText DEF SentOnce
  <2>4. at' \in 1 .. Len(text') + 1
    BY <2>2, <2>3 DEF SentOnce, End, OnToken
  <2> QED BY <2>2, <2>3, <2>4 DEF OnToken, SentOnce, End
<1>2. CASE UNCHANGED <<text, serveVars>>
  BY <1>2 DEF serveVars, SentOnce, End
<1>3. CASE ServeWork /\ UNCHANGED text
  <2>1. OpenTag \/ PassContent \/ ToolWhileThinking \/ CloseTag \/ PassReasoning \/ LoopEnds
    BY <1>3 DEF ServeWork
  <2>2. /\ mode' \in {"CONTENT", "THINKING"} /\ defer' = defer
        /\ check' \in {"CHECKING", "IS_CONTENT", "IS_TOOL_CALL"}
        /\ state = "work" /\ state' \in {"idle", "work"}
    BY <2>1, ServeTypes
  <2>3. Turn
    BY <2>1, <2>2, TurnsAre
  <2>4. /\ SentBelow(content', at') /\ SentBelow(reasoning', at')
        /\ Positions(content') \cap Positions(reasoning') = {}
    BY <2>2, <2>3, TurnKeeps
  <2>5. at' \in 1 .. Len(text) + 1
    <3>1. at \in 1 .. Len(text) + 1 /\ at' \in at .. Len(text) + 1 /\ Len(text) \in Nat
      BY <2>3 DEF SentOnce, Turn, End
    <3> QED BY <3>1
  <2>6. (Len(text) + 1)' = Len(text) + 1
    BY <1>3
  <2> QED BY <1>3, <2>2, <2>4, <2>5, <2>6 DEF SentOnce, End
<1>4. CASE LoseClient /\ UNCHANGED text
  BY <1>4 DEF LoseClient, SentOnce, End
<1>5. CASE Flush /\ UNCHANGED text
  BY <1>5 DEF Flush, SentOnce, End
<1>6. \/ Token \/ UNCHANGED <<text, serveVars>> \/ (ServeWork /\ UNCHANGED text)
      \/ (LoseClient /\ UNCHANGED text) \/ (Flush /\ UNCHANGED text)
  BY DEF Next, Step, Ended, vars
<1> QED BY <1>1, <1>2, <1>3, <1>4, <1>5, <1>6

\* Nothing that has been streamed is streamed again or taken back, and the two
\* channels never carry the same symbol, for any tokens: the on_token callback
\* of a streaming request (cmd_serve).
THEOREM StreamedOnceCorrect == Spec => []StreamedOnce
<1>1. Spec => []SentOnce
  BY SentOnceInit, SentOnceStep, PTL DEF Spec
<1> QED BY <1>1, SentOnceSays, PTL

-----------------------------------------------------------------------------
(* Nothing is withheld but the beginning of a marker.                      *)

\* "<", a name, and then perhaps ">".
IsMarker(m) ==
    /\ \E S : m \in Seq(S)
    /\ Len(m) \in 2 .. 3
    /\ m[1] = "<" /\ m[2] # ">"

LEMMA HeldStarts ==
    ASSUME NEW t \in Seq(STRING), NEW from \in 1 .. Len(t) + 1, NEW markers,
           \A m \in markers : IsMarker(m),
           NEW n, n = HeldBack(t, from, markers), n > 0
    PROVE  /\ t[Len(t) + 1 - n] = "<"
           /\ \A i \in Len(t) + 2 - n .. Len(t) : t[i] # ">"
<1>0. Len(t) \in Nat
  OBVIOUS
<1>a. RightlyHeld(t, from, markers, n)
  BY HeldIs
<1>1. n \in 1 .. Len(t) + 1 - from
  BY <1>0, <1>a DEF RightlyHeld
<1>2. PICK m \in markers : n < Len(m) /\ SubSeq(t, Len(t) - n + 1, Len(t)) = SubSeq(m, 1, n)
  BY <1>a DEF RightlyHeld, Begins
<1>3. (\E S : m \in Seq(S)) /\ Len(m) \in 2 .. 3 /\ m[1] = "<" /\ m[2] # ">"
  BY <1>2 DEF IsMarker
<1>4. n \in 1 .. 2
  <2> DEFINE c == Len(m)
  <2>1. c \in 2 .. 3 /\ n < c
    <3>1. c \in 2 .. 3
      BY <1>3
    <3>2. n < c
      BY <1>2
    <3> QED BY <3>1, <3>2
  <2>2. n \in Nat /\ n >= 1
    BY <1>0, <1>1
  <2> HIDE DEF c
  <2> QED BY <2>1, <2>2
<1> DEFINE a == SubSeq(t, Len(t) - n + 1, Len(t))
           b == SubSeq(m, 1, n)
<1>5. \A i \in 1 .. n : b[i] = m[i]
  BY <1>2, <1>3, <1>4, SubSeqProperties
<1>6. \A i \in 1 .. n : a[i] = t[Len(t) - n + i]
  <2>1. Len(t) - n + 1 \in 1 .. Len(t) + 1
    BY <1>0, <1>1
  <2> DEFINE k == Len(t) - n + 1
  <2>2. k \in 1 .. Len(t) + 1 /\ Len(t) \in 0 .. Len(t) /\ k <= Len(t) + 1
    BY <1>0, <2>1
  <2>3. SubSeq(t, k, Len(t)) = [i \in 1 .. Len(t) - k + 1 |-> t[k + i - 1]]
    <3> HIDE DEF k
    <3> QED BY <1>0, <2>2, SubSeqProperties
  <2>4. Len(t) - k + 1 = n /\ \A i \in 1 .. n : k + i - 1 = Len(t) - n + i
    BY <1>0, <1>4
  <2>5. a = SubSeq(t, k, Len(t))
    OBVIOUS
  <2> HIDE DEF k, a
  <2> QED BY <2>3, <2>4, <2>5
<1> HIDE DEF a, b
<1>7. \A i \in 1 .. n : t[Len(t) - n + i] = m[i]
  BY <1>2, <1>5, <1>6 DEF a, b
<1>8. t[Len(t) + 1 - n] = "<"
  <2>1. Len(t) - n + 1 = Len(t) + 1 - n
    BY <1>0, <1>4
  <2>2. 1 \in 1 .. n
    BY <1>4
  <2>3. t[Len(t) - n + 1] = m[1]
    BY <1>7, <2>2
  <2> QED BY <1>3, <2>1, <2>3
<1>9. ASSUME NEW i \in Len(t) + 2 - n .. Len(t) PROVE t[i] # ">"
  <2>1. n = 2 /\ i = Len(t) - n + 2
    BY <1>0, <1>4
  <2>2. t[Len(t) - n + 2] = m[2]
    BY <1>7, <2>1
  <2> QED BY <1>3, <2>1, <2>2
<1> QED BY <1>8, <1>9

\* What the loop stops at.
LEMMA StopsAt ==
    ASSUME SentOnce, NEW markers, \A m \in markers : IsMarker(m),
           NEW b, b = End - HeldBack(text, at, markers)
    PROVE  /\ b \in at .. End
           /\ b < End => text[b] = "<" /\ \A i \in b + 1 .. Len(text) : text[i] # ">"
<1> DEFINE n == HeldBack(text, at, markers)
<1>1. text \in Seq(STRING) /\ at \in 1 .. Len(text) + 1 /\ Len(text) \in Nat
  BY DEF SentOnce, End
<1>2. n \in 0 .. Len(text) + 1 - at
  BY <1>1, HeldIs DEF RightlyHeld
<1>3. n > 0 => /\ text[Len(text) + 1 - n] = "<"
               /\ \A i \in Len(text) + 2 - n .. Len(text) : text[i] # ">"
  BY <1>1, HeldStarts
<1>4. b = Len(text) + 1 - n
  <2>1. b = End - n
    OBVIOUS
  <2> HIDE DEF n
  <2> QED BY <1>1, <1>2, <2>1 DEF End
<1> HIDE DEF n
<1>5. /\ b \in at .. End /\ (b < End => n > 0) /\ b + 1 = Len(text) + 2 - n
  BY <1>1, <1>2, <1>4 DEF End
<1> QED BY <1>3, <1>4, <1>5

LEMMA Markers ==
    /\ \A m \in {<<"<", "k", ">">>} : IsMarker(m)
    /\ \A m \in {<<"<", "/k", ">">>, ToolTag, OpenFunction} : IsMarker(m)
<1>1. ASSUME NEW s, s # ">"
      PROVE  IsMarker(<<"<", s, ">">>) /\ IsMarker(<<"<", s>>)
  <2> DEFINE S == {"<", s, ">"}
  <2>1. <<"<", s, ">">> \in Seq(S) /\ <<"<", s>> \in Seq(S)
    <3>1. "<" \in S /\ s \in S /\ ">" \in S
      OBVIOUS
    <3> HIDE DEF S
    <3> QED BY <3>1
  <2>2. /\ Len(<<"<", s, ">">>) = 3 /\ Len(<<"<", s>>) = 2
        /\ Len(<<"<", s, ">">>) \in 2 .. 3 /\ Len(<<"<", s>>) \in 2 .. 3
    OBVIOUS
  <2>3. /\ <<"<", s, ">">>[1] = "<" /\ <<"<", s, ">">>[2] = s
        /\ <<"<", s>>[1] = "<" /\ <<"<", s>>[2] = s
    OBVIOUS
  <2>4. \E T : <<"<", s, ">">> \in Seq(T)
    BY <2>1
  <2>5. \E T : <<"<", s>> \in Seq(T)
    BY <2>1
  <2> QED BY <1>1, <2>2, <2>3, <2>4, <2>5 DEF IsMarker
<1>2. "k" # ">" /\ "/k" # ">" /\ "t" # ">" /\ "f" # ">"
  OBVIOUS
<1>3. IsMarker(<<"<", "k", ">">>) /\ IsMarker(<<"<", "/k", ">">>)
      /\ IsMarker(<<"<", "t", ">">>) /\ IsMarker(<<"<", "f">>)
  BY <1>1, <1>2, Zenon
<1> QED BY <1>3 DEF ToolTag, OpenFunction

LEMMA NothingWithheldStep == SentOnce /\ NothingWithheld /\ [Next]_vars => NothingWithheld'
<1> SUFFICES ASSUME SentOnce, NothingWithheld, [Next]_vars,
                    state' = "idle", (at < End)', mode' = "THINKING" \/ check' = "IS_CONTENT"
             PROVE  text'[at'] = "<" /\ \A i \in at' + 1 .. Len(text') : text'[i] # ">"
  BY DEF NothingWithheld
<1>0. at \in 1 .. End /\ End \in Nat
  BY DEF SentOnce, End
<1>1. \/ Token \/ UNCHANGED <<text, serveVars>> \/ (ServeWork /\ UNCHANGED text)
      \/ (LoseClient /\ UNCHANGED text) \/ (Flush /\ UNCHANGED text)
  BY DEF Next, Step, Ended, vars
<1>2. ~Token /\ ~LoseClient /\ ~Flush
  BY DEF Token, OnToken, LoseClient, Flush
<1>3. CASE UNCHANGED <<text, serveVars>>
  BY <1>3 DEF serveVars, NothingWithheld, End
<1>4. CASE ServeWork /\ UNCHANGED text
  <2>1. text' = text /\ End' = End /\ at' < End
    BY <1>4 DEF End
  <2>2. ~OpenTag /\ ~ToolWhileThinking /\ ~CloseTag
    BY DEF OpenTag, ToolWhileThinking, CloseTag
  <2>3. ~LoopEnds
    BY <1>0, <2>1 DEF LoopEnds
  <2>4. CASE PassContent
    <3>1. mode' = "CONTENT"
      BY <2>4 DEF PassContent
    <3>2. check' = "IS_CONTENT"
      BY <3>1
    <3>3. (at' = at /\ SafeContent <= at) \/ at' = SafeContent
      BY <2>4, <3>2 DEF PassContent
    <3>4. /\ SafeContent \in at .. End
          /\ SafeContent < End => /\ text[SafeContent] = "<"
                                  /\ \A i \in SafeContent + 1 .. Len(text) : text[i] # ">"
      <4> DEFINE markers == {<<"<", "k", ">">>}
      <4>1. \A m \in markers : IsMarker(m)
        BY Markers
      <4>2. SafeContent = End - HeldBack(text, at, markers)
        BY DEF SafeContent
      <4> HIDE DEF markers
      <4> QED BY <4>1, <4>2, StopsAt
    <3>5. at' = SafeContent
      BY <1>0, <3>3, <3>4
    <3> QED BY <2>1, <3>4, <3>5
  <2>5. CASE PassReasoning
    <3>1. at' = IF SafeReasoning > at THEN SafeReasoning ELSE at
      BY <2>5 DEF PassReasoning
    <3>2. /\ SafeReasoning \in at .. End
          /\ SafeReasoning < End => /\ text[SafeReasoning] = "<"
                                    /\ \A i \in SafeReasoning + 1 .. Len(text) : text[i] # ">"
      <4> DEFINE markers == {<<"<", "/k", ">">>, ToolTag, OpenFunction}
      <4>1. \A m \in markers : IsMarker(m)
        BY Markers
      <4>2. SafeReasoning = End - HeldBack(text, at, markers)
        BY DEF SafeReasoning
      <4> HIDE DEF markers
      <4> QED BY <4>1, <4>2, StopsAt
    <3>3. at' = SafeReasoning
      BY <1>0, <3>1, <3>2
    <3> QED BY <2>1, <3>2, <3>3
  <2> QED BY <1>4, <2>2, <2>3, <2>4, <2>5 DEF ServeWork
<1> QED BY <1>1, <1>2, <1>3, <1>4

\* While the callback waits for the next token, a client that is to get what
\* arrives has all of it but a marker that has begun, for any tokens: no text
\* lies around until the generation ends.
THEOREM NothingWithheldCorrect == Spec => []NothingWithheld
<1>1. Init => NothingWithheld
  <2> SUFFICES ASSUME Init PROVE ~(at < End)
    BY DEF NothingWithheld
  <2>1. text = <<>> /\ at = 1 /\ Len(text) = 0
    BY DEF Init, ServeInit
  <2> QED BY <2>1 DEF End
<1> QED BY <1>1, SentOnceInit, SentOnceStep, NothingWithheldStep, PTL DEF Spec

-----------------------------------------------------------------------------
(* How a text is to be read, told without reading it in order.             *)

Tag(t, q, s) == q + 2 <= Len(t) /\ t[q] = "<" /\ t[q + 1] = s /\ t[q + 2] = ">"

\* What of a tag may begin at q has begun there.
MaybeTag(t, q, s) ==
    /\ q <= Len(t) /\ t[q] = "<"
    /\ q + 1 <= Len(t) => t[q + 1] = s
    /\ q + 2 <= Len(t) => t[q + 2] = ">"

\* A thought has been opened before i, and none closed since.
Thinks(t, i) ==
    \E p \in 1 .. i - 3 : Tag(t, p, "k") /\ \A q \in p + 3 .. i - 3 : ~Tag(t, q, "/k")

\* The tag that matters at i, and where it does.
Awaited(t, i) == IF Thinks(t, i) THEN "/k" ELSE "k"
Switch(t, q) == Tag(t, q, Awaited(t, q))
InTag(t, i) == \E q \in 1 .. i : i <= q + 2 /\ Switch(t, q)

\* Content and thoughts, line breaks aside, before b.
Said(t, b) == {i \in 1 .. b - 1 : t[i] # "n" /\ ~InTag(t, i) /\ ~Thinks(t, i)}
Thought(t, b) == {i \in 1 .. b - 1 : t[i] # "n" /\ ~InTag(t, i) /\ Thinks(t, i)}

\* No tag that matters lies across b, or will when there is more text.
Border(t, b) == \A q \in 1 .. b - 1 : q + 3 > b => ~MaybeTag(t, q, Awaited(t, b))

TagsSoFar(t) ==
    \A i \in 1 .. Len(t) - 2 : t[i] = "<" /\ t[i + 1] \in {"k", "/k"} => t[i + 2] = ">"

\* What ServeMatchesExtraction asks of a text, as far as it has come, and of
\* the request.
Fine(t, deferred) ==
    /\ TagsSoFar(t)
    /\ \A i \in DOMAIN t : t[i] \notin {"t", "/t", "f", "/f"}
    /\ deferred => \A i \in DOMAIN t : StartsAt(t, i, <<"<", "k">>) => i = 1

\* Positions, line breaks aside.
Breaks(t) == {i \in DOMAIN t : t[i] = "n"}
SolidIn(t, s) == Positions(s) \ Breaks(t)

\* The callback is in the right mode, and what it has sent is what there is to
\* send of the text before the first symbol not dealt with; while it waits for
\* a token, no tag waits for it.
ReadWell ==
    /\ mode = "THINKING" <=> Thinks(text, at)
    /\ Border(text, at)
    /\ SolidIn(text, reasoning) = Thought(text, at)
    /\ check = "IS_CONTENT" => SolidIn(text, content) = Said(text, at)
    /\ check # "IS_CONTENT" => defer /\ content = <<>>
    /\ check = "CHECKING" => Said(text, at) = {}
    /\ defer /\ check # "CHECKING" => at > 1
    /\ defer /\ mode = "THINKING" => check = "CHECKING"
    /\ state = "idle" => \A q \in at .. Len(text) : ~Tag(text, q, Awaited(text, at))

Reading == state \in {"idle", "work"} /\ Fine(text, defer) => ReadWell

LEMMA TagApart ==
    ASSUME NEW t, NEW r \in Nat, NEW q \in Nat, r < q, NEW s \in {"k", "/k"}, NEW u,
           Tag(t, r, s), Tag(t, q, u)
    PROVE  r + 3 <= q
<1>1. t[q] = "<" /\ t[r + 1] # "<" /\ t[r + 2] # "<"
  BY DEF Tag
<1>2. q # r + 1 /\ q # r + 2
  BY <1>1
<1> QED BY <1>2

LEMMA AwaitedIs ==
    ASSUME NEW t, NEW i PROVE Awaited(t, i) \in {"k", "/k"}
BY DEF Awaited

\* Between a and i nothing happens that matters at a.
LEMMA ThinksStays ==
    ASSUME NEW t, NEW a \in Nat, NEW i \in Nat, a <= i,
           \A q \in 1 .. i - 3 : q + 3 > a => ~Tag(t, q, Awaited(t, a))
    PROVE  Thinks(t, i) <=> Thinks(t, a)
<1>1. CASE Thinks(t, a)
  <2>1. PICK p \in 1 .. a - 3 : Tag(t, p, "k") /\ \A q \in p + 3 .. a - 3 : ~Tag(t, q, "/k")
    BY <1>1 DEF Thinks
  <2>2. Awaited(t, a) = "/k"
    BY <1>1 DEF Awaited
  <2>3. ASSUME NEW q \in p + 3 .. i - 3 PROVE ~Tag(t, q, "/k")
    <3>1. q \in 1 .. i - 3 /\ (q + 3 > a \/ q \in p + 3 .. a - 3)
      OBVIOUS
    <3> QED BY <2>1, <2>2, <3>1
  <2>4. p \in 1 .. i - 3
    OBVIOUS
  <2> QED BY <1>1, <2>1, <2>3, <2>4 DEF Thinks
<1>2. CASE ~Thinks(t, a)
  <2>1. Awaited(t, a) = "k"
    BY <1>2 DEF Awaited
  <2>2. ASSUME NEW p \in 1 .. i - 3, Tag(t, p, "k"), \A q \in p + 3 .. i - 3 : ~Tag(t, q, "/k")
        PROVE  FALSE
    <3>1. ~(p + 3 > a)
      BY <2>1, <2>2
    <3>2. p \in 1 .. a - 3 /\ \A q \in p + 3 .. a - 3 : q \in p + 3 .. i - 3
      BY <3>1
    <3> QED BY <1>2, <2>2, <3>2 DEF Thinks
  <2> QED BY <1>2, <2>2 DEF Thinks
<1> QED BY <1>1, <1>2

\* A tag that matters where it begins still matters while it lasts.
LEMMA NoSwitchAcross ==
    ASSUME NEW t, NEW b \in Nat, Border(t, b), NEW q \in 1 .. b - 1, q + 3 > b
    PROVE  ~Tag(t, q, Awaited(t, b)) /\ ~Switch(t, q)
<1>1. ~Tag(t, q, Awaited(t, b))
  BY DEF Border, Tag, MaybeTag
<1>2. ASSUME Switch(t, q) PROVE FALSE
  <2>1. Tag(t, q, Awaited(t, q))
    BY <1>2 DEF Switch
  <2>2. q \in Nat /\ q <= b
    OBVIOUS
  <2>3. ASSUME NEW r \in 1 .. b - 3, r + 3 > q, Tag(t, r, Awaited(t, q)) PROVE FALSE
    <3>1. r \in Nat /\ r < q
      OBVIOUS
    <3>2. r + 3 <= q
      BY <2>1, <2>2, <2>3, <3>1, AwaitedIs, TagApart
    <3> QED BY <2>2, <2>3, <3>1, <3>2
  <2>4. Thinks(t, b) <=> Thinks(t, q)
    BY <2>2, <2>3, ThinksStays
  <2>5. Awaited(t, b) = Awaited(t, q)
    BY <2>4 DEF Awaited
  <2> QED BY <1>1, <2>1, <2>5
<1> QED BY <1>1, <1>2

\* From a to b no tag matters.
Quiet(t, a, b) == \A q \in a .. b - 1 : ~Tag(t, q, Awaited(t, a))

LEMMA QuietReading ==
    ASSUME NEW t, NEW a \in Nat \ {0}, NEW b \in Nat, a <= b, Border(t, a), Quiet(t, a, b)
    PROVE  /\ \A i \in a .. b : Thinks(t, i) <=> Thinks(t, a)
           /\ \A i \in a .. b - 1 : ~InTag(t, i)
<1>1. ASSUME NEW i \in a .. b PROVE Thinks(t, i) <=> Thinks(t, a)
  <2>1. ASSUME NEW q \in 1 .. i - 3, q + 3 > a PROVE ~Tag(t, q, Awaited(t, a))
    <3>1. CASE q < a
      <4>1. q \in 1 .. a - 1
        BY <3>1
      <4> QED BY <2>1, <4>1, NoSwitchAcross
    <3>2. CASE q >= a
      <4>1. q \in a .. b - 1
        BY <3>2
      <4> QED BY <4>1 DEF Quiet
    <3> QED BY <3>1, <3>2
  <2>2. i \in Nat /\ a <= i /\ a \in Nat
    OBVIOUS
  <2> QED BY <2>1, <2>2, ThinksStays
<1>2. ASSUME NEW i \in a .. b - 1, NEW q \in 1 .. i, i <= q + 2, Switch(t, q) PROVE FALSE
  <2>1. CASE q < a
    <3>1. q \in 1 .. a - 1 /\ q + 3 > a
      BY <1>2, <2>1
    <3> QED BY <1>2, <3>1, NoSwitchAcross
  <2>2. CASE q >= a
    <3>1. q \in a .. b - 1 /\ q \in a .. b
      BY <2>2
    <3>2. Awaited(t, q) = Awaited(t, a)
      BY <1>1, <3>1 DEF Awaited
    <3> QED BY <1>2, <3>1, <3>2 DEF Switch, Quiet
  <2> QED BY <2>1, <2>2
<1> QED BY <1>1, <1>2 DEF InTag

\* Behind a tag that matters, and the line breaks that follow it.
LEMMA SwitchReading ==
    ASSUME NEW t \in Seq(STRING), NEW s \in 1 .. Len(t), Switch(t, s),
           NEW c, c = SkipNewlines(t, s + 3)
    PROVE  /\ c \in s + 3 .. Len(t) + 1
           /\ Thinks(t, c) <=> ~Thinks(t, s)
           /\ Border(t, c)
           /\ \A i \in s .. c - 1 : InTag(t, i) \/ t[i] = "n"
<1>0. Len(t) \in Nat /\ s \in Nat /\ s >= 1
  OBVIOUS
<1>1. Tag(t, s, Awaited(t, s)) /\ Awaited(t, s) \in {"k", "/k"}
  BY AwaitedIs DEF Switch
<1>2. s + 2 <= Len(t) /\ t[s] = "<" /\ t[s + 1] # "<" /\ t[s + 2] = ">" /\ t[s + 2] # "<"
  BY <1>1 DEF Tag
<1>3. c \in s + 3 .. Len(t) + 1 /\ \A i \in s + 3 .. c - 1 : t[i] = "n"
  <2>1. s + 3 \in 1 .. Len(t) + 1
    BY <1>0, <1>2
  <2> QED BY <2>1, SkipIs
<1>4. c \in Nat /\ s + 3 <= c
  BY <1>0, <1>3
<1>5. \A i \in s + 1 .. c - 1 : t[i] # "<"
  <2> TAKE i \in s + 1 .. c - 1
  <2>1. i = s + 1 \/ i = s + 2 \/ i \in s + 3 .. c - 1
    BY <1>0, <1>4
  <2> QED BY <1>2, <1>3, <2>1
<1>6. Thinks(t, s + 3) <=> ~Thinks(t, s)
  <2>1. CASE ~Thinks(t, s)
    <3>1. Tag(t, s, "k")
      BY <1>1, <2>1 DEF Awaited
    <3>2. s \in 1 .. (s + 3) - 3 /\ s + 3 .. (s + 3) - 3 = {}
      BY <1>0
    <3> QED BY <2>1, <3>1, <3>2 DEF Thinks
  <2>2. CASE Thinks(t, s)
    <3>1. Tag(t, s, "/k")
      BY <1>1, <2>2 DEF Awaited
    <3>2. ASSUME NEW p \in 1 .. (s + 3) - 3, Tag(t, p, "k"),
                 \A q \in p + 3 .. (s + 3) - 3 : ~Tag(t, q, "/k")
          PROVE  FALSE
      <4>1. p # s
        BY <3>1, <3>2 DEF Tag
      <4>2. p \in Nat /\ p < s
        BY <1>0, <4>1
      <4>3. p + 3 <= s
        BY <1>0, <3>1, <3>2, <4>2, TagApart
      <4>4. s \in p + 3 .. (s + 3) - 3
        BY <1>0, <4>2, <4>3
      <4> QED BY <3>1, <3>2, <4>4
    <3> QED BY <2>2, <3>2 DEF Thinks
  <2> QED BY <2>1, <2>2
<1>7. Thinks(t, c) <=> Thinks(t, s + 3)
  <2>1. ASSUME NEW q \in 1 .. c - 3, q + 3 > s + 3 PROVE ~Tag(t, q, Awaited(t, s + 3))
    <3>1. q \in s + 1 .. c - 1
      BY <1>0, <1>4, <2>1
    <3> QED BY <1>5, <3>1 DEF Tag
  <2>2. s + 3 \in Nat
    BY <1>0
  <2> QED BY <1>4, <2>1, <2>2, ThinksStays
<1>8. Border(t, c)
  <2>1. ASSUME NEW q \in 1 .. c - 1, q + 3 > c PROVE t[q] # "<"
    <3>1. q \in s + 1 .. c - 1
      BY <1>0, <1>4, <2>1
    <3> QED BY <1>5, <3>1
  <2> QED BY <2>1 DEF Border, MaybeTag
<1>9. ASSUME NEW i \in s .. c - 1 PROVE InTag(t, i) \/ t[i] = "n"
  <2>1. CASE i <= s + 2
    <3>1. s \in 1 .. i
      BY <1>0
    <3> QED BY <2>1, <3>1 DEF InTag
  <2>2. CASE i > s + 2
    <3>1. i \in s + 3 .. c - 1
      BY <1>0, <1>4, <2>2
    <3> QED BY <1>3, <3>1
  <2> QED BY <1>0, <1>4, <2>1, <2>2
<1> QED BY <1>3, <1>6, <1>7, <1>8, <1>9

-----------------------------------------------------------------------------
(* What there is to send, stretch by stretch.                              *)

Solids(t, a, b) == {i \in a .. b - 1 : t[i] # "n"}

LEMMA QuietSends ==
    ASSUME NEW t, NEW a \in Nat \ {0}, NEW b \in Nat, a <= b, Border(t, a), Quiet(t, a, b)
    PROVE  /\ Said(t, b) = Said(t, a) \cup (IF Thinks(t, a) THEN {} ELSE Solids(t, a, b))
           /\ Thought(t, b) = Thought(t, a) \cup (IF Thinks(t, a) THEN Solids(t, a, b) ELSE {})
<1>1. \A i \in a .. b - 1 : (Thinks(t, i) <=> Thinks(t, a)) /\ ~InTag(t, i)
  <2>1. \A i \in a .. b - 1 : i \in a .. b
    OBVIOUS
  <2> QED BY <2>1, QuietReading
<1>2. 1 .. b - 1 = (1 .. a - 1) \cup (a .. b - 1)
  OBVIOUS
<1> QED BY <1>1, <1>2 DEF Said, Thought, Solids

LEMMA SwitchSends ==
    ASSUME NEW t \in Seq(STRING), NEW s \in 1 .. Len(t), Switch(t, s),
           NEW c, c = SkipNewlines(t, s + 3)
    PROVE  Said(t, c) = Said(t, s) /\ Thought(t, c) = Thought(t, s)
<1>1. c \in s + 3 .. Len(t) + 1 /\ \A i \in s .. c - 1 : InTag(t, i) \/ t[i] = "n"
  BY SwitchReading
<1>2. 1 .. c - 1 = (1 .. s - 1) \cup (s .. c - 1)
  BY <1>1
<1> QED BY <1>1, <1>2 DEF Said, Thought

\* More text changes nothing before a border.
LEMMA TagGrows ==
    ASSUME NEW t \in Seq(STRING), NEW piece \in Seq(STRING), NEW x, x = t \o piece,
           NEW q \in Nat \ {0}, q + 2 <= Len(t), NEW s
    PROVE  Tag(x, q, s) <=> Tag(t, q, s)
<1>1. /\ Len(x) = Len(t) + Len(piece) /\ Len(t) \in Nat /\ Len(piece) \in Nat
      /\ \A i \in 1 .. Len(t) : x[i] = t[i]
  BY MoreText
<1>2. q \in 1 .. Len(t) /\ q + 1 \in 1 .. Len(t) /\ q + 2 \in 1 .. Len(t) /\ q + 2 <= Len(x)
  BY <1>1
<1> QED BY <1>1, <1>2 DEF Tag

LEMMA ThinksGrows ==
    ASSUME NEW t \in Seq(STRING), NEW piece \in Seq(STRING), NEW x, x = t \o piece,
           NEW i \in 1 .. Len(t) + 1
    PROVE  (Thinks(x, i) <=> Thinks(t, i)) /\ Awaited(x, i) = Awaited(t, i)
<1>1. Len(t) \in Nat
  OBVIOUS
<1>2. ASSUME NEW q \in 1 .. i - 3, NEW s PROVE Tag(x, q, s) <=> Tag(t, q, s)
  <2>1. q \in Nat \ {0} /\ q + 2 <= Len(t)
    BY <1>1
  <2> QED BY <2>1, TagGrows
<1>3. \A p \in 1 .. i - 3 : \A q \in p + 3 .. i - 3 : q \in 1 .. i - 3
  OBVIOUS
<1>4. Thinks(x, i) <=> Thinks(t, i)
  BY <1>2, <1>3 DEF Thinks
<1> QED BY <1>4 DEF Awaited

LEMMA BorderGrows ==
    ASSUME NEW t \in Seq(STRING), NEW piece \in Seq(STRING), NEW x, x = t \o piece,
           NEW b \in 1 .. Len(t) + 1, Border(t, b)
    PROVE  Border(x, b)
<1>1. /\ Len(x) = Len(t) + Len(piece) /\ Len(t) \in Nat /\ Len(piece) \in Nat
      /\ \A i \in 1 .. Len(t) : x[i] = t[i]
  BY MoreText
<1>2. Awaited(x, b) = Awaited(t, b)
  BY ThinksGrows
<1>3. ASSUME NEW q \in 1 .. b - 1, NEW s, MaybeTag(x, q, s) PROVE MaybeTag(t, q, s)
  <2>1. \A j \in 0 .. 2 : q + j <= Len(t) => q + j \in 1 .. Len(t) /\ q + j <= Len(x)
    BY <1>1
  <2>2. q <= Len(t) /\ t[q] = "<"
    BY <1>1, <1>3, <2>1 DEF MaybeTag
  <2>3. q + 1 <= Len(t) => t[q + 1] = s
    BY <1>1, <1>3, <2>1 DEF MaybeTag
  <2>4. q + 2 <= Len(t) => t[q + 2] = ">"
    BY <1>1, <1>3, <2>1 DEF MaybeTag
  <2> QED BY <2>2, <2>3, <2>4 DEF MaybeTag
<1> QED BY <1>2, <1>3 DEF Border

LEMMA InTagGrows ==
    ASSUME NEW t \in Seq(STRING), NEW piece \in Seq(STRING), NEW x, x = t \o piece,
           NEW b \in 1 .. Len(t) + 1, Border(t, b), NEW i \in 1 .. b - 1
    PROVE  InTag(x, i) <=> InTag(t, i)
<1>1. Len(t) \in Nat /\ b \in Nat /\ Border(x, b)
  <2>1. Border(x, b)
    BY BorderGrows
  <2> QED BY <2>1
<1>2. ASSUME NEW q \in 1 .. i, i <= q + 2 PROVE Switch(x, q) <=> Switch(t, q)
  <2>1. CASE q + 3 > b
    <3>1. q \in 1 .. b - 1
      OBVIOUS
    <3> QED BY <1>1, <2>1, <3>1, NoSwitchAcross
  <2>2. CASE q + 3 <= b
    <3>1. q \in Nat \ {0} /\ q + 2 <= Len(t) /\ q \in 1 .. Len(t) + 1
      BY <1>1, <2>2
    <3>2. Awaited(x, q) = Awaited(t, q)
      BY <3>1, ThinksGrows
    <3> QED BY <3>1, <3>2, TagGrows DEF Switch
  <2> QED BY <1>1, <2>1, <2>2
<1> QED BY <1>2 DEF InTag

LEMMA ReadingGrows ==
    ASSUME NEW t \in Seq(STRING), NEW piece \in Seq(STRING), NEW x, x = t \o piece,
           NEW b \in 1 .. Len(t) + 1, Border(t, b)
    PROVE  Said(x, b) = Said(t, b) /\ Thought(x, b) = Thought(t, b)
<1>1. Len(t) \in Nat /\ \A i \in 1 .. Len(t) : x[i] = t[i]
  BY MoreText
<1>2. ASSUME NEW i \in 1 .. b - 1
      PROVE  x[i] = t[i] /\ (InTag(x, i) <=> InTag(t, i)) /\ (Thinks(x, i) <=> Thinks(t, i))
  <2>1. i \in 1 .. Len(t) /\ i \in 1 .. Len(t) + 1
    BY <1>1
  <2> QED BY <1>1, <2>1, InTagGrows, ThinksGrows
<1> QED BY <1>2 DEF Said, Thought

-----------------------------------------------------------------------------
(* Where the code finds tags.                                              *)

LEMMA TwoSymbols ==
    ASSUME NEW t \in Seq(STRING), NEW p \in Nat \ {0}, NEW s
    PROVE  StartsAt(t, p, <<"<", s>>) <=> p + 1 <= Len(t) /\ t[p] = "<" /\ t[p + 1] = s
<1> DEFINE m == <<"<", s>>
<1>1. Len(m) = 2 /\ p + Len(m) - 1 = p + 1 /\ Len(t) \in Nat
  OBVIOUS
<1>2. CASE p + 1 <= Len(t)
  <2> DEFINE r == p + 1
             u == SubSeq(t, p, r)
  <2>1. p \in 1 .. Len(t) + 1 /\ r \in p - 1 .. Len(t) /\ r - p + 1 = 2 /\ r \in Nat
    BY <1>1, <1>2
  <2>2. u = [i \in 1 .. r - p + 1 |-> t[p + i - 1]]
    <3> HIDE DEF r
    <3> QED BY <1>1, <2>1, SubSeqProperties
  <2>3. u = [i \in 1 .. 2 |-> t[p + i - 1]]
    BY <2>1, <2>2
  <2>4. DOMAIN u = 1 .. 2 /\ u[1] = t[p] /\ u[2] = t[p + 1]
    BY <2>3
  <2>5. DOMAIN m = 1 .. 2 /\ m[1] = "<" /\ m[2] = s
    OBVIOUS
  <2>6. u = m <=> t[p] = "<" /\ t[p + 1] = s
    <3>1. ASSUME u = m PROVE t[p] = "<" /\ t[p + 1] = s
      BY <2>4, <2>5, <3>1
    <3>2. ASSUME t[p] = "<", t[p + 1] = s PROVE u = m
      <4>1. u = [i \in 1 .. 2 |-> u[i]] /\ m = [i \in 1 .. 2 |-> m[i]]
        BY <2>3
      <4>2. \A i \in 1 .. 2 : u[i] = m[i]
        BY <2>4, <2>5, <3>2
      <4> HIDE DEF u, m
      <4> QED BY <4>1, <4>2
    <3> QED BY <3>1, <3>2
  <2>7. StartsAt(t, p, m) <=> u = m
    BY <1>1, <1>2 DEF StartsAt
  <2> HIDE DEF u, m
  <2> QED BY <1>2, <2>6, <2>7 DEF m
<1>3. CASE ~(p + 1 <= Len(t))
  BY <1>1, <1>3 DEF StartsAt
<1> QED BY <1>2, <1>3

LEMMA SomeEnd ==
    ASSUME NEW t \in Seq(STRING), NEW p \in 1 .. Len(t) + 1, TagEnd(t, p) = NoEnd
    PROVE  \A i \in p .. Len(t) : t[i] # ">" /\ t[i] # "n"
<1> DEFINE bracket == Find(t, {<<">">>}, p)
           newline == Find(t, {<<"n">>}, p)
<1>0. Len(t) \in Nat /\ p \in Nat
  OBVIOUS
<1>1. /\ bracket \in p .. Len(t) + 1 /\ newline \in p .. Len(t) + 1
      /\ bracket \in Nat /\ newline \in Nat
  BY <1>0, FindWithin
<1>2. ~Found(t, bracket) /\ ~Found(t, newline)
  <2>1. ASSUME Found(t, bracket) PROVE FALSE
    <3>1. TagEnd(t, p) = SkipNewlines(t, bracket + 1)
      BY <2>1 DEF TagEnd
    <3> HIDE DEF bracket, newline
    <3>2. bracket + 1 \in 1 .. Len(t) + 1
      BY <1>0, <1>1, <2>1 DEF Found
    <3>3. SkipNewlines(t, bracket + 1) \in bracket + 1 .. Len(t) + 1
      BY <3>2, SkipIs
    <3> QED BY <1>0, <1>1, <3>1, <3>3 DEF NoEnd
  <2>2. ASSUME ~Found(t, bracket), Found(t, newline) PROVE FALSE
    <3>1. TagEnd(t, p) = SkipNewlines(t, newline)
      BY <2>2 DEF TagEnd
    <3> HIDE DEF bracket, newline
    <3>2. newline \in 1 .. Len(t) + 1
      BY <1>0, <1>1, <2>2 DEF Found
    <3>3. SkipNewlines(t, newline) \in newline .. Len(t) + 1
      BY <3>2, SkipIs
    <3> QED BY <1>0, <1>1, <3>1, <3>2, <3>3 DEF NoEnd
  <2> QED BY <2>1, <2>2
<1>3. ASSUME NEW s, NEW f, f = Find(t, {<<s>>}, p), ~Found(t, f), NEW i \in p .. Len(t)
      PROVE  t[i] # s
  <2>1. \A m \in {<<s>>} : ~StartsAt(t, i, m)
    <3>1. f \notin p .. Len(t)
      BY <1>0, <1>3 DEF Found
    <3>2. \A j \in p .. Len(t) : \A m \in {<<s>>} : ~StartsAt(t, j, m)
      <4> DEFINE M == {<<s>>}
      <4>1. f = Find(t, M, p)
        BY <1>3
      <4> HIDE DEF M
      <4>2. \A j \in p .. Len(t) : \A m \in M : ~StartsAt(t, j, m)
        BY <1>0, <3>1, <4>1, FindIs
      <4> QED BY <4>2 DEF M
    <3> QED BY <3>2
  <2>2. ~StartsAt(t, i, <<s>>)
    BY <2>1
  <2>3. i \in 1 .. Len(t)
    BY <1>0
  <2> QED BY <2>2, <2>3, OneSymbol
<1> HIDE DEF bracket, newline
<1>4. bracket = Find(t, {<<">">>}, p) /\ newline = Find(t, {<<"n">>}, p)
  BY DEF bracket, newline
<1> QED BY <1>2, <1>3, <1>4

\* The tag at q ends where its name does.
LEMMA TagEndOfTag ==
    ASSUME NEW t \in Seq(STRING), NEW q \in 1 .. Len(t), NEW s \in {"k", "/k"}, Tag(t, q, s)
    PROVE  TagEnd(t, q) = SkipNewlines(t, q + 3)
<1> DEFINE M == {<<">">>}
           bracket == Find(t, M, q)
<1>0. Len(t) \in Nat /\ q + 2 \in q .. Len(t) /\ q + 2 \in 1 .. Len(t)
  BY DEF Tag
<1>1. t[q] # ">" /\ t[q + 1] # ">" /\ t[q + 2] = ">"
  BY DEF Tag
<1>2. \A i \in 1 .. Len(t) : (\E m \in M : StartsAt(t, i, m)) <=> t[i] = ">"
  BY OneSymbol
<1>3. \/ bracket = Len(t) + 1 /\ \A p \in q .. Len(t) : \A m \in M : ~StartsAt(t, p, m)
      \/ /\ bracket \in q .. Len(t) /\ \E m \in M : StartsAt(t, bracket, m)
         /\ \A p \in q .. bracket - 1 : \A m \in M : ~StartsAt(t, p, m)
  <2> HIDE DEF M
  <2> QED BY <1>0, FindIs
<1> HIDE DEF M, bracket
<1>4. \E m \in M : StartsAt(t, q + 2, m)
  BY <1>0, <1>1, <1>2
<1>5. bracket \in q .. Len(t) /\ t[bracket] = ">" /\ ~(q + 2 \in q .. bracket - 1)
  <2>1. /\ bracket \in q .. Len(t) /\ \E m \in M : StartsAt(t, bracket, m)
        /\ \A p \in q .. bracket - 1 : \A m \in M : ~StartsAt(t, p, m)
    BY <1>0, <1>3, <1>4
  <2>2. bracket \in 1 .. Len(t)
    BY <1>0, <2>1
  <2> QED BY <1>2, <1>4, <2>1, <2>2
<1>6. bracket = q + 2
  <2>1. bracket # q /\ bracket # q + 1
    BY <1>1, <1>5
  <2> QED BY <1>0, <1>5, <2>1
<1>7. Found(t, bracket)
  BY <1>0, <1>6 DEF Found
<1>8. TagEnd(t, q) = SkipNewlines(t, bracket + 1)
  BY <1>7 DEF TagEnd, bracket, M
<1>9. bracket + 1 = q + 3
  BY <1>0, <1>6
<1> QED BY <1>8, <1>9

\* f is the place of the first tag from a on, or there is none.
IsFirst(t, a, s, f) ==
    /\ f \in a .. Len(t) + 1
    /\ \A q \in a .. f - 1 : ~Tag(t, q, s)
    /\ Found(t, f) /\ TagEnd(t, f) # NoEnd =>
          f \in 1 .. Len(t) /\ Tag(t, f, s) /\ TagEnd(t, f) = SkipNewlines(t, f + 3)
    /\ ~(Found(t, f) /\ TagEnd(t, f) # NoEnd) => \A q \in a .. Len(t) : ~Tag(t, q, s)

LEMMA FirstTag ==
    ASSUME NEW t \in Seq(STRING), TagsSoFar(t), NEW a \in 1 .. Len(t) + 1,
           NEW s \in {"k", "/k"}, NEW f, f = Find(t, {<<"<", s>>}, a)
    PROVE  IsFirst(t, a, s, f)
<1> DEFINE M == {<<"<", s>>}
<1>0. Len(t) \in Nat /\ a \in Nat /\ a >= 1
  OBVIOUS
<1>1. \A q \in Nat \ {0} : (\E m \in M : StartsAt(t, q, m))
                            <=> q + 1 <= Len(t) /\ t[q] = "<" /\ t[q + 1] = s
  BY TwoSymbols
<1>2. \/ f = Len(t) + 1 /\ \A p \in a .. Len(t) : \A m \in M : ~StartsAt(t, p, m)
      \/ /\ f \in a .. Len(t) /\ \E m \in M : StartsAt(t, f, m)
         /\ \A p \in a .. f - 1 : \A m \in M : ~StartsAt(t, p, m)
  <2>1. f = Find(t, M, a)
    OBVIOUS
  <2> HIDE DEF M
  <2> QED BY <1>0, <2>1, FindIs
<1> HIDE DEF M
<1>3. f \in a .. Len(t) + 1 /\ f \in Nat
  BY <1>0, <1>2
<1>4. \A q \in Nat \ {0} : Tag(t, q, s) => \E m \in M : StartsAt(t, q, m)
  <2> TAKE q \in Nat \ {0}
  <2>1. Tag(t, q, s) => q + 1 <= Len(t) /\ t[q] = "<" /\ t[q + 1] = s
    BY <1>0 DEF Tag
  <2> QED BY <1>1, <2>1
<1>5. \A q \in a .. f - 1 : ~Tag(t, q, s)
  <2> TAKE q \in a .. f - 1
  <2>1. q \in Nat \ {0} /\ q \in a .. Len(t)
    BY <1>0, <1>3
  <2> QED BY <1>2, <1>4, <2>1
<1>6. ASSUME Found(t, f), TagEnd(t, f) # NoEnd
      PROVE  f \in 1 .. Len(t) /\ Tag(t, f, s) /\ TagEnd(t, f) = SkipNewlines(t, f + 3)
  <2>1. f \in a .. Len(t) /\ \E m \in M : StartsAt(t, f, m)
    <3>1. f # Len(t) + 1
      BY <1>0, <1>6 DEF Found
    <3> QED BY <1>2, <3>1
  <2>2. f \in 1 .. Len(t) /\ f \in Nat \ {0}
    BY <1>0, <2>1
  <2>3. f + 1 <= Len(t) /\ t[f] = "<" /\ t[f + 1] = s
    BY <1>1, <2>1, <2>2
  <2>4. f + 2 <= Len(t)
    <3>1. SUFFICES ASSUME f + 2 > Len(t) PROVE FALSE
      BY <1>0, <2>2
    <3>2. f + 1 = Len(t)
      BY <1>0, <2>2, <2>3, <3>1
    <3>3. \A p \in f .. Len(t) : t[p] # ">" /\ t[p] # "n"
      <4>1. t[f] # ">" /\ t[f] # "n" /\ t[f + 1] # ">" /\ t[f + 1] # "n"
        BY <2>3
      <4>2. \A p \in f .. Len(t) : p = f \/ p = f + 1
        BY <2>2, <3>2
      <4> QED BY <4>1, <4>2
    <3>4. ASSUME NEW u, \A p \in f .. Len(t) : t[p] # u, NEW g, g = Find(t, {<<u>>}, f)
          PROVE  ~Found(t, g)
      <4> DEFINE U == {<<u>>}
      <4>1. g = Find(t, U, f) /\ \A p \in 1 .. Len(t) : (\E m \in U : StartsAt(t, p, m)) => t[p] = u
        BY <3>4, OneSymbol
      <4> HIDE DEF U
      <4>2. \/ g = Len(t) + 1
            \/ g \in f .. Len(t) /\ \E m \in U : StartsAt(t, g, m)
        BY <2>2, <4>1, FindIs
      <4>3. CASE g \in f .. Len(t) /\ \E m \in U : StartsAt(t, g, m)
        <5>1. g \in 1 .. Len(t)
          BY <1>0, <2>2, <4>3
        <5> QED BY <3>4, <4>1, <4>3, <5>1
      <4> QED BY <1>0, <4>2, <4>3 DEF Found
    <3>5. ~Found(t, Find(t, {<<">">>}, f)) /\ ~Found(t, Find(t, {<<"n">>}, f))
      BY <3>3, <3>4
    <3>6. TagEnd(t, f) = NoEnd
      BY <3>5 DEF TagEnd
    <3> QED BY <1>6, <3>6
  <2>5. f \in 1 .. Len(t) - 2
    BY <1>0, <2>2, <2>4
  <2>6. t[f + 2] = ">"
    BY <2>3, <2>5 DEF TagsSoFar
  <2>7. Tag(t, f, s)
    BY <2>3, <2>4, <2>6 DEF Tag
  <2> QED BY <2>2, <2>7, TagEndOfTag
<1>7. ASSUME ~(Found(t, f) /\ TagEnd(t, f) # NoEnd), NEW q \in a .. Len(t), Tag(t, q, s)
      PROVE  FALSE
  <2>1. q \in Nat \ {0} /\ q + 2 <= Len(t) /\ t[q + 2] = ">"
    BY <1>0, <1>7 DEF Tag
  <2>2. \E m \in M : StartsAt(t, q, m)
    BY <1>4, <1>7, <2>1
  <2>3. f \in a .. Len(t) /\ ~(q \in a .. f - 1)
    BY <1>0, <1>2, <2>2
  <2>4. Found(t, f)
    BY <1>0, <2>3 DEF Found
  <2>5. TagEnd(t, f) = NoEnd
    BY <1>7, <2>4
  <2>6. f \in 1 .. Len(t) + 1 /\ q + 2 \in f .. Len(t)
    BY <1>0, <1>7, <2>1, <2>3
  <2> QED BY <2>1, <2>5, <2>6, SomeEnd
<1> QED BY <1>3, <1>5, <1>6, <1>7 DEF IsFirst

-----------------------------------------------------------------------------
(* The callback reads the text as it is to be read.                        *)

\* b can be gone on from as a could.
GoesOn(t, a, b, s) ==
    /\ Quiet(t, a, b) /\ Border(t, b)
    /\ (Thinks(t, b) <=> Thinks(t, a)) /\ Awaited(t, b) = s
    /\ \A q \in b .. Len(t) : ~Tag(t, q, s)

\* When no tag has come, what is not held back ends at a border.
LEMMA HeldBorder ==
    ASSUME NEW t \in Seq(STRING), NEW a \in 1 .. Len(t) + 1, Border(t, a), NEW s, s = Awaited(t, a),
           \A q \in a .. Len(t) : ~Tag(t, q, s),
           NEW markers, <<"<", s, ">">> \in markers,
           NEW b, b \in a .. Len(t) + 1, NEW n, RightlyHeld(t, a, markers, n), n = Len(t) + 1 - b
    PROVE  GoesOn(t, a, b, s)
<1>0. Len(t) \in Nat /\ a \in Nat \ {0} /\ b \in Nat /\ a <= b
  OBVIOUS
<1>1. Quiet(t, a, b)
  <2>1. \A q \in a .. b - 1 : q \in a .. Len(t)
    BY <1>0
  <2> QED BY <2>1 DEF Quiet
<1>2. Thinks(t, b) <=> Thinks(t, a)
  <2>1. b \in a .. b
    BY <1>0
  <2> QED BY <1>0, <1>1, <2>1, QuietReading
<1>3. Awaited(t, b) = s
  BY <1>2 DEF Awaited
<1>4. ASSUME NEW q \in 1 .. b - 1, q + 3 > b, MaybeTag(t, q, s) PROVE FALSE
  <2>1. q >= a
    <3>1. SUFFICES ASSUME q < a PROVE FALSE
      BY <1>0
    <3>2. q \in 1 .. a - 1 /\ q + 3 > a
      BY <1>0, <1>4, <3>1
    <3> QED BY <1>4, <3>2 DEF Border
  <2>2. q \in a .. Len(t) /\ t[q] = "<"
    BY <1>0, <1>4, <2>1 DEF MaybeTag
  <2>3. ~(q + 2 <= Len(t))
    <3>1. SUFFICES ASSUME q + 2 <= Len(t) PROVE FALSE
      OBVIOUS
    <3>2. q + 1 <= Len(t)
      BY <1>0, <3>1
    <3>3. Tag(t, q, s)
      BY <1>4, <3>1, <3>2 DEF MaybeTag, Tag
    <3> QED BY <2>2, <3>3
  <2> DEFINE k == Len(t) - q + 1
             m == <<"<", s, ">">>
  <2>4. k \in 1 .. 2 /\ k \in 1 .. Len(t) + 1 - a /\ Len(t) - k + 1 = q
    BY <1>0, <2>2, <2>3
  <2>5. Len(m) = 3 /\ m[1] = "<" /\ m[2] = s /\ \E S : m \in Seq(S)
    <3> DEFINE S == {"<", s, ">"}
    <3>1. "<" \in S /\ s \in S /\ ">" \in S
      OBVIOUS
    <3> HIDE DEF S
    <3>2. m \in Seq(S)
      BY <3>1
    <3>3. Len(m) = 3 /\ m[1] = "<" /\ m[2] = s
      OBVIOUS
    <3> HIDE DEF m
    <3> QED BY <3>2, <3>3
  <2>6. SubSeq(t, q, Len(t)) = [i \in 1 .. k |-> t[q + i - 1]]
    <3>1. q \in 1 .. Len(t) + 1 /\ Len(t) \in q - 1 .. Len(t)
      BY <1>0, <2>2
    <3>2. SubSeq(t, q, Len(t)) = [i \in 1 .. Len(t) - q + 1 |-> t[q + i - 1]]
      BY <3>1, SubSeqProperties
    <3> QED BY <3>2
  <2> HIDE DEF m
  <2>7. SubSeq(m, 1, k) = [i \in 1 .. k |-> m[i]]
    <3>1. PICK S : m \in Seq(S)
      BY <2>5
    <3> HIDE DEF k
    <3>2. 1 \in 1 .. Len(m) + 1 /\ k \in 1 - 1 .. Len(m) /\ k - 1 + 1 = k
      BY <2>4, <2>5
    <3>3. SubSeq(m, 1, k) = [i \in 1 .. k - 1 + 1 |-> m[1 + i - 1]]
      BY <3>1, <3>2, SubSeqProperties
    <3>4. \A i \in 1 .. k : 1 + i - 1 = i
      BY <2>4
    <3> QED BY <3>2, <3>3, <3>4
  <2>8. \A i \in 1 .. k : t[q + i - 1] = m[i]
    <3> TAKE i \in 1 .. k
    <3>1. CASE i = 1
      <4>1. q + i - 1 = q
        BY <2>2, <3>1
      <4> QED BY <2>2, <2>5, <3>1, <4>1
    <3>2. CASE i # 1
      <4>1. i = 2 /\ q + i - 1 = q + 1 /\ q + 1 <= Len(t)
        BY <1>0, <2>2, <2>4, <3>2
      <4> QED BY <1>4, <2>5, <4>1 DEF MaybeTag
    <3> QED BY <3>1, <3>2
  <2>9. SubSeq(t, q, Len(t)) = SubSeq(m, 1, k)
    <3> HIDE DEF k
    <3> QED BY <2>6, <2>7, <2>8
  <2> HIDE DEF k
  <2>10. Begins(t, k, m)
    BY <2>4, <2>5, <2>9 DEF Begins
  <2>11. k <= n
    <3>1. m \in markers
      BY DEF m
    <3> QED BY <2>4, <2>10, <3>1 DEF RightlyHeld
  <2> QED BY <1>0, <1>4, <2>2, <2>4, <2>11
<1>5. Border(t, b)
  BY <1>3, <1>4 DEF Border
<1>6. \A q \in b .. Len(t) : q \in a .. Len(t)
  BY <1>0
<1> QED BY <1>1, <1>2, <1>3, <1>5, <1>6 DEF GoesOn

\* What a stretch adds.
LEMMA SolidGrows ==
    ASSUME NEW t \in Seq(STRING), NEW a \in Nat \ {0}, NEW b \in a .. Len(t) + 1,
           NEW s, SentBelow(s, a), NEW x, x = s \o Span(a, b)
    PROVE  SolidIn(t, x) = SolidIn(t, s) \cup Solids(t, a, b)
<1>0. Len(t) \in Nat /\ DOMAIN t = 1 .. Len(t)
  OBVIOUS
<1>1. b \in Nat /\ a \in Nat \ {0} /\ a <= b /\ (b <= b \/ b <= a)
  BY <1>0
<1>2. Positions(x) = Positions(s) \cup a .. b - 1
  BY <1>1, SendMore
<1>3. \A i \in a .. b - 1 : i \in Breaks(t) <=> t[i] = "n"
  <2>1. \A i \in a .. b - 1 : i \in DOMAIN t
    BY <1>0
  <2> QED BY <2>1 DEF Breaks
<1> QED BY <1>2, <1>3 DEF SolidIn, Solids

LEMMA SolidSame == Solid(content) = SolidIn(text, content) /\ Solid(reasoning) = SolidIn(text, reasoning)
BY DEF Solid, SolidIn, Positions, Breaks

\* The state of the callback that the invariant is about, for use in a step.
LEMMA WhatIsRead ==
    ASSUME SentOnce, Reading, state = "work", Fine(text, defer)
    PROVE  /\ ReadWell /\ text \in Seq(STRING) /\ at \in 1 .. Len(text) + 1
           /\ Len(text) \in Nat /\ at \in Nat \ {0} /\ End = Len(text) + 1
           /\ TagsSoFar(text) /\ SentBelow(content, at) /\ SentBelow(reasoning, at)
<1>1. ReadWell
  BY DEF Reading
<1>2. text \in Seq(STRING) /\ at \in 1 .. Len(text) + 1 /\ Len(text) \in Nat
  BY DEF SentOnce, End
<1>3. SentBelow(content, at) /\ SentBelow(reasoning, at)
  BY DEF SentOnce
<1> QED BY <1>1, <1>2, <1>3 DEF Fine, End

\* A thought begins.
LEMMA ReadOpenTag ==
    ASSUME SentOnce, Reading, Fine(text, defer), OpenTag, text' = text
    PROVE  ReadWell'
<1> DEFINE f == Find(text, {<<"<", "k">>}, at)
           c == SkipNewlines(text, f + 3)
<1>1. /\ state = "work" /\ mode = "CONTENT" /\ Found(text, f) /\ TagEnd(text, f) # NoEnd
      /\ content' = IF check = "IS_CONTENT" THEN content \o Span(at, f) ELSE content
      /\ at' = TagEnd(text, f) /\ mode' = "THINKING"
      /\ UNCHANGED <<check, defer, reasoning, state>>
  BY DEF OpenTag, ThinkOpens, OpenThink, SendContent
<1>2. /\ ReadWell /\ text \in Seq(STRING) /\ at \in 1 .. Len(text) + 1
      /\ Len(text) \in Nat /\ at \in Nat \ {0} /\ TagsSoFar(text) /\ SentBelow(content, at)
  BY <1>1, WhatIsRead
<1>3. ~Thinks(text, at) /\ Border(text, at)
  BY <1>1, <1>2 DEF ReadWell
<1>4. /\ f \in at .. Len(text) + 1 /\ \A q \in at .. f - 1 : ~Tag(text, q, "k")
      /\ f \in 1 .. Len(text) /\ Tag(text, f, "k") /\ TagEnd(text, f) = c
  <2> DEFINE s == "k"
  <2>1. s \in {"k", "/k"} /\ f = Find(text, {<<"<", s>>}, at)
    OBVIOUS
  <2> HIDE DEF s, f
  <2>2. IsFirst(text, at, s, f)
    BY <1>2, <2>1, FirstTag
  <2>3. f \in 1 .. Len(text) /\ Tag(text, f, s) /\ TagEnd(text, f) = SkipNewlines(text, f + 3)
    BY <1>1, <2>2 DEF IsFirst
  <2> QED BY <2>2, <2>3 DEF s, IsFirst
<1> HIDE DEF f
<1>5. /\ f \in Nat /\ at <= f /\ f >= 1
  BY <1>2, <1>4
<1>6. Quiet(text, at, f)
  BY <1>3, <1>4 DEF Quiet, Awaited
<1>7. ~Thinks(text, f) /\ Switch(text, f)
  <2>1. f \in at .. f
    BY <1>2, <1>5
  <2>2. Thinks(text, f) <=> Thinks(text, at)
    BY <1>2, <1>3, <1>5, <1>6, <2>1, QuietReading
  <2> QED BY <1>3, <1>4, <2>2 DEF Switch, Awaited
<1> HIDE DEF c
<1>8. /\ c \in f + 3 .. Len(text) + 1 /\ Thinks(text, c) /\ Border(text, c)
      /\ Said(text, c) = Said(text, f) /\ Thought(text, c) = Thought(text, f)
  BY <1>2, <1>4, <1>7, SwitchReading, SwitchSends DEF c
<1>9. /\ Said(text, f) = Said(text, at) \cup Solids(text, at, f)
      /\ Thought(text, f) = Thought(text, at)
  <2>1. /\ Said(text, f) = Said(text, at)
                \cup (IF Thinks(text, at) THEN {} ELSE Solids(text, at, f))
        /\ Thought(text, f) = Thought(text, at)
                \cup (IF Thinks(text, at) THEN Solids(text, at, f) ELSE {})
    BY <1>2, <1>3, <1>5, <1>6, QuietSends
  <2> QED BY <1>3, <2>1
<1>10. SolidIn(text, content \o Span(at, f)) = SolidIn(text, content) \cup Solids(text, at, f)
  <2>1. f \in at .. Len(text) + 1
    BY <1>4
  <2> QED BY <1>2, <2>1, SolidGrows
<1>11. at' = c
  BY <1>1, <1>4
<1>12. defer => f = 1 /\ at = 1
  <2>1. SUFFICES ASSUME defer PROVE f = 1
    BY <1>2, <1>5
  <2>2. StartsAt(text, f, <<"<", "k">>)
    <3>1. f + 1 <= Len(text) /\ text[f] = "<" /\ text[f + 1] = "k"
      BY <1>2, <1>4, <1>5 DEF Tag
    <3>2. f \in Nat \ {0}
      BY <1>5
    <3> QED BY <1>2, <3>1, <3>2, TwoSymbols
  <2>3. f \in DOMAIN text
    BY <1>2, <1>4
  <2> QED BY <2>1, <2>2, <2>3 DEF Fine
<1>13. (mode = "THINKING" <=> Thinks(text, at))' /\ Border(text, at)'
  BY <1>1, <1>8, <1>11
<1>14. (SolidIn(text, reasoning) = Thought(text, at))'
  BY <1>1, <1>2, <1>8, <1>9, <1>11 DEF ReadWell
<1>15. (check = "IS_CONTENT" => SolidIn(text, content) = Said(text, at))'
  BY <1>1, <1>2, <1>8, <1>9, <1>10, <1>11 DEF ReadWell
<1>16. (check # "IS_CONTENT" => defer /\ content = <<>>)'
  BY <1>1, <1>2 DEF ReadWell
<1>17. (check = "CHECKING" => Said(text, at) = {})'
  <2>1. SUFFICES ASSUME check = "CHECKING" PROVE Said(text, c) = {}
    BY <1>1, <1>11
  <2>2. defer /\ Said(text, at) = {}
    BY <1>2, <2>1 DEF ReadWell
  <2>3. Solids(text, at, f) = {}
    BY <1>12, <2>2 DEF Solids
  <2> QED BY <1>8, <1>9, <2>2, <2>3
<1>18. (defer /\ check # "CHECKING" => at > 1)'
  <2>1. at' > 1
    BY <1>2, <1>5, <1>8, <1>11
  <2> QED BY <2>1
<1>19. (defer /\ mode = "THINKING" => check = "CHECKING")'
  <2>1. defer => check = "CHECKING"
    BY <1>2, <1>12 DEF ReadWell
  <2> QED BY <1>1, <2>1
<1>20. state' # "idle"
  BY <1>1
<1> QED BY <1>13, <1>14, <1>15, <1>16, <1>17, <1>18, <1>19, <1>20 DEF ReadWell

\* A thought ends.
LEMMA ReadCloseTag ==
    ASSUME SentOnce, Reading, Fine(text, defer), CloseTag, text' = text
    PROVE  ReadWell'
<1> DEFINE f == Find(text, {<<"<", "/k">>}, at)
           c == SkipNewlines(text, f + 3)
<1>1. /\ state = "work" /\ mode = "THINKING" /\ Found(text, f) /\ TagEnd(text, f) # NoEnd
      /\ reasoning' = reasoning \o Span(at, f)
      /\ at' = TagEnd(text, f) /\ mode' = "CONTENT"
      /\ check' = IF defer THEN "CHECKING" ELSE "IS_CONTENT"
      /\ UNCHANGED <<defer, content, state>>
  BY DEF CloseTag, CloseAt, ThinkCloses, CloseThink, SendReasoning
<1>2. /\ ReadWell /\ text \in Seq(STRING) /\ at \in 1 .. Len(text) + 1
      /\ Len(text) \in Nat /\ at \in Nat \ {0} /\ TagsSoFar(text) /\ SentBelow(reasoning, at)
  BY <1>1, WhatIsRead
<1>3. Thinks(text, at) /\ Border(text, at)
  BY <1>1, <1>2 DEF ReadWell
<1>4. /\ f \in at .. Len(text) + 1 /\ \A q \in at .. f - 1 : ~Tag(text, q, "/k")
      /\ f \in 1 .. Len(text) /\ Tag(text, f, "/k") /\ TagEnd(text, f) = c
  <2> DEFINE s == "/k"
  <2>1. s \in {"k", "/k"} /\ f = Find(text, {<<"<", s>>}, at)
    OBVIOUS
  <2> HIDE DEF s, f
  <2>2. IsFirst(text, at, s, f)
    BY <1>2, <2>1, FirstTag
  <2>3. f \in 1 .. Len(text) /\ Tag(text, f, s) /\ TagEnd(text, f) = SkipNewlines(text, f + 3)
    BY <1>1, <2>2 DEF IsFirst
  <2> QED BY <2>2, <2>3 DEF s, IsFirst
<1> HIDE DEF f
<1>5. /\ f \in Nat /\ at <= f /\ f >= 1
  BY <1>2, <1>4
<1>6. Quiet(text, at, f)
  BY <1>3, <1>4 DEF Quiet, Awaited
<1>7. Thinks(text, f) /\ Switch(text, f)
  <2>1. f \in at .. f
    BY <1>2, <1>5
  <2>2. Thinks(text, f) <=> Thinks(text, at)
    BY <1>2, <1>3, <1>5, <1>6, <2>1, QuietReading
  <2> QED BY <1>3, <1>4, <2>2 DEF Switch, Awaited
<1> HIDE DEF c
<1>8. /\ c \in f + 3 .. Len(text) + 1 /\ ~Thinks(text, c) /\ Border(text, c)
      /\ Said(text, c) = Said(text, f) /\ Thought(text, c) = Thought(text, f)
  BY <1>2, <1>4, <1>7, SwitchReading, SwitchSends DEF c
<1>9. /\ Said(text, f) = Said(text, at)
      /\ Thought(text, f) = Thought(text, at) \cup Solids(text, at, f)
  <2>1. /\ Said(text, f) = Said(text, at)
                \cup (IF Thinks(text, at) THEN {} ELSE Solids(text, at, f))
        /\ Thought(text, f) = Thought(text, at)
                \cup (IF Thinks(text, at) THEN Solids(text, at, f) ELSE {})
    BY <1>2, <1>3, <1>5, <1>6, QuietSends
  <2> QED BY <1>3, <2>1
<1>10. SolidIn(text, reasoning \o Span(at, f)) = SolidIn(text, reasoning) \cup Solids(text, at, f)
  <2>1. f \in at .. Len(text) + 1
    BY <1>4
  <2> QED BY <1>2, <2>1, SolidGrows
<1>11. at' = c
  BY <1>1, <1>4
<1>12. check \in {"CHECKING", "IS_CONTENT", "IS_TOOL_CALL"}
  BY DEF SentOnce
<1>13. (mode = "THINKING" <=> Thinks(text, at))' /\ Border(text, at)'
  BY <1>1, <1>8, <1>11
<1>14. (SolidIn(text, reasoning) = Thought(text, at))'
  BY <1>1, <1>2, <1>8, <1>9, <1>10, <1>11 DEF ReadWell
<1>15. (check = "IS_CONTENT" => SolidIn(text, content) = Said(text, at))'
  <2>1. SUFFICES ASSUME ~defer PROVE SolidIn(text, content) = Said(text, c)
    BY <1>1, <1>11
  <2>2. check = "IS_CONTENT"
    BY <1>2, <2>1 DEF ReadWell
  <2> QED BY <1>2, <1>8, <1>9, <2>2 DEF ReadWell
<1>16. defer => check = "CHECKING" /\ content = <<>> /\ Said(text, at) = {}
  BY <1>1, <1>2 DEF ReadWell
<1>17. (check # "IS_CONTENT" => defer /\ content = <<>>)'
  BY <1>1, <1>16
<1>18. (check = "CHECKING" => Said(text, at) = {})'
  BY <1>1, <1>8, <1>9, <1>11, <1>16
<1>19. ~(defer /\ check # "CHECKING")' /\ mode' # "THINKING" /\ state' # "idle"
  BY <1>1
<1> QED BY <1>13, <1>14, <1>15, <1>17, <1>18, <1>19 DEF ReadWell

\* Thinking goes on.
LEMMA ReadPassReasoning ==
    ASSUME SentOnce, Reading, Fine(text, defer), PassReasoning, text' = text
    PROVE  ReadWell'
<1> DEFINE f == Find(text, {<<"<", "/k">>}, at)
           markers == {<<"<", "/k", ">">>, ToolTag, OpenFunction}
           n == HeldBack(text, at, markers)
           b == End - n
<1>1. /\ state = "work" /\ mode = "THINKING" /\ ~(Found(text, f) /\ TagEnd(text, f) # NoEnd)
      /\ reasoning' = reasoning \o Span(at, b) /\ at' = IF b > at THEN b ELSE at
      /\ UNCHANGED <<mode, check, defer, content>> /\ state' = "idle"
  BY DEF PassReasoning, CloseAt, ThinkCloses, CloseThink, SendReasoning, SafeReasoning
<1>2. /\ ReadWell /\ text \in Seq(STRING) /\ at \in 1 .. Len(text) + 1
      /\ Len(text) \in Nat /\ at \in Nat \ {0} /\ End = Len(text) + 1
      /\ TagsSoFar(text) /\ SentBelow(reasoning, at)
  BY <1>1, WhatIsRead
<1>3. Thinks(text, at) /\ Border(text, at) /\ Awaited(text, at) = "/k"
  BY <1>1, <1>2 DEF ReadWell, Awaited
<1>4. \A q \in at .. Len(text) : ~Tag(text, q, "/k")
  <2> DEFINE s == "/k"
  <2>1. s \in {"k", "/k"} /\ f = Find(text, {<<"<", s>>}, at)
    OBVIOUS
  <2> HIDE DEF s, f
  <2>2. IsFirst(text, at, s, f)
    BY <1>2, <2>1, FirstTag
  <2>3. \A q \in at .. Len(text) : ~Tag(text, q, s)
    BY <1>1, <2>2 DEF IsFirst
  <2> QED BY <2>3 DEF s
<1> HIDE DEF f
<1>5. RightlyHeld(text, at, markers, n)
  <2> HIDE DEF markers
  <2> QED BY <1>2, HeldIs
<1>6. <<"<", "/k", ">">> \in markers
  OBVIOUS
<1> HIDE DEF markers, n
<1>7. b \in at .. Len(text) + 1 /\ n = Len(text) + 1 - b
  BY <1>2, <1>5 DEF RightlyHeld
<1> HIDE DEF b
<1>8. /\ Quiet(text, at, b) /\ Border(text, b) /\ (Thinks(text, b) <=> Thinks(text, at))
      /\ Awaited(text, b) = "/k" /\ \A q \in b .. Len(text) : ~Tag(text, q, "/k")
  <2> DEFINE s == "/k"
  <2>1. <<"<", s, ">">> \in markers /\ s = Awaited(text, at) /\ \A q \in at .. Len(text) : ~Tag(text, q, s)
    BY <1>3, <1>4, <1>6
  <2> HIDE DEF s
  <2>2. GoesOn(text, at, b, s)
    BY <1>2, <1>3, <1>5, <1>7, <2>1, HeldBorder
  <2> QED BY <2>2 DEF s, GoesOn
<1>9. b \in Nat /\ at <= b /\ at' = b
  BY <1>1, <1>2, <1>7
<1>10. /\ Said(text, b) = Said(text, at)
       /\ Thought(text, b) = Thought(text, at) \cup Solids(text, at, b)
  <2>1. /\ Said(text, b) = Said(text, at)
                \cup (IF Thinks(text, at) THEN {} ELSE Solids(text, at, b))
        /\ Thought(text, b) = Thought(text, at)
                \cup (IF Thinks(text, at) THEN Solids(text, at, b) ELSE {})
    BY <1>2, <1>3, <1>8, <1>9, QuietSends
  <2> QED BY <1>3, <2>1
<1>11. SolidIn(text, reasoning \o Span(at, b)) = SolidIn(text, reasoning) \cup Solids(text, at, b)
  BY <1>2, <1>7, SolidGrows
<1>12. (mode = "THINKING" <=> Thinks(text, at))' /\ Border(text, at)'
  BY <1>1, <1>3, <1>8, <1>9
<1>13. (SolidIn(text, reasoning) = Thought(text, at))'
  BY <1>1, <1>2, <1>9, <1>10, <1>11 DEF ReadWell
<1>14. (check = "IS_CONTENT" => SolidIn(text, content) = Said(text, at))'
  BY <1>1, <1>2, <1>9, <1>10 DEF ReadWell
<1>15. (check # "IS_CONTENT" => defer /\ content = <<>>)'
  BY <1>1, <1>2 DEF ReadWell
<1>16. (check = "CHECKING" => Said(text, at) = {})'
  BY <1>1, <1>2, <1>9, <1>10 DEF ReadWell
<1>17. (defer /\ check # "CHECKING" => at > 1)'
  <2>1. SUFFICES ASSUME defer, check # "CHECKING" PROVE b > 1
    BY <1>1, <1>9
  <2>2. at > 1
    BY <1>2, <2>1 DEF ReadWell
  <2> QED BY <1>2, <1>9, <2>2
<1>18. (defer /\ mode = "THINKING" => check = "CHECKING")'
  BY <1>1, <1>2 DEF ReadWell
<1>19. (\A q \in at .. Len(text) : ~Tag(text, q, Awaited(text, at)))'
  BY <1>8, <1>9
<1> QED BY <1>12, <1>13, <1>14, <1>15, <1>16, <1>17, <1>18, <1>19 DEF ReadWell

\* Content goes on, or waits for the verdict on what it is.
LEMMA ReadPassContent ==
    ASSUME SentOnce, Reading, Fine(text, defer), PassContent, text' = text
    PROVE  ReadWell'
<1> DEFINE f == Find(text, {<<"<", "k">>}, at)
           markers == {<<"<", "k", ">">>}
           n == HeldBack(text, at, markers)
           b == End - n
           now == IF check = "CHECKING" /\ b > at THEN Verdict ELSE check
<1>1. /\ state = "work" /\ mode = "CONTENT" /\ ~(Found(text, f) /\ TagEnd(text, f) # NoEnd)
      /\ check' = now /\ at' = IF now = "CHECKING" \/ b <= at THEN at ELSE b
      /\ content' = IF now = "IS_CONTENT" THEN content \o Span(at, b) ELSE content
      /\ UNCHANGED <<mode, defer, reasoning>> /\ state' = "idle"
  BY DEF PassContent, ThinkOpens, OpenThink, SendContent, SafeContent
<1>2. /\ ReadWell /\ text \in Seq(STRING) /\ at \in 1 .. Len(text) + 1
      /\ Len(text) \in Nat /\ at \in Nat \ {0} /\ End = Len(text) + 1
      /\ TagsSoFar(text) /\ SentBelow(content, at)
  BY <1>1, WhatIsRead
<1>3. ~Thinks(text, at) /\ Border(text, at) /\ Awaited(text, at) = "k"
  BY <1>1, <1>2 DEF ReadWell, Awaited
<1>4. \A q \in at .. Len(text) : ~Tag(text, q, "k")
  <2> DEFINE s == "k"
  <2>1. s \in {"k", "/k"} /\ f = Find(text, {<<"<", s>>}, at)
    OBVIOUS
  <2> HIDE DEF s, f
  <2>2. IsFirst(text, at, s, f)
    BY <1>2, <2>1, FirstTag
  <2>3. \A q \in at .. Len(text) : ~Tag(text, q, s)
    BY <1>1, <2>2 DEF IsFirst
  <2> QED BY <2>3 DEF s
<1> HIDE DEF f
<1>5. RightlyHeld(text, at, markers, n)
  <2> HIDE DEF markers
  <2> QED BY <1>2, HeldIs
<1>6. <<"<", "k", ">">> \in markers
  OBVIOUS
<1> HIDE DEF markers, n
<1>7. b \in at .. Len(text) + 1 /\ n = Len(text) + 1 - b
  BY <1>2, <1>5 DEF RightlyHeld
<1>8. now = IF check = "CHECKING" /\ b > at THEN Verdict ELSE check
  OBVIOUS
<1> HIDE DEF b, now
<1>9. /\ Quiet(text, at, b) /\ Border(text, b) /\ (Thinks(text, b) <=> Thinks(text, at))
      /\ Awaited(text, b) = "k" /\ \A q \in b .. Len(text) : ~Tag(text, q, "k")
  <2> DEFINE s == "k"
  <2>1. <<"<", s, ">">> \in markers /\ s = Awaited(text, at) /\ \A q \in at .. Len(text) : ~Tag(text, q, s)
    BY <1>3, <1>4, <1>6
  <2> HIDE DEF s
  <2>2. GoesOn(text, at, b, s)
    BY <1>2, <1>3, <1>5, <1>7, <2>1, HeldBorder
  <2> QED BY <2>2 DEF s, GoesOn
<1>10. b \in Nat /\ at <= b /\ (b <= at => b = at)
  BY <1>2, <1>7
<1>11. check \in {"CHECKING", "IS_CONTENT", "IS_TOOL_CALL"}
  BY DEF SentOnce
<1>12. CASE now = "CHECKING" \/ b <= at
  <2>1. at' = at
    BY <1>1, <1>12
  <2>2. check' = check
    <3>1. CASE now = "CHECKING"
      BY <1>1, <1>8, <3>1
    <3>2. CASE b <= at
      BY <1>1, <1>2, <1>8, <1>10, <3>2
    <3> QED BY <1>12, <3>1, <3>2
  <2>3. content' = content
    <3>1. CASE now = "CHECKING"
      BY <1>1, <3>1
    <3>2. CASE b = at
      <4>1. content = content \o Span(at, at)
        BY <1>2, NothingSent DEF SentBelow
      <4> QED BY <1>1, <3>2, <4>1
    <3> QED BY <1>10, <1>12, <3>1, <3>2
  <2>4. (\A q \in at .. Len(text) : ~Tag(text, q, Awaited(text, at)))'
    BY <1>3, <1>4, <2>1
  <2> QED BY <1>1, <1>2, <2>1, <2>2, <2>3, <2>4 DEF ReadWell
<1>13. CASE now # "CHECKING" /\ b > at
  <2>1. at' = b /\ b > 1
    <3>1. ~(b <= at)
      BY <1>2, <1>10, <1>13
    <3> QED BY <1>1, <1>2, <1>10, <1>13, <3>1
  <2>2. /\ Said(text, b) = Said(text, at) \cup Solids(text, at, b)
        /\ Thought(text, b) = Thought(text, at)
    <3>1. /\ Said(text, b) = Said(text, at)
                 \cup (IF Thinks(text, at) THEN {} ELSE Solids(text, at, b))
          /\ Thought(text, b) = Thought(text, at)
                 \cup (IF Thinks(text, at) THEN Solids(text, at, b) ELSE {})
      BY <1>2, <1>3, <1>9, <1>10, QuietSends
    <3> QED BY <1>3, <3>1
  <2>3. SolidIn(text, content \o Span(at, b)) = SolidIn(text, content) \cup Solids(text, at, b)
    BY <1>2, <1>7, SolidGrows
  <2>4. (mode = "THINKING" <=> Thinks(text, at))' /\ Border(text, at)'
    BY <1>1, <1>3, <1>9, <2>1
  <2>5. (SolidIn(text, reasoning) = Thought(text, at))'
    BY <1>1, <1>2, <2>1, <2>2 DEF ReadWell
  <2>6. (check = "IS_CONTENT" => SolidIn(text, content) = Said(text, at))'
    <3>1. SUFFICES ASSUME now = "IS_CONTENT"
                   PROVE  SolidIn(text, content \o Span(at, b)) = Said(text, b)
      BY <1>1, <2>1
    <3>2. SolidIn(text, content) = Said(text, at)
      <4>1. CASE check = "IS_CONTENT"
        BY <1>2, <4>1 DEF ReadWell
      <4>2. CASE check = "CHECKING"
        <5>1. content = <<>> /\ Said(text, at) = {}
          BY <1>2, <4>2 DEF ReadWell
        <5> QED BY <5>1 DEF SolidIn, Positions
      <4>3. check # "IS_TOOL_CALL"
        BY <1>8, <3>1
      <4> QED BY <1>11, <4>1, <4>2, <4>3
    <3> QED BY <2>2, <2>3, <3>2
  <2>7. (check # "IS_CONTENT" => defer /\ content = <<>>)'
    <3>1. SUFFICES ASSUME now # "IS_CONTENT" PROVE defer /\ content = <<>> /\ content' = content
      BY <1>1
    <3>2. check # "IS_CONTENT"
      BY <1>8, <3>1
    <3> QED BY <1>1, <1>2, <3>1, <3>2 DEF ReadWell
  <2>8. check' # "CHECKING" /\ mode' # "THINKING" /\ at' > 1
    BY <1>1, <1>13, <2>1
  <2>9. (\A q \in at .. Len(text) : ~Tag(text, q, Awaited(text, at)))'
    BY <1>9, <2>1
  <2> QED BY <2>4, <2>5, <2>6, <2>7, <2>8, <2>9 DEF ReadWell
<1> QED BY <1>2, <1>10, <1>12, <1>13

LEMMA ReadLoopEnds ==
    ASSUME SentOnce, Reading, Fine(text, defer), LoopEnds, text' = text
    PROVE  ReadWell'
<1>1. /\ state = "work" /\ at = End
      /\ UNCHANGED <<at, mode, check, defer, content, reasoning>>
  BY DEF LoopEnds
<1>2. ReadWell /\ Len(text) \in Nat /\ End = Len(text) + 1
  BY <1>1, WhatIsRead
<1>3. (\A q \in at .. Len(text) : ~Tag(text, q, Awaited(text, at)))'
  <2>1. at .. Len(text) = {}
    BY <1>1, <1>2
  <2> QED BY <1>1, <2>1
<1> QED BY <1>1, <1>2, <1>3 DEF ReadWell

\* Without tools on offer no thought ends in a call.
LEMMA NoToolWhileThinking ==
    ASSUME SentOnce, Fine(text, defer) PROVE ~ToolWhileThinking
<1>1. text \in Seq(STRING) /\ at \in 1 .. Len(text) + 1 /\ Len(text) \in Nat
  BY DEF SentOnce, End
<1>2. SUFFICES ASSUME Found(text, ToolAt) PROVE FALSE
  BY DEF ToolWhileThinking, ToolComesFirst
<1> DEFINE M == OpenTool
           f == Find(text, M, at)
<1>3. f \in at .. Len(text) /\ \E m \in M : StartsAt(text, f, m)
  <2>1. f # Len(text) + 1
    BY <1>1, <1>2 DEF Found, ToolAt
  <2> HIDE DEF M
  <2> QED BY <1>1, <2>1, FindIs
<1> HIDE DEF f
<1>4. f \in Nat \ {0}
  BY <1>1, <1>3
<1>5. StartsAt(text, f, <<"<", "t">>) \/ StartsAt(text, f, <<"<", "f">>)
  BY <1>3 DEF OpenTool, OpenCall, OpenFunction
<1>6. f + 1 <= Len(text) /\ text[f + 1] \in {"t", "f"}
  BY <1>1, <1>4, <1>5, TwoSymbols
<1>7. f + 1 \in DOMAIN text
  BY <1>1, <1>4, <1>6
<1> QED BY <1>6, <1>7 DEF Fine

\* What held for the longer text held for the shorter one.
LEMMA FineBefore ==
    ASSUME NEW t \in Seq(STRING), NEW piece \in Seq(STRING), NEW x, x = t \o piece,
           NEW deferred, Fine(x, deferred)
    PROVE  Fine(t, deferred)
<1>1. /\ x \in Seq(STRING) /\ Len(x) = Len(t) + Len(piece) /\ Len(t) \in Nat
      /\ Len(piece) \in Nat /\ Len(x) \in Nat
      /\ \A i \in 1 .. Len(t) : x[i] = t[i]
  BY MoreText
<1>2. DOMAIN t = 1 .. Len(t) /\ DOMAIN x = 1 .. Len(x) /\ DOMAIN t \subseteq DOMAIN x
  BY <1>1
<1>3. TagsSoFar(t)
  <2>1. ASSUME NEW i \in 1 .. Len(t) - 2, t[i] = "<", t[i + 1] \in {"k", "/k"} PROVE t[i + 2] = ">"
    <3>1. i \in 1 .. Len(t) /\ i + 1 \in 1 .. Len(t) /\ i + 2 \in 1 .. Len(t) /\ i \in 1 .. Len(x) - 2
      BY <1>1
    <3>2. x[i] = "<" /\ x[i + 1] \in {"k", "/k"} => x[i + 2] = ">"
      BY <3>1 DEF Fine, TagsSoFar
    <3> QED BY <1>1, <2>1, <3>1, <3>2
  <2> QED BY <2>1 DEF TagsSoFar
<1>4. \A i \in DOMAIN t : t[i] \notin {"t", "/t", "f", "/f"}
  BY <1>1, <1>2 DEF Fine
<1>5. ASSUME deferred, NEW i \in DOMAIN t, StartsAt(t, i, <<"<", "k">>) PROVE i = 1
  <2>1. i \in Nat \ {0}
    BY <1>2
  <2>2. i + 1 <= Len(t) /\ t[i] = "<" /\ t[i + 1] = "k"
    BY <1>5, <2>1, TwoSymbols
  <2>3. i \in 1 .. Len(t) /\ i + 1 \in 1 .. Len(t) /\ i + 1 <= Len(x)
    BY <1>1, <2>1, <2>2
  <2>4. StartsAt(x, i, <<"<", "k">>)
    <3>1. x[i] = "<" /\ x[i + 1] = "k"
      BY <1>1, <2>2, <2>3
    <3> QED BY <1>1, <2>1, <2>3, <3>1, TwoSymbols
  <2> QED BY <1>2, <1>5, <2>4 DEF Fine
<1> QED BY <1>3, <1>4, <1>5 DEF Fine

LEMMA ReadToken ==
    ASSUME SentOnce, Reading, Token, Fine(text, defer)' PROVE ReadWell'
<1>1. PICK piece \in Pieces : text' = text \o piece
  BY DEF Token
<1>2. piece \in Seq(STRING)
  BY PiecesAre
<1>3. /\ state = "idle" /\ state' = "work"
      /\ UNCHANGED <<at, mode, check, defer, content, reasoning>>
  BY DEF Token, OnToken
<1>4. text \in Seq(STRING) /\ at \in 1 .. Len(text) + 1 /\ Len(text) \in Nat
  BY DEF SentOnce, End
<1>5. Fine(text', defer)
  BY <1>3
<1>6. Fine(text, defer)
  BY <1>1, <1>2, <1>4, <1>5, FineBefore
<1>7. ReadWell
  BY <1>3, <1>6 DEF Reading
<1>8. Border(text, at)
  BY <1>7 DEF ReadWell
<1>9. Border(text', at) /\ (Thinks(text', at) <=> Thinks(text, at))
      /\ Said(text', at) = Said(text, at) /\ Thought(text', at) = Thought(text, at)
  <2>1. Border(text', at)
    BY <1>1, <1>2, <1>4, <1>8, BorderGrows
  <2>2. Thinks(text', at) <=> Thinks(text, at)
    BY <1>1, <1>2, <1>4, ThinksGrows
  <2>3. Said(text', at) = Said(text, at) /\ Thought(text', at) = Thought(text, at)
    BY <1>1, <1>2, <1>4, <1>8, ReadingGrows
  <2> QED BY <2>1, <2>2, <2>3
<1>10. ASSUME NEW s, SentBelow(s, at) PROVE SolidIn(text', s) = SolidIn(text, s)
  <2>1. /\ \A i \in 1 .. Len(text) : text'[i] = text[i]
        /\ Len(text') \in Nat /\ Len(text') >= Len(text) /\ text' \in Seq(STRING)
    BY <1>1, <1>2, <1>4, MoreText
  <2>2. \A i \in Positions(s) : i \in 1 .. Len(text) /\ i \in 1 .. Len(text')
    BY <1>4, <1>10, <2>1 DEF SentBelow, Positions
  <2>3. DOMAIN text = 1 .. Len(text) /\ DOMAIN text' = 1 .. Len(text')
    BY <1>4, <2>1
  <2>4. \A i \in Positions(s) : i \in Breaks(text') <=> i \in Breaks(text)
    BY <2>1, <2>2, <2>3 DEF Breaks
  <2> QED BY <2>4 DEF SolidIn
<1>11. /\ SolidIn(text', content) = SolidIn(text, content)
       /\ SolidIn(text', reasoning) = SolidIn(text, reasoning)
  BY <1>3, <1>10 DEF SentOnce
<1> QED BY <1>3, <1>7, <1>9, <1>11 DEF ReadWell

LEMMA ReadInit == Init => Reading
<1> SUFFICES ASSUME Init PROVE ReadWell
  BY DEF Reading
<1>1. /\ text = <<>> /\ at = 1 /\ mode = "CONTENT" /\ defer \in BOOLEAN
      /\ check = IF defer THEN "CHECKING" ELSE "IS_CONTENT"
      /\ content = <<>> /\ reasoning = <<>> /\ Len(text) = 0
  BY DEF Init, ServeInit
<1>2. ~Thinks(text, 1) /\ Border(text, 1) /\ Said(text, 1) = {} /\ Thought(text, 1) = {}
  BY DEF Thinks, Border, Said, Thought
<1>3. SolidIn(text, <<>>) = {}
  BY DEF SolidIn, Positions
<1>4. \A q \in 1 .. Len(text) : FALSE
  BY <1>1
<1> QED BY <1>1, <1>2, <1>3, <1>4 DEF ReadWell

LEMMA ReadStep == SentOnce /\ Reading /\ [Next]_vars => Reading'
<1> SUFFICES ASSUME SentOnce, Reading, [Next]_vars, state' \in {"idle", "work"},
                    Fine(text, defer)'
             PROVE  ReadWell'
  BY DEF Reading
<1>1. \/ Token \/ UNCHANGED <<text, serveVars>> \/ (ServeWork /\ UNCHANGED text)
      \/ (LoseClient /\ UNCHANGED text) \/ (Flush /\ UNCHANGED text)
  BY DEF Next, Step, Ended, vars
<1>2. ~LoseClient /\ ~Flush
  BY DEF LoseClient, Flush
<1>3. CASE Token
  BY <1>3, ReadToken
<1>4. CASE UNCHANGED <<text, serveVars>>
  <2>1. Fine(text, defer) /\ state \in {"idle", "work"}
    BY <1>4 DEF serveVars
  <2>2. ReadWell
    BY <2>1 DEF Reading
  <2> QED BY <1>4, <2>2 DEF serveVars, ReadWell
<1>5. CASE ServeWork /\ UNCHANGED text
  <2>1. OpenTag \/ PassContent \/ ToolWhileThinking \/ CloseTag \/ PassReasoning \/ LoopEnds
    BY <1>5 DEF ServeWork
  <2>2. defer' = defer
    BY <2>1, ServeTypes
  <2>3. Fine(text, defer)
    BY <1>5, <2>2
  <2>4. ~ToolWhileThinking
    BY <2>3, NoToolWhileThinking
  <2> QED BY <1>5, <2>1, <2>3, <2>4, ReadOpenTag, ReadPassContent, ReadCloseTag,
             ReadPassReasoning, ReadLoopEnds
<1> QED BY <1>1, <1>2, <1>3, <1>4, <1>5

-----------------------------------------------------------------------------
(* What extract_reasoning_and_content() reads.                             *)

EachPlace(T, k) == \A i \in 0 .. k : i \in T

LEMMA DownTo ==
    ASSUME NEW T \in SUBSET Nat, NEW k \in Nat, 0 \in T,
           \A i \in 1 .. k : EachPlace(T, i - 1) => i \in T
    PROVE  EachPlace(T, k)
<1> DEFINE S == {i \in 0 .. k : i \notin T}
<1>1. SUFFICES ASSUME S # {} PROVE FALSE
  BY DEF EachPlace
<1>2. PICK x \in S : \A y \in S : x <= y
  <2>1. S \in SUBSET Nat
    OBVIOUS
  <2> HIDE DEF S
  <2> QED BY <1>1, <2>1, LeastExists
<1>3. x \in 1 .. k /\ x \notin T
  BY <1>2
<1>4. ASSUME NEW i \in 0 .. x - 1 PROVE i \in T
  <2>1. i \in 0 .. k /\ ~(x <= i)
    BY <1>3
  <2> QED BY <1>2, <2>1
<1>5. x \in T
  <2>1. EachPlace(T, x - 1)
    BY <1>4 DEF EachPlace
  <2> QED BY <1>3, <2>1
<1> QED BY <1>3, <1>5

After(t, p) == IF TagEnd(t, p) = NoEnd THEN Len(t) + 1 ELSE TagEnd(t, p)
ThoughtAt(t, p) == Find(t, OpenThink, p)
BodyAt(t, p) == After(t, ThoughtAt(t, p))
ThoughtEnds(t, p) == Find(t, CloseThink, BodyAt(t, p))
CallAt(t, p) == Find(t, OpenTool, BodyAt(t, p))
StopAt(t, p) == IF CallAt(t, p) < ThoughtEnds(t, p) THEN CallAt(t, p) ELSE ThoughtEnds(t, p)
NextAt(t, p) ==
    IF CallAt(t, p) < ThoughtEnds(t, p) THEN CallAt(t, p)
    ELSE IF Found(t, ThoughtEnds(t, p)) THEN After(t, ThoughtEnds(t, p)) ELSE Len(t) + 1

\* What is extracted from p on, given what is extracted behind it.
Extracted(t, f, p) ==
    IF ~Found(t, ThoughtAt(t, p))
      THEN [content |-> Span(p, Len(t) + 1), reasoning |-> <<>>]
    ELSE [content |-> Span(p, ThoughtAt(t, p)) \o f[NextAt(t, p)].content,
          reasoning |-> Span(BodyAt(t, p), StopAt(t, p)) \o f[NextAt(t, p)].reasoning]

Extracts(f, t) == f = [p \in 1 .. Len(t) + 1 |-> Extracted(t, f, p)]

LEMMA ExtractFrom == \A t : Extract(t) = (CHOOSE f : Extracts(f, t))[1]
BY DEF Extract, Extracts, Extracted, After, ThoughtAt, BodyAt, ThoughtEnds, CallAt, StopAt, NextAt

LEMMA NextIs ==
    ASSUME NEW t \in Seq(STRING), NEW p \in 1 .. Len(t) + 1, Found(t, ThoughtAt(t, p))
    PROVE  NextAt(t, p) \in p + 1 .. Len(t) + 1
<1> DEFINE f == ThoughtAt(t, p)
           c == BodyAt(t, p)
           g == ThoughtEnds(t, p)
           h == CallAt(t, p)
<1>0. Len(t) \in Nat /\ p \in Nat
  OBVIOUS
<1>1. f \in p .. Len(t) /\ f \in 1 .. Len(t)
  <2>1. f \in p .. Len(t) + 1
    BY <1>0, FindWithin DEF ThoughtAt
  <2> QED BY <1>0, <2>1 DEF Found
<1> HIDE DEF f
<1>2. c \in f + 1 .. Len(t) + 1
  <2>1. c = After(t, f)
    BY DEF BodyAt, f
  <2> HIDE DEF c
  <2> QED BY <1>0, <1>1, <2>1, TagEndIs DEF After
<1>3. c \in 1 .. Len(t) + 1 /\ c >= p + 1
  BY <1>0, <1>1, <1>2
<1>4. g = Find(t, CloseThink, c) /\ h = Find(t, OpenTool, c)
  BY DEF ThoughtEnds, CallAt
<1> HIDE DEF c, g, h
<1>5. g \in c .. Len(t) + 1 /\ h \in c .. Len(t) + 1 /\ g \in Nat /\ h \in Nat
  BY <1>3, <1>4, FindWithin
<1>6. NextAt(t, p) = IF h < g THEN h ELSE IF Found(t, g) THEN After(t, g) ELSE Len(t) + 1
  BY DEF NextAt, g, h
<1>7. Found(t, g) => After(t, g) \in p + 1 .. Len(t) + 1
  <2>1. SUFFICES ASSUME Found(t, g) PROVE After(t, g) \in p + 1 .. Len(t) + 1
    OBVIOUS
  <2>2. g \in 1 .. Len(t) /\ g >= p + 1
    BY <1>0, <1>3, <1>5, <2>1 DEF Found
  <2>3. TagEnd(t, g) # NoEnd => TagEnd(t, g) \in g + 1 .. Len(t) + 1
    BY <2>2, TagEndIs
  <2> QED BY <1>0, <2>2, <2>3 DEF After
<1> QED BY <1>0, <1>3, <1>5, <1>6, <1>7

\* There is such a function, so that there is something to choose.
LEMMA ExtractsExists == ASSUME NEW t \in Seq(STRING) PROVE \E f : Extracts(f, t)
<1> DEFINE end == Len(t) + 1
           Suits(f, d) == \A p \in end - d .. end : f[p] = Extracted(t, f, p)
           T == {d \in 0 .. Len(t) : \E f : Suits(f, d)}
<1>0. Len(t) \in Nat /\ end \in Nat
  OBVIOUS
<1>1. ASSUME NEW p \in 1 .. end, NEW f, NEW g,
             \A i \in p + 1 .. end : f[i] = g[i]
      PROVE  Extracted(t, f, p) = Extracted(t, g, p)
  <2>1. CASE ~Found(t, ThoughtAt(t, p))
    BY <2>1 DEF Extracted
  <2>2. CASE Found(t, ThoughtAt(t, p))
    <3>1. NextAt(t, p) \in p + 1 .. end
      BY <2>2, NextIs
    <3>2. f[NextAt(t, p)] = g[NextAt(t, p)]
      BY <1>1, <3>1
    <3> QED BY <2>2, <3>2 DEF Extracted
  <2> QED BY <2>1, <2>2
<1>2. ASSUME NEW d \in 0 .. Len(t), NEW f, \A p \in end - d + 1 .. end : f[p] = Extracted(t, f, p)
      PROVE  \E h : Suits(h, d)
  <2> DEFINE k == end - d
             h == [p \in k .. end |-> IF p = k THEN Extracted(t, f, k) ELSE f[p]]
  <2>1. k \in 1 .. end /\ k + 1 = end - d + 1
    BY <1>0
  <2> HIDE DEF k, end
  <2>2. \A i \in k + 1 .. end : h[i] = f[i]
    BY <1>0, <2>1
  <2>3. h[k] = Extracted(t, f, k)
    BY <1>0, <2>1
  <2> HIDE DEF h
  <2>4. ASSUME NEW p \in k .. end PROVE h[p] = Extracted(t, h, p)
    <3>1. p \in 1 .. end /\ \A i \in p + 1 .. end : i \in k + 1 .. end
      BY <1>0, <2>1
    <3>2. Extracted(t, h, p) = Extracted(t, f, p)
      BY <1>1, <2>2, <3>1
    <3>3. CASE p = k
      BY <2>3, <3>2, <3>3
    <3>4. CASE p # k
      <4>1. p \in k + 1 .. end
        BY <1>0, <2>1, <3>4
      <4> QED BY <1>2, <2>1, <2>2, <3>2, <4>1
    <3> QED BY <3>3, <3>4
  <2>5. Suits(h, d)
    BY <2>4 DEF k
  <2> QED BY <2>5
<1>3. T \in SUBSET Nat
  BY <1>0
<1>4. 0 \in T
  <2>1. 0 \in 0 .. Len(t) /\ end - 0 + 1 .. end = {}
    BY <1>0
  <2>2. \E h : Suits(h, 0)
    <3> DEFINE f == <<>>
    <3>1. \A p \in end - 0 + 1 .. end : f[p] = Extracted(t, f, p)
      BY <2>1
    <3> HIDE DEF f, Suits, end
    <3> QED BY <1>2, <2>1, <3>1
  <2> QED BY <2>1, <2>2
<1>5. ASSUME NEW i \in 1 .. Len(t), EachPlace(T, i - 1) PROVE i \in T
  <2>1. i - 1 \in 0 .. i - 1 /\ end - (i - 1) = end - i + 1 /\ i \in 0 .. Len(t)
    BY <1>0
  <2>2. PICK f : Suits(f, i - 1)
    <3>1. i - 1 \in T
      BY <1>5, <2>1 DEF EachPlace
    <3> QED BY <3>1
  <2>3. \A p \in end - i + 1 .. end : f[p] = Extracted(t, f, p)
    BY <2>1, <2>2
  <2>4. \E h : Suits(h, i)
    <3> HIDE DEF Suits, end
    <3> QED BY <1>2, <2>1, <2>3
  <2> QED BY <2>1, <2>4
<1>6. PICK f : Suits(f, Len(t))
  <2>1. EachPlace(T, Len(t))
    <3> HIDE DEF T
    <3> QED BY <1>0, <1>3, <1>4, <1>5, DownTo
  <2>2. Len(t) \in 0 .. Len(t)
    BY <1>0
  <2>3. Len(t) \in T
    BY <2>1, <2>2 DEF EachPlace
  <2> QED BY <2>3
<1> DEFINE g == [p \in 1 .. end |-> f[p]]
<1>7. \A p \in 1 .. end : f[p] = Extracted(t, f, p)
  <2>1. end - Len(t) = 1
    BY <1>0
  <2> QED BY <1>6, <2>1
<1>8. \A p \in 1 .. end : g[p] = f[p]
  OBVIOUS
<1>9. g = [p \in 1 .. end |-> g[p]]
  OBVIOUS
<1> HIDE DEF g, end, Suits
<1>10. ASSUME NEW p \in 1 .. end PROVE g[p] = Extracted(t, g, p)
  <2>1. \A i \in p + 1 .. end : i \in 1 .. end
    BY <1>0
  <2>2. Extracted(t, f, p) = Extracted(t, g, p)
    BY <1>1, <1>8, <2>1
  <2> QED BY <1>7, <1>8, <2>2
<1>11. Extracts(g, t)
  <2>1. g = [p \in 1 .. end |-> Extracted(t, g, p)]
    BY <1>9, <1>10
  <2> QED BY <2>1 DEF Extracts, end
<1> QED BY <1>11

LEMMA ExtractIs ==
    ASSUME NEW t \in Seq(STRING)
    PROVE  \E f : Extract(t) = f[1] /\ \A p \in 1 .. Len(t) + 1 : f[p] = Extracted(t, f, p)
<1> DEFINE f == CHOOSE g : Extracts(g, t)
<1>1. Extracts(f, t)
  BY ExtractsExists
<1>2. Extract(t) = f[1]
  BY ExtractFrom
<1> HIDE DEF f
<1>3. \A p \in 1 .. Len(t) + 1 : f[p] = Extracted(t, f, p)
  <2> DEFINE D == 1 .. Len(t) + 1
  <2>1. f = [p \in D |-> Extracted(t, f, p)]
    BY <1>1 DEF Extracts
  <2> HIDE DEF D
  <2>2. \A p \in D : f[p] = Extracted(t, f, p)
    BY <2>1
  <2> QED BY <2>2 DEF D
<1> QED BY <1>2, <1>3

\* s lies between a and the end of the text, in order.
Placed(t, s, a) ==
    /\ s \in Seq(Nat) /\ Increasing(s)
    /\ \A i \in DOMAIN s : s[i] \in a .. Len(t)

SaidFrom(t, a) == {i \in Said(t, Len(t) + 1) : i >= a}
ThoughtFrom(t, a) == {i \in Thought(t, Len(t) + 1) : i >= a}

\* e is what there is to read from a on.
RightFrom(t, e, a) ==
    /\ Placed(t, e.content, a) /\ SolidIn(t, e.content) = SaidFrom(t, a)
    /\ Placed(t, e.reasoning, a) /\ SolidIn(t, e.reasoning) = ThoughtFrom(t, a)

\* x, from c on, is the span from a to b and then e.
Joins(t, x, c, a, b, e) ==
    Placed(t, x, c) /\ SolidIn(t, x) = Solids(t, a, b) \cup SolidIn(t, e)

LEMMA SpanThen ==
    ASSUME NEW t \in Seq(STRING), NEW a \in Nat \ {0}, NEW b \in a .. Len(t) + 1,
           NEW d \in b .. Len(t) + 1, NEW e, Placed(t, e, d), NEW x, x = Span(a, b) \o e,
           NEW c \in 1 .. a
    PROVE  Joins(t, x, c, a, b, e)
<1> DEFINE s == Span(a, b)
<1>0. /\ Len(t) \in Nat /\ DOMAIN t = 1 .. Len(t) /\ b \in Nat /\ d \in Nat /\ c \in Nat
      /\ a <= b /\ b <= d /\ d <= Len(t) + 1 /\ c <= a /\ c >= 1
  OBVIOUS
<1>1. /\ s \in Seq(Nat) /\ Len(s) = b - a /\ Len(s) \in Nat /\ DOMAIN s = 1 .. Len(s)
      /\ \A i \in 1 .. Len(s) : s[i] = a + i - 1
      /\ Positions(s) = a .. b - 1
  <2>1. /\ s \in Seq(Nat) /\ Len(s) = IF b > a THEN b - a ELSE 0
        /\ \A i \in 1 .. Len(s) : s[i] = a + i - 1
        /\ Positions(s) = a .. b - 1
    BY <1>0, SpanIs DEF Positions
  <2> HIDE DEF s
  <2> QED BY <1>0, <2>1
<1> HIDE DEF s
<1>2. /\ e \in Seq(Nat) /\ Len(e) \in Nat /\ DOMAIN e = 1 .. Len(e)
      /\ \A i \in 1 .. Len(e) : e[i] \in d .. Len(t)
      /\ \A i, j \in 1 .. Len(e) : i < j => e[i] < e[j]
  <2>1. e \in Seq(Nat)
    BY DEF Placed
  <2>2. Len(e) \in Nat /\ DOMAIN e = 1 .. Len(e)
    BY <2>1
  <2>3. \A i \in DOMAIN e : e[i] \in d .. Len(t)
    BY DEF Placed
  <2>4. \A i, j \in DOMAIN e : i < j => e[i] < e[j]
    BY DEF Placed, Increasing
  <2> QED BY <2>1, <2>2, <2>3, <2>4
<1>3. x = s \o e
  BY DEF s
<1>4. /\ x \in Seq(Nat) /\ Len(x) = Len(s) + Len(e) /\ DOMAIN x = 1 .. Len(x)
      /\ \A i \in 1 .. Len(s) + Len(e) : x[i] = IF i <= Len(s) THEN s[i] ELSE e[i - Len(s)]
  <2>a. s \o e \in Seq(Nat) /\ Len(s \o e) = Len(s) + Len(e)
    BY <1>1, <1>2, ConcatProperties
  <2>b. \A i \in 1 .. Len(s) + Len(e) :
            (s \o e)[i] = IF i <= Len(s) THEN s[i] ELSE e[i - Len(s)]
    BY <1>1, <1>2, ConcatProperties
  <2>1. x \in Seq(Nat) /\ Len(x) = Len(s) + Len(e)
    BY <1>3, <2>a
  <2>2. \A i \in 1 .. Len(s) + Len(e) : x[i] = IF i <= Len(s) THEN s[i] ELSE e[i - Len(s)]
    BY <1>3, <2>b
  <2>3. DOMAIN x = 1 .. Len(x)
    BY <2>1
  <2> QED BY <2>1, <2>2, <2>3
<1>5. \A i \in 1 .. Len(s) : x[i] = s[i] /\ x[i] \in a .. b - 1
  <2> TAKE i \in 1 .. Len(s)
  <2>1. i \in 1 .. Len(s) + Len(e) /\ i <= Len(s)
    BY <1>1, <1>2
  <2>2. s[i] = a + i - 1 /\ x[i] = s[i]
    BY <1>1, <1>4, <2>1
  <2> QED BY <1>0, <1>1, <2>2
<1>6. \A i \in Len(s) + 1 .. Len(x) : /\ i - Len(s) \in 1 .. Len(e)
                                     /\ x[i] = e[i - Len(s)] /\ x[i] \in d .. Len(t)
  <2> TAKE i \in Len(s) + 1 .. Len(x)
  <2>1. i \in 1 .. Len(s) + Len(e) /\ ~(i <= Len(s)) /\ i - Len(s) \in 1 .. Len(e)
    BY <1>1, <1>2, <1>4
  <2> QED BY <1>2, <1>4, <2>1
<1>7. \A i \in 1 .. Len(x) : i \in 1 .. Len(s) \/ i \in Len(s) + 1 .. Len(x)
  BY <1>1
<1>8. \A i \in 1 .. Len(x) : x[i] \in c .. Len(t)
  <2> TAKE i \in 1 .. Len(x)
  <2>1. x[i] \in a .. b - 1 \/ x[i] \in d .. Len(t)
    BY <1>5, <1>6, <1>7
  <2> QED BY <1>0, <2>1
<1>9. ASSUME NEW i \in 1 .. Len(x), NEW j \in 1 .. Len(x), i < j PROVE x[i] < x[j]
  <2>1. CASE j \in 1 .. Len(s)
    <3>1. i \in 1 .. Len(s)
      BY <1>1, <1>9, <2>1
    <3>2. x[i] = a + i - 1 /\ x[j] = a + j - 1
      BY <1>1, <1>5, <2>1, <3>1
    <3> QED BY <1>0, <1>1, <1>9, <2>1, <3>1, <3>2
  <2>2. CASE j \in Len(s) + 1 .. Len(x)
    <3>1. CASE i \in 1 .. Len(s)
      <4>1. x[i] \in a .. b - 1 /\ x[j] \in d .. Len(t)
        BY <1>5, <1>6, <2>2, <3>1
      <4> QED BY <1>0, <4>1
    <3>2. CASE i \in Len(s) + 1 .. Len(x)
      <4>1. i - Len(s) \in 1 .. Len(e) /\ j - Len(s) \in 1 .. Len(e) /\ i - Len(s) < j - Len(s)
        BY <1>1, <1>6, <1>9, <2>2, <3>2
      <4>2. x[i] = e[i - Len(s)] /\ x[j] = e[j - Len(s)]
        BY <1>6, <2>2, <3>2
      <4> QED BY <1>2, <4>1, <4>2
    <3> QED BY <1>7, <3>1, <3>2
  <2> QED BY <1>7, <2>1, <2>2
<1>10. Positions(x) = (a .. b - 1) \cup Positions(e)
  <2>1. \A i \in DOMAIN x : x[i] \in (a .. b - 1) \cup Positions(e)
    <3> TAKE i \in DOMAIN x
    <3>1. CASE i \in 1 .. Len(s)
      BY <1>5, <3>1
    <3>2. CASE i \in Len(s) + 1 .. Len(x)
      <4>1. i - Len(s) \in DOMAIN e /\ x[i] = e[i - Len(s)]
        BY <1>2, <1>6, <3>2
      <4> QED BY <4>1 DEF Positions
    <3> QED BY <1>4, <1>7, <3>1, <3>2
  <2>2. \A k \in a .. b - 1 : k \in Positions(x)
    <3> TAKE k \in a .. b - 1
    <3>1. k \in Positions(s)
      BY <1>1
    <3>2. PICK i \in 1 .. Len(s) : s[i] = k
      BY <1>1, <3>1 DEF Positions
    <3>a. i \in 1 .. Len(x)
      BY <1>1, <1>2, <1>4
    <3>3. x[i] = k /\ i \in DOMAIN x
      BY <1>4, <1>5, <3>2, <3>a
    <3> QED BY <3>3 DEF Positions
  <2>3. \A k \in Positions(e) : k \in Positions(x)
    <3> TAKE k \in Positions(e)
    <3>1. PICK i \in 1 .. Len(e) : e[i] = k
      BY <1>2 DEF Positions
    <3> DEFINE j == i + Len(s)
    <3>2. j \in Len(s) + 1 .. Len(x) /\ j - Len(s) = i /\ j \in DOMAIN x
      BY <1>1, <1>2, <1>4
    <3> HIDE DEF j
    <3>3. x[j] = k
      BY <1>6, <3>1, <3>2
    <3> QED BY <3>2, <3>3 DEF Positions
  <2> QED BY <2>1, <2>2, <2>3 DEF Positions
<1>11. Placed(t, x, c)
  BY <1>4, <1>8, <1>9 DEF Placed, Increasing
<1>12. \A i \in a .. b - 1 : i \in Breaks(t) <=> t[i] = "n"
  <2>1. \A i \in a .. b - 1 : i \in DOMAIN t
    BY <1>0
  <2> QED BY <2>1 DEF Breaks
<1>13. SolidIn(t, x) = Solids(t, a, b) \cup SolidIn(t, e)
  BY <1>10, <1>12 DEF SolidIn, Solids
<1> QED BY <1>11, <1>13 DEF Joins

LEMMA PlacedBefore ==
    ASSUME NEW t \in Seq(STRING), NEW a \in Nat, NEW c \in 0 .. a, NEW s, Placed(t, s, a)
    PROVE  Placed(t, s, c)
<1>1. \A i \in DOMAIN s : s[i] \in c .. Len(t)
  <2> TAKE i \in DOMAIN s
  <2>1. s[i] \in a .. Len(t) /\ Len(t) \in Nat /\ c \in Nat /\ c <= a
    BY DEF Placed
  <2> QED BY <2>1
<1> QED BY <1>1 DEF Placed

LEMMA EmptyPlaced ==
    ASSUME NEW t \in Seq(STRING), NEW a \in Nat
    PROVE  Placed(t, <<>>, a) /\ SolidIn(t, <<>>) = {}
BY DEF Placed, Increasing, SolidIn, Positions

LEMMA NothingSpanned ==
    ASSUME NEW a \in Nat PROVE Span(a, a) = <<>>
<1>1. ~(a > a)
  OBVIOUS
<1>2. Span(a, a) \in Seq(Nat) /\ Len(Span(a, a)) = 0
  BY <1>1, SpanIs
<1> QED BY <1>2

\* From a on X is said and Y thought before d.
Before(t, a, d, X, Y) ==
    /\ SaidFrom(t, a) = X \cup SaidFrom(t, d)
    /\ ThoughtFrom(t, a) = Y \cup ThoughtFrom(t, d)

LEMMA FromTo ==
    ASSUME NEW t \in Seq(STRING), NEW a \in 1 .. Len(t) + 1, NEW d \in a .. Len(t) + 1, NEW X, NEW Y,
           \A i \in X \cup Y : i \in a .. d - 1,
           Said(t, d) = Said(t, a) \cup X, Thought(t, d) = Thought(t, a) \cup Y
    PROVE  Before(t, a, d, X, Y)
<1>0. Len(t) \in Nat /\ a \in Nat /\ d \in Nat /\ a <= d /\ d <= Len(t) + 1
  OBVIOUS
<1>1. \A i \in Nat : i \in a .. d - 1 =>
          /\ i \in Said(t, Len(t) + 1) <=> i \in Said(t, d)
          /\ i \in Thought(t, Len(t) + 1) <=> i \in Thought(t, d)
          /\ i \notin Said(t, a) /\ i \notin Thought(t, a)
          /\ ~(i >= d)
  <2> TAKE i \in Nat
  <2> HAVE i \in a .. d - 1
  <2>1. /\ i \in 1 .. Len(t) + 1 - 1 <=> i \in 1 .. d - 1
        /\ i \notin 1 .. a - 1 /\ ~(i >= d)
    BY <1>0
  <2> QED BY <2>1 DEF Said, Thought
<1>2. \A i \in Said(t, Len(t) + 1) \cup Thought(t, Len(t) + 1) : i \in Nat
  BY DEF Said, Thought
<1>3. \A i \in Nat : i >= a <=> i \in a .. d - 1 \/ i >= d
  BY <1>0
<1>4. \A i \in X \cup Y : i \in Nat
  BY <1>0
<1>5. \A i \in Nat : i \in SaidFrom(t, a) <=> i \in X \/ i \in SaidFrom(t, d)
  BY <1>1, <1>2, <1>3, <1>4 DEF SaidFrom
<1>6. \A i \in Nat : i \in ThoughtFrom(t, a) <=> i \in Y \/ i \in ThoughtFrom(t, d)
  BY <1>1, <1>2, <1>3, <1>4 DEF ThoughtFrom
<1>7. \A i \in SaidFrom(t, a) \cup SaidFrom(t, d) \cup ThoughtFrom(t, a) \cup ThoughtFrom(t, d) : i \in Nat
  BY <1>2 DEF SaidFrom, ThoughtFrom
<1> QED BY <1>4, <1>5, <1>6, <1>7 DEF Before

\* In a text whose tags are complete a search that succeeds finds a tag.
AllTagsComplete(t) ==
    \A i \in 1 .. Len(t) - 1 :
        t[i] = "<" /\ t[i + 1] \in {"k", "/k"} => i + 2 <= Len(t) /\ t[i + 2] = ">"

\* f is the first tag s from a on, complete, or the end of the text.
IsNext(t, a, s, f) ==
    /\ f \in a .. Len(t) + 1
    /\ \A q \in a .. f - 1 : ~Tag(t, q, s)
    /\ Found(t, f) => /\ f \in 1 .. Len(t) /\ Tag(t, f, s)
                      /\ After(t, f) = SkipNewlines(t, f + 3)
    /\ ~Found(t, f) => f = Len(t) + 1

LEMMA CompleteTag ==
    ASSUME NEW t \in Seq(STRING), AllTagsComplete(t), NEW a \in 1 .. Len(t) + 1,
           NEW s \in {"k", "/k"}, NEW f, f = Find(t, {<<"<", s>>}, a)
    PROVE  IsNext(t, a, s, f)
<1>0. Len(t) \in Nat /\ a \in Nat
  OBVIOUS
<1>1. TagsSoFar(t)
  <2>1. \A i \in 1 .. Len(t) - 2 : i \in 1 .. Len(t) - 1
    BY <1>0
  <2> QED BY <2>1 DEF AllTagsComplete, TagsSoFar
<1>2. IsFirst(t, a, s, f)
  BY <1>1, FirstTag
<1>3. f \in a .. Len(t) + 1 /\ \A q \in a .. f - 1 : ~Tag(t, q, s)
  BY <1>2 DEF IsFirst
<1>4. ASSUME Found(t, f), TagEnd(t, f) = NoEnd PROVE FALSE
  <2> DEFINE M == {<<"<", s>>}
  <2>1. f \in a .. Len(t) /\ \E m \in M : StartsAt(t, f, m)
    <3>1. f # Len(t) + 1 /\ f = Find(t, M, a)
      BY <1>0, <1>4 DEF Found
    <3> HIDE DEF M
    <3>2. \/ f = Len(t) + 1 /\ \A p \in a .. Len(t) : \A m \in M : ~StartsAt(t, p, m)
          \/ /\ f \in a .. Len(t) /\ \E m \in M : StartsAt(t, f, m)
             /\ \A p \in a .. f - 1 : \A m \in M : ~StartsAt(t, p, m)
      BY <1>0, <3>1, FindIs
    <3> QED BY <3>1, <3>2
  <2>2. f \in Nat \ {0}
    BY <1>0, <2>1
  <2>3. f + 1 <= Len(t) /\ t[f] = "<" /\ t[f + 1] = s
    BY <2>1, <2>2, TwoSymbols
  <2>4. f \in 1 .. Len(t) - 1
    BY <1>0, <2>2, <2>3
  <2>5. f + 2 <= Len(t) /\ t[f + 2] = ">"
    BY <2>3, <2>4 DEF AllTagsComplete
  <2>6. f + 2 \in f .. Len(t) /\ f \in 1 .. Len(t) + 1
    BY <1>0, <2>2, <2>5
  <2> QED BY <1>4, <2>5, <2>6, SomeEnd
<1>5. Found(t, f) => /\ f \in 1 .. Len(t) /\ Tag(t, f, s)
                     /\ After(t, f) = SkipNewlines(t, f + 3)
  BY <1>2, <1>4 DEF IsFirst, After
<1>6. ~Found(t, f) => f = Len(t) + 1
  BY <1>0, <1>3 DEF Found
<1> QED BY <1>3, <1>5, <1>6 DEF IsNext

NoToolsIn(t) == \A i \in DOMAIN t : t[i] \notin {"t", "/t", "f", "/f"}

LEMMA NoCall ==
    ASSUME NEW t \in Seq(STRING), NoToolsIn(t), NEW a \in 1 .. Len(t) + 1
    PROVE  Find(t, OpenTool, a) = Len(t) + 1
<1> DEFINE M == OpenTool
           f == Find(t, M, a)
<1>0. Len(t) \in Nat /\ a \in Nat
  OBVIOUS
<1>1. \/ f = Len(t) + 1
      \/ f \in a .. Len(t) /\ \E m \in M : StartsAt(t, f, m)
  <2> HIDE DEF M
  <2> QED BY <1>0, FindIs
<1> HIDE DEF f
<1>2. CASE f \in a .. Len(t) /\ \E m \in M : StartsAt(t, f, m)
  <2>1. f \in Nat \ {0}
    BY <1>0, <1>2
  <2>2. StartsAt(t, f, <<"<", "t">>) \/ StartsAt(t, f, <<"<", "f">>)
    BY <1>2 DEF OpenTool, OpenCall, OpenFunction
  <2>3. f + 1 <= Len(t) /\ t[f + 1] \in {"t", "f"}
    BY <2>1, <2>2, TwoSymbols
  <2>4. f + 1 \in DOMAIN t
    BY <1>0, <2>1, <2>3
  <2> QED BY <2>3, <2>4 DEF NoToolsIn
<1> QED BY <1>1, <1>2 DEF f

Outside(t, p) == p = Len(t) + 1 \/ (Border(t, p) /\ ~Thinks(t, p))

\* One turn of the loop, when those behind it are right.
LEMMA ExtractTurn ==
    ASSUME NEW t \in Seq(STRING), AllTagsComplete(t), NoToolsIn(t),
           NEW r, \A p \in 1 .. Len(t) + 1 : r[p] = Extracted(t, r, p),
           NEW p \in 1 .. Len(t) + 1, Outside(t, p),
           \A d \in p + 1 .. Len(t) + 1 : Outside(t, d) => RightFrom(t, r[d], d)
    PROVE  RightFrom(t, r[p], p)
<1> DEFINE end == Len(t) + 1
           f == ThoughtAt(t, p)
<1>0. Len(t) \in Nat /\ p \in Nat \ {0} /\ end \in Nat /\ p <= end /\ p \in 1 .. p
  OBVIOUS
<1>1. /\ f \in p .. Len(t) + 1
      /\ \A q \in p .. f - 1 : ~Tag(t, q, "k")
      /\ Found(t, f) => /\ f \in 1 .. Len(t) /\ Tag(t, f, "k")
                        /\ After(t, f) = SkipNewlines(t, f + 3)
      /\ ~Found(t, f) => f = end
  <2> DEFINE s == "k"
  <2>1. s \in {"k", "/k"} /\ f = Find(t, {<<"<", s>>}, p)
    BY DEF ThoughtAt, OpenThink
  <2> HIDE DEF s, f
  <2>2. IsNext(t, p, s, f)
    BY <2>1, CompleteTag
  <2> QED BY <2>2 DEF s, IsNext
<1>2. r[p] = Extracted(t, r, p)
  OBVIOUS
<1>3. CASE ~Found(t, f)
  <2>1. r[p].content = Span(p, end) /\ r[p].reasoning = <<>>
    BY <1>2, <1>3 DEF Extracted
  <2> DEFINE e == <<>>
  <2>2. Span(p, end) = Span(p, end) \o e
    <3>1. Span(p, end) \in Seq(Nat)
      BY <1>0, SpanIs
    <3> QED BY <3>1
  <2>3. Placed(t, e, end) /\ SolidIn(t, e) = {} /\ Placed(t, e, p)
    BY <1>0, EmptyPlaced
  <2> HIDE DEF e
  <2>4. Placed(t, Span(p, end), p) /\ SolidIn(t, Span(p, end)) = Solids(t, p, end) \cup {}
    <3>1. end \in p .. Len(t) + 1 /\ end \in end .. Len(t) + 1
      BY <1>0
    <3> HIDE DEF end
    <3>2. Joins(t, Span(p, end), p, p, end, e)
      BY <1>0, <2>2, <2>3, <3>1, SpanThen
    <3> QED BY <2>3, <3>2 DEF Joins
  <2>5. SaidFrom(t, p) = Solids(t, p, end) /\ ThoughtFrom(t, p) = {}
    <3>1. CASE p = end
      BY <1>0, <3>1 DEF SaidFrom, ThoughtFrom, Said, Thought, Solids
    <3>2. CASE p # end
      <4>1. Border(t, p) /\ ~Thinks(t, p)
        BY <3>2 DEF Outside
      <4>2. Quiet(t, p, end)
        BY <1>1, <1>3, <4>1 DEF Quiet, Awaited
      <4>3. /\ Said(t, end) = Said(t, p) \cup (IF Thinks(t, p) THEN {} ELSE Solids(t, p, end))
            /\ Thought(t, end) = Thought(t, p) \cup (IF Thinks(t, p) THEN Solids(t, p, end) ELSE {})
        BY <1>0, <4>1, <4>2, QuietSends
      <4>4. Said(t, end) = Said(t, p) \cup Solids(t, p, end) /\ Thought(t, end) = Thought(t, p)
        BY <4>1, <4>3
      <4>5. \A i \in Said(t, p) \cup Thought(t, p) : ~(i >= p)
        BY <1>0 DEF Said, Thought
      <4>6. \A i \in Solids(t, p, end) : i >= p
        BY <1>0 DEF Solids
      <4> QED BY <4>4, <4>5, <4>6 DEF SaidFrom, ThoughtFrom
    <3> QED BY <3>1, <3>2
  <2> HIDE DEF end
  <2>6. SolidIn(t, <<>>) = {} /\ Placed(t, <<>>, p)
    BY <1>0, EmptyPlaced
  <2> QED BY <2>1, <2>4, <2>5, <2>6 DEF RightFrom
<1>4. CASE Found(t, f)
  <2> DEFINE c == BodyAt(t, p)
             g == ThoughtEnds(t, p)
             d == NextAt(t, p)
  <2>1. /\ r[p].content = Span(p, f) \o r[d].content
        /\ r[p].reasoning = Span(c, StopAt(t, p)) \o r[d].reasoning
    BY <1>2, <1>4 DEF Extracted
  <2>2. f \in 1 .. Len(t) /\ Tag(t, f, "k") /\ After(t, f) = SkipNewlines(t, f + 3) /\ f \in Nat
        /\ p <= f /\ f \in p .. Len(t) + 1
    BY <1>0, <1>1, <1>4
  <2>3. c = SkipNewlines(t, f + 3)
    BY <2>2 DEF BodyAt
  <2>4. Border(t, p) /\ ~Thinks(t, p)
    BY <1>0, <2>2 DEF Outside
  <2>5. d \in p + 1 .. Len(t) + 1
    BY <1>4, NextIs
  <2> HIDE DEF f
  <2>6. Quiet(t, p, f)
    BY <1>1, <2>4 DEF Quiet, Awaited
  <2>7. ~Thinks(t, f) /\ Switch(t, f)
    <3>1. f \in p .. f
      BY <1>0, <2>2
    <3>2. Thinks(t, f) <=> Thinks(t, p)
      BY <1>0, <2>2, <2>4, <2>6, <3>1, QuietReading
    <3> QED BY <2>2, <2>4, <3>2 DEF Switch, Awaited
  <2> HIDE DEF c
  <2>8. /\ c \in f + 3 .. Len(t) + 1 /\ Thinks(t, c) /\ Border(t, c)
        /\ Said(t, c) = Said(t, f) /\ Thought(t, c) = Thought(t, f)
    BY <2>2, <2>3, <2>7, SwitchReading, SwitchSends
  <2>9. Said(t, f) = Said(t, p) \cup Solids(t, p, f) /\ Thought(t, f) = Thought(t, p)
    <3>1. /\ Said(t, f) = Said(t, p) \cup (IF Thinks(t, p) THEN {} ELSE Solids(t, p, f))
          /\ Thought(t, f) = Thought(t, p) \cup (IF Thinks(t, p) THEN Solids(t, p, f) ELSE {})
      BY <1>0, <2>2, <2>4, <2>6, QuietSends
    <3> QED BY <2>4, <3>1
  <2>10. c \in Nat \ {0} /\ c \in 1 .. Len(t) + 1 /\ p <= c
    BY <1>0, <2>2, <2>8
  <2>11. /\ g \in c .. Len(t) + 1
         /\ \A q \in c .. g - 1 : ~Tag(t, q, "/k")
         /\ Found(t, g) => /\ g \in 1 .. Len(t) /\ Tag(t, g, "/k")
                           /\ After(t, g) = SkipNewlines(t, g + 3)
         /\ ~Found(t, g) => g = end
    <3> DEFINE s == "/k"
    <3>1. s \in {"k", "/k"} /\ g = Find(t, {<<"<", s>>}, c)
      BY DEF ThoughtEnds, CloseThink, c
    <3> HIDE DEF s, g
    <3>2. IsNext(t, c, s, g)
      BY <2>10, <3>1, CompleteTag
    <3> QED BY <3>2 DEF s, IsNext
  <2>12. /\ g \in Nat /\ c <= g /\ g <= Len(t) + 1
    BY <1>0, <2>10, <2>11
  <2>13. CallAt(t, p) = Len(t) + 1
    BY <2>10, NoCall DEF CallAt, c
  <2>14. StopAt(t, p) = g /\ d = IF Found(t, g) THEN After(t, g) ELSE Len(t) + 1
    <3>1. ~(CallAt(t, p) < g)
      BY <1>0, <2>12, <2>13
    <3> QED BY <3>1 DEF StopAt, NextAt
  <2> HIDE DEF g
  <2>15. Quiet(t, c, g)
    BY <2>8, <2>11 DEF Quiet, Awaited
  <2>16. Said(t, g) = Said(t, c) /\ Thought(t, g) = Thought(t, c) \cup Solids(t, c, g)
    <3>1. /\ Said(t, g) = Said(t, c) \cup (IF Thinks(t, c) THEN {} ELSE Solids(t, c, g))
          /\ Thought(t, g) = Thought(t, c) \cup (IF Thinks(t, c) THEN Solids(t, c, g) ELSE {})
      BY <2>8, <2>10, <2>12, <2>15, QuietSends
    <3> QED BY <2>8, <3>1
  <2>17. Outside(t, d) /\ Said(t, d) = Said(t, g) /\ Thought(t, d) = Thought(t, g) /\ g <= d
    <3>1. CASE ~Found(t, g)
      <4>1. d = end /\ g = end
        BY <2>11, <2>14, <3>1
      <4> QED BY <1>0, <4>1 DEF Outside
    <3>2. CASE Found(t, g)
      <4>1. g \in 1 .. Len(t) /\ Tag(t, g, "/k") /\ d = SkipNewlines(t, g + 3)
        BY <2>11, <2>14, <3>2
      <4>2. Thinks(t, g) /\ Switch(t, g)
        <5>1. g \in c .. g
          BY <2>10, <2>12
        <5>2. Thinks(t, g) <=> Thinks(t, c)
          BY <2>8, <2>10, <2>12, <2>15, <5>1, QuietReading
        <5> QED BY <2>8, <4>1, <5>2 DEF Switch, Awaited
      <4> HIDE DEF d
      <4>3. /\ d \in g + 3 .. Len(t) + 1 /\ ~Thinks(t, d) /\ Border(t, d)
            /\ Said(t, d) = Said(t, g) /\ Thought(t, d) = Thought(t, g)
        BY <4>1, <4>2, SwitchReading, SwitchSends
      <4>4. g <= d
        BY <2>12, <4>3
      <4> QED BY <4>3, <4>4 DEF Outside
    <3> QED BY <3>1, <3>2
  <2>18. RightFrom(t, r[d], d)
    BY <2>5, <2>17
  <2> HIDE DEF d
  <2>19. d \in Nat /\ d <= Len(t) + 1 /\ d \in g .. Len(t) + 1 /\ d \in f .. Len(t) + 1 /\ d \in p .. Len(t) + 1
    BY <1>0, <2>2, <2>5, <2>8, <2>12, <2>17
  <2>20. /\ Placed(t, r[p].content, p)
         /\ SolidIn(t, r[p].content) = Solids(t, p, f) \cup SolidIn(t, r[d].content)
    <3>1. Placed(t, r[d].content, d)
      BY <2>18 DEF RightFrom
    <3> DEFINE e == r[d].content
               x == r[p].content
    <3>2. Placed(t, e, d) /\ x = Span(p, f) \o e
      BY <2>1, <3>1
    <3> HIDE DEF e, x
    <3>3. Joins(t, x, p, p, f, e)
      BY <1>0, <2>2, <2>19, <3>2, SpanThen
    <3> QED BY <3>3 DEF Joins, e, x
  <2>21. /\ Placed(t, r[p].reasoning, p)
         /\ SolidIn(t, r[p].reasoning) = Solids(t, c, g) \cup SolidIn(t, r[d].reasoning)
    <3>1. Placed(t, r[d].reasoning, d)
      BY <2>18 DEF RightFrom
    <3>2. p \in 1 .. c /\ r[p].reasoning = Span(c, g) \o r[d].reasoning
      BY <1>0, <2>1, <2>10, <2>14
    <3> DEFINE e == r[d].reasoning
               x == r[p].reasoning
    <3>3. Placed(t, e, d) /\ x = Span(c, g) \o e
      BY <3>1, <3>2
    <3> HIDE DEF e, x
    <3>4. Joins(t, x, p, c, g, e)
      BY <2>10, <2>11, <2>19, <3>2, <3>3, SpanThen
    <3> QED BY <3>4 DEF Joins, e, x
  <2>22. /\ SaidFrom(t, p) = Solids(t, p, f) \cup SaidFrom(t, d)
         /\ ThoughtFrom(t, p) = Solids(t, c, g) \cup ThoughtFrom(t, d)
    <3> DEFINE X == Solids(t, p, f)
               Y == Solids(t, c, g)
    <3>1. Said(t, d) = Said(t, p) \cup X /\ Thought(t, d) = Thought(t, p) \cup Y
      BY <2>8, <2>9, <2>16, <2>17
    <3>2. \A i \in X \cup Y : i \in p .. d - 1
      BY <1>0, <2>2, <2>10, <2>12, <2>19 DEF Solids
    <3> HIDE DEF X, Y
    <3>3. Before(t, p, d, X, Y)
      BY <2>19, <3>1, <3>2, FromTo
    <3> QED BY <3>3 DEF X, Y, Before
  <2> QED BY <2>18, <2>20, <2>21, <2>22 DEF RightFrom
<1> QED BY <1>3, <1>4

\* What is extracted of a whole text is what there is to read.
LEMMA ExtractReads ==
    ASSUME NEW t \in Seq(STRING), AllTagsComplete(t), NoToolsIn(t)
    PROVE  /\ Extract(t).content \in Seq(Nat) /\ Increasing(Extract(t).content)
           /\ SolidIn(t, Extract(t).content) = Said(t, Len(t) + 1)
           /\ SolidIn(t, Extract(t).reasoning) = Thought(t, Len(t) + 1)
<1>0. Len(t) \in Nat
  OBVIOUS
<1>1. PICK r : Extract(t) = r[1] /\ \A p \in 1 .. Len(t) + 1 : r[p] = Extracted(t, r, p)
  BY ExtractIs
<1> DEFINE T == {i \in Nat : Outside(t, Len(t) + 1 - i)
                                 => RightFrom(t, r[Len(t) + 1 - i], Len(t) + 1 - i)}
<1>2. ASSUME NEW i \in 0 .. Len(t), \A j \in 0 .. i - 1 : j \in T PROVE i \in T
  <2> DEFINE p == Len(t) + 1 - i
  <2>1. SUFFICES ASSUME Outside(t, p) PROVE RightFrom(t, r[p], p)
    BY <1>0
  <2>2. p \in 1 .. Len(t) + 1
    BY <1>0
  <2>3. ASSUME NEW d \in p + 1 .. Len(t) + 1, Outside(t, d) PROVE RightFrom(t, r[d], d)
    <3> DEFINE j == Len(t) + 1 - d
    <3>1. j \in 0 .. i - 1 /\ Len(t) + 1 - j = d
      BY <1>0
    <3>2. j \in T
      BY <1>2, <3>1
    <3> HIDE DEF j
    <3> QED BY <2>3, <3>1, <3>2
  <2> HIDE DEF p
  <2> QED BY <1>1, <2>1, <2>2, <2>3, ExtractTurn
<1>3. T \in SUBSET Nat
  OBVIOUS
<1>4. 0 \in T
  BY <1>0, <1>2
<1>5. ASSUME NEW i \in 1 .. Len(t), EachPlace(T, i - 1) PROVE i \in T
  <2>1. i \in 0 .. Len(t)
    BY <1>0
  <2> HIDE DEF T
  <2> QED BY <1>2, <1>5, <2>1 DEF EachPlace
<1>6. Len(t) \in T
  <2> HIDE DEF T
  <2>1. EachPlace(T, Len(t))
    BY <1>0, <1>3, <1>4, <1>5, DownTo
  <2> QED BY <1>0, <2>1 DEF EachPlace
<1>7. Outside(t, 1) => RightFrom(t, r[1], 1)
  <2>1. Len(t) + 1 - Len(t) = 1
    BY <1>0
  <2> QED BY <1>6, <2>1
<1>8. Outside(t, 1)
  BY DEF Outside, Border, Thinks
<1>9. SaidFrom(t, 1) = Said(t, Len(t) + 1) /\ ThoughtFrom(t, 1) = Thought(t, Len(t) + 1)
  BY DEF SaidFrom, ThoughtFrom, Said, Thought
<1> QED BY <1>1, <1>7, <1>8, <1>9 DEF RightFrom, Placed

-----------------------------------------------------------------------------
(* When the generation ends.                                               *)

LEMMA NoCalls ==
    ASSUME NEW t \in Seq(STRING), NoToolsIn(t) PROVE ~HasCalls(t)
<1> DEFINE M == {OpenFunction}
           f == Find(t, M, 1)
<1>0. Len(t) \in Nat /\ 1 \in Nat
  OBVIOUS
<1>1. SUFFICES ASSUME Found(t, f) PROVE FALSE
  BY DEF HasCalls
<1>2. f \in 1 .. Len(t) /\ \E m \in M : StartsAt(t, f, m)
  <2>1. f # Len(t) + 1
    BY <1>0, <1>1 DEF Found
  <2> HIDE DEF M
  <2> QED BY <1>0, <2>1, FindIs
<1> HIDE DEF f
<1>3. f \in Nat \ {0} /\ StartsAt(t, f, <<"<", "f">>)
  BY <1>0, <1>2 DEF OpenFunction
<1>4. f + 1 <= Len(t) /\ t[f + 1] = "f"
  BY <1>3, TwoSymbols
<1>5. f + 1 \in DOMAIN t
  BY <1>0, <1>3, <1>4
<1> QED BY <1>4, <1>5 DEF NoToolsIn

\* What the property asks of the text and the request.
LEMMA InScope ==
    ASSUME text \in Seq(STRING), TagsComplete, NoTools, defer => LeadingThoughtOnly
    PROVE  Fine(text, defer) /\ AllTagsComplete(text) /\ NoToolsIn(text)
<1>0. Len(text) \in Nat
  OBVIOUS
<1>1. AllTagsComplete(text) /\ NoToolsIn(text)
  BY DEF TagsComplete, NoTools, AllTagsComplete, NoToolsIn
<1>2. TagsSoFar(text)
  <2>1. \A i \in 1 .. Len(text) - 2 : i \in 1 .. Len(text) - 1
    BY <1>0
  <2> QED BY <1>1, <2>1 DEF AllTagsComplete, TagsSoFar
<1>3. defer => \A i \in DOMAIN text : StartsAt(text, i, <<"<", "k">>) => i = 1
  BY DEF LeadingThoughtOnly
<1> QED BY <1>1, <1>2, <1>3 DEF NoTools, Fine

\* What is sent at last completes both channels.
LEMMA FlushMatches ==
    ASSUME SentOnce, Reading, Flush, text' = text,
           TagsComplete, NoTools, defer => LeadingThoughtOnly
    PROVE  /\ Increasing(content') /\ SolidIn(text, content') = Said(text, End)
           /\ SolidIn(text, reasoning') = Thought(text, End)
<1> DEFINE tail == IF defer /\ ~HasCalls(text) /\ check # "IS_CONTENT"
                     THEN Extract(text).content ELSE <<>>
           more == IF mode = "CONTENT" /\ check = "IS_CONTENT" THEN Span(at, End) ELSE <<>>
<1>1. /\ state = "idle" /\ content' = content \o more \o tail
      /\ reasoning' = IF mode = "THINKING" THEN reasoning \o Span(at, End) ELSE reasoning
  BY DEF Flush, SendReasoning
<1>2. /\ text \in Seq(STRING) /\ at \in 1 .. Len(text) + 1 /\ Len(text) \in Nat
      /\ at \in Nat \ {0} /\ End = Len(text) + 1 /\ End \in Nat /\ at <= End
      /\ End \in at .. Len(text) + 1
      /\ SentBelow(content, at) /\ SentBelow(reasoning, at)
      /\ mode \in {"CONTENT", "THINKING"}
  BY <1>1 DEF SentOnce, End
<1>3. Fine(text, defer) /\ AllTagsComplete(text) /\ NoToolsIn(text)
  BY <1>2, InScope
<1>4. ReadWell
  BY <1>1, <1>3 DEF Reading
<1>5. Border(text, at) /\ Quiet(text, at, End)
  <2>1. \A q \in at .. End - 1 : q \in at .. Len(text)
    BY <1>2
  <2> QED BY <1>1, <1>4, <2>1 DEF ReadWell, Quiet
<1>6. /\ Said(text, End) = Said(text, at)
             \cup (IF Thinks(text, at) THEN {} ELSE Solids(text, at, End))
      /\ Thought(text, End) = Thought(text, at)
             \cup (IF Thinks(text, at) THEN Solids(text, at, End) ELSE {})
  BY <1>2, <1>5, QuietSends
<1>7. mode = "THINKING" <=> Thinks(text, at)
  BY <1>4 DEF ReadWell
<1>8. SolidIn(text, reasoning') = Thought(text, End)
  <2>1. SolidIn(text, reasoning) = Thought(text, at)
    BY <1>4 DEF ReadWell
  <2>2. SolidIn(text, reasoning \o Span(at, End))
            = SolidIn(text, reasoning) \cup Solids(text, at, End)
    BY <1>2, SolidGrows
  <2> QED BY <1>1, <1>6, <1>7, <2>1, <2>2
<1>9. Increasing(content') /\ SolidIn(text, content') = Said(text, End)
  <2>1. CASE check = "IS_CONTENT"
    <3>1. SolidIn(text, content) = Said(text, at)
      BY <1>4, <2>1 DEF ReadWell
    <3>2. CASE mode = "CONTENT"
      <4> DEFINE x == content \o Span(at, End)
      <4>1. at \in Nat \ {0} /\ at <= End /\ (End <= End \/ End <= at)
        BY <1>2
      <4>2. x = content \o Span(at, End)
        OBVIOUS
      <4> HIDE DEF x
      <4>3. SentBelow(x, End)
        BY <1>2, <4>1, <4>2, SendMore
      <4>4. SolidIn(text, x) = SolidIn(text, content) \cup Solids(text, at, End)
        <5>1. SolidIn(text, content \o Span(at, End))
                  = SolidIn(text, content) \cup Solids(text, at, End)
          BY <1>2, SolidGrows
        <5> QED BY <4>2, <5>1
      <4>5. content' = x \o <<>>
        BY <1>1, <2>1, <3>2, <4>2
      <4>6. content' = x
        BY <4>3, <4>5 DEF SentBelow
      <4> QED BY <1>6, <1>7, <3>1, <3>2, <4>3, <4>4, <4>6 DEF SentBelow
    <3>3. CASE mode = "THINKING"
      <4>1. content' = content \o <<>> \o <<>>
        BY <1>1, <2>1, <3>3
      <4>2. content' = content
        BY <1>2, <4>1 DEF SentBelow
      <4> QED BY <1>2, <1>6, <1>7, <3>1, <3>3, <4>2 DEF SentBelow
    <3> QED BY <1>2, <3>2, <3>3
  <2>2. CASE check # "IS_CONTENT"
    <3> DEFINE e == Extract(text).content
    <3>1. defer /\ content = <<>>
      BY <1>4, <2>2 DEF ReadWell
    <3>2. ~HasCalls(text)
      BY <1>2, <1>3, NoCalls
    <3>3. content' = <<>> \o <<>> \o e
      BY <1>1, <2>2, <3>1, <3>2
    <3>4. e \in Seq(Nat) /\ Increasing(e) /\ SolidIn(text, e) = Said(text, Len(text) + 1)
      BY <1>2, <1>3, ExtractReads
    <3> HIDE DEF e
    <3>5. content' = e
      BY <3>3, <3>4
    <3> QED BY <1>2, <3>4, <3>5
  <2> QED BY <2>1, <2>2
<1> QED BY <1>8, <1>9

LEMMA ServeMatchesStep ==
    SentOnce /\ Reading /\ ServeMatchesExtraction /\ [Next]_vars => ServeMatchesExtraction'
<1> SUFFICES ASSUME SentOnce, Reading, ServeMatchesExtraction, [Next]_vars,
                    (state = "done")', TagsComplete', NoTools', (defer => LeadingThoughtOnly)'
             PROVE  (/\ Matches(content, Extract(text).content)
                     /\ Matches(reasoning, Extract(text).reasoning))'
  BY DEF ServeMatchesExtraction
<1>1. \/ Token \/ UNCHANGED <<text, serveVars>> \/ (ServeWork /\ UNCHANGED text)
      \/ (LoseClient /\ UNCHANGED text) \/ (Flush /\ UNCHANGED text)
  BY DEF Next, Step, Ended, vars
<1>2. ~Token /\ ~LoseClient
  BY DEF Token, OnToken, LoseClient
<1>3. ~ServeWork
  <2>1. SUFFICES ASSUME ServeWork PROVE FALSE
    OBVIOUS
  <2>2. state' \in {"idle", "work"}
    BY <2>1, ServeTypes DEF ServeWork
  <2> QED BY <2>2
<1>4. UNCHANGED text
  BY <1>1, <1>2, <1>3
<1>5. TagsComplete /\ NoTools
  BY <1>4 DEF TagsComplete, NoTools
<1>6. CASE UNCHANGED <<text, serveVars>>
  <2>1. state = "done" /\ (defer => LeadingThoughtOnly)
    BY <1>6 DEF serveVars, LeadingThoughtOnly
  <2>2. Matches(content, Extract(text).content) /\ Matches(reasoning, Extract(text).reasoning)
    BY <1>5, <2>1 DEF ServeMatchesExtraction
  <2> QED BY <1>6, <2>2 DEF serveVars, Matches, Solid
<1>7. CASE Flush
  <2>1. defer => LeadingThoughtOnly
    BY <1>4, <1>7 DEF Flush, LeadingThoughtOnly
  <2>2. /\ Increasing(content') /\ SolidIn(text, content') = Said(text, End)
        /\ SolidIn(text, reasoning') = Thought(text, End)
    BY <1>4, <1>5, <1>7, <2>1, FlushMatches
  <2>3. text \in Seq(STRING) /\ AllTagsComplete(text) /\ NoToolsIn(text)
    <3>1. text \in Seq(STRING)
      BY DEF SentOnce
    <3> QED BY <1>5, <2>1, <3>1, InScope
  <2>4. /\ SolidIn(text, Extract(text).content) = Said(text, End)
        /\ SolidIn(text, Extract(text).reasoning) = Thought(text, End)
    BY <2>3, ExtractReads DEF End
  <2>5. Increasing(reasoning')
    <3>1. CASE mode = "THINKING"
      <4> DEFINE x == reasoning \o Span(at, End)
      <4>1. /\ at \in Nat \ {0} /\ End \in Nat /\ at <= End /\ (End <= End \/ End <= at)
            /\ SentBelow(reasoning, at)
        BY <1>7 DEF SentOnce, Flush, End
      <4>2. x = reasoning \o Span(at, End)
        OBVIOUS
      <4> HIDE DEF x
      <4>3. SentBelow(x, End)
        BY <4>1, <4>2, SendMore
      <4>4. reasoning' = x
        BY <1>7, <3>1, <4>2 DEF Flush, SendReasoning
      <4> QED BY <4>3, <4>4 DEF SentBelow
    <3>2. CASE mode # "THINKING"
      <4>1. reasoning' = reasoning /\ SentBelow(reasoning, at)
        BY <1>7, <3>2 DEF Flush, SentOnce
      <4> QED BY <4>1 DEF SentBelow
    <3> QED BY <3>1, <3>2
  <2>6. \A s : SolidIn(text, s) = {s[i] : i \in DOMAIN s} \ {i \in DOMAIN text : text[i] = "n"}
    BY DEF SolidIn, Positions, Breaks
  <2>7. /\ Solid(content)' = SolidIn(text, content')
        /\ Solid(reasoning)' = SolidIn(text, reasoning')
        /\ Solid(Extract(text).content)' = SolidIn(text, Extract(text).content)
        /\ Solid(Extract(text).reasoning)' = SolidIn(text, Extract(text).reasoning)
    BY <1>4, <2>6 DEF Solid
  <2> QED BY <2>2, <2>4, <2>5, <2>7 DEF Matches
<1> QED BY <1>1, <1>2, <1>3, <1>6, <1>7

\* In the end the channels of the stream carry what
\* extract_reasoning_and_content() makes of the whole text, for any tokens: the
\* on_token callback and the flush after generate() (cmd_serve).
THEOREM ServeMatchesCorrect == Spec => []ServeMatchesExtraction
<1>1. Init => ServeMatchesExtraction
  BY DEF Init, ServeInit, ServeMatchesExtraction
<1>2. Spec => [](SentOnce /\ Reading /\ ServeMatchesExtraction)
  BY <1>1, SentOnceInit, SentOnceStep, ReadInit, ReadStep, ServeMatchesStep, PTL DEF Spec
<1> QED BY <1>2, PTL

-----------------------------------------------------------------------------
(* What an orderly text is made of.                                        *)

LEMMA StartsIs ==
    ASSUME NEW t \in Seq(STRING), NEW p \in Nat \ {0}, NEW S, NEW m \in Seq(S), Len(m) > 0
    PROVE  StartsAt(t, p, m) <=> /\ p + Len(m) - 1 <= Len(t)
                                 /\ \A i \in 1 .. Len(m) : t[p + i - 1] = m[i]
<1> DEFINE k == Len(m)
           r == p + k - 1
           u == SubSeq(t, p, r)
<1>0. Len(t) \in Nat /\ k \in Nat /\ k > 0 /\ r \in Nat
  OBVIOUS
<1>1. CASE r <= Len(t)
  <2>1. p \in 1 .. Len(t) + 1 /\ r \in p - 1 .. Len(t) /\ r - p + 1 = k
    BY <1>0, <1>1
  <2>2. u = [i \in 1 .. r - p + 1 |-> t[p + i - 1]]
    <3> HIDE DEF r
    <3> QED BY <1>0, <2>1, SubSeqProperties
  <2>3. u = [i \in 1 .. k |-> t[p + i - 1]]
    BY <2>1, <2>2
  <2>4. m = [i \in 1 .. k |-> m[i]]
    OBVIOUS
  <2> HIDE DEF k, u
  <2>5. u = m <=> \A i \in 1 .. k : t[p + i - 1] = m[i]
    <3>1. ASSUME u = m PROVE \A i \in 1 .. k : t[p + i - 1] = m[i]
      <4>1. \A i \in 1 .. k : u[i] = t[p + i - 1]
        BY <2>3
      <4> QED BY <3>1, <4>1
    <3>2. ASSUME \A i \in 1 .. k : t[p + i - 1] = m[i] PROVE u = m
      BY <2>3, <2>4, <3>2
    <3> QED BY <3>1, <3>2
  <2> QED BY <1>1, <2>5 DEF StartsAt, u, k
<1>2. CASE ~(r <= Len(t))
  BY <1>2 DEF StartsAt
<1> QED BY <1>1, <1>2

LEMMA ThreeSymbols ==
    ASSUME NEW t \in Seq(STRING), NEW p \in Nat \ {0}, NEW s
    PROVE  StartsAt(t, p, <<"<", s, ">">>)
               <=> p + 2 <= Len(t) /\ t[p] = "<" /\ t[p + 1] = s /\ t[p + 2] = ">"
<1> DEFINE m == <<"<", s, ">">>
           S == {"<", s, ">"}
<1>1. m \in Seq(S)
  <2>1. "<" \in S /\ s \in S /\ ">" \in S
    OBVIOUS
  <2> HIDE DEF S
  <2> QED BY <2>1
<1>a. Len(m) = 3 /\ p + 3 - 1 = p + 2 /\ p + 1 - 1 = p /\ p + 2 - 1 = p + 1 /\ 3 > 0
  OBVIOUS
<1>2. m[1] = "<" /\ m[2] = s /\ m[3] = ">"
  OBVIOUS
<1> HIDE DEF m, S
<1>3. StartsAt(t, p, m) <=> p + 3 - 1 <= Len(t) /\ \A i \in 1 .. 3 : t[p + i - 1] = m[i]
  <2>1. StartsAt(t, p, m) <=> /\ p + Len(m) - 1 <= Len(t)
                              /\ \A i \in 1 .. Len(m) : t[p + i - 1] = m[i]
    <3>1. Len(m) > 0
      BY <1>a
    <3> QED BY <1>1, <3>1, StartsIs
  <2> QED BY <1>a, <2>1
<1>4. (\A i \in 1 .. 3 : t[p + i - 1] = m[i])
          <=> t[p] = m[1] /\ t[p + 1] = m[2] /\ t[p + 2] = m[3]
  <2>1. 1 .. 3 = {1, 2, 3}
    OBVIOUS
  <2> QED BY <1>a, <2>1
<1> QED BY <1>a, <1>2, <1>3, <1>4 DEF m

LEMMA FourSymbols ==
    ASSUME NEW t \in Seq(STRING), NEW p \in Nat \ {0}, StartsAt(t, p, <<"<", "f", "a", ">">>)
    PROVE  p + 3 <= Len(t) /\ t[p] = "<" /\ t[p + 1] = "f" /\ t[p + 2] = "a" /\ t[p + 3] = ">"
<1> DEFINE m == <<"<", "f", "a", ">">>
           S == {"<", "f", "a", ">"}
<1>1. m \in Seq(S)
  <2>1. "<" \in S /\ "f" \in S /\ "a" \in S /\ ">" \in S
    OBVIOUS
  <2> HIDE DEF S
  <2> QED BY <2>1
<1>a. /\ Len(m) = 4 /\ p + 4 - 1 = p + 3 /\ p + 1 - 1 = p
      /\ p + 2 - 1 = p + 1 /\ p + 3 - 1 = p + 2 /\ 4 > 0
  OBVIOUS
<1>2. m[1] = "<" /\ m[2] = "f" /\ m[3] = "a" /\ m[4] = ">"
  OBVIOUS
<1>3. StartsAt(t, p, m)
  OBVIOUS
<1> HIDE DEF m, S
<1>4. p + 4 - 1 <= Len(t) /\ \A i \in 1 .. 4 : t[p + i - 1] = m[i]
  <2>1. StartsAt(t, p, m) <=> /\ p + Len(m) - 1 <= Len(t)
                              /\ \A i \in 1 .. Len(m) : t[p + i - 1] = m[i]
    <3>1. Len(m) > 0
      BY <1>a
    <3> QED BY <1>1, <3>1, StartsIs
  <2> QED BY <1>a, <1>3, <2>1
<1>5. 1 \in 1 .. 4 /\ 2 \in 1 .. 4 /\ 3 \in 1 .. 4 /\ 4 \in 1 .. 4
  OBVIOUS
<1>6. t[p] = m[1] /\ t[p + 1] = m[2] /\ t[p + 2] = m[3] /\ t[p + 3] = m[4]
  BY <1>a, <1>4, <1>5
<1> QED BY <1>a, <1>2, <1>4, <1>6

\* Every "<" begins a tag, and every tag is whole.
Tidy(t) ==
    \A i \in DOMAIN t :
        /\ t[i] = "<" => i + 1 \in DOMAIN t /\ t[i + 1] \in Tags
        /\ t[i] \in Tags =>
              /\ i - 1 \in DOMAIN t /\ t[i - 1] = "<" /\ i + 1 \in DOMAIN t
              /\ \/ t[i + 1] = ">"
                 \/ t[i] = "f" /\ t[i + 1] = "a" /\ i + 2 \in DOMAIN t /\ t[i + 2] = ">"

Thinking(t, i) == IsOpen(t, "k", "/k", i)
Calling(t, i) == IsOpen(t, "t", "/t", i)
Naming(t, i) == IsOpen(t, "f", "/f", i)

Nests(t) ==
    \A i \in DOMAIN t :
        /\ t[i] \in {"k", "t", "f"} => ~Thinking(t, i) /\ ~Naming(t, i)
        /\ t[i] \in {"k", "t"} => ~Calling(t, i)
        /\ t[i] = "/k" => Thinking(t, i)
        /\ t[i] = "/f" => Naming(t, i)
        /\ t[i] = "/t" => Calling(t, i) /\ ~Naming(t, i)

LEMMA OrderlyIs == ASSUME NEW t \in Seq(STRING), Orderly(t) PROVE Tidy(t) /\ Nests(t)
<1>0. Len(t) \in Nat /\ DOMAIN t = 1 .. Len(t)
  OBVIOUS
<1>1. Nests(t)
  BY DEF Orderly, Nests, Thinking, Calling, Naming
<1>2. ASSUME NEW i \in DOMAIN t, t[i] = "<"
      PROVE  /\ i + 1 \in DOMAIN t /\ t[i + 1] \in Tags /\ i + 2 \in DOMAIN t
             /\ \/ t[i + 2] = ">"
                \/ t[i + 1] = "f" /\ t[i + 2] = "a" /\ i + 3 \in DOMAIN t /\ t[i + 3] = ">"
  <2>0. i \in Nat \ {0}
    BY <1>0
  <2>1. \/ \E tag \in Tags : StartsAt(t, i, <<"<", tag, ">">>)
        \/ StartsAt(t, i, <<"<", "f", "a", ">">>)
    BY <1>2 DEF Orderly
  <2>2. CASE \E tag \in Tags : StartsAt(t, i, <<"<", tag, ">">>)
    <3>1. PICK tag \in Tags : StartsAt(t, i, <<"<", tag, ">">>)
      BY <2>2
    <3>3. i + 2 <= Len(t) /\ t[i + 1] = tag /\ t[i + 2] = ">"
      BY <2>0, <3>1, ThreeSymbols
    <3> QED BY <1>0, <2>0, <3>3
  <2>3. CASE StartsAt(t, i, <<"<", "f", "a", ">">>)
    <3>1. i + 3 <= Len(t) /\ t[i + 1] = "f" /\ t[i + 2] = "a" /\ t[i + 3] = ">"
      BY <2>0, <2>3, FourSymbols
    <3> QED BY <1>0, <2>0, <3>1 DEF Tags
  <2> QED BY <2>1, <2>2, <2>3
<1>3. ASSUME NEW i \in DOMAIN t, t[i] \in Tags
      PROVE  /\ i - 1 \in DOMAIN t /\ t[i - 1] = "<" /\ i + 1 \in DOMAIN t
             /\ \/ t[i + 1] = ">"
                \/ t[i] = "f" /\ t[i + 1] = "a" /\ i + 2 \in DOMAIN t /\ t[i + 2] = ">"
  <2>1. i > 1 /\ t[i - 1] = "<"
    BY <1>3 DEF Orderly
  <2>2. i - 1 \in DOMAIN t /\ (i - 1) + 1 = i /\ (i - 1) + 2 = i + 1 /\ (i - 1) + 3 = i + 2
    BY <1>0, <2>1
  <2> QED BY <1>2, <2>1, <2>2
<1> QED BY <1>1, <1>2, <1>3 DEF Tidy
-----------------------------------------------------------------------------
(* Searching the beginning of an orderly text.                             *)

Prefix(x, t) ==
    /\ x \in Seq(STRING) /\ t \in Seq(STRING)
    /\ Len(x) <= Len(t) /\ \A i \in 1 .. Len(x) : t[i] = x[i]

LEMMA PrefixIs ==
    ASSUME NEW x, NEW t, Prefix(x, t)
    PROVE  /\ x \in Seq(STRING) /\ t \in Seq(STRING) /\ Len(x) \in Nat /\ Len(t) \in Nat
           /\ DOMAIN t = 1 .. Len(t) /\ Len(x) <= Len(t)
           /\ \A i \in 1 .. Len(x) : t[i] = x[i] /\ i \in DOMAIN t
BY DEF Prefix

LEMMA OpenMarks ==
    ASSUME NEW x, NEW t, Prefix(x, t), Tidy(t), NEW p \in Nat \ {0}, NEW s \in Tags
    PROVE  StartsAt(x, p, <<"<", s>>) <=> p + 1 <= Len(x) /\ t[p + 1] = s
<1>1. StartsAt(x, p, <<"<", s>>) <=> p + 1 <= Len(x) /\ x[p] = "<" /\ x[p + 1] = s
  BY TwoSymbols, PrefixIs
<1>2. ASSUME p + 1 <= Len(x) PROVE x[p + 1] = t[p + 1] /\ x[p] = t[p] /\ p + 1 \in DOMAIN t
  BY <1>2, PrefixIs
<1>3. ASSUME p + 1 <= Len(x), t[p + 1] = s PROVE t[p] = "<"
  <2>1. t[p + 1] \in Tags /\ p + 1 \in DOMAIN t /\ (p + 1) - 1 = p
    BY <1>2, <1>3
  <2> QED BY <2>1 DEF Tidy
<1> QED BY <1>1, <1>2, <1>3

LEMMA CloseMarks ==
    ASSUME NEW x, NEW t, Prefix(x, t), Tidy(t), NEW p \in Nat \ {0}, NEW s \in {"/k", "/t", "/f"}
    PROVE  StartsAt(x, p, <<"<", s, ">">>) <=> p + 2 <= Len(x) /\ t[p + 1] = s
<1>1. StartsAt(x, p, <<"<", s, ">">>)
          <=> p + 2 <= Len(x) /\ x[p] = "<" /\ x[p + 1] = s /\ x[p + 2] = ">"
  BY ThreeSymbols, PrefixIs
<1>2. ASSUME p + 2 <= Len(x)
      PROVE  /\ x[p + 2] = t[p + 2] /\ x[p + 1] = t[p + 1] /\ x[p] = t[p]
             /\ p + 1 \in DOMAIN t
  <2>1. Len(x) \in Nat /\ p \in 1 .. Len(x) /\ p + 1 \in 1 .. Len(x) /\ p + 2 \in 1 .. Len(x)
    BY <1>2, PrefixIs
  <2> QED BY <2>1, PrefixIs
<1>3. ASSUME p + 2 <= Len(x), t[p + 1] = s PROVE t[p] = "<" /\ t[p + 2] = ">"
  <2>1. t[p + 1] \in Tags /\ t[p + 1] # "f" /\ p + 1 \in DOMAIN t
    BY <1>2, <1>3 DEF Tags
  <2>2. (p + 1) - 1 = p /\ (p + 1) + 1 = p + 2
    OBVIOUS
  <2> QED BY <2>1, <2>2 DEF Tidy
<1> QED BY <1>1, <1>2, <1>3

\* The markers are those of the names, and reach r symbols behind their "<".
Names(x, t, markers, names, r) ==
    \A p \in Nat \ {0} : (\E m \in markers : StartsAt(x, p, m))
                             <=> p + r <= Len(x) /\ t[p + 1] \in names

\* What is held back for these names.
Holds(markers, names, r) ==
    \A s \in names : \E m \in markers :
        (\E S : m \in Seq(S)) /\ Len(m) = r + 1 /\ m[1] = "<" /\ m[2] = s

LEMMA BeginsIs ==
    ASSUME NEW x \in Seq(STRING), NEW p \in 1 .. Len(x), NEW k, k = Len(x) + 1 - p,
           NEW S, NEW m \in Seq(S), k < Len(m), \A i \in 1 .. k : x[p + i - 1] = m[i]
    PROVE  Begins(x, k, m)
<1>0. Len(x) \in Nat /\ p \in Nat /\ k \in Nat \ {0} /\ Len(x) - k + 1 = p /\ Len(m) \in Nat
      /\ Len(x) - p + 1 = k
  OBVIOUS
<1> DEFINE u == SubSeq(x, p, Len(x))
           v == SubSeq(m, 1, k)
<1>1. u = [i \in 1 .. k |-> x[p + i - 1]]
  <2>1. p \in 1 .. Len(x) + 1 /\ Len(x) \in p - 1 .. Len(x)
    BY <1>0
  <2>2. u = [i \in 1 .. Len(x) - p + 1 |-> x[p + i - 1]]
    BY <1>0, <2>1, SubSeqProperties
  <2> QED BY <1>0, <2>2
<1>2. v = [i \in 1 .. k |-> m[i]]
  <2>1. 1 \in 1 .. Len(m) + 1 /\ k \in 1 - 1 .. Len(m) /\ k - 1 + 1 = k
    BY <1>0
  <2>2. v = [i \in 1 .. k - 1 + 1 |-> m[1 + i - 1]]
    BY <2>1, SubSeqProperties
  <2>3. \A i \in 1 .. k : 1 + i - 1 = i
    BY <1>0
  <2>4. v = [i \in 1 .. k |-> m[1 + i - 1]]
    BY <2>1, <2>2
  <2> QED BY <2>3, <2>4
<1>3. u = v
  BY <1>1, <1>2
<1> QED BY <1>0, <1>3 DEF Begins

StopIs(x, f, from, held) == IF Found(x, f) THEN f ELSE (Len(x) + 1) - HeldBack(x, from, held)

\* A search up to what has to be held back passes over none of the names.
Searched(x, t, names, r, from, f, stop) ==
    /\ f \in from .. Len(x) + 1 /\ stop \in from .. Len(x) + 1
    /\ Found(x, f) => f \in 1 .. Len(x) /\ f + r <= Len(x) /\ t[f + 1] \in names /\ stop = f
    /\ ~Found(x, f) => f = Len(x) + 1
    /\ \A n \in DOMAIN t : n \in from + 1 .. stop => t[n] \notin names
    /\ \A n \in from + 1 .. f : n + r <= Len(x) + 1 => t[n] \notin names

LEMMA SearchIs ==
    ASSUME NEW x, NEW t, Prefix(x, t), Tidy(t), NEW from \in 1 .. Len(x) + 1,
           NEW markers, NEW names, names \subseteq Tags, NEW r \in {1, 2}, Names(x, t, markers, names, r),
           NEW held, Holds(held, names, r),
           NEW f, f = Find(x, markers, from), NEW stop, stop = StopIs(x, f, from, held)
    PROVE  Searched(x, t, names, r, from, f, stop)
<1>0. /\ x \in Seq(STRING) /\ t \in Seq(STRING) /\ Len(x) \in Nat /\ Len(t) \in Nat
      /\ DOMAIN t = 1 .. Len(t) /\ Len(x) <= Len(t)
      /\ \A i \in 1 .. Len(x) : t[i] = x[i] /\ i \in DOMAIN t
  BY PrefixIs
<1>1. from \in Nat \ {0} /\ from <= Len(x) + 1 /\ r \in Nat
  BY <1>0
<1>2. \/ f = Len(x) + 1 /\ \A p \in from .. Len(x) : \A m \in markers : ~StartsAt(x, p, m)
      \/ /\ f \in from .. Len(x) /\ \E m \in markers : StartsAt(x, f, m)
         /\ \A p \in from .. f - 1 : \A m \in markers : ~StartsAt(x, p, m)
  BY <1>0, <1>1, FindIs
<1>3. f \in from .. Len(x) + 1 /\ f \in Nat
  BY <1>0, <1>1, <1>2
<1>4. Found(x, f) => f \in 1 .. Len(x) /\ f + r <= Len(x) /\ t[f + 1] \in names /\ stop = f
  <2>1. SUFFICES ASSUME Found(x, f)
                 PROVE  f \in 1 .. Len(x) /\ f + r <= Len(x) /\ t[f + 1] \in names /\ stop = f
    OBVIOUS
  <2>2. f \in from .. Len(x) /\ \E m \in markers : StartsAt(x, f, m)
    BY <1>0, <1>2, <2>1 DEF Found
  <2>3. f \in Nat \ {0} /\ f \in 1 .. Len(x)
    BY <1>0, <1>1, <2>2
  <2> QED BY <2>1, <2>2, <2>3 DEF Names, StopIs
<1>5. ~Found(x, f) => f = Len(x) + 1
  BY <1>0, <1>3 DEF Found
<1>6. \A p \in from .. f - 1 : p \in Nat \ {0} /\ (p + r <= Len(x) => t[p + 1] \notin names)
  <2> TAKE p \in from .. f - 1
  <2>1. p \in Nat \ {0} /\ p \in from .. Len(x)
    BY <1>0, <1>1, <1>3
  <2>2. ~\E m \in markers : StartsAt(x, p, m)
    BY <1>2, <2>1
  <2> QED BY <2>1, <2>2 DEF Names
<1>7. ASSUME NEW n \in from + 1 .. f, n + r <= Len(x) + 1 PROVE t[n] \notin names
  <2>1. n - 1 \in from .. f - 1 /\ (n - 1) + r <= Len(x) /\ (n - 1) + 1 = n
    BY <1>0, <1>1, <1>3, <1>7
  <2>2. t[(n - 1) + 1] \notin names
    BY <1>6, <2>1
  <2> QED BY <2>1, <2>2
<1> DEFINE h == HeldBack(x, from, held)
<1>8. RightlyHeld(x, from, held, h)
  BY <1>0, HeldIs
<1> HIDE DEF h
<1>9. stop \in from .. Len(x) + 1 /\ (~Found(x, f) => stop = (Len(x) + 1) - h)
  <2>1. h \in 0 .. Len(x) + 1 - from
    BY <1>8 DEF RightlyHeld
  <2>2. stop = IF Found(x, f) THEN f ELSE (Len(x) + 1) - h
    BY DEF StopIs, h
  <2> QED BY <1>0, <1>1, <1>3, <2>1, <2>2
<1>10. ASSUME NEW n \in DOMAIN t, n \in from + 1 .. stop, t[n] \in names PROVE FALSE
  <2> DEFINE p == n - 1
  <2>1. p \in from .. stop - 1 /\ p + 1 = n /\ p \in Nat \ {0} /\ p \in from .. Len(x)
        /\ p \in 1 .. Len(x)
    BY <1>0, <1>1, <1>9, <1>10
  <2> HIDE DEF p
  <2>2. CASE p + r <= Len(x)
    <3>1. p \in from .. f - 1
      <4>1. CASE Found(x, f)
        BY <1>4, <2>1, <4>1
      <4>2. CASE ~Found(x, f)
        BY <1>5, <1>0, <1>1, <2>1, <4>2
      <4> QED BY <4>1, <4>2
    <3> QED BY <1>6, <1>10, <2>1, <2>2, <3>1
  <2>3. CASE ~(p + r <= Len(x))
    <3>1. ~Found(x, f)
      <4>1. SUFFICES ASSUME Found(x, f) PROVE FALSE
        OBVIOUS
      <4>2. f + r <= Len(x) /\ stop = f
        BY <1>4, <4>1
      <4> QED BY <1>0, <1>1, <1>3, <2>1, <2>3, <4>2
    <3> DEFINE k == Len(x) + 1 - p
    <3>2. k \in 1 .. r /\ k \in 1 .. Len(x) + 1 - from
      BY <1>0, <1>1, <2>1, <2>3
    <3>3. PICK m \in held : (\E S : m \in Seq(S)) /\ Len(m) = r + 1 /\ m[1] = "<" /\ m[2] = t[n]
      BY <1>10 DEF Holds
    <3>4. PICK S : m \in Seq(S)
      BY <3>3
    <3>5. x[p] = "<"
      <4>1. t[n] \in Tags
        BY <1>10
      <4>2. t[n - 1] = "<"
        BY <4>1 DEF Tidy
      <4>3. n - 1 = p
        BY DEF p
      <4> QED BY <1>0, <2>1, <4>2, <4>3
    <3>6. ASSUME NEW i \in 1 .. k PROVE x[p + i - 1] = m[i]
      <4>1. i = 1 \/ i = 2
        BY <3>2
      <4>2. CASE i = 1
        BY <2>1, <3>3, <3>5, <4>2
      <4>3. CASE i = 2
        <5>1. p + i - 1 = n /\ n \in 1 .. Len(x)
          BY <1>0, <2>1, <3>2, <4>3
        <5> QED BY <1>0, <3>3, <4>3, <5>1
      <4> QED BY <4>1, <4>2, <4>3
    <3>7. k < Len(m)
      BY <1>1, <3>2, <3>3
    <3>8. k = Len(x) + 1 - p
      OBVIOUS
    <3> HIDE DEF k
    <3>9. Begins(x, k, m)
      BY <1>0, <2>1, <3>4, <3>6, <3>7, <3>8, BeginsIs
    <3>10. k <= h
      BY <1>8, <3>2, <3>9 DEF RightlyHeld
    <3>11. h \in Nat
      BY <1>0, <1>1, <1>8 DEF RightlyHeld
    <3> QED BY <1>0, <1>9, <2>1, <3>1, <3>2, <3>8, <3>10, <3>11
  <2> QED BY <2>2, <2>3
<1> QED BY <1>3, <1>4, <1>5, <1>7, <1>9, <1>10 DEF Searched
LEMMA MarkerIs ==
    ASSUME NEW s
    PROVE  /\ \E S : <<"<", s>> \in Seq(S)
           /\ \E S : <<"<", s, ">">> \in Seq(S)
           /\ Len(<<"<", s>>) = 1 + 1 /\ <<"<", s>>[1] = "<" /\ <<"<", s>>[2] = s
           /\ Len(<<"<", s, ">">>) = 2 + 1 /\ <<"<", s, ">">>[1] = "<" /\ <<"<", s, ">">>[2] = s
<1> DEFINE S == {"<", s, ">"}
<1>1. <<"<", s>> \in Seq(S) /\ <<"<", s, ">">> \in Seq(S)
  <2>1. "<" \in S /\ s \in S /\ ">" \in S
    OBVIOUS
  <2> HIDE DEF S
  <2> QED BY <2>1
<1>2. \E T : <<"<", s>> \in Seq(T)
  BY <1>1
<1>3. \E T : <<"<", s, ">">> \in Seq(T)
  BY <1>1
<1> QED BY <1>2, <1>3

OpenNames == {"k", "t", "f"}
ThoughtNames == {"/k", "t", "f"}

LEMMA ContentNames ==
    ASSUME NEW x, NEW t, Prefix(x, t), Tidy(t)
    PROVE  Names(x, t, ContentMarkers, OpenNames, 1) /\ Holds(ContentMarkers, OpenNames, 1)
<1>1. ContentMarkers = {<<"<", "k">>, <<"<", "t">>, <<"<", "f">>}
  BY DEF ContentMarkers, OpenThink, OpenTool, OpenCall, OpenFunction
<1>2. OpenNames \subseteq Tags
  BY DEF OpenNames, Tags
<1>3. ASSUME NEW p \in Nat \ {0}
      PROVE  (\E m \in ContentMarkers : StartsAt(x, p, m)) <=> p + 1 <= Len(x) /\ t[p + 1] \in OpenNames
  <2>1. \A s \in OpenNames : StartsAt(x, p, <<"<", s>>) <=> p + 1 <= Len(x) /\ t[p + 1] = s
    BY <1>2, OpenMarks
  <2>2. (\E m \in ContentMarkers : StartsAt(x, p, m)) <=> \E s \in OpenNames : StartsAt(x, p, <<"<", s>>)
    BY <1>1, Zenon DEF OpenNames
  <2> QED BY <2>1, <2>2
<1>4. \A s \in OpenNames : <<"<", s>> \in ContentMarkers
  BY <1>1 DEF OpenNames
<1> QED BY <1>3, <1>4, MarkerIs DEF Names, Holds

LEMMA ThinkingNames ==
    ASSUME NEW x, NEW t, Prefix(x, t), Tidy(t)
    PROVE  Names(x, t, ThinkingMarkers, ThoughtNames, 1) /\ Holds(ThinkingMarkers, ThoughtNames, 1)
<1>1. ThinkingMarkers = {<<"<", "/k">>, <<"<", "t">>, <<"<", "f">>}
  BY DEF ThinkingMarkers, CloseThink, OpenTool, OpenCall, OpenFunction
<1>2. ThoughtNames \subseteq Tags
  BY DEF ThoughtNames, Tags
<1>3. ASSUME NEW p \in Nat \ {0}
      PROVE  (\E m \in ThinkingMarkers : StartsAt(x, p, m)) <=> p + 1 <= Len(x) /\ t[p + 1] \in ThoughtNames
  <2>1. \A s \in ThoughtNames : StartsAt(x, p, <<"<", s>>) <=> p + 1 <= Len(x) /\ t[p + 1] = s
    BY <1>2, OpenMarks
  <2>2. (\E m \in ThinkingMarkers : StartsAt(x, p, m))
            <=> \E s \in ThoughtNames : StartsAt(x, p, <<"<", s>>)
    BY <1>1, Zenon DEF ThoughtNames
  <2> QED BY <2>1, <2>2
<1>4. \A s \in ThoughtNames : <<"<", s>> \in ThinkingMarkers
  BY <1>1 DEF ThoughtNames
<1> QED BY <1>3, <1>4, MarkerIs DEF Names, Holds

ToolNames == IF outerTool THEN {"/t"} ELSE {"/t", "/f"}

LEMMA ToolNamesAre ==
    ASSUME NEW x, NEW t, Prefix(x, t), Tidy(t)
    PROVE  Names(x, t, ToolEnds, ToolNames, 2) /\ Holds({CloseCall, CloseFunction}, ToolNames, 2)
<1>1. CloseCall = <<"<", "/t", ">">> /\ CloseFunction = <<"<", "/f", ">">>
  BY DEF CloseCall, CloseFunction
<1>2. ASSUME NEW p \in Nat \ {0}
      PROVE  (\E m \in ToolEnds : StartsAt(x, p, m)) <=> p + 2 <= Len(x) /\ t[p + 1] \in ToolNames
  <2>1. StartsAt(x, p, CloseCall) <=> p + 2 <= Len(x) /\ t[p + 1] = "/t"
    BY <1>1, CloseMarks
  <2>2. StartsAt(x, p, CloseFunction) <=> p + 2 <= Len(x) /\ t[p + 1] = "/f"
    BY <1>1, CloseMarks
  <2> QED BY <2>1, <2>2 DEF ToolEnds, ToolNames
<1>3. \A s \in ToolNames : <<"<", s, ">">> \in {CloseCall, CloseFunction}
  BY <1>1 DEF ToolNames
<1> QED BY <1>2, <1>3, MarkerIs DEF Names, Holds

\* Where a text goes on behind the tag at f.
BehindTag(x, t, f, b) ==
    /\ b \in f + 3 .. Len(x) + 1
    /\ \A n \in DOMAIN t : n \in f + 2 .. b => t[n] \notin Tags
    /\ t[f + 1] # "f" => \A i \in f + 3 .. b - 1 : t[i] = "n"

LEMMA TagEnds ==
    ASSUME NEW x, NEW t, Prefix(x, t), Tidy(t), NEW f \in 1 .. Len(x), f + 1 <= Len(x), t[f + 1] \in Tags
    PROVE  /\ TagEnd(x, f) # NoEnd => BehindTag(x, t, f, TagEnd(x, f))
           /\ TagEnd(x, f) = NoEnd => f + 2 \notin 1 .. Len(x) \/ t[f + 1] = "f"
           /\ TagEnd(x, f) = NoEnd => x # t
<1>0. /\ x \in Seq(STRING) /\ t \in Seq(STRING) /\ Len(x) \in Nat /\ Len(t) \in Nat
      /\ DOMAIN t = 1 .. Len(t) /\ Len(x) <= Len(t) /\ f \in Nat \ {0}
      /\ \A i \in 1 .. Len(x) : t[i] = x[i] /\ i \in DOMAIN t
  BY PrefixIs
<1> DEFINE b == Find(x, {<<">">>}, f)
           e == Find(x, {<<"n">>}, f)
<1>1. ASSUME NEW s, NEW d, d = Find(x, {<<s>>}, f)
      PROVE  /\ d \in f .. Len(x) + 1 /\ \A i \in f .. d - 1 : t[i] # s
             /\ Found(x, d) => d \in f .. Len(x) /\ t[d] = s
  <2> DEFINE M == {<<s>>}
  <2>1. \A i \in 1 .. Len(x) : (\E m \in M : StartsAt(x, i, m)) <=> t[i] = s
    BY <1>0, OneSymbol
  <2>2. d = Find(x, M, f)
    BY <1>1
  <2> HIDE DEF M
  <2>3. \/ d = Len(x) + 1 /\ \A p \in f .. Len(x) : \A m \in M : ~StartsAt(x, p, m)
        \/ /\ d \in f .. Len(x) /\ \E m \in M : StartsAt(x, d, m)
           /\ \A p \in f .. d - 1 : \A m \in M : ~StartsAt(x, p, m)
    BY <1>0, <2>2, FindIs
  <2>4. d \in f .. Len(x) + 1
    BY <1>0, <2>3
  <2>5. \A i \in f .. d - 1 : i \in 1 .. Len(x) /\ t[i] # s
    BY <1>0, <2>1, <2>3
  <2>6. Found(x, d) => d \in f .. Len(x) /\ t[d] = s
    <3>1. ASSUME Found(x, d) PROVE d # Len(x) + 1
      BY <1>0, <3>1 DEF Found
    <3>2. d \in f .. Len(x) => d \in 1 .. Len(x)
      BY <1>0
    <3> QED BY <2>1, <2>3, <3>1, <3>2
  <2> QED BY <2>4, <2>5, <2>6
<1>2. /\ b \in f .. Len(x) + 1 /\ \A i \in f .. b - 1 : t[i] # ">"
      /\ Found(x, b) => b \in f .. Len(x) /\ t[b] = ">"
  BY <1>1
<1>3. /\ e \in f .. Len(x) + 1
      /\ Found(x, e) => e \in f .. Len(x) /\ t[e] = "n"
  BY <1>1
<1>4. TagEnd(x, f) = IF Found(x, b) THEN SkipNewlines(x, b + 1)
                     ELSE IF Found(x, e) THEN SkipNewlines(x, e) ELSE NoEnd
  BY DEF TagEnd
<1> HIDE DEF b, e
<1>5. /\ f + 1 \in DOMAIN t /\ t[f] = "<" /\ f + 2 \in DOMAIN t
      /\ \/ t[f + 2] = ">"
         \/ t[f + 1] = "f" /\ t[f + 2] = "a" /\ f + 3 \in DOMAIN t /\ t[f + 3] = ">"
  <2>1. f + 1 \in DOMAIN t /\ (f + 1) - 1 = f /\ (f + 1) + 1 = f + 2 /\ (f + 1) + 2 = f + 3
    BY <1>0
  <2> QED BY <2>1 DEF Tidy
<1>6. t[f] # ">" /\ t[f + 1] # ">" /\ t[f + 1] # "n" /\ t[f] # "n"
  BY <1>5 DEF Tags
<1>7. Found(x, b) => b = f + 2 \/ (b = f + 3 /\ t[f + 1] = "f" /\ t[f + 2] = "a")
  <2>1. SUFFICES ASSUME Found(x, b)
                 PROVE  b = f + 2 \/ (b = f + 3 /\ t[f + 1] = "f" /\ t[f + 2] = "a")
    OBVIOUS
  <2>2. b \in f .. Len(x) /\ t[b] = ">" /\ b # f /\ b # f + 1
    BY <1>2, <1>6, <2>1
  <2>3. b >= f + 2
    BY <1>0, <2>2
  <2>4. CASE t[f + 2] = ">"
    <3>1. ~(f + 2 \in f .. b - 1)
      BY <1>2, <2>4
    <3> QED BY <1>0, <2>2, <2>3, <3>1
  <2>5. CASE t[f + 2] # ">"
    <3>1. t[f + 1] = "f" /\ t[f + 2] = "a" /\ t[f + 3] = ">" /\ b # f + 2
      BY <1>5, <2>2, <2>5
    <3>2. ~(f + 3 \in f .. b - 1)
      BY <1>2, <3>1
    <3> QED BY <1>0, <2>2, <2>3, <3>1, <3>2
  <2> QED BY <2>4, <2>5
<1>8. ~Found(x, b) => b = Len(x) + 1 /\ ~Found(x, e)
  <2>1. SUFFICES ASSUME ~Found(x, b) PROVE b = Len(x) + 1 /\ ~Found(x, e)
    OBVIOUS
  <2>2. b = Len(x) + 1
    BY <1>0, <1>2, <2>1 DEF Found
  <2>3. ASSUME Found(x, e) PROVE FALSE
    <3>1. e \in f .. Len(x) /\ t[e] = "n" /\ e # f /\ e # f + 1
      BY <1>3, <1>6, <2>3
    <3>2. e >= f + 2 /\ f + 2 \in f .. b - 1
      BY <1>0, <2>2, <3>1
    <3>3. t[f + 1] = "f" /\ t[f + 2] = "a" /\ f + 3 \in DOMAIN t /\ t[f + 3] = ">"
      BY <1>2, <1>5, <3>2
    <3>4. e # f + 2 /\ e # f + 3
      BY <3>1, <3>3
    <3>5. f + 3 \in f .. b - 1
      BY <1>0, <2>2, <3>1, <3>2, <3>4
    <3> QED BY <1>2, <3>3, <3>5
  <2> QED BY <2>2, <2>3
<1>9. ASSUME TagEnd(x, f) # NoEnd PROVE BehindTag(x, t, f, TagEnd(x, f))
  <2>1. Found(x, b) /\ TagEnd(x, f) = SkipNewlines(x, b + 1)
    BY <1>4, <1>8, <1>9
  <2>2. b \in 1 .. Len(x) /\ b + 1 \in 1 .. Len(x) + 1 /\ t[b] = ">"
    BY <1>0, <1>2, <2>1
  <2> DEFINE c == TagEnd(x, f)
  <2>3. c \in b + 1 .. Len(x) + 1 /\ \A i \in b + 1 .. c - 1 : x[i] = "n"
    <3>1. c = SkipNewlines(x, b + 1)
      BY <2>1
    <3> HIDE DEF c
    <3> QED BY <1>0, <2>2, <3>1, SkipIs
  <2> HIDE DEF c
  <2>4. \A i \in b + 1 .. c - 1 : t[i] = "n" /\ i \in DOMAIN t
    <3> TAKE i \in b + 1 .. c - 1
    <3>1. i \in 1 .. Len(x)
      BY <1>0, <2>2, <2>3
    <3> QED BY <1>0, <2>3, <3>1
  <2>5. c \in f + 3 .. Len(x) + 1
    BY <1>0, <1>7, <2>1, <2>3
  <2>6. ASSUME NEW n \in DOMAIN t, n \in f + 2 .. c, t[n] \in Tags PROVE FALSE
    <3>1. t[n - 1] = "<" /\ n - 1 \in DOMAIN t
      BY <2>6 DEF Tidy
    <3>2. n - 1 # f + 1
      BY <1>0, <3>1 DEF Tags
    <3>3. n - 1 # b /\ ~(n - 1 \in b + 1 .. c - 1)
      BY <2>2, <2>4, <3>1
    <3>4. n - 1 # f + 2 \/ b = f + 2
      BY <1>7, <2>1, <3>1
    <3> QED BY <1>0, <1>7, <2>1, <2>3, <2>6, <3>2, <3>3, <3>4
  <2>7. ASSUME t[f + 1] # "f" PROVE \A i \in f + 3 .. c - 1 : t[i] = "n"
    <3>1. b + 1 = f + 3
      BY <1>0, <1>7, <2>1, <2>7
    <3> QED BY <2>4, <3>1
  <2> QED BY <2>5, <2>6, <2>7 DEF BehindTag, c
<1>10. ASSUME TagEnd(x, f) = NoEnd
       PROVE  (f + 2 \notin 1 .. Len(x) \/ t[f + 1] = "f") /\ x # t
  <2>1. ~Found(x, b)
    <3>1. ASSUME Found(x, b) PROVE FALSE
      <4>1. b + 1 \in 1 .. Len(x) + 1 /\ b \in Nat
        BY <1>0, <1>2, <3>1
      <4>2. SkipNewlines(x, b + 1) \in b + 1 .. Len(x) + 1
        BY <1>0, <4>1, SkipIs
      <4> QED BY <1>4, <1>10, <3>1, <4>1, <4>2 DEF NoEnd
    <3> QED BY <3>1
  <2>2. b = Len(x) + 1
    BY <1>8, <2>1
  <2>3. \A i \in f .. Len(x) : t[i] # ">"
    BY <1>0, <1>2, <2>2
  <2>4. f + 2 \notin 1 .. Len(x) \/ t[f + 1] = "f"
    BY <1>0, <1>5, <2>3
  <2>5. ASSUME x = t PROVE FALSE
    BY <1>0, <1>5, <2>3, <2>5
  <2> QED BY <2>4, <2>5
<1> QED BY <1>9, <1>10
-----------------------------------------------------------------------------
(* What the terminal shows.                                                *)

\* The symbol is between a tag and what closes it, the two included.
Inside(t, i, tag, close) ==
    \E n \in DOMAIN t : n <= i + 1 /\ t[n] = tag /\ \A q \in n .. i - 2 : t[q] # close

\* What is neither in a thought nor in a call nor in a function, before b.
Plain(t, i) == ~Inside(t, i, "k", "/k") /\ ~Inside(t, i, "t", "/t") /\ ~Inside(t, i, "f", "/f")

Visible(t, b) == {i \in 1 .. b - 1 : i \notin Breaks(t) /\ Plain(t, i)}

\* Every tag before b is closed before b.
ClosedBy(t, b, tag, close) ==
    \A n \in DOMAIN t : n <= b /\ t[n] = tag => \E q \in n .. b - 2 : t[q] = close

InPlain(t, b) == ClosedBy(t, b, "k", "/k") /\ ClosedBy(t, b, "t", "/t") /\ ClosedBy(t, b, "f", "/f")

\* The tag at n is before b, and nothing that closes it begins before b.
Within(t, n, b, tag, close) ==
    /\ n \in DOMAIN t /\ n + 1 < b /\ t[n] = tag
    /\ \A q \in n .. b : q \in DOMAIN t => t[q] # close

\* Where the stream stands.
Where(t) ==
    /\ tmode = "content" => InPlain(t, taken)
    /\ tmode = "thinking" => \E n \in DOMAIN t : Within(t, n, taken, "k", "/k")
    /\ tmode = "tool" /\ outerTool => \E n \in DOMAIN t : Within(t, n, taken, "t", "/t")
    /\ tmode = "tool" /\ ~outerTool =>
          \E n \in DOMAIN t : Within(t, n, taken, "f", "/f") /\ ~IsOpen(t, "t", "/t", n)

\* A call ends with the token that is being processed.
Late == \A i \in taken .. Len(text) : text[i] = "/t" => tstate = "push" /\ i = Len(text) - 1

ShowsWell(t) ==
    /\ taken \in 1 .. End /\ tmode \in {"content", "thinking", "tool"} /\ outerTool \in BOOLEAN
    /\ tstate \in {"idle", "push", "finish", "done"}
    /\ SentBelow(shown, taken) /\ SolidIn(t, shown) = Visible(t, taken)
    /\ resume = FALSE
    /\ tstate = "done" => taken = End
    /\ tstate # "done" => Where(t) /\ Late

\* The text may become t.
Becomes(t) ==
    /\ Len(text) <= Len(t) /\ \A i \in 1 .. Len(text) : t[i] = text[i]
    /\ tstate \in {"finish", "done"} => t = text

Pairs == {<<"k", "/k">>, <<"t", "/t">>, <<"f", "/f">>}

\* More of the text.
LEMMA VisibleGrows ==
    ASSUME NEW t \in Seq(STRING), NEW b \in Nat \ {0}, NEW d \in b .. Len(t) + 1
    PROVE  Visible(t, d) = Visible(t, b) \cup {i \in b .. d - 1 : t[i] # "n" /\ Plain(t, i)}
<1>0. Len(t) \in Nat /\ DOMAIN t = 1 .. Len(t) /\ d \in Nat /\ b <= d
  OBVIOUS
<1>1. \A i : i \in 1 .. d - 1 <=> i \in 1 .. b - 1 \/ i \in b .. d - 1
  BY <1>0
<1>2. \A i \in b .. d - 1 : i \in Breaks(t) <=> t[i] = "n"
  <2>1. \A i \in b .. d - 1 : i \in DOMAIN t
    BY <1>0
  <2> QED BY <2>1 DEF Breaks
<1> QED BY <1>1, <1>2 DEF Visible

\* In a block nothing is shown.
Covers(t, n, tag, close, b, e) ==
    /\ n \in DOMAIN t /\ n <= b + 1 /\ t[n] = tag /\ <<tag, close>> \in Pairs
    /\ \A q \in n .. e - 3 : t[q] # close

LEMMA Hides ==
    ASSUME NEW t \in Seq(STRING), NEW b \in Nat \ {0}, NEW d \in b .. Len(t) + 1,
           NEW e \in b .. d, \A i \in e .. d - 1 : t[i] = "n",
           NEW n, NEW tag, NEW close, Covers(t, n, tag, close, b, e)
    PROVE  Visible(t, d) = Visible(t, b)
<1>0. Len(t) \in Nat /\ DOMAIN t = 1 .. Len(t) /\ d \in Nat /\ b <= d /\ e \in Nat /\ n \in Nat
  BY DEF Covers
<1>a. /\ n \in DOMAIN t /\ n <= b + 1 /\ t[n] = tag /\ <<tag, close>> \in Pairs
      /\ \A q \in n .. e - 3 : t[q] # close
  BY DEF Covers
<1>1. ASSUME NEW i \in b .. d - 1, t[i] # "n", Plain(t, i) PROVE FALSE
  <2>1. i \in b .. e - 1
    BY <1>0, <1>1
  <2>2. n <= i + 1 /\ \A q \in n .. i - 2 : t[q] # close
    BY <1>0, <1>a, <2>1
  <2>3. Inside(t, i, tag, close)
    BY <1>a, <2>2 DEF Inside
  <2> QED BY <1>1, <1>a, <2>3 DEF Plain, Pairs
<1>2. Visible(t, d) = Visible(t, b) \cup {i \in b .. d - 1 : t[i] # "n" /\ Plain(t, i)}
  BY VisibleGrows
<1> QED BY <1>1, <1>2

\* Where no tag comes everything is.
LEMMA Shows ==
    ASSUME NEW t \in Seq(STRING), NEW b \in Nat \ {0}, NEW d \in b .. Len(t) + 1, InPlain(t, b),
           \A n \in DOMAIN t : n \in b + 1 .. d => t[n] \notin OpenNames
    PROVE  InPlain(t, d) /\ Visible(t, d) = Visible(t, b) \cup Solids(t, b, d)
<1>0. Len(t) \in Nat /\ DOMAIN t = 1 .. Len(t) /\ d \in Nat /\ b <= d
  OBVIOUS
<1>1. ASSUME NEW tag \in OpenNames, NEW close, ClosedBy(t, b, tag, close)
      PROVE  ClosedBy(t, d, tag, close) /\ \A i \in b .. d - 1 : ~Inside(t, i, tag, close)
  <2>1. ASSUME NEW n \in DOMAIN t, n <= d, t[n] = tag PROVE n <= b /\ \E q \in n .. b - 2 : t[q] = close
    <3>1. n <= b
      <4>1. n \notin b + 1 .. d
        BY <1>1, <2>1
      <4> QED BY <1>0, <2>1, <4>1
    <3> QED BY <1>1, <2>1, <3>1 DEF ClosedBy
  <2>2. ClosedBy(t, d, tag, close)
    <3>1. \A n \in DOMAIN t : \A q \in n .. b - 2 : q \in n .. d - 2
      BY <1>0
    <3> QED BY <2>1, <3>1 DEF ClosedBy
  <2>3. ASSUME NEW i \in b .. d - 1, Inside(t, i, tag, close) PROVE FALSE
    <3>1. PICK n \in DOMAIN t : n <= i + 1 /\ t[n] = tag /\ \A q \in n .. i - 2 : t[q] # close
      BY <2>3 DEF Inside
    <3>2. n <= d
      BY <1>0, <3>1
    <3>3. PICK q \in n .. b - 2 : t[q] = close
      BY <2>1, <3>1, <3>2
    <3>4. q \in n .. i - 2
      BY <1>0, <3>1, <3>3
    <3> QED BY <3>1, <3>3, <3>4
  <2> QED BY <2>2, <2>3
<1>2. "k" \in OpenNames /\ "t" \in OpenNames /\ "f" \in OpenNames
  BY DEF OpenNames
<1>3. InPlain(t, d) /\ \A i \in b .. d - 1 : Plain(t, i)
  BY <1>1, <1>2 DEF InPlain, Plain
<1>4. Visible(t, d) = Visible(t, b) \cup {i \in b .. d - 1 : t[i] # "n" /\ Plain(t, i)}
  BY VisibleGrows
<1> QED BY <1>3, <1>4 DEF Solids

\* Behind what closes a block.
LEMMA Behind ==
    ASSUME NEW t \in Seq(STRING), NEW q \in DOMAIN t, NEW b \in Nat, q + 2 <= b,
           \A n \in DOMAIN t : n \in q + 1 .. b => t[n] \notin Tags,
           NEW tag \in Tags, NEW close, t[q] # tag,
           \A n \in DOMAIN t : n < q /\ t[n] = tag => \E r \in n .. q : t[r] = close
    PROVE  ClosedBy(t, b, tag, close)
<1>0. Len(t) \in Nat /\ DOMAIN t = 1 .. Len(t) /\ q \in Nat
  OBVIOUS
<1>1. ASSUME NEW n \in DOMAIN t, n <= b, t[n] = tag PROVE \E r \in n .. b - 2 : t[r] = close
  <2>1. n < q
    <3>1. n \notin q + 1 .. b /\ n # q
      BY <1>1
    <3> QED BY <1>0, <1>1, <3>1
  <2>2. PICK r \in n .. q : t[r] = close
    BY <1>1, <2>1
  <2>3. r \in n .. b - 2
    BY <1>0, <2>2
  <2> QED BY <2>2, <2>3
<1> QED BY <1>1 DEF ClosedBy

LEMMA NotOpen ==
    ASSUME NEW t \in Seq(STRING), NEW tag, NEW close, NEW i \in DOMAIN t, ~IsOpen(t, tag, close, i),
           NEW n \in DOMAIN t, n < i, t[n] = tag
    PROVE  \E r \in n .. i - 1 : t[r] = close
<1>1. n \in 1 .. i - 1
  OBVIOUS
<1> QED BY <1>1 DEF IsOpen

\* The block from n to q is left.
Block(t, n, q, b, tag, close) ==
    /\ n \in DOMAIN t /\ t[n] = tag /\ q \in DOMAIN t /\ t[q] = close /\ n < q
    /\ \A r \in n .. q - 1 : t[r] # close
    /\ b \in Nat /\ q + 2 <= b
    /\ \A m \in DOMAIN t : m \in q + 1 .. b => t[m] \notin Tags

LEMMA LeaveBlock ==
    ASSUME NEW t \in Seq(STRING), Tidy(t), Nests(t), NEW n, NEW q, NEW b,
           \/ Block(t, n, q, b, "k", "/k")
           \/ Block(t, n, q, b, "t", "/t")
           \/ Block(t, n, q, b, "f", "/f") /\ ~Calling(t, n)
    PROVE  InPlain(t, b)
<1>0. Len(t) \in Nat /\ DOMAIN t = 1 .. Len(t)
  OBVIOUS
<1>1. /\ n \in DOMAIN t /\ q \in DOMAIN t /\ n < q /\ b \in Nat /\ q + 2 <= b /\ n \in Nat /\ q \in Nat
      /\ \A m \in DOMAIN t : m \in q + 1 .. b => t[m] \notin Tags
      /\ t[n] \in {"k", "t", "f"} /\ t[q] \in {"/k", "/t", "/f"}
  BY <1>0 DEF Block
<1>2. "k" \in Tags /\ "t" \in Tags /\ "f" \in Tags
  BY DEF Tags
<1>3. ASSUME NEW tag \in {"k", "t", "f"}, NEW close,
             \A m \in DOMAIN t : m < q /\ t[m] = tag => \E r \in m .. q : t[r] = close
      PROVE  ClosedBy(t, b, tag, close)
  BY <1>1, <1>2, <1>3, Behind
<1>4. ASSUME NEW m \in DOMAIN t, m < q, NEW tag, t[m] = tag, NEW close, NEW i \in DOMAIN t,
             m < i, i <= q, ~IsOpen(t, tag, close, i)
      PROVE  \E r \in m .. q : t[r] = close
  <2>1. PICK r \in m .. i - 1 : t[r] = close
    BY <1>4, NotOpen
  <2>2. r \in m .. q
    BY <1>0, <1>1, <1>4, <2>1
  <2> QED BY <2>1, <2>2
<1>5. CASE Block(t, n, q, b, "k", "/k")
  <2>1. t[n] = "k" /\ t[q] = "/k" /\ \A r \in n .. q - 1 : t[r] # "/k"
    BY <1>5 DEF Block
  <2>2. ~Calling(t, n) /\ ~Naming(t, n)
    BY <1>1, <2>1 DEF Nests
  <2>3. ASSUME NEW m \in DOMAIN t, m < q, t[m] \in {"t", "f"} PROVE m < n
    <3>1. ~Thinking(t, m) /\ m # n
      BY <2>1, <2>3 DEF Nests
    <3>2. ASSUME n < m PROVE FALSE
      <4>1. n \in 1 .. m - 1 /\ \A r \in n .. m - 1 : r \in n .. q - 1
        BY <1>0, <1>1, <2>3, <3>2
      <4> QED BY <2>1, <3>1, <4>1 DEF Thinking, IsOpen
    <3> QED BY <1>0, <1>1, <3>1, <3>2
  <2>4. \A m \in DOMAIN t : m < q /\ t[m] = "k" => \E r \in m .. q : t[r] = "/k"
    <3>1. \A m \in DOMAIN t : m < q => q \in m .. q
      BY <1>0, <1>1
    <3> QED BY <2>1, <3>1
  <2>5. \A m \in DOMAIN t : m < q /\ t[m] = "t" => \E r \in m .. q : t[r] = "/t"
    BY <1>1, <1>4, <2>2, <2>3 DEF Calling
  <2>6. \A m \in DOMAIN t : m < q /\ t[m] = "f" => \E r \in m .. q : t[r] = "/f"
    BY <1>1, <1>4, <2>2, <2>3 DEF Naming
  <2> QED BY <1>3, <2>4, <2>5, <2>6 DEF InPlain
<1>6. CASE Block(t, n, q, b, "t", "/t")
  <2>1. t[n] = "t" /\ t[q] = "/t" /\ \A r \in n .. q - 1 : t[r] # "/t"
    BY <1>6 DEF Block
  <2>2. ~Thinking(t, n) /\ ~Naming(t, q)
    BY <1>1, <2>1 DEF Nests
  <2>3. ASSUME NEW m \in DOMAIN t, m < q, t[m] = "k" PROVE m < n
    <3>1. ~Calling(t, m) /\ m # n
      BY <2>1, <2>3 DEF Nests
    <3>2. ASSUME n < m PROVE FALSE
      <4>1. n \in 1 .. m - 1 /\ \A r \in n .. m - 1 : r \in n .. q - 1
        BY <1>0, <1>1, <2>3, <3>2
      <4> QED BY <2>1, <3>1, <4>1 DEF Calling, IsOpen
    <3> QED BY <1>0, <1>1, <3>1, <3>2
  <2>4. \A m \in DOMAIN t : m < q /\ t[m] = "t" => \E r \in m .. q : t[r] = "/t"
    <3>1. \A m \in DOMAIN t : m < q => q \in m .. q
      BY <1>0, <1>1
    <3> QED BY <2>1, <3>1
  <2>5. \A m \in DOMAIN t : m < q /\ t[m] = "k" => \E r \in m .. q : t[r] = "/k"
    <3>1. ~IsOpen(t, "k", "/k", n) /\ n <= q
      BY <1>1, <2>2 DEF Thinking
    <3> QED BY <1>1, <1>4, <2>3, <3>1
  <2>6. \A m \in DOMAIN t : m < q /\ t[m] = "f" => \E r \in m .. q : t[r] = "/f"
    BY <1>1, <1>4, <2>2 DEF Naming
  <2> QED BY <1>3, <2>4, <2>5, <2>6 DEF InPlain
<1>7. CASE Block(t, n, q, b, "f", "/f") /\ ~Calling(t, n)
  <2>1. t[n] = "f" /\ t[q] = "/f" /\ \A r \in n .. q - 1 : t[r] # "/f"
    BY <1>7 DEF Block
  <2>2. ~Thinking(t, n) /\ ~Calling(t, n)
    BY <1>1, <1>7, <2>1 DEF Nests
  <2>3. ASSUME NEW m \in DOMAIN t, m < q, t[m] \in {"k", "t"} PROVE m < n
    <3>1. ~Naming(t, m) /\ m # n
      BY <2>1, <2>3 DEF Nests
    <3>2. ASSUME n < m PROVE FALSE
      <4>1. n \in 1 .. m - 1 /\ \A r \in n .. m - 1 : r \in n .. q - 1
        BY <1>0, <1>1, <2>3, <3>2
      <4> QED BY <2>1, <3>1, <4>1 DEF Naming, IsOpen
    <3> QED BY <1>0, <1>1, <3>1, <3>2
  <2>4. \A m \in DOMAIN t : m < q /\ t[m] = "f" => \E r \in m .. q : t[r] = "/f"
    <3>1. \A m \in DOMAIN t : m < q => q \in m .. q
      BY <1>0, <1>1
    <3> QED BY <2>1, <3>1
  <2>5. \A m \in DOMAIN t : m < q /\ t[m] = "k" => \E r \in m .. q : t[r] = "/k"
    BY <1>1, <1>4, <2>2, <2>3 DEF Thinking
  <2>6. \A m \in DOMAIN t : m < q /\ t[m] = "t" => \E r \in m .. q : t[r] = "/t"
    BY <1>1, <1>4, <2>2, <2>3 DEF Calling
  <2> QED BY <1>3, <2>4, <2>5, <2>6 DEF InPlain
<1> QED BY <1>5, <1>6, <1>7
LEMMA NothingHeld ==
    ASSUME NEW x, Prefix(x, x), Tidy(x), NEW from \in 1 .. Len(x) + 1, NEW markers,
           \A m \in markers : IsMarker(m)
    PROVE  HeldBack(x, from, markers) = 0
<1> DEFINE n == HeldBack(x, from, markers)
<1>0. /\ x \in Seq(STRING) /\ Len(x) \in Nat /\ DOMAIN x = 1 .. Len(x)
  BY PrefixIs
<1>1. n \in 0 .. Len(x) + 1 - from
  BY <1>0, HeldIs DEF RightlyHeld
<1>2. n > 0 => x[Len(x) + 1 - n] = "<" /\ \A i \in Len(x) + 2 - n .. Len(x) : x[i] # ">"
  BY <1>0, HeldStarts
<1> HIDE DEF n
<1>3. ASSUME n > 0 PROVE FALSE
  <2> DEFINE p == Len(x) + 1 - n
  <2>1. p \in 1 .. Len(x) /\ p + 1 = Len(x) + 2 - n
    BY <1>0, <1>1, <1>3
  <2>2. x[p] = "<" /\ \A i \in p + 1 .. Len(x) : x[i] # ">"
    BY <1>2, <1>3, <2>1
  <2> HIDE DEF p
  <2>3. p + 1 \in DOMAIN x /\ x[p + 1] \in Tags
    BY <1>0, <2>1, <2>2 DEF Tidy
  <2>4. \/ p + 2 \in DOMAIN x /\ x[p + 2] = ">"
        \/ p + 3 \in DOMAIN x /\ x[p + 3] = ">"
    <3>1. (p + 1) + 1 = p + 2 /\ (p + 1) + 2 = p + 3
      BY <2>1
    <3> QED BY <2>3, <3>1 DEF Tidy
  <2>5. \A i \in DOMAIN x : i = p + 2 \/ i = p + 3 => i \in p + 1 .. Len(x)
    BY <1>0, <2>1
  <2> QED BY <2>2, <2>4, <2>5
<1>4. n = 0
  BY <1>0, <1>1, <1>3
<1> QED BY <1>4 DEF n

LEMMA TerminalMarkers ==
    /\ \A m \in ContentMarkers : IsMarker(m)
    /\ \A m \in ThinkingMarkers : IsMarker(m)
    /\ \A m \in {CloseCall, CloseFunction} : IsMarker(m)
<1>1. ASSUME NEW s, s # ">" PROVE IsMarker(<<"<", s, ">">>) /\ IsMarker(<<"<", s>>)
  BY <1>1, MarkerIs DEF IsMarker
<1>2. "k" # ">" /\ "/k" # ">" /\ "t" # ">" /\ "f" # ">" /\ "/t" # ">" /\ "/f" # ">"
  OBVIOUS
<1>3. /\ IsMarker(<<"<", "k">>) /\ IsMarker(<<"<", "/k">>) /\ IsMarker(<<"<", "t">>)
      /\ IsMarker(<<"<", "f">>) /\ IsMarker(<<"<", "/t", ">">>) /\ IsMarker(<<"<", "/f", ">">>)
  BY <1>1, <1>2, Zenon
<1>4. /\ ContentMarkers = {<<"<", "k">>, <<"<", "t">>, <<"<", "f">>}
      /\ ThinkingMarkers = {<<"<", "/k">>, <<"<", "t">>, <<"<", "f">>}
      /\ {CloseCall, CloseFunction} = {<<"<", "/t", ">">>, <<"<", "/f", ">">>}
  BY DEF ContentMarkers, ThinkingMarkers, OpenThink, CloseThink, OpenTool, OpenCall, OpenFunction,
         CloseCall, CloseFunction
<1> QED BY <1>3, <1>4, Zenon

\* What a turn of process() starts from.
Turns(t) ==
    /\ text \in Seq(STRING) /\ t \in Seq(STRING) /\ Orderly(t) /\ Becomes(t) /\ ShowsWell(t)
    /\ Processing /\ UNCHANGED text

LEMMA TurnIs ==
    ASSUME NEW t, Turns(t)
    PROVE  /\ Prefix(text, t) /\ Tidy(t) /\ Nests(t)
           /\ text \in Seq(STRING) /\ t \in Seq(STRING) /\ Len(text) \in Nat /\ Len(t) \in Nat
           /\ DOMAIN t = 1 .. Len(t) /\ Len(text) <= Len(t) /\ End = Len(text) + 1 /\ End' = End
           /\ taken \in 1 .. Len(text) + 1 /\ taken \in Nat \ {0}
           /\ tmode \in {"content", "thinking", "tool"} /\ outerTool \in BOOLEAN
           /\ tstate \in {"push", "finish"} /\ resume = FALSE /\ Where(t) /\ Late
           /\ SentBelow(shown, taken) /\ SolidIn(t, shown) = Visible(t, taken)
           /\ tstate = "finish" => t = text
           /\ \A i \in 1 .. Len(text) : t[i] = text[i] /\ i \in DOMAIN t
<1>1. Prefix(text, t)
  BY DEF Turns, Prefix, Becomes
<1>2. Tidy(t) /\ Nests(t)
  BY OrderlyIs DEF Turns
<1>3. tstate \in {"push", "finish"} /\ tstate # "done" /\ (tstate = "finish" => t = text)
  BY DEF Turns, Processing, Becomes
<1>4. End = Len(text) + 1 /\ End' = End
  BY DEF Turns, End
<1>5. taken \in 1 .. Len(text) + 1 /\ taken \in Nat \ {0}
  <2>1. Len(text) \in Nat
    BY <1>1, PrefixIs
  <2> QED BY <1>4, <2>1 DEF Turns, ShowsWell
<1> QED BY <1>1, <1>2, <1>3, <1>4, <1>5, PrefixIs DEF Turns, ShowsWell

\* A stretch of the text is shown.
LEMMA Stretch ==
    ASSUME NEW t, Turns(t), NEW b \in taken .. End, NEW d \in b .. End,
           shown' = shown \o Span(taken, b),
           Visible(t, d) = Visible(t, taken) \cup Solids(t, taken, b)
    PROVE  SentBelow(shown', d) /\ SolidIn(t, shown') = Visible(t, d)
<1>0. /\ t \in Seq(STRING) /\ Len(text) \in Nat /\ Len(t) \in Nat /\ Len(text) <= Len(t)
      /\ End = Len(text) + 1 /\ taken \in Nat \ {0} /\ SentBelow(shown, taken)
      /\ SolidIn(t, shown) = Visible(t, taken)
  BY TurnIs
<1>1. b \in Nat /\ d \in Nat /\ taken <= b /\ b <= d /\ taken <= d /\ b \in taken .. Len(t) + 1
  BY <1>0
<1>2. SentBelow(shown', d)
  BY <1>0, <1>1, SendMore
<1>3. SolidIn(t, shown') = SolidIn(t, shown) \cup Solids(t, taken, b)
  <2>1. \A x : x = shown \o Span(taken, b) => SolidIn(t, x) = SolidIn(t, shown) \cup Solids(t, taken, b)
    <3>1. t \in Seq(STRING) /\ taken \in Nat \ {0} /\ b \in taken .. Len(t) + 1 /\ SentBelow(shown, taken)
      BY <1>0, <1>1
    <3> QED BY <3>1, SolidGrows, Zenon
  <2> QED BY <2>1
<1> QED BY <1>0, <1>2, <1>3

\* When process() has returned.
LEMMA Returned ==
    ASSUME NEW t, Turns(t), NEW kept \in taken .. End, Return(kept),
           tstate = "finish" => kept = End,
           SentBelow(shown', kept), SolidIn(t, shown') = Visible(t, kept),
           tstate = "push" => /\ \A i \in kept .. Len(text) : text[i] # "/t"
                              /\ taken' = kept => Where(t)'
    PROVE  ShowsWell(t)'
<1>0. /\ tmode \in {"content", "thinking", "tool"} /\ outerTool \in BOOLEAN
      /\ tstate \in {"push", "finish"} /\ resume = FALSE /\ End = Len(text) + 1 /\ End' = End
      /\ taken \in Nat \ {0} /\ Len(text) \in Nat /\ t \in Seq(STRING)
  BY TurnIs
<1>1. /\ taken' = kept /\ UNCHANGED <<tmode, outerTool, resume>>
      /\ tstate' = IF tstate = "finish" THEN "done" ELSE "idle"
  BY DEF Return
<1>2. UNCHANGED text
  BY DEF Turns
<1>3. taken' \in 1 .. End
  BY <1>0, <1>1
<1>4. tstate' # "done" => tstate = "push"
  BY <1>0, <1>1
<1>5. tstate' = "done" => taken' = End
  BY <1>1
<1>6. (\A i \in kept .. Len(text) : text[i] # "/t") => Late'
  <2>1. taken' .. Len(text') = kept .. Len(text) /\ text' = text
    BY <1>1, <1>2
  <2> QED BY <2>1 DEF Late
<1> QED BY <1>0, <1>1, <1>2, <1>3, <1>4, <1>5, <1>6 DEF ShowsWell

\* Nothing of the end of a call is kept: it would have been dealt with.
LEMMA LateIs ==
    ASSUME NEW t, Turns(t), NEW i \in taken .. Len(text), text[i] = "/t"
    PROVE  /\ i \in DOMAIN t /\ t[i] = "/t" /\ i - 1 \in DOMAIN t /\ t[i - 1] = "<"
           /\ i + 1 = Len(text) /\ text[i + 1] = ">" /\ Calling(t, i) /\ ~Naming(t, i)
           /\ i \in Nat /\ tstate = "push"
<1>1. /\ Tidy(t) /\ Nests(t) /\ Late /\ taken \in Nat \ {0} /\ Len(text) \in Nat
      /\ \A j \in 1 .. Len(text) : t[j] = text[j] /\ j \in DOMAIN t
  BY TurnIs
<1>2. i \in 1 .. Len(text) /\ i \in Nat /\ i \in DOMAIN t /\ t[i] = "/t" /\ t[i] \in Tags
  BY <1>1 DEF Tags
<1>3. i = Len(text) - 1 /\ i + 1 = Len(text) /\ i + 1 \in 1 .. Len(text) /\ tstate = "push"
  BY <1>1, <1>2 DEF Late
<1>4. i - 1 \in DOMAIN t /\ t[i - 1] = "<" /\ t[i + 1] = ">"
  BY <1>1, <1>2 DEF Tidy
<1>5. Calling(t, i) /\ ~Naming(t, i)
  BY <1>1, <1>2 DEF Nests
<1> QED BY <1>1, <1>2, <1>3, <1>4, <1>5

LEMMA ShowContentShows ==
    ASSUME NEW t, Turns(t), ShowContent
    PROVE  ShowsWell(t)'
<1> DEFINE f == Find(text, ContentMarkers, taken)
           stop == StopIs(text, f, taken, ContentMarkers)
<1>0. /\ Prefix(text, t) /\ Tidy(t) /\ Nests(t) /\ t \in Seq(STRING) /\ text \in Seq(STRING)
      /\ Len(text) \in Nat /\ Len(t) \in Nat
      /\ DOMAIN t = 1 .. Len(t) /\ Len(text) <= Len(t) /\ End = Len(text) + 1 /\ End' = End
      /\ taken \in 1 .. Len(text) + 1 /\ taken \in Nat \ {0}
      /\ tstate = "finish" => t = text
      /\ Where(t)
      /\ \A i \in 1 .. Len(text) : t[i] = text[i] /\ i \in DOMAIN t
  BY TurnIs
<1>1. tmode = "content" /\ (Found(text, f) => TagEnd(text, f) = NoEnd)
  BY DEF ShowContent
<1>2. shown' = shown \o Span(taken, stop) /\ Return(stop)
  <2>1. stop = IF Found(text, f) THEN f ELSE Safe(ContentMarkers)
    BY DEF StopIs, Safe, End
  <2> QED BY <2>1 DEF ShowContent
<1>3. Searched(text, t, OpenNames, 1, taken, f, stop)
  <2>1. OpenNames \subseteq Tags /\ 1 \in {1, 2}
    BY DEF OpenNames, Tags
  <2>2. Names(text, t, ContentMarkers, OpenNames, 1) /\ Holds(ContentMarkers, OpenNames, 1)
    BY <1>0, ContentNames
  <2> QED BY <1>0, <2>1, <2>2, SearchIs
<1>4. tstate = "finish" => stop = End
  <2>1. SUFFICES ASSUME tstate = "finish" PROVE stop = End
    OBVIOUS
  <2>2. t = text
    BY <1>0, <2>1
  <2>3. ~Found(text, f)
    <3>1. ASSUME Found(text, f) PROVE FALSE
      <4>1. f \in 1 .. Len(text) /\ f + 1 <= Len(text) /\ t[f + 1] \in OpenNames
        BY <1>3, <3>1 DEF Searched
      <4>2. t[f + 1] \in Tags /\ TagEnd(text, f) = NoEnd
        BY <1>1, <3>1, <4>1 DEF OpenNames, Tags
      <4> HIDE DEF f
      <4> QED BY <1>0, <2>2, <4>1, <4>2, TagEnds
    <3> QED BY <3>1
  <2>4. HeldBack(text, taken, ContentMarkers) = 0
    BY <1>0, <2>2, NothingHeld, TerminalMarkers
  <2> QED BY <1>0, <2>3, <2>4 DEF StopIs
<1> HIDE DEF stop
<1>5. stop \in taken .. End /\ stop \in taken .. Len(t) + 1 /\ stop \in stop .. End
      /\ \A n \in DOMAIN t : n \in taken + 1 .. stop => t[n] \notin OpenNames
  <2>1. stop \in taken .. Len(text) + 1
        /\ \A n \in DOMAIN t : n \in taken + 1 .. stop => t[n] \notin OpenNames
    BY <1>3 DEF Searched
  <2> QED BY <1>0, <2>1
<1>6. InPlain(t, taken)
  BY <1>0, <1>1 DEF Where
<1>7. InPlain(t, stop) /\ Visible(t, stop) = Visible(t, taken) \cup Solids(t, taken, stop)
  BY <1>0, <1>5, <1>6, Shows
<1>8. SentBelow(shown', stop) /\ SolidIn(t, shown') = Visible(t, stop)
  BY <1>2, <1>5, <1>7, Stretch
<1>9. ASSUME tstate = "push" PROVE \A i \in stop .. Len(text) : text[i] # "/t"
  <2>1. SUFFICES ASSUME NEW i \in stop .. Len(text), text[i] = "/t" PROVE FALSE
    OBVIOUS
  <2>2. i \in taken .. Len(text)
    BY <1>0, <1>5
  <2>3. /\ i + 1 = Len(text) /\ text[i + 1] = ">" /\ Calling(t, i) /\ i \in Nat
    BY <2>1, <2>2, LateIs
  <2>4. PICK p \in 1 .. i - 1 : t[p] = "t" /\ \A q \in p .. i - 1 : t[q] # "/t"
    BY <2>3 DEF Calling, IsOpen
  <2>5. p \in DOMAIN t /\ p \in Nat
    BY <1>0, <2>3
  <2>6. ~(p <= taken)
    <3>1. ASSUME p <= taken PROVE FALSE
      <4>1. PICK q \in p .. taken - 2 : t[q] = "/t"
        BY <1>6, <2>4, <2>5, <3>1 DEF InPlain, ClosedBy
      <4>2. q \in p .. i - 1
        BY <1>0, <2>2, <2>5, <4>1
      <4> QED BY <2>4, <4>1, <4>2
    <3> QED BY <3>1
  <2>7. f < p
    <3>1. f \in taken .. Len(text) + 1
          /\ \A n \in taken + 1 .. f : n + 1 <= Len(text) + 1 => t[n] \notin OpenNames
      BY <1>3 DEF Searched
    <3>2. "t" \in OpenNames
      BY DEF OpenNames
    <3> HIDE DEF f
    <3>3. ~(p \in taken + 1 .. f)
      BY <1>0, <2>3, <2>4, <3>1, <3>2
    <3> QED BY <1>0, <2>5, <2>6, <3>1, <3>3
  <2>8. f \in taken .. Len(text) + 1 /\ (~Found(text, f) => f = Len(text) + 1)
        /\ (Found(text, f) => f \in 1 .. Len(text))
    BY <1>3 DEF Searched
  <2> HIDE DEF f
  <2>9. Found(text, f)
    BY <1>0, <2>3, <2>4, <2>7, <2>8
  <2>10. TagEnd(text, f) = NoEnd /\ i + 1 \in f .. Len(text) /\ f \in 1 .. Len(text) + 1
    BY <1>0, <1>1, <2>3, <2>4, <2>7, <2>8, <2>9
  <2> QED BY <1>0, <2>3, <2>10, SomeEnd
<1>10. taken' = stop => Where(t)'
  <2>1. SUFFICES ASSUME taken' = stop PROVE Where(t)'
    OBVIOUS
  <2>2. tmode' = "content" /\ InPlain(t, taken')
    BY <1>1, <1>2, <1>7, <2>1 DEF Return
  <2> QED BY <2>2 DEF Where
<1> HIDE DEF f
<1> QED BY <1>2, <1>4, <1>5, <1>8, <1>9, <1>10, Returned

LEMMA SentStill ==
    ASSUME NEW t, Turns(t), NEW b \in taken .. End, shown' = shown, Visible(t, b) = Visible(t, taken)
    PROVE  SentBelow(shown', b) /\ SolidIn(t, shown') = Visible(t, b)
<1>1. /\ SentBelow(shown, taken) /\ SolidIn(t, shown) = Visible(t, taken) /\ taken \in Nat \ {0}
      /\ End = Len(text) + 1 /\ Len(text) \in Nat
  BY TurnIs
<1>2. SentBelow(shown, b)
  BY <1>1 DEF SentBelow
<1> QED BY <1>1, <1>2

\* When process() goes on.
LEMMA WentOn ==
    ASSUME NEW t, Turns(t), NEW b \in taken .. End, taken' = b, tstate' = tstate, resume' = FALSE,
           tmode' \in {"content", "thinking", "tool"}, outerTool' \in BOOLEAN,
           SentBelow(shown', b), SolidIn(t, shown') = Visible(t, b), Where(t)'
    PROVE  ShowsWell(t)'
<1>0. /\ tstate \in {"push", "finish"} /\ End' = End /\ End = Len(text) + 1 /\ Len(text) \in Nat
      /\ taken \in Nat \ {0} /\ Late /\ text' = text
  BY TurnIs DEF Turns
<1>1. taken' \in 1 .. End'
  BY <1>0
<1>2. Late'
  <2>1. \A i \in b .. Len(text) : i \in taken .. Len(text)
    BY <1>0
  <2> QED BY <1>0, <2>1 DEF Late
<1> QED BY <1>0, <1>1, <1>2 DEF ShowsWell

LEMMA NothingPendingShows ==
    ASSUME NEW t, Turns(t), NothingPending
    PROVE  ShowsWell(t)'
<1>1. /\ taken = End /\ End = Len(text) + 1 /\ Len(text) \in Nat /\ taken \in taken .. End
      /\ SentBelow(shown, taken) /\ SolidIn(t, shown) = Visible(t, taken) /\ Where(t)
  <2>1. taken = End
    BY DEF NothingPending
  <2>2. /\ End = Len(text) + 1 /\ Len(text) \in Nat /\ taken \in Nat
        /\ SentBelow(shown, taken) /\ SolidIn(t, shown) = Visible(t, taken) /\ Where(t)
    BY TurnIs
  <2>3. taken \in taken .. End
    <3> HIDE DEF End
    <3> QED BY <2>1, <2>2
  <2> QED BY <2>1, <2>2, <2>3
<1>2. Return(taken) /\ shown' = shown
  BY DEF NothingPending
<1>3. SentBelow(shown', taken) /\ SolidIn(t, shown') = Visible(t, taken)
  BY <1>1, <1>2
<1>4. \A i \in taken .. Len(text) : text[i] # "/t"
  BY <1>1
<1>5. taken' = taken => Where(t)'
  BY <1>1, <1>2 DEF Return, Where
<1> QED BY <1>1, <1>2, <1>3, <1>4, <1>5, Returned

LEMMA LeaveContentShows ==
    ASSUME NEW t, Turns(t), LeaveContent
    PROVE  ShowsWell(t)'
<1> DEFINE f == Find(text, ContentMarkers, taken)
           stop == StopIs(text, f, taken, ContentMarkers)
           b == TagEnd(text, f)
           n == f + 1
<1>0. /\ Prefix(text, t) /\ Tidy(t) /\ Nests(t) /\ t \in Seq(STRING) /\ text \in Seq(STRING)
      /\ Len(text) \in Nat /\ Len(t) \in Nat
      /\ DOMAIN t = 1 .. Len(t) /\ Len(text) <= Len(t) /\ End = Len(text) + 1
      /\ taken \in 1 .. Len(text) + 1 /\ taken \in Nat \ {0} /\ resume = FALSE
      /\ Where(t)
      /\ \A i \in 1 .. Len(text) : t[i] = text[i] /\ i \in DOMAIN t
  BY TurnIs
<1>1. /\ tmode = "content" /\ Found(text, f) /\ b # NoEnd
      /\ shown' = shown \o Span(taken, f) /\ taken' = b
      /\ tmode' = IF StartsAt(text, f, <<"<", "k">>) THEN "thinking" ELSE "tool"
      /\ outerTool' = StartsAt(text, f, OpenCall) /\ tstate' = tstate /\ resume' = resume
  BY DEF LeaveContent
<1>2. Searched(text, t, OpenNames, 1, taken, f, stop)
  <2>1. OpenNames \subseteq Tags /\ 1 \in {1, 2}
    BY DEF OpenNames, Tags
  <2>2. Names(text, t, ContentMarkers, OpenNames, 1) /\ Holds(ContentMarkers, OpenNames, 1)
    BY <1>0, ContentNames
  <2> QED BY <1>0, <2>1, <2>2, SearchIs
<1> HIDE DEF stop, f
<1>3. /\ f \in taken .. Len(text) /\ f \in 1 .. Len(text) /\ n <= Len(text) /\ t[n] \in OpenNames
      /\ \A m \in DOMAIN t : m \in taken + 1 .. f => t[m] \notin OpenNames
  <2>1. /\ f \in taken .. Len(text) + 1 /\ f \in 1 .. Len(text) /\ n <= Len(text) /\ t[n] \in OpenNames
        /\ stop = f
        /\ \A m \in DOMAIN t : m \in taken + 1 .. stop => t[m] \notin OpenNames
    BY <1>1, <1>2 DEF Searched
  <2> QED BY <1>0, <2>1
<1>4. BehindTag(text, t, f, b)
  <2>1. t[n] \in Tags
    BY <1>3 DEF OpenNames, Tags
  <2> QED BY <1>0, <1>1, <1>3, <2>1, TagEnds
<1> HIDE DEF b
<1>5. /\ b \in f + 3 .. Len(text) + 1 /\ b \in f .. Len(t) + 1 /\ b \in f .. End /\ b \in taken .. End
      /\ f \in taken .. Len(t) + 1 /\ f \in taken .. End /\ f \in Nat \ {0} /\ b \in b .. b
      /\ \A q \in DOMAIN t : q \in f + 2 .. b => t[q] \notin Tags
  <2>1. b \in f + 3 .. Len(text) + 1 /\ \A q \in DOMAIN t : q \in f + 2 .. b => t[q] \notin Tags
    BY <1>4 DEF BehindTag
  <2> QED BY <1>0, <1>3, <2>1
<1>6. n \in DOMAIN t /\ n \in Nat
  BY <1>0, <1>3
<1>7. \A close \in {"/k", "/t", "/f"} : \A q \in n .. b : q \in DOMAIN t => t[q] # close
  <2> TAKE close \in {"/k", "/t", "/f"}
  <2>1. close \in Tags /\ close \notin OpenNames
    BY DEF Tags, OpenNames
  <2>2. \A q \in n .. b : q = n \/ q \in f + 2 .. b
    BY <1>5
  <2> QED BY <1>3, <1>5, <2>1, <2>2
<1>8. InPlain(t, taken)
  BY <1>0, <1>1 DEF Where
<1>9. InPlain(t, f) /\ Visible(t, f) = Visible(t, taken) \cup Solids(t, taken, f)
  BY <1>0, <1>3, <1>5, <1>8, Shows
<1>10. \E close \in {"/k", "/t", "/f"} : <<t[n], close>> \in Pairs
  BY <1>3 DEF OpenNames, Pairs
<1>11. Visible(t, b) = Visible(t, f)
  <2>1. PICK close \in {"/k", "/t", "/f"} : <<t[n], close>> \in Pairs
    BY <1>10
  <2>2. \A q \in n .. b - 3 : t[q] # close
    <3>1. \A q \in n .. b - 3 : q \in n .. b /\ q \in DOMAIN t
      BY <1>0, <1>5, <1>6
    <3> QED BY <1>7, <3>1
  <2>3. b \in f .. b /\ \A i \in b .. b - 1 : t[i] = "n"
    BY <1>5
  <2>4. n <= f + 1
    BY <1>5
  <2>5. Covers(t, n, t[n], close, f, b)
    BY <1>6, <2>1, <2>2, <2>4 DEF Covers
  <2>6. t \in Seq(STRING) /\ f \in Nat \ {0} /\ b \in f .. Len(t) + 1
    BY <1>0, <1>5
  <2> QED BY <2>3, <2>5, <2>6, Hides
<1>12. SentBelow(shown', b) /\ SolidIn(t, shown') = Visible(t, b)
  <2>1. Visible(t, b) = Visible(t, taken) \cup Solids(t, taken, f)
    BY <1>9, <1>11
  <2> QED BY <1>1, <1>5, <2>1, Stretch
<1>13. n + 1 < b
  BY <1>5
<1>14. /\ tmode' = IF t[n] = "k" THEN "thinking" ELSE "tool"
       /\ outerTool' = (t[n] = "t")
  <2>1. "k" \in Tags /\ "t" \in Tags /\ f \in Nat \ {0}
    BY <1>5 DEF Tags
  <2>2. StartsAt(text, f, <<"<", "k">>) <=> t[n] = "k"
    BY <1>0, <1>3, <2>1, OpenMarks
  <2>3. StartsAt(text, f, OpenCall) <=> t[n] = "t"
    BY <1>0, <1>3, <2>1, OpenMarks DEF OpenCall
  <2>4. StartsAt(text, f, OpenCall) \in BOOLEAN
    BY DEF StartsAt
  <2> QED BY <1>1, <2>2, <2>3, <2>4
<1>15. t[n] = "f" => ~IsOpen(t, "t", "/t", n)
  <2>1. SUFFICES ASSUME NEW p \in 1 .. n - 1, t[p] = "t", \A q \in p .. n - 1 : t[q] # "/t" PROVE FALSE
    BY DEF IsOpen
  <2>2. p \in DOMAIN t /\ p <= f /\ p \in Nat
    BY <1>0, <1>3
  <2>3. PICK q \in p .. f - 2 : t[q] = "/t"
    BY <1>9, <2>1, <2>2 DEF InPlain, ClosedBy
  <2>4. q \in p .. n - 1
    BY <1>5, <2>2, <2>3
  <2> QED BY <2>1, <2>3, <2>4
<1>16. Where(t)'
  <2>1. taken' = b /\ t[n] \in {"k", "t", "f"}
    BY <1>1, <1>3 DEF OpenNames
  <2> HIDE DEF n
  <2>2. \A close \in {"/k", "/t", "/f"} : Within(t, n, b, t[n], close)
    BY <1>6, <1>7, <1>13 DEF Within
  <2>3. CASE t[n] = "k"
    <3>1. tmode' = "thinking" /\ Within(t, n, taken', "k", "/k")
      BY <1>14, <2>1, <2>2, <2>3
    <3> QED BY <1>6, <3>1 DEF Where
  <2>4. CASE t[n] = "t"
    <3>1. tmode' = "tool" /\ outerTool' = TRUE /\ Within(t, n, taken', "t", "/t")
      BY <1>14, <2>1, <2>2, <2>4
    <3> QED BY <1>6, <3>1 DEF Where
  <2>5. CASE t[n] = "f"
    <3>1. tmode' = "tool" /\ outerTool' = FALSE /\ Within(t, n, taken', "f", "/f")
      BY <1>14, <2>1, <2>2, <2>5
    <3> QED BY <1>6, <1>15, <2>5, <3>1 DEF Where
  <2> QED BY <2>1, <2>3, <2>4, <2>5
<1>17. tmode' \in {"content", "thinking", "tool"} /\ outerTool' \in BOOLEAN
  BY <1>14
<1> HIDE DEF n
<1> QED BY <1>0, <1>1, <1>5, <1>12, <1>16, <1>17, WentOn

\* Inside a block.
LEMMA StillWithin ==
    ASSUME NEW t, Turns(t), NEW n, NEW tag, NEW close, <<tag, close>> \in Pairs,
           Within(t, n, taken, tag, close), NEW b \in taken .. End,
           \A q \in DOMAIN t : q \in taken + 1 .. b => t[q] # close
    PROVE  Within(t, n, b, tag, close) /\ Visible(t, b) = Visible(t, taken)
<1>0. /\ t \in Seq(STRING) /\ Len(text) \in Nat /\ Len(t) \in Nat
      /\ DOMAIN t = 1 .. Len(t) /\ Len(text) <= Len(t) /\ End = Len(text) + 1
      /\ taken \in Nat \ {0}
  BY TurnIs
<1>1. /\ n \in DOMAIN t /\ n + 1 < taken /\ t[n] = tag /\ n \in Nat
      /\ \A q \in n .. taken : q \in DOMAIN t => t[q] # close
  BY <1>0 DEF Within
<1>2. b \in Nat /\ taken <= b /\ b <= Len(t) + 1 /\ n + 1 < b
  BY <1>0, <1>1
<1>3. \A q \in n .. b : q \in DOMAIN t => t[q] # close
  <2>1. \A q \in n .. b : q \in n .. taken \/ q \in taken + 1 .. b
    BY <1>0, <1>1, <1>2
  <2> QED BY <1>1, <2>1
<1>4. Within(t, n, b, tag, close)
  BY <1>1, <1>2, <1>3 DEF Within
<1>5. Visible(t, b) = Visible(t, taken)
  <2>1. \A q \in n .. b - 3 : t[q] # close
    <3>1. \A q \in n .. b - 3 : q \in n .. b /\ q \in DOMAIN t
      BY <1>0, <1>1, <1>2
    <3> QED BY <1>3, <3>1
  <2>2. Covers(t, n, tag, close, taken, b)
    BY <1>0, <1>1, <2>1 DEF Covers
  <2>3. b \in taken .. Len(t) + 1 /\ b \in taken .. b /\ \A i \in b .. b - 1 : t[i] = "n"
    BY <1>0, <1>2
  <2> QED BY <1>0, <2>2, <2>3, Hides
<1> QED BY <1>4, <1>5

LEMMA SkipThinkingShows ==
    ASSUME NEW t, Turns(t), SkipThinking
    PROVE  ShowsWell(t)'
<1> DEFINE f == Find(text, ThinkingMarkers, taken)
           stop == StopIs(text, f, taken, ThinkingMarkers)
<1>0. /\ Prefix(text, t) /\ Tidy(t) /\ Nests(t) /\ t \in Seq(STRING) /\ text \in Seq(STRING)
      /\ Len(text) \in Nat /\ Len(t) \in Nat
      /\ DOMAIN t = 1 .. Len(t) /\ Len(text) <= Len(t) /\ End = Len(text) + 1
      /\ taken \in 1 .. Len(text) + 1 /\ taken \in Nat \ {0}
      /\ tstate = "finish" => t = text
      /\ Where(t)
      /\ \A i \in 1 .. Len(text) : t[i] = text[i] /\ i \in DOMAIN t
  BY TurnIs
<1>1. tmode = "thinking" /\ (Found(text, f) => TagEnd(text, f) = NoEnd)
  BY DEF SkipThinking
<1>2. shown' = shown /\ Return(stop)
  <2>1. stop = IF Found(text, f) THEN f ELSE Safe(ThinkingMarkers)
    BY DEF StopIs, Safe, End
  <2> QED BY <2>1 DEF SkipThinking
<1>3. Searched(text, t, ThoughtNames, 1, taken, f, stop)
  <2>1. ThoughtNames \subseteq Tags /\ 1 \in {1, 2}
    BY DEF ThoughtNames, Tags
  <2>2. Names(text, t, ThinkingMarkers, ThoughtNames, 1) /\ Holds(ThinkingMarkers, ThoughtNames, 1)
    BY <1>0, ThinkingNames
  <2> QED BY <1>0, <2>1, <2>2, SearchIs
<1>4. tstate = "finish" => stop = End
  <2>1. SUFFICES ASSUME tstate = "finish" PROVE stop = End
    OBVIOUS
  <2>2. t = text
    BY <1>0, <2>1
  <2>3. ~Found(text, f)
    <3>1. ASSUME Found(text, f) PROVE FALSE
      <4>1. f \in 1 .. Len(text) /\ f + 1 <= Len(text) /\ t[f + 1] \in ThoughtNames
        BY <1>3, <3>1 DEF Searched
      <4>2. t[f + 1] \in Tags /\ TagEnd(text, f) = NoEnd
        BY <1>1, <3>1, <4>1 DEF ThoughtNames, Tags
      <4> HIDE DEF f
      <4> QED BY <1>0, <2>2, <4>1, <4>2, TagEnds
    <3> QED BY <3>1
  <2>4. HeldBack(text, taken, ThinkingMarkers) = 0
    BY <1>0, <2>2, NothingHeld, TerminalMarkers
  <2> QED BY <1>0, <2>3, <2>4 DEF StopIs
<1> HIDE DEF stop
<1>5. /\ stop \in taken .. End /\ stop \in stop .. End
      /\ \A n \in DOMAIN t : n \in taken + 1 .. stop => t[n] # "/k"
  <2>1. stop \in taken .. Len(text) + 1
        /\ \A n \in DOMAIN t : n \in taken + 1 .. stop => t[n] \notin ThoughtNames
    BY <1>3 DEF Searched
  <2>2. "/k" \in ThoughtNames
    BY DEF ThoughtNames
  <2> QED BY <1>0, <2>1, <2>2
<1>6. PICK n \in DOMAIN t : Within(t, n, taken, "k", "/k")
  BY <1>0, <1>1 DEF Where
<1>7. Within(t, n, stop, "k", "/k") /\ Visible(t, stop) = Visible(t, taken)
  <2>1. <<"k", "/k">> \in Pairs
    BY DEF Pairs
  <2> QED BY <1>5, <1>6, <2>1, StillWithin
<1>8. SentBelow(shown', stop) /\ SolidIn(t, shown') = Visible(t, stop)
  BY <1>2, <1>5, <1>7, SentStill
<1>9. ASSUME tstate = "push" PROVE \A i \in stop .. Len(text) : text[i] # "/t"
  <2>1. SUFFICES ASSUME NEW i \in stop .. Len(text), text[i] = "/t" PROVE FALSE
    OBVIOUS
  <2>2. i \in taken .. Len(text)
    BY <1>0, <1>5
  <2>3. /\ i + 1 = Len(text) /\ text[i + 1] = ">" /\ Calling(t, i) /\ i \in Nat
    BY <2>1, <2>2, LateIs
  <2>4. PICK p \in 1 .. i - 1 : t[p] = "t" /\ \A q \in p .. i - 1 : t[q] # "/t"
    BY <2>3 DEF Calling, IsOpen
  <2>5. p \in DOMAIN t /\ p \in Nat
    BY <1>0, <2>3
  <2>6. /\ n + 1 < taken /\ t[n] = "k" /\ n \in Nat /\ n \in 1 .. Len(t)
        /\ \A q \in n .. taken : q \in DOMAIN t => t[q] # "/k"
    BY <1>0, <1>6 DEF Within
  <2>7. n < p
    <3>1. ASSUME p < n PROVE FALSE
      <4>1. ~Calling(t, n)
        BY <1>0, <2>6 DEF Nests
      <4>2. p \in 1 .. n - 1 /\ \A q \in p .. n - 1 : q \in p .. i - 1
        BY <1>0, <2>2, <2>5, <2>6, <3>1
      <4> QED BY <2>4, <4>1, <4>2 DEF Calling, IsOpen
    <3>2. p # n
      BY <2>4, <2>6
    <3> QED BY <2>5, <2>6, <3>1, <3>2
  <2>8. PICK r \in n .. p - 1 : t[r] = "/k"
    <3>1. ~Thinking(t, p) /\ n \in 1 .. p - 1
      BY <1>0, <2>4, <2>5, <2>6, <2>7 DEF Nests
    <3> QED BY <2>6, <3>1 DEF Thinking, IsOpen
  <2>9. r \in taken + 1 .. p - 1 /\ r \in DOMAIN t
    <3>1. r \in DOMAIN t
      BY <1>0, <2>5, <2>6, <2>8
    <3>2. ~(r \in n .. taken)
      BY <2>6, <2>8, <3>1
    <3> QED BY <1>0, <2>5, <2>6, <2>8, <3>1, <3>2
  <2>10. /\ f \in taken .. Len(text) + 1 /\ (~Found(text, f) => f = Len(text) + 1)
         /\ (Found(text, f) => f \in 1 .. Len(text))
         /\ \A m \in taken + 1 .. f : m + 1 <= Len(text) + 1 => t[m] \notin ThoughtNames
    BY <1>3 DEF Searched
  <2> HIDE DEF f
  <2>11. f < r
    <3>1. "/k" \in ThoughtNames /\ r + 1 <= Len(text) + 1
      BY <1>0, <2>3, <2>5, <2>9 DEF ThoughtNames
    <3>2. ~(r \in taken + 1 .. f)
      BY <2>8, <2>10, <3>1
    <3> QED BY <1>0, <2>9, <2>10, <3>2
  <2>12. Found(text, f)
    BY <1>0, <2>3, <2>5, <2>9, <2>10, <2>11
  <2>13. TagEnd(text, f) = NoEnd /\ i + 1 \in f .. Len(text) /\ f \in 1 .. Len(text) + 1
    BY <1>0, <1>1, <2>3, <2>5, <2>9, <2>10, <2>11, <2>12
  <2> QED BY <1>0, <2>3, <2>13, SomeEnd
<1>10. taken' = stop => Where(t)'
  <2>1. SUFFICES ASSUME taken' = stop PROVE Where(t)'
    OBVIOUS
  <2>2. tmode' = "thinking" /\ Within(t, n, taken', "k", "/k")
    BY <1>1, <1>2, <1>7, <2>1 DEF Return
  <2> QED BY <2>2 DEF Where
<1> HIDE DEF f
<1> QED BY <1>2, <1>4, <1>5, <1>8, <1>9, <1>10, Returned

LEMMA LeaveThinkingShows ==
    ASSUME NEW t, Turns(t), LeaveThinking
    PROVE  ShowsWell(t)'
<1> DEFINE f == Find(text, ThinkingMarkers, taken)
           stop == StopIs(text, f, taken, ThinkingMarkers)
           tool == \E m \in OpenTool : StartsAt(text, f, m)
           b == TagEnd(text, f)
<1>0. /\ Prefix(text, t) /\ Tidy(t) /\ Nests(t) /\ t \in Seq(STRING) /\ text \in Seq(STRING)
      /\ Len(text) \in Nat /\ Len(t) \in Nat
      /\ DOMAIN t = 1 .. Len(t) /\ Len(text) <= Len(t) /\ End = Len(text) + 1
      /\ taken \in 1 .. Len(text) + 1 /\ taken \in Nat \ {0}
      /\ Where(t) /\ resume = FALSE /\ outerTool \in BOOLEAN
      /\ \A i \in 1 .. Len(text) : t[i] = text[i] /\ i \in DOMAIN t
  BY TurnIs
<1>1. /\ tmode = "thinking" /\ Found(text, f) /\ b # NoEnd
      /\ taken' = b /\ tmode' = (IF tool THEN "tool" ELSE "content")
      /\ resume' = (resume \/ tool)
      /\ outerTool' = (IF tool THEN StartsAt(text, f, OpenCall) ELSE outerTool)
      /\ shown' = shown /\ tstate' = tstate
  BY DEF LeaveThinking
<1>2. Searched(text, t, ThoughtNames, 1, taken, f, stop)
  <2>1. ThoughtNames \subseteq Tags /\ 1 \in {1, 2}
    BY DEF ThoughtNames, Tags
  <2>2. Names(text, t, ThinkingMarkers, ThoughtNames, 1) /\ Holds(ThinkingMarkers, ThoughtNames, 1)
    BY <1>0, ThinkingNames
  <2> QED BY <1>0, <2>1, <2>2, SearchIs
<1> HIDE DEF stop, f
<1>3. /\ f \in taken .. Len(text) /\ f \in 1 .. Len(text) /\ f + 1 <= Len(text)
      /\ t[f + 1] \in ThoughtNames
      /\ \A m \in DOMAIN t : m \in taken + 1 .. f => t[m] \notin ThoughtNames
  <2>1. /\ f \in taken .. Len(text) + 1 /\ f \in 1 .. Len(text) /\ f + 1 <= Len(text)
        /\ t[f + 1] \in ThoughtNames /\ stop = f
        /\ \A m \in DOMAIN t : m \in taken + 1 .. stop => t[m] \notin ThoughtNames
    BY <1>1, <1>2 DEF Searched
  <2> QED BY <1>0, <2>1
<1>4. PICK n \in DOMAIN t : Within(t, n, taken, "k", "/k")
  BY <1>0, <1>1 DEF Where
<1>5. /\ n + 1 < taken /\ t[n] = "k" /\ n \in Nat /\ n \in 1 .. Len(t)
      /\ \A q \in n .. taken : q \in DOMAIN t => t[q] # "/k"
  BY <1>0, <1>4 DEF Within
<1>6. \A r \in n .. f : t[r] # "/k"
  <2> TAKE r \in n .. f
  <2>1. r \in DOMAIN t /\ (r \in n .. taken \/ r \in taken + 1 .. f)
    BY <1>0, <1>3, <1>5
  <2> QED BY <1>3, <1>5, <2>1 DEF ThoughtNames
<1> DEFINE q == f + 1
<1>7. q \in DOMAIN t /\ n < q /\ q \in Nat /\ f \in Nat \ {0} /\ q - 1 = f
  BY <1>0, <1>3, <1>5
<1>8. t[q] = "/k"
  <2>1. SUFFICES ASSUME t[q] \in {"t", "f"} PROVE FALSE
    BY <1>3 DEF ThoughtNames
  <2>2. ~Thinking(t, q)
    BY <1>0, <1>7, <2>1 DEF Nests
  <2>3. n \in 1 .. q - 1 /\ \A r \in n .. q - 1 : t[r] # "/k"
    BY <1>5, <1>6, <1>7
  <2> HIDE DEF q
  <2> QED BY <1>5, <2>2, <2>3 DEF Thinking, IsOpen
<1>9. tool = FALSE
  <2>1. "t" \in Tags /\ "f" \in Tags
    BY DEF Tags
  <2>2. ~StartsAt(text, f, <<"<", "t">>) /\ ~StartsAt(text, f, <<"<", "f">>)
    BY <1>0, <1>7, <1>8, <2>1, OpenMarks
  <2> QED BY <2>2 DEF OpenTool, OpenCall, OpenFunction
<1>10. BehindTag(text, t, f, b)
  <2>1. t[f + 1] \in Tags
    BY <1>8 DEF Tags
  <2> QED BY <1>0, <1>1, <1>3, <2>1, TagEnds
<1> HIDE DEF b, tool
<1>11. /\ b \in f + 3 .. Len(text) + 1 /\ b \in taken .. End /\ b \in taken .. Len(t) + 1 /\ b \in Nat
       /\ f + 3 \in taken .. b /\ (f + 3) - 3 = f
       /\ \A m \in DOMAIN t : m \in q + 1 .. b => t[m] \notin Tags
       /\ \A i \in f + 3 .. b - 1 : t[i] = "n"
  <2>1. /\ b \in f + 3 .. Len(text) + 1 /\ \A m \in DOMAIN t : m \in f + 2 .. b => t[m] \notin Tags
        /\ \A i \in f + 3 .. b - 1 : t[i] = "n"
    BY <1>8, <1>10 DEF BehindTag
  <2> QED BY <1>0, <1>3, <1>7, <2>1
<1>12. InPlain(t, b)
  <2>1. Block(t, n, q, b, "k", "/k")
    <3>1. q + 2 <= b
      BY <1>7, <1>11
    <3> HIDE DEF q
    <3> QED BY <1>5, <1>6, <1>7, <1>8, <1>11, <3>1 DEF Block
  <2> HIDE DEF q
  <2> QED BY <1>0, <2>1, LeaveBlock
<1>13. Visible(t, b) = Visible(t, taken)
  <2>1. Covers(t, n, "k", "/k", taken, f + 3)
    <3>1. n <= taken + 1 /\ \A r \in n .. (f + 3) - 3 : t[r] # "/k"
      BY <1>0, <1>5, <1>6, <1>11
    <3> QED BY <1>4, <1>5, <3>1 DEF Covers, Pairs
  <2> QED BY <1>0, <1>11, <2>1, Hides
<1>14. SentBelow(shown', b) /\ SolidIn(t, shown') = Visible(t, b)
  BY <1>1, <1>11, <1>13, SentStill
<1>15. tmode' = "content" /\ outerTool' \in BOOLEAN /\ resume' = FALSE
  BY <1>0, <1>1, <1>9
<1>16. Where(t)'
  BY <1>1, <1>12, <1>15 DEF Where
<1> QED BY <1>1, <1>11, <1>14, <1>15, <1>16, WentOn

\* The block a tool call is skipped in.
InTool(t, n, tag, close) ==
    /\ n \in DOMAIN t /\ Within(t, n, taken, tag, close)
    /\ \/ tag = "t" /\ close = "/t" /\ outerTool
       \/ tag = "f" /\ close = "/f" /\ ~outerTool /\ ~Calling(t, n)

LEMMA ToolBlock ==
    ASSUME NEW t, Turns(t), tmode = "tool"
    PROVE  \E n, tag, close : InTool(t, n, tag, close)
<1>1. Where(t) /\ outerTool \in BOOLEAN
  BY TurnIs
<1>2. CASE outerTool
  <2>1. PICK n \in DOMAIN t : Within(t, n, taken, "t", "/t")
    BY <1>1, <1>2 DEF Where
  <2>2. InTool(t, n, "t", "/t")
    BY <1>2, <2>1 DEF InTool
  <2> QED BY <2>2
<1>3. CASE ~outerTool
  <2>1. PICK n \in DOMAIN t : Within(t, n, taken, "f", "/f") /\ ~Calling(t, n)
    BY <1>1, <1>3 DEF Where, Calling
  <2>2. InTool(t, n, "f", "/f")
    BY <1>3, <2>1 DEF InTool
  <2> QED BY <2>2
<1> QED BY <1>1, <1>2, <1>3

LEMMA InToolIs ==
    ASSUME NEW t, Turns(t), NEW n, NEW tag, NEW close, InTool(t, n, tag, close)
    PROVE  /\ n \in DOMAIN t /\ n \in Nat \ {0} /\ n + 1 < taken /\ t[n] = tag
           /\ Within(t, n, taken, tag, close)
           /\ \A q \in n .. taken : q \in DOMAIN t => t[q] # close
           /\ <<tag, close>> \in Pairs /\ close \in ToolNames /\ close \in Tags
           /\ \/ tag = "t" /\ close = "/t" /\ outerTool
              \/ tag = "f" /\ close = "/f" /\ ~outerTool /\ ~Calling(t, n)
<1>1. DOMAIN t = 1 .. Len(t) /\ Len(t) \in Nat
  BY TurnIs
<1> QED BY <1>1 DEF InTool, Within, Pairs, ToolNames, Tags

LEMMA ToolSearched ==
    ASSUME NEW t, Turns(t), NEW f, f = Find(text, ToolEnds, taken),
           NEW stop, stop = StopIs(text, f, taken, {CloseCall, CloseFunction})
    PROVE  Searched(text, t, ToolNames, 2, taken, f, stop)
<1>0. Prefix(text, t) /\ Tidy(t) /\ taken \in 1 .. Len(text) + 1
  BY TurnIs
<1>1. ToolNames \subseteq Tags /\ 2 \in {1, 2}
  BY DEF ToolNames, Tags
<1>2. Names(text, t, ToolEnds, ToolNames, 2) /\ Holds({CloseCall, CloseFunction}, ToolNames, 2)
  BY <1>0, ToolNamesAre
<1> DEFINE H == {CloseCall, CloseFunction}
<1>3. Holds(H, ToolNames, 2) /\ stop = StopIs(text, f, taken, H)
  BY <1>2
<1> HIDE DEF H
<1> QED BY <1>0, <1>1, <1>2, <1>3, SearchIs

LEMMA SkipToolShows ==
    ASSUME NEW t, Turns(t), SkipTool
    PROVE  ShowsWell(t)'
<1> DEFINE f == Find(text, ToolEnds, taken)
           H == {CloseCall, CloseFunction}
           stop == StopIs(text, f, taken, H)
<1>0. /\ Prefix(text, t) /\ Tidy(t) /\ Nests(t) /\ t \in Seq(STRING) /\ text \in Seq(STRING)
      /\ Len(text) \in Nat /\ Len(t) \in Nat
      /\ DOMAIN t = 1 .. Len(t) /\ Len(text) <= Len(t) /\ End = Len(text) + 1
      /\ taken \in 1 .. Len(text) + 1 /\ taken \in Nat \ {0}
      /\ tstate = "finish" => t = text
      /\ \A i \in 1 .. Len(text) : t[i] = text[i] /\ i \in DOMAIN t
  BY TurnIs
<1>1. tmode = "tool" /\ ~Found(text, f)
  BY DEF SkipTool
<1>2. shown' = shown /\ Return(stop)
  <2>1. stop = Safe(H)
    BY <1>1 DEF StopIs, Safe, End
  <2> QED BY <2>1 DEF SkipTool
<1>3. Searched(text, t, ToolNames, 2, taken, f, stop)
  BY ToolSearched
<1>4. tstate = "finish" => stop = End
  <2>1. SUFFICES ASSUME tstate = "finish" PROVE stop = End
    OBVIOUS
  <2>2. t = text
    BY <1>0, <2>1
  <2>3. HeldBack(text, taken, H) = 0
    BY <1>0, <2>2, NothingHeld, TerminalMarkers
  <2> QED BY <1>0, <1>1, <2>3 DEF StopIs
<1> HIDE DEF stop
<1>5. /\ stop \in taken .. End /\ stop \in stop .. End
      /\ \A n \in DOMAIN t : n \in taken + 1 .. stop => t[n] \notin ToolNames
      /\ f = Len(text) + 1
      /\ \A n \in taken + 1 .. f : n + 2 <= Len(text) + 1 => t[n] \notin ToolNames
  <2>1. /\ stop \in taken .. Len(text) + 1
        /\ \A n \in DOMAIN t : n \in taken + 1 .. stop => t[n] \notin ToolNames
        /\ f = Len(text) + 1
        /\ \A n \in taken + 1 .. f : n + 2 <= Len(text) + 1 => t[n] \notin ToolNames
    BY <1>1, <1>3 DEF Searched
  <2> QED BY <1>0, <2>1
<1> HIDE DEF f
<1>6. PICK n, tag, close : InTool(t, n, tag, close)
  BY <1>1, ToolBlock
<1>7. /\ n \in DOMAIN t /\ n \in Nat \ {0} /\ n + 1 < taken /\ t[n] = tag
      /\ Within(t, n, taken, tag, close)
      /\ \A q \in n .. taken : q \in DOMAIN t => t[q] # close
      /\ <<tag, close>> \in Pairs /\ close \in ToolNames
      /\ \/ tag = "t" /\ close = "/t" /\ outerTool
         \/ tag = "f" /\ close = "/f" /\ ~outerTool /\ ~Calling(t, n)
  BY <1>6, InToolIs
<1>8. Within(t, n, stop, tag, close) /\ Visible(t, stop) = Visible(t, taken)
  <2>1. \A q \in DOMAIN t : q \in taken + 1 .. stop => t[q] # close
    BY <1>5, <1>7
  <2> QED BY <1>5, <1>7, <2>1, StillWithin
<1>9. SentBelow(shown', stop) /\ SolidIn(t, shown') = Visible(t, stop)
  BY <1>2, <1>5, <1>8, SentStill
<1>10. ASSUME tstate = "push" PROVE \A i \in stop .. Len(text) : text[i] # "/t"
  <2>1. SUFFICES ASSUME NEW i \in stop .. Len(text), text[i] = "/t" PROVE FALSE
    OBVIOUS
  <2>2. i \in taken .. Len(text)
    BY <1>0, <1>5
  <2>3. /\ i + 1 = Len(text) /\ ~Naming(t, i) /\ i \in Nat /\ t[i] = "/t" /\ i \in DOMAIN t
    BY <2>1, <2>2, LateIs
  <2>4. i = taken
    <3>1. "/t" \in ToolNames
      BY DEF ToolNames
    <3>2. i \notin taken + 1 .. f
      BY <1>0, <1>5, <2>3, <3>1
    <3> QED BY <1>0, <1>5, <2>2, <2>3, <3>2
  <2>5. taken \in n .. taken
    BY <1>0, <1>7
  <2>6. close # "/t"
    BY <1>7, <2>3, <2>4, <2>5
  <2>7. tag = "f" /\ close = "/f"
    BY <1>7, <2>6
  <2>8. n \in 1 .. i - 1 /\ \A q \in n .. i - 1 : t[q] # "/f"
    <3>1. n \in 1 .. i - 1 /\ \A q \in n .. i - 1 : q \in n .. taken /\ q \in DOMAIN t
      BY <1>0, <1>7, <2>3, <2>4
    <3> QED BY <1>7, <2>7, <3>1
  <2> QED BY <1>7, <2>3, <2>7, <2>8 DEF Naming, IsOpen
<1>11. taken' = stop => Where(t)'
  <2>1. SUFFICES ASSUME taken' = stop PROVE Where(t)'
    OBVIOUS
  <2>2. tmode' = "tool" /\ outerTool' = outerTool /\ Within(t, n, taken', tag, close)
    BY <1>1, <1>2, <1>8, <2>1 DEF Return
  <2> QED BY <1>7, <2>2 DEF Where, Calling
<1> QED BY <1>2, <1>4, <1>5, <1>9, <1>10, <1>11, Returned

LEMMA LeaveToolShows ==
    ASSUME NEW t, Turns(t), LeaveTool
    PROVE  ShowsWell(t)'
<1> DEFINE f == Find(text, ToolEnds, taken)
           H == {CloseCall, CloseFunction}
           stop == StopIs(text, f, taken, H)
           bracket == Find(text, {<<">">>}, f + 3)
           b == f + 3
           q == f + 1
<1>0. /\ Prefix(text, t) /\ Tidy(t) /\ Nests(t) /\ t \in Seq(STRING) /\ text \in Seq(STRING)
      /\ Len(text) \in Nat /\ Len(t) \in Nat
      /\ DOMAIN t = 1 .. Len(t) /\ Len(text) <= Len(t) /\ End = Len(text) + 1
      /\ taken \in 1 .. Len(text) + 1 /\ taken \in Nat \ {0} /\ resume = FALSE /\ outerTool \in BOOLEAN
      /\ \A i \in 1 .. Len(text) : t[i] = text[i] /\ i \in DOMAIN t
  BY TurnIs
<1>1. /\ tmode = "tool" /\ Found(text, f)
      /\ taken' = (IF StartsAt(text, f, CloseCall) /\ Found(text, bracket) THEN bracket + 1 ELSE f + 3)
      /\ tmode' = (IF resume THEN "thinking" ELSE "content") /\ resume' = FALSE
      /\ outerTool' = outerTool /\ shown' = shown /\ tstate' = tstate
  BY DEF LeaveTool
<1>2. Searched(text, t, ToolNames, 2, taken, f, stop)
  BY ToolSearched
<1> HIDE DEF stop, f
<1>3. /\ f \in taken .. Len(text) /\ f \in 1 .. Len(text) /\ f + 2 <= Len(text)
      /\ t[q] \in ToolNames /\ f \in Nat \ {0}
      /\ \A m \in DOMAIN t : m \in taken + 1 .. f => t[m] \notin ToolNames
  <2>1. /\ f \in taken .. Len(text) + 1 /\ f \in 1 .. Len(text) /\ f + 2 <= Len(text)
        /\ t[q] \in ToolNames /\ stop = f
        /\ \A m \in DOMAIN t : m \in taken + 1 .. stop => t[m] \notin ToolNames
    BY <1>1, <1>2 DEF Searched
  <2> QED BY <1>0, <2>1
<1>4. PICK n, tag, close : InTool(t, n, tag, close)
  BY <1>1, ToolBlock
<1>5. /\ n \in DOMAIN t /\ n \in Nat \ {0} /\ n + 1 < taken /\ t[n] = tag
      /\ \A r \in n .. taken : r \in DOMAIN t => t[r] # close
      /\ <<tag, close>> \in Pairs /\ close \in ToolNames /\ close \in Tags
      /\ \/ tag = "t" /\ close = "/t" /\ outerTool
         \/ tag = "f" /\ close = "/f" /\ ~outerTool /\ ~Calling(t, n)
  BY <1>4, InToolIs
<1>6. \A r \in n .. f : t[r] # close
  <2> TAKE r \in n .. f
  <2>1. r \in DOMAIN t /\ (r \in n .. taken \/ r \in taken + 1 .. f)
    BY <1>0, <1>3, <1>5
  <2> QED BY <1>3, <1>5, <2>1
<1>7. q \in DOMAIN t /\ n < q /\ q \in Nat /\ q - 1 = f /\ q \in taken .. Len(text) /\ q + 1 = f + 2
      /\ q + 1 \in DOMAIN t
  BY <1>0, <1>3, <1>5
<1>8. t[q] = close
  <2>1. CASE outerTool
    BY <1>3, <1>5, <2>1 DEF ToolNames
  <2>2. CASE ~outerTool
    <3>1. tag = "f" /\ close = "/f"
      BY <1>5, <2>2
    <3>2. SUFFICES ASSUME t[q] = "/t" PROVE FALSE
      BY <1>3, <2>2, <3>1 DEF ToolNames
    <3>3. ~Naming(t, q)
      BY <1>0, <1>7, <3>2 DEF Nests
    <3>4. n \in 1 .. q - 1 /\ \A r \in n .. q - 1 : t[r] # "/f"
      BY <1>0, <1>5, <1>6, <1>7, <3>1
    <3> HIDE DEF q
    <3> QED BY <1>5, <3>1, <3>3, <3>4 DEF Naming, IsOpen
  <2> QED BY <2>1, <2>2
<1>9. b \in taken .. End /\ b \in Nat /\ b \in taken .. Len(t) + 1 /\ b \in taken .. b /\ q + 2 = b
      /\ b - 3 = f
  BY <1>0, <1>3, <1>7
<1>10. taken' = b
  <2>1. CASE close = "/t"
    <3>1. text[q] = "/t"
      BY <1>0, <1>3, <1>7, <1>8, <2>1
    <3>2. q + 1 = Len(text)
      BY <1>7, <3>1, LateIs
    <3>3. b \in 1 .. Len(text) + 1 /\ b = Len(text) + 1
      BY <1>0, <1>7, <1>9, <3>2
    <3>4. bracket \in b .. Len(text) + 1
      <4> HIDE DEF b
      <4>1. bracket = Find(text, {<<">">>}, b)
        BY DEF b
      <4> HIDE DEF bracket
      <4> QED BY <1>0, <3>3, <4>1, FindWithin
    <3>5. ~Found(text, bracket)
      BY <1>0, <3>3, <3>4 DEF Found
    <3> QED BY <1>1, <3>5
  <2>2. CASE close # "/t"
    <3>1. ~StartsAt(text, f, <<"<", "/t", ">">>)
      BY <1>0, <1>3, <1>8, <2>2, CloseMarks
    <3> QED BY <1>1, <3>1 DEF CloseCall
  <2> QED BY <2>1, <2>2
<1>11. \A m \in DOMAIN t : m \in q + 1 .. b => t[m] \notin Tags
  <2>1. t[f + 2] = ">"
    <3>1. t[q] \in Tags /\ t[q] # "f"
      BY <1>5, <1>8
    <3> HIDE DEF q
    <3> QED BY <1>0, <1>7, <3>1 DEF Tidy
  <2>2. SUFFICES ASSUME NEW m \in DOMAIN t, m \in q + 1 .. b, t[m] \in Tags PROVE FALSE
    OBVIOUS
  <2>3. m = f + 2 \/ m = f + 3
    BY <1>7, <1>9, <2>2
  <2>4. m - 1 \in DOMAIN t /\ t[m - 1] = "<"
    BY <1>0, <2>2 DEF Tidy
  <2>5. m = f + 3 => m - 1 = f + 2
    BY <1>3
  <2> QED BY <2>1, <2>2, <2>3, <2>4, <2>5 DEF Tags
<1>12. InPlain(t, b)
  <2>1. Block(t, n, q, b, tag, close)
    <3>1. q + 2 <= b /\ \A r \in n .. q - 1 : t[r] # close
      BY <1>6, <1>7, <1>9
    <3> HIDE DEF q, b
    <3> QED BY <1>5, <1>7, <1>8, <1>9, <1>11, <3>1 DEF Block
  <2> HIDE DEF q, b
  <2>2. \/ Block(t, n, q, b, "t", "/t")
        \/ Block(t, n, q, b, "f", "/f") /\ ~Calling(t, n)
    BY <1>5, <2>1
  <2> QED BY <1>0, <2>2, LeaveBlock
<1>13. Visible(t, b) = Visible(t, taken)
  <2>1. Covers(t, n, tag, close, taken, b)
    <3>1. n <= taken + 1 /\ \A r \in n .. b - 3 : t[r] # close
      BY <1>0, <1>5, <1>6, <1>9
    <3> QED BY <1>5, <3>1 DEF Covers
  <2>2. \A i \in b .. b - 1 : t[i] = "n"
    BY <1>9
  <2> HIDE DEF b
  <2> QED BY <1>0, <1>9, <2>1, <2>2, Hides
<1>14. SentBelow(shown', b) /\ SolidIn(t, shown') = Visible(t, b)
  BY <1>1, <1>9, <1>13, SentStill
<1>15. tmode' = "content" /\ outerTool' \in BOOLEAN /\ resume' = FALSE
  BY <1>0, <1>1
<1>16. Where(t)'
  BY <1>10, <1>12, <1>15 DEF Where
<1> HIDE DEF b
<1> QED BY <1>1, <1>9, <1>10, <1>14, <1>15, <1>16, WentOn

\* The inductive invariant: whatever orderly text this becomes, what has been
\* printed is what there is to show of it so far.
TerminalInv ==
    /\ text \in Seq(STRING)
    /\ \A t \in Seq(STRING) : Orderly(t) /\ Becomes(t) => ShowsWell(t)

LEMMA TerminalInvInit == Init => TerminalInv
<1> SUFFICES ASSUME Init PROVE TerminalInv
  OBVIOUS
<1>a. text \in Seq(STRING)
  BY DEF Init
<1> SUFFICES ASSUME NEW t \in Seq(STRING), Orderly(t) PROVE ShowsWell(t)
  BY <1>a DEF TerminalInv
<1>0. Len(t) \in Nat /\ DOMAIN t = 1 .. Len(t) /\ Tidy(t)
  BY OrderlyIs
<1>1. /\ text = <<>> /\ taken = 1 /\ tmode = "content" /\ outerTool = FALSE /\ resume = FALSE
      /\ shown = <<>> /\ tstate = "idle"
  BY DEF Init, TerminalInit
<1>2. \A n \in DOMAIN t : n <= 1 => t[n] \notin Tags
  <2> SUFFICES ASSUME NEW n \in DOMAIN t, n <= 1, t[n] \in Tags PROVE FALSE
    OBVIOUS
  <2>1. n - 1 \in DOMAIN t
    BY <1>0 DEF Tidy
  <2> QED BY <1>0, <2>1
<1>3. InPlain(t, 1)
  BY <1>2 DEF InPlain, ClosedBy, Tags
<1>4. SentBelow(<<>>, 1) /\ SolidIn(t, <<>>) = {} /\ Visible(t, 1) = {}
  <2>1. SentBelow(<<>>, 1)
    BY DEF SentBelow, Increasing
  <2>2. SolidIn(t, <<>>) = {}
    BY DEF SolidIn, Positions
  <2>3. Visible(t, 1) = {}
    <3>1. 1 .. 1 - 1 = {}
      OBVIOUS
    <3> QED BY <3>1 DEF Visible
  <2> QED BY <2>1, <2>2, <2>3
<1>5. End = 1 /\ text \in Seq(STRING) /\ Late
  <2>1. Len(<<>>) = 0
    OBVIOUS
  <2> QED BY <1>1, <2>1 DEF End, Late
<1>6. Where(t)
  BY <1>1, <1>3 DEF Where
<1>7. SentBelow(shown, taken) /\ SolidIn(t, shown) = Visible(t, taken)
  BY <1>1, <1>4
<1>8. taken \in 1 .. End /\ tmode \in {"content", "thinking", "tool"} /\ outerTool \in BOOLEAN
  <2>1. taken \in 1 .. End
    BY <1>1, <1>5
  <2> QED BY <1>1, <2>1
<1>9. tstate \in {"idle", "push", "finish", "done"} /\ tstate # "done"
  BY <1>1
<1> QED BY <1>1, <1>5, <1>6, <1>7, <1>8, <1>9 DEF ShowsWell

LEMMA TerminalToken ==
    ASSUME CallsEndTokens, TerminalInv, Token, NEW t \in Seq(STRING), Orderly(t), Becomes(t)'
    PROVE  text' \in Seq(STRING) /\ ShowsWell(t)'
<1>1. PICK piece \in Pieces : text' = text \o piece
  BY DEF Token
<1>2. /\ tstate = "idle" /\ tstate' = "push" /\ UNCHANGED <<taken, tmode, outerTool, resume, shown>>
  BY DEF Token, Push
<1>3. piece \in Seq(STRING) /\ text \in Seq(STRING)
  BY PiecesAre DEF TerminalInv
<1>4. /\ text' \in Seq(STRING) /\ Len(text') = Len(text) + Len(piece)
      /\ Len(text) \in Nat /\ Len(piece) \in Nat /\ Len(text') \in Nat
      /\ \A i \in 1 .. Len(text) : text'[i] = text[i]
  BY <1>1, <1>3, MoreText
<1>5. Becomes(t)
  <2>1. Len(text') <= Len(t) /\ (\A i \in 1 .. Len(text') : t[i] = text'[i]) /\ Len(t) \in Nat
    BY DEF Becomes
  <2>2. Len(text) <= Len(t) /\ \A i \in 1 .. Len(text) : i \in 1 .. Len(text') /\ t[i] = text'[i]
    BY <1>4, <2>1
  <2> QED BY <1>2, <1>4, <2>2 DEF Becomes
<1>6. ShowsWell(t)
  BY <1>5 DEF TerminalInv
<1>7. Late'
  <2>1. SUFFICES ASSUME NEW i \in taken .. Len(text'), text'[i] = "/t" PROVE i = Len(text') - 1
    BY <1>2 DEF Late
  <2>2. taken \in Nat \ {0} /\ i \in Nat
    BY <1>4, <1>6 DEF ShowsWell, End
  <2>3. ~(i <= Len(text))
    <3>1. ASSUME i <= Len(text) PROVE FALSE
      <4>1. i \in taken .. Len(text) /\ i \in 1 .. Len(text)
        BY <1>4, <2>2, <3>1
      <4>2. text[i] = "/t"
        BY <1>4, <2>1, <4>1
      <4> QED BY <1>2, <1>6, <4>1, <4>2 DEF ShowsWell, Late
    <3> QED BY <3>1
  <2> DEFINE j == i - Len(text)
  <2>4. j \in 1 .. Len(piece) /\ i = j + Len(text)
    BY <1>4, <2>2, <2>3
  <2>5. text'[i] = piece[j]
    <3> HIDE DEF j
    <3>1. i \in Len(text) + 1 .. Len(text) + Len(piece) /\ i - Len(text) = j
      BY <1>4, <2>2, <2>3, <2>4
    <3>2. (text \o piece)[i] = piece[i - Len(text)]
      BY <1>3, <3>1, ConcatProperties
    <3> QED BY <1>1, <3>1, <3>2
  <2>6. j = Len(piece) - 1
    <3>1. j \in DOMAIN piece
      BY <1>3, <2>4
    <3> HIDE DEF j
    <3> QED BY <2>1, <2>5, <3>1 DEF CallsEndTokens
  <2> QED BY <1>4, <2>4, <2>6
<1>8. taken' \in 1 .. End'
  BY <1>2, <1>4, <1>6 DEF ShowsWell, End
<1>9. Where(t)'
  BY <1>2, <1>6 DEF ShowsWell, Where
<1> QED BY <1>2, <1>4, <1>6, <1>7, <1>8, <1>9 DEF ShowsWell

LEMMA TerminalFinish ==
    ASSUME TerminalInv, Finish, UNCHANGED text, NEW t \in Seq(STRING), Orderly(t), Becomes(t)'
    PROVE  ShowsWell(t)'
<1>1. /\ tstate = "idle" /\ tstate' = "finish" /\ UNCHANGED <<taken, tmode, outerTool, resume, shown>>
  BY DEF Finish
<1>2. t = text
  BY <1>1 DEF Becomes
<1>3. Becomes(t)
  <2>1. Len(text) <= Len(text)
    BY DEF TerminalInv
  <2> QED BY <1>1, <1>2, <2>1 DEF Becomes
<1>4. ShowsWell(t)
  BY <1>3 DEF TerminalInv
<1>5. Late'
  BY <1>1, <1>4 DEF ShowsWell, Late
<1>6. Where(t)'
  BY <1>1, <1>4 DEF ShowsWell, Where
<1> QED BY <1>1, <1>4, <1>5, <1>6 DEF ShowsWell, End

LEMMA TerminalWorks ==
    ASSUME TerminalInv, TerminalWork, UNCHANGED text, NEW t \in Seq(STRING), Orderly(t), Becomes(t)'
    PROVE  ShowsWell(t)'
<1>1. Processing
  BY DEF TerminalWork, NothingPending, ShowContent, LeaveContent, SkipThinking, LeaveThinking,
         SkipTool, LeaveTool
<1>2. tstate' = tstate \/ (tstate = "finish" /\ tstate' = "done") \/ (tstate = "push" /\ tstate' = "idle")
  BY <1>1 DEF TerminalWork, NothingPending, ShowContent, LeaveContent, SkipThinking, LeaveThinking,
         SkipTool, LeaveTool, Return, Processing
<1>3. Becomes(t)
  BY <1>2 DEF Becomes
<1>4. ShowsWell(t)
  BY <1>3 DEF TerminalInv
<1>5. Turns(t)
  BY <1>1, <1>3, <1>4 DEF Turns, TerminalInv
<1> QED BY <1>5, NothingPendingShows, ShowContentShows, LeaveContentShows, SkipThinkingShows,
           LeaveThinkingShows, SkipToolShows, LeaveToolShows DEF TerminalWork

LEMMA TerminalInvStep ==
    ASSUME CallsEndTokens PROVE TerminalInv /\ [Next]_vars => TerminalInv'
<1> SUFFICES ASSUME TerminalInv, [Next]_vars PROVE TerminalInv'
  OBVIOUS
<1>0. text \in Seq(STRING)
  BY DEF TerminalInv
<1>1. CASE Token
  <2>1. text' \in Seq(STRING)
    <3>1. PICK piece \in Pieces : text' = text \o piece
      BY <1>1 DEF Token
    <3> QED BY <1>0, <3>1, PiecesAre, MoreText
  <2> QED BY <1>1, <2>1, TerminalToken DEF TerminalInv
<1>2. CASE UNCHANGED <<text, terminalVars>>
  <2>1. ASSUME NEW t \in Seq(STRING), Becomes(t)', Orderly(t) PROVE ShowsWell(t)'
    <3>1. Becomes(t)
      BY <1>2, <2>1 DEF Becomes, terminalVars
    <3>2. ShowsWell(t)
      BY <2>1, <3>1 DEF TerminalInv
    <3> QED BY <1>2, <3>2 DEF ShowsWell, terminalVars, Where, Late, End
  <2> QED BY <1>0, <1>2, <2>1 DEF TerminalInv
<1>3. CASE TerminalWork /\ UNCHANGED text
  BY <1>0, <1>3, TerminalWorks DEF TerminalInv
<1>4. CASE Finish /\ UNCHANGED text
  BY <1>0, <1>4, TerminalFinish DEF TerminalInv
<1>5. \/ Token \/ UNCHANGED <<text, terminalVars>> \/ (TerminalWork /\ UNCHANGED text)
      \/ (Finish /\ UNCHANGED text)
  BY DEF Next, Step, Ended, vars
<1> QED BY <1>1, <1>2, <1>3, <1>4, <1>5
-----------------------------------------------------------------------------
(* What Erase leaves.                                                      *)

Brackets(o, c) == o # c /\ o \notin {"<", ">"} /\ c \notin {"<", ">"}

\* Of the positions in A, i is in a block from o to c.
InsideOf(w, A, i, o, c) ==
    \E n \in A : n <= i + 1 /\ w[n] = o /\ \A q \in A : n <= q /\ q <= i - 2 => w[q] # c

Outer(w, A, o, c) == {i \in A : ~InsideOf(w, A, i, o, c)}

\* The tags that begin or end a block are whole in A.
Whole(w, A, o, c) ==
    \A n \in A : /\ w[n] \in {o, c} => n - 1 \in A /\ w[n - 1] = "<"
                 /\ w[n] = c => n + 1 \in A /\ w[n + 1] = ">"

\* B is the first block.
FirstBlock(w, A, B, o, c, n, last) ==
    /\ n \in A /\ w[n] = o /\ \A m \in A : w[m] = o => n <= m
    /\ last \in Nat /\ B = {i \in A : n - 1 <= i /\ i <= last}
    /\ \A q \in A : n <= q /\ q <= last - 2 => w[q] # c
    /\ \/ \A i \in A : i <= last
       \/ last - 1 \in A /\ n <= last - 1 /\ w[last - 1] = c

LEMMA EraseBlock ==
    ASSUME NEW w, NEW A \in SUBSET Nat, NEW o, NEW c, Brackets(o, c), Whole(w, A, o, c),
           NEW B, NEW n, NEW last, FirstBlock(w, A, B, o, c, n, last)
    PROVE  /\ Outer(w, A \ B, o, c) = Outer(w, A, o, c)
           /\ Whole(w, A \ B, o, c)
           /\ \A m \in A \ B : w[m] = o => last < m - 1
<1> DEFINE R == A \ B
<1>0. /\ n \in A /\ n \in Nat /\ w[n] = o /\ last \in Nat /\ R \subseteq A
      /\ \A m \in A : w[m] = o => n <= m
      /\ \A i \in A : i \in Nat /\ (i \in R <=> i < n - 1 \/ last < i)
      /\ \A q \in A : n <= q /\ q <= last - 2 => w[q] # c
      /\ \/ \A i \in A : i <= last
         \/ last - 1 \in A /\ n <= last - 1 /\ w[last - 1] = c
  <2>1. \A i \in A : i \in Nat /\ (i \in R <=> ~(n - 1 <= i /\ i <= last))
    BY DEF FirstBlock
  <2>2. n \in Nat /\ last \in Nat
    BY DEF FirstBlock
  <2>3. \A i \in A : i \in R <=> i < n - 1 \/ last < i
    BY <2>1, <2>2
  <2> QED BY <2>1, <2>2, <2>3 DEF FirstBlock
<1>1. n - 1 \in A /\ w[n - 1] = "<"
  BY <1>0 DEF Whole
<1>2. \A i \in A : last < i => /\ last - 1 \in A /\ n <= last - 1 /\ w[last - 1] = c
                               /\ last \in A /\ w[last] = ">"
  <2> SUFFICES ASSUME NEW i \in A, last < i
               PROVE  /\ last - 1 \in A /\ n <= last - 1 /\ w[last - 1] = c
                      /\ last \in A /\ w[last] = ">"
    OBVIOUS
  <2>1. last - 1 \in A /\ n <= last - 1 /\ w[last - 1] = c
    BY <1>0
  <2>2. (last - 1) + 1 = last
    BY <1>0
  <2>3. (last - 1) + 1 \in A /\ w[(last - 1) + 1] = ">"
    BY <2>1 DEF Whole
  <2> QED BY <2>1, <2>2, <2>3
<1> HIDE DEF R
<1>3. ASSUME NEW m \in R, w[m] = o PROVE last < m - 1
  <2>1. m \in A /\ m \in Nat /\ n <= m /\ last < m
    BY <1>0, <1>3
  <2>2. w[last] = ">"
    BY <1>2, <2>1
  <2>3. w[m - 1] = "<"
    BY <1>3, <2>1 DEF Whole
  <2>4. m - 1 # last
    BY <2>2, <2>3
  <2> QED BY <1>0, <2>1, <2>4
<1>4. ASSUME NEW i \in A, i \notin R PROVE InsideOf(w, A, i, o, c)
  <2>1. i \in Nat /\ n <= i + 1 /\ i <= last
    BY <1>0, <1>4
  <2>2. ASSUME NEW q \in A, n <= q, q <= i - 2 PROVE w[q] # c
    BY <1>0, <2>1, <2>2
  <2> QED BY <1>0, <2>1, <2>2 DEF InsideOf
<1>5. ASSUME NEW i \in R, InsideOf(w, R, i, o, c) PROVE InsideOf(w, A, i, o, c)
  <2>1. PICK m \in R : m <= i + 1 /\ w[m] = o /\ \A q \in R : m <= q /\ q <= i - 2 => w[q] # c
    BY <1>5 DEF InsideOf
  <2>2. m \in A /\ m \in Nat /\ last < m
    BY <1>0, <1>3, <2>1
  <2>3. \A q \in A : m <= q => q \in R
    BY <1>0, <2>2
  <2> QED BY <2>1, <2>2, <2>3 DEF InsideOf
<1>6. ASSUME NEW i \in R, InsideOf(w, A, i, o, c) PROVE InsideOf(w, R, i, o, c)
  <2>1. PICK m \in A : m <= i + 1 /\ w[m] = o /\ \A q \in A : m <= q /\ q <= i - 2 => w[q] # c
    BY <1>6 DEF InsideOf
  <2>2. i \in A /\ i \in Nat /\ m \in Nat /\ n <= m
    BY <1>0, <2>1
  <2>3. last < i
    BY <1>0, <2>1, <2>2
  <2>4. last - 1 \in A /\ w[last - 1] = c /\ n <= last - 1 /\ w[last] = ">"
    BY <1>2, <2>2, <2>3
  <2>5. last < m
    <3>1. ~(m <= last - 1 /\ last - 1 <= i - 2)
      BY <2>1, <2>4
    <3>2. last - 1 <= i - 2
      BY <1>0, <2>2, <2>3
    <3>3. m # last
      BY <2>1, <2>4 DEF Brackets
    <3> QED BY <1>0, <2>2, <3>1, <3>2, <3>3
  <2>6. m \in R
    BY <1>0, <2>5
  <2>7. \A q \in R : m <= q /\ q <= i - 2 => w[q] # c
    BY <1>0, <2>1
  <2> QED BY <2>1, <2>6, <2>7 DEF InsideOf
<1>7. Outer(w, R, o, c) = Outer(w, A, o, c)
  BY <1>0, <1>4, <1>5, <1>6 DEF Outer
<1>8. Whole(w, R, o, c)
  <2>1. ASSUME NEW m \in R, w[m] \in {o, c} PROVE m - 1 \in R /\ w[m - 1] = "<"
    <3>1. m \in A /\ m \in Nat /\ m - 1 \in A /\ w[m - 1] = "<" /\ (m < n - 1 \/ last < m)
      BY <1>0, <2>1 DEF Whole
    <3>2. m - 1 < n - 1 \/ last < m - 1
      <4>1. CASE m < n - 1
        BY <1>0, <3>1, <4>1
      <4>2. CASE last < m
        <5>1. w[last] = ">"
          BY <1>2, <3>1, <4>2
        <5>2. m - 1 # last
          BY <3>1, <5>1
        <5> QED BY <1>0, <3>1, <4>2, <5>2
      <4> QED BY <3>1, <4>1, <4>2
    <3> QED BY <1>0, <3>1, <3>2
  <2>2. ASSUME NEW m \in R, w[m] = c PROVE m + 1 \in R /\ w[m + 1] = ">"
    <3>1. m \in A /\ m \in Nat /\ m + 1 \in A /\ w[m + 1] = ">" /\ (m < n - 1 \/ last < m)
      BY <1>0, <2>2 DEF Whole
    <3>2. m + 1 # n - 1
      BY <1>1, <3>1
    <3>3. m + 1 < n - 1 \/ last < m + 1
      BY <1>0, <3>1, <3>2
    <3> QED BY <1>0, <3>1, <3>3
  <2> QED BY <2>1, <2>2 DEF Whole
<1> QED BY <1>3, <1>7, <1>8 DEF R

\* s without what is from a on and before d.
CutOut(s, a, d, x) ==
    /\ x \in Seq(Nat) /\ Increasing(x) /\ DOMAIN x = 1 .. Len(x) /\ Len(x) \in Nat
    /\ Positions(x) = {s[i] : i \in {i \in DOMAIN s : i < a \/ d <= i}}
    /\ \A j \in DOMAIN x : j < a \/ \E i \in DOMAIN s : d <= i /\ x[j] = s[i]
    /\ \A j \in DOMAIN x : j < a => j \in DOMAIN s /\ x[j] = s[j]
    /\ a - 1 <= Len(x)
    /\ a <= Len(s) /\ a < d => Len(x) < Len(s)

WithoutMiddle(s, a, d, x) == x = SubSeq(s, 1, a - 1) \o SubSeq(s, d, Len(s))

LEMMA CutIs ==
    ASSUME NEW s \in Seq(Nat), Increasing(s), NEW a \in 1 .. Len(s) + 1, NEW d \in Nat, a <= d,
           NEW x, WithoutMiddle(s, a, d, x)
    PROVE  CutOut(s, a, d, x)
<1> DEFINE y == SubSeq(s, 1, a - 1)
           z == SubSeq(s, d, Len(s))
           k == a - 1
           r == d - 1 - k
<1>0. /\ Len(s) \in Nat /\ DOMAIN s = 1 .. Len(s) /\ a \in Nat /\ k \in Nat /\ k <= Len(s)
      /\ a = k + 1 /\ r \in Nat /\ d = r + k + 1
      /\ \A i \in 1 .. Len(s) : s[i] \in Nat
  OBVIOUS
<1>1. y \in Seq(Nat) /\ Len(y) = k /\ \A i \in 1 .. k : y[i] = s[i]
  <2>1. \A i \in 1 .. k : s[i] \in Nat
    BY <1>0
  <2>2. 1 \in Int /\ k \in Int
    BY <1>0
  <2> HIDE DEF k
  <2>3. /\ SubSeq(s, 1, k) \in Seq(Nat)
        /\ Len(SubSeq(s, 1, k)) = IF 1 <= k THEN k - 1 + 1 ELSE 0
        /\ \A i \in 1 .. k - 1 + 1 : SubSeq(s, 1, k)[i] = s[1 + i - 1]
    BY <2>1, <2>2, SubSeqProperties
  <2>4. y = SubSeq(s, 1, k)
    BY DEF k
  <2>5. \A i \in 1 .. k : i \in 1 .. k - 1 + 1 /\ 1 + i - 1 = i
    BY <1>0
  <2>6. (IF 1 <= k THEN k - 1 + 1 ELSE 0) = k
    BY <1>0
  <2> HIDE DEF y
  <2>7. \A i \in 1 .. k : y[i] = s[1 + i - 1]
    BY <2>3, <2>4, <2>5
  <2> QED BY <2>3, <2>4, <2>5, <2>6, <2>7
<1>2. /\ z \in Seq(Nat) /\ Len(z) \in Nat
      /\ Len(z) = IF d <= Len(s) THEN Len(s) - d + 1 ELSE 0
      /\ \A i \in 1 .. Len(z) : z[i] = s[d + i - 1]
  <2>1. \A i \in d .. Len(s) : s[i] \in Nat
    BY <1>0
  <2>2. d \in Int /\ Len(s) \in Int
    BY <1>0
  <2>3. /\ z \in Seq(Nat) /\ Len(z) = IF d <= Len(s) THEN Len(s) - d + 1 ELSE 0
        /\ \A i \in 1 .. Len(s) - d + 1 : z[i] = s[d + i - 1]
    BY <2>1, <2>2, SubSeqProperties
  <2> HIDE DEF z
  <2>4. \A i \in 1 .. Len(z) : i \in 1 .. Len(s) - d + 1
    BY <1>0, <2>3
  <2> QED BY <2>3, <2>4
<1>3. x = y \o z
  BY DEF WithoutMiddle
<1> HIDE DEF y, z, k, r
<1>4. /\ x \in Seq(Nat) /\ Len(x) = k + Len(z) /\ DOMAIN x = 1 .. Len(x) /\ Len(x) \in Nat
      /\ \A i \in 1 .. Len(x) : x[i] = IF i <= k THEN y[i] ELSE z[i - k]
  <2>1. /\ y \o z \in Seq(Nat) /\ Len(y \o z) = Len(y) + Len(z)
        /\ \A i \in 1 .. Len(y) + Len(z) : (y \o z)[i] = IF i <= Len(y) THEN y[i] ELSE z[i - Len(y)]
    BY <1>1, <1>2, ConcatProperties
  <2>2. x \in Seq(Nat) /\ Len(x) = k + Len(z)
    BY <1>1, <1>3, <2>1
  <2>3. \A i \in 1 .. k + Len(z) : x[i] = IF i <= k THEN y[i] ELSE z[i - k]
    BY <1>1, <1>3, <2>1
  <2> QED BY <2>2, <2>3
<1>n. /\ a = k + 1 /\ d = (r + k) + 1 /\ k \in Nat /\ r \in Nat /\ Len(z) \in Nat /\ Len(s) \in Nat
      /\ Len(x) = k + Len(z) /\ k <= Len(s)
      /\ d <= Len(s) => Len(z) = (Len(s) - d) + 1
      /\ ~(d <= Len(s)) => Len(z) = 0
  BY <1>0, <1>2, <1>4
<1>5. \A i \in 1 .. k : i \in 1 .. Len(x) /\ x[i] = s[i] /\ i \in DOMAIN s
  <2> TAKE i \in 1 .. k
  <2>1. i \in 1 .. Len(x) /\ i <= k /\ i \in 1 .. Len(s)
    BY <1>n
  <2> QED BY <1>0, <1>1, <1>4, <2>1
<1>6. \A i \in 1 .. Len(x) : ~(i <= k) => i + r \in DOMAIN s /\ d <= i + r /\ x[i] = s[i + r]
  <2> TAKE i \in 1 .. Len(x)
  <2> HAVE ~(i <= k)
  <2>1. i - k \in 1 .. Len(z) /\ d + (i - k) - 1 = i + r
    BY <1>n
  <2>2. z[i - k] = s[i + r]
    BY <1>2, <2>1
  <2>3. i + r \in 1 .. Len(s) /\ d <= i + r
    BY <1>n, <2>1
  <2> QED BY <1>0, <1>4, <2>2, <2>3
<1>7. \A i \in 1 .. Len(s) : d <= i => i - r \in 1 .. Len(x) /\ ~(i - r <= k) /\ (i - r) + r = i
  BY <1>n
<1>8. Increasing(x)
  <2> SUFFICES ASSUME NEW i \in 1 .. Len(x), NEW j \in 1 .. Len(x), i < j PROVE x[i] < x[j]
    BY <1>4 DEF Increasing
  <2>1. \A m \in 1 .. Len(x) : IF m <= k THEN m \in DOMAIN s /\ x[m] = s[m]
                               ELSE m + r \in DOMAIN s /\ x[m] = s[m + r]
    <3> TAKE m \in 1 .. Len(x)
    <3>1. m <= k => m \in 1 .. k
      OBVIOUS
    <3> QED BY <1>5, <1>6, <3>1
  <2>2. CASE j <= k
    <3>1. i <= k
      BY <1>0, <2>2
    <3> QED BY <2>1, <2>2, <3>1 DEF Increasing
  <2>3. CASE ~(j <= k) /\ i <= k
    <3>1. i < j + r
      BY <1>0, <2>3
    <3> QED BY <2>1, <2>3, <3>1 DEF Increasing
  <2>4. CASE ~(j <= k) /\ ~(i <= k)
    <3>1. i + r < j + r
      BY <1>0
    <3> QED BY <2>1, <2>4, <3>1 DEF Increasing
  <2> QED BY <2>2, <2>3, <2>4
<1>9. Positions(x) = {s[i] : i \in {i \in DOMAIN s : i < a \/ d <= i}}
  <2> DEFINE kept == {i \in DOMAIN s : i < a \/ d <= i}
  <2>1. \A j \in DOMAIN x : \E i \in kept : x[j] = s[i]
    <3> TAKE j \in DOMAIN x
    <3>1. CASE j <= k
      <4>1. j \in kept /\ x[j] = s[j]
        <5>1. j \in 1 .. k /\ j < a
          BY <1>0, <1>4, <3>1
        <5> QED BY <1>5, <5>1
      <4> QED BY <4>1
    <3>2. CASE ~(j <= k)
      <4>1. j + r \in kept /\ x[j] = s[j + r]
        BY <1>4, <1>6, <3>2
      <4> QED BY <4>1
    <3> QED BY <3>1, <3>2
  <2>2. \A i \in kept : \E j \in DOMAIN x : x[j] = s[i]
    <3> TAKE i \in kept
    <3>1. CASE i < a
      <4>1. i \in 1 .. k
        BY <1>0, <3>1
      <4> QED BY <1>4, <1>5, <4>1
    <3>2. CASE d <= i
      <4>1. i - r \in DOMAIN x /\ ~(i - r <= k) /\ (i - r) + r = i
        BY <1>0, <1>4, <1>7, <3>2
      <4>2. x[i - r] = s[(i - r) + r]
        BY <1>4, <1>6, <4>1
      <4> QED BY <4>1, <4>2
    <3> QED BY <3>1, <3>2
  <2> HIDE DEF kept
  <2>3. Positions(x) = {s[i] : i \in kept}
    BY <2>1, <2>2 DEF Positions
  <2> QED BY <2>3 DEF kept
<1>10. ASSUME NEW j \in DOMAIN x PROVE j < a \/ \E i \in DOMAIN s : d <= i /\ x[j] = s[i]
  <2>1. CASE j <= k
    BY <1>0, <1>4, <2>1
  <2>2. CASE ~(j <= k)
    BY <1>4, <1>6, <2>2
  <2> QED BY <2>1, <2>2
<1>11. ASSUME NEW j \in DOMAIN x, j < a PROVE j \in DOMAIN s /\ x[j] = s[j]
  <2>1. j \in 1 .. k
    BY <1>0, <1>4, <1>11
  <2> QED BY <1>5, <2>1
<1>12. a - 1 <= Len(x)
  BY <1>n
<1>13. a <= Len(s) /\ a < d => Len(x) < Len(s)
  BY <1>n
<1> QED BY <1>4, <1>8, <1>9, <1>10, <1>11, <1>12, <1>13 DEF CutOut

LEMMA Adjacent ==
    ASSUME NEW s \in Seq(Nat), Increasing(s), NEW j \in DOMAIN s
    PROVE  /\ s[j] - 1 \in Positions(s) => j - 1 \in DOMAIN s /\ s[j - 1] = s[j] - 1
           /\ s[j] + 1 \in Positions(s) => j + 1 \in DOMAIN s /\ s[j + 1] = s[j] + 1
<1>0. Len(s) \in Nat /\ DOMAIN s = 1 .. Len(s) /\ j \in Nat /\ \A i \in DOMAIN s : i \in Nat /\ s[i] \in Nat
  OBVIOUS
<1>1. \A i, m \in DOMAIN s : /\ i < m => s[i] < s[m]
                             /\ s[i] < s[m] => i < m
  <2> TAKE i, m \in DOMAIN s
  <2>1. \A a, b \in DOMAIN s : a < b => s[a] < s[b]
    BY DEF Increasing
  <2>2. i < m \/ i = m \/ m < i
    BY <1>0
  <2> QED BY <1>0, <2>1, <2>2
<1>2. ASSUME s[j] - 1 \in Positions(s) PROVE j - 1 \in DOMAIN s /\ s[j - 1] = s[j] - 1
  <2>1. PICK i \in DOMAIN s : s[i] = s[j] - 1
    BY <1>2 DEF Positions
  <2>2. s[i] < s[j]
    BY <1>0, <2>1
  <2>3. i < j
    BY <1>1, <2>2
  <2>4. j - 1 \in DOMAIN s /\ (i < j - 1 \/ i = j - 1)
    BY <1>0, <2>3
  <2>5. ~(i < j - 1)
    <3> SUFFICES ASSUME i < j - 1 PROVE FALSE
      OBVIOUS
    <3>1. j - 1 < j
      BY <1>0
    <3>2. s[i] < s[j - 1] /\ s[j - 1] < s[j]
      BY <1>1, <2>4, <3>1
    <3> QED BY <1>0, <2>1, <2>4, <3>2
  <2> QED BY <2>1, <2>4, <2>5
<1>3. ASSUME s[j] + 1 \in Positions(s) PROVE j + 1 \in DOMAIN s /\ s[j + 1] = s[j] + 1
  <2>1. PICK i \in DOMAIN s : s[i] = s[j] + 1
    BY <1>3 DEF Positions
  <2>2. s[j] < s[i]
    BY <1>0, <2>1
  <2>3. j < i
    BY <1>1, <2>2
  <2>4. j + 1 \in DOMAIN s /\ (j + 1 < i \/ i = j + 1)
    BY <1>0, <2>3
  <2>5. ~(j + 1 < i)
    <3> SUFFICES ASSUME j + 1 < i PROVE FALSE
      OBVIOUS
    <3>1. j < j + 1
      BY <1>0
    <3>2. s[j] < s[j + 1] /\ s[j + 1] < s[i]
      BY <1>1, <2>4, <3>1
    <3> QED BY <1>0, <2>1, <2>4, <3>2
  <2> QED BY <2>1, <2>4, <2>5
<1> QED BY <1>2, <1>3

\* s holds some of the positions of A, and of the blocks all or nothing.
Reduced(w, A, s, o, c) ==
    /\ s \in Seq(Nat) /\ Increasing(s) /\ Positions(s) \subseteq A
    /\ Whole(w, Positions(s), o, c)
    /\ Outer(w, Positions(s), o, c) = Outer(w, A, o, c)

OpensBehind(w, s, o, k) == \A j \in DOMAIN s : w[s[j]] = o => k < j
NoneOpen(w, s, o) == \A j \in DOMAIN s : w[s[j]] # o

Symbols(w, s) == [i \in DOMAIN s |-> w[s[i]]]

LEMMA MadeSeq == ASSUME NEW S, NEW n \in Nat, NEW v \in [1 .. n -> S] PROVE v \in Seq(S) /\ Len(v) = n
OBVIOUS

LEMMA SymbolsAre ==
    ASSUME NEW w \in Seq(STRING), NEW s \in Seq(Nat), Positions(s) \subseteq DOMAIN w
    PROVE  /\ Symbols(w, s) \in Seq(STRING) /\ Len(Symbols(w, s)) = Len(s)
           /\ \A i \in DOMAIN s : Symbols(w, s)[i] = w[s[i]]
<1>1. \A i \in DOMAIN s : s[i] \in DOMAIN w
  BY DEF Positions
<1>2. \A i \in DOMAIN s : w[s[i]] \in STRING
  BY <1>1
<1>3. DOMAIN s = 1 .. Len(s) /\ Len(s) \in Nat
  OBVIOUS
<1>4. Symbols(w, s) = [i \in 1 .. Len(s) |-> w[s[i]]]
  BY <1>3 DEF Symbols
<1> DEFINE n == Len(s)
           v == [i \in 1 .. n |-> w[s[i]]]
<1>5. v \in Seq(STRING) /\ Len(v) = n /\ \A i \in 1 .. n : v[i] = w[s[i]]
  <2>1. n \in Nat /\ \A i \in 1 .. n : w[s[i]] \in STRING
    BY <1>2, <1>3
  <2> HIDE DEF n
  <2>2. v \in [1 .. n -> STRING]
    BY <2>1
  <2>3. \A i \in 1 .. n : v[i] = w[s[i]]
    OBVIOUS
  <2> HIDE DEF v
  <2>4. v \in Seq(STRING) /\ Len(v) = n
    BY <2>1, <2>2, MadeSeq
  <2> QED BY <2>3, <2>4
<1> QED BY <1>3, <1>4, <1>5

\* Where the tags are in what is shown.
TagsAt(w, s, u, o, c, p) ==
    /\ StartsAt(u, p, <<"<", o>>) <=> p + 1 <= Len(s) /\ w[s[p + 1]] = o
    /\ StartsAt(u, p, <<"<", c, ">">>) <=> p + 1 <= Len(s) /\ w[s[p + 1]] = c
    /\ p + 1 <= Len(s) /\ w[s[p + 1]] \in {o, c} => s[p] = s[p + 1] - 1
    /\ p + 1 <= Len(s) /\ w[s[p + 1]] = c => p + 2 <= Len(s) /\ s[p + 2] = s[p + 1] + 1

LEMMA TagPlaces ==
    ASSUME NEW w \in Seq(STRING), NEW s \in Seq(Nat), Increasing(s), Positions(s) \subseteq DOMAIN w,
           NEW o, NEW c, Whole(w, Positions(s), o, c), NEW u, u = Symbols(w, s), NEW p \in Nat \ {0}
    PROVE  TagsAt(w, s, u, o, c, p)
<1>0. /\ Len(s) \in Nat /\ DOMAIN s = 1 .. Len(s) /\ \A i \in DOMAIN s : s[i] \in Nat
      /\ \A i \in DOMAIN s : s[i] \in Positions(s)
  BY DEF Positions
<1>1. u \in Seq(STRING) /\ Len(u) = Len(s) /\ \A i \in DOMAIN s : u[i] = w[s[i]]
  BY SymbolsAre
<1>2. /\ StartsAt(u, p, <<"<", o>>) <=> p + 1 <= Len(s) /\ u[p] = "<" /\ u[p + 1] = o
      /\ StartsAt(u, p, <<"<", c, ">">>)
            <=> p + 2 <= Len(s) /\ u[p] = "<" /\ u[p + 1] = c /\ u[p + 2] = ">"
  <2>1. StartsAt(u, p, <<"<", o>>) <=> p + 1 <= Len(u) /\ u[p] = "<" /\ u[p + 1] = o
    BY <1>1, TwoSymbols
  <2>2. StartsAt(u, p, <<"<", c, ">">>)
            <=> p + 2 <= Len(u) /\ u[p] = "<" /\ u[p + 1] = c /\ u[p + 2] = ">"
    BY <1>1, ThreeSymbols
  <2> QED BY <1>1, <2>1, <2>2
<1>3. ASSUME p + 1 <= Len(s), w[s[p + 1]] \in {o, c}
      PROVE  s[p] = s[p + 1] - 1 /\ u[p] = "<" /\ u[p + 1] = w[s[p + 1]]
  <2>1. p \in DOMAIN s /\ p + 1 \in DOMAIN s /\ (p + 1) - 1 = p
    BY <1>0, <1>3
  <2>2. s[p + 1] - 1 \in Positions(s) /\ w[s[p + 1] - 1] = "<"
    BY <1>0, <1>3, <2>1 DEF Whole
  <2>3. s[p] = s[p + 1] - 1
    BY <2>1, <2>2, Adjacent
  <2> QED BY <1>1, <2>1, <2>2, <2>3
<1>4. ASSUME p + 1 <= Len(s), w[s[p + 1]] = c
      PROVE  p + 2 <= Len(s) /\ s[p + 2] = s[p + 1] + 1 /\ u[p + 2] = ">"
  <2>1. p + 1 \in DOMAIN s /\ (p + 1) + 1 = p + 2
    BY <1>0, <1>4
  <2>2. s[p + 1] + 1 \in Positions(s) /\ w[s[p + 1] + 1] = ">"
    BY <1>0, <1>4, <2>1 DEF Whole
  <2>3. p + 2 \in DOMAIN s /\ s[p + 2] = s[p + 1] + 1
    BY <2>1, <2>2, Adjacent
  <2>4. p + 2 <= Len(s)
    BY <1>0, <2>3
  <2> QED BY <1>1, <2>2, <2>3, <2>4
<1>5. p + 1 <= Len(s) => u[p + 1] = w[s[p + 1]]
  BY <1>0, <1>1
<1>6. p + 2 <= Len(s) => p + 1 <= Len(s)
  BY <1>0
<1> QED BY <1>2, <1>3, <1>4, <1>5, <1>6 DEF TagsAt

\* e is s without its first block.
EraseStep(w, A, s, e, start, o, c) ==
    /\ Reduced(w, A, e, o, c)
    /\ start \in 1 .. Len(e) + 1 /\ OpensBehind(w, e, o, start)
    /\ NoneOpen(w, s, o) => NoneOpen(w, e, o)
    /\ Len(e) < Len(s) \/ NoneOpen(w, e, o)

LEMMA NothingToErase ==
    ASSUME NEW w, NEW A, NEW o, NEW c, NEW s, Reduced(w, A, s, o, c), NoneOpen(w, s, o),
           NEW d \in Nat, Len(s) + 1 <= d, NEW e, CutOut(s, Len(s) + 1, d, e)
    PROVE  EraseStep(w, A, s, e, Len(s) + 1, o, c)
<1>0. s \in Seq(Nat) /\ Len(s) \in Nat /\ DOMAIN s = 1 .. Len(s)
  BY DEF Reduced
<1>1. Positions(e) = Positions(s)
  <2>1. {i \in DOMAIN s : i < Len(s) + 1 \/ d <= i} = DOMAIN s
    BY <1>0
  <2>2. Positions(e) = {s[i] : i \in {i \in DOMAIN s : i < Len(s) + 1 \/ d <= i}}
    BY DEF CutOut
  <2> QED BY <2>1, <2>2 DEF Positions
<1>2. e \in Seq(Nat) /\ Increasing(e) /\ Len(e) \in Nat /\ DOMAIN e = 1 .. Len(e) /\ Len(s) <= Len(e)
  <2>1. (Len(s) + 1) - 1 = Len(s)
    BY <1>0
  <2> QED BY <2>1 DEF CutOut
<1>3. Reduced(w, A, e, o, c)
  BY <1>1, <1>2 DEF Reduced
<1>4. NoneOpen(w, e, o)
  <2> SUFFICES ASSUME NEW j \in DOMAIN e PROVE w[e[j]] # o
    BY DEF NoneOpen
  <2>1. e[j] \in Positions(s)
    BY <1>1 DEF Positions
  <2>2. PICK i \in DOMAIN s : s[i] = e[j]
    BY <2>1 DEF Positions
  <2> QED BY <2>2 DEF NoneOpen
<1>5. Len(s) + 1 \in 1 .. Len(e) + 1
  BY <1>0, <1>2
<1> QED BY <1>3, <1>4, <1>5 DEF EraseStep, NoneOpen, OpensBehind

\* The first block begins at f, and what closes it at g.
BlockAt(w, s, f, g, o, c) ==
    /\ f \in DOMAIN s /\ f + 1 \in DOMAIN s /\ w[s[f + 1]] = o /\ s[f] = s[f + 1] - 1
    /\ \A j \in DOMAIN s : w[s[j]] = o => f + 1 <= j
    /\ g \in f .. Len(s) + 1
    /\ \A j \in DOMAIN s : f + 1 <= j /\ w[s[j]] = c => g + 1 <= j
    /\ g <= Len(s) => g + 2 \in DOMAIN s /\ w[s[g + 1]] = c /\ s[g + 2] = s[g + 1] + 1

LEMMA BlockErased ==
    ASSUME NEW w, NEW A \in SUBSET (1 .. Len(w)), Len(w) \in Nat, NEW o, NEW c, Brackets(o, c),
           NEW s, Reduced(w, A, s, o, c), NEW f, NEW g, BlockAt(w, s, f, g, o, c),
           NEW e, CutOut(s, f, g + 3, e)
    PROVE  EraseStep(w, A, s, e, f, o, c)
<1> DEFINE P == Positions(s)
           n == s[f + 1]
           last == IF g <= Len(s) THEN s[g + 2] ELSE Len(w)
           B == {i \in P : n - 1 <= i /\ i <= last}
<1>0. /\ s \in Seq(Nat) /\ Len(s) \in Nat /\ DOMAIN s = 1 .. Len(s) /\ Whole(w, P, o, c)
      /\ P \subseteq A /\ P \in SUBSET Nat /\ \A i \in P : i <= Len(w)
      /\ \A i \in DOMAIN s : s[i] \in Nat /\ s[i] \in P /\ s[i] <= Len(w)
      /\ \A i \in P : \E j \in DOMAIN s : s[j] = i
  <2>1. s \in Seq(Nat) /\ Whole(w, P, o, c) /\ P \subseteq A
    BY DEF Reduced
  <2>2. Len(s) \in Nat /\ DOMAIN s = 1 .. Len(s) /\ \A i \in DOMAIN s : s[i] \in Nat
    BY <2>1
  <2>4. \A i \in DOMAIN s : s[i] \in P
    BY DEF Positions
  <2>5. \A i \in P : \E j \in DOMAIN s : s[j] = i
    BY DEF Positions
  <2> HIDE DEF P
  <2>3. \A i \in P : i \in Nat /\ i <= Len(w)
    BY <2>1
  <2>6. P \in SUBSET Nat
    BY <2>3
  <2> QED BY <2>1, <2>2, <2>3, <2>4, <2>5, <2>6
<1>1. \A i, m \in DOMAIN s : /\ i < m => s[i] < s[m]
                             /\ s[i] < s[m] => i < m
                             /\ i <= m => s[i] <= s[m]
  <2> TAKE i, m \in DOMAIN s
  <2>1. \A a, b \in DOMAIN s : a < b => s[a] < s[b]
    BY DEF Reduced, Increasing
  <2>2. (i < m \/ i = m \/ m < i) /\ s[i] \in Nat /\ s[m] \in Nat /\ i \in Nat /\ m \in Nat
    BY <1>0
  <2> QED BY <2>1, <2>2
<1>2. /\ f \in DOMAIN s /\ f + 1 \in DOMAIN s /\ w[n] = o /\ s[f] = n - 1 /\ n \in P /\ n \in Nat
      /\ \A j \in DOMAIN s : w[s[j]] = o => f + 1 <= j
      /\ g \in f .. Len(s) + 1 /\ g \in Nat /\ f \in Nat \ {0} /\ f <= g
      /\ \A j \in DOMAIN s : f + 1 <= j /\ w[s[j]] = c => g + 1 <= j
      /\ g <= Len(s) => g + 1 \in DOMAIN s /\ g + 2 \in DOMAIN s /\ w[s[g + 1]] = c /\ s[g + 2] = s[g + 1] + 1
  <2>1. f \in DOMAIN s /\ f + 1 \in DOMAIN s /\ g \in f .. Len(s) + 1 /\ w[n] = o /\ s[f] = n - 1
    BY DEF BlockAt
  <2>2. f \in Nat \ {0} /\ g \in Nat /\ f <= g /\ (g <= Len(s) => g + 1 \in DOMAIN s)
    <3>1. f \in 1 .. Len(s) /\ f + 1 \in 1 .. Len(s) /\ Len(s) \in Nat /\ g \in f .. Len(s) + 1
      BY <1>0, <2>1
    <3>2. g <= Len(s) => g + 1 \in 1 .. Len(s)
      <4>1. g <= Len(s) => g + 2 \in 1 .. Len(s)
        BY <1>0 DEF BlockAt
      <4> QED BY <3>1, <4>1
    <3> QED BY <1>0, <3>1, <3>2
  <2>3. n \in P /\ n \in Nat
    <3> HIDE DEF P
    <3> QED BY <1>0, <2>1 DEF n
  <2> HIDE DEF n, P
  <2> QED BY <2>1, <2>2, <2>3 DEF BlockAt
<1> HIDE DEF P, n
<1>3. FirstBlock(w, P, B, o, c, n, last)
  <2>1. last \in Nat
    BY <1>0, <1>2
  <2>2. \A m \in P : w[m] = o => n <= m
    <3> SUFFICES ASSUME NEW m \in P, w[m] = o PROVE n <= m
      OBVIOUS
    <3>1. PICK j \in DOMAIN s : s[j] = m
      BY <1>0
    <3>2. f + 1 <= j
      BY <1>2, <3>1
    <3> QED BY <1>1, <1>2, <3>1, <3>2 DEF n
  <2>3. \A q \in P : n <= q /\ q <= last - 2 => w[q] # c
    <3> SUFFICES ASSUME NEW q \in P, n <= q, q <= last - 2, w[q] = c PROVE FALSE
      OBVIOUS
    <3>1. PICK j \in DOMAIN s : s[j] = q
      BY <1>0
    <3>2. j \in Nat /\ q \in Nat
      BY <1>0
    <3>3. f + 1 <= j
      <4>1. ~(j < f + 1)
        <5> SUFFICES ASSUME j < f + 1 PROVE FALSE
          OBVIOUS
        <5>1. s[j] < n
          BY <1>1, <1>2 DEF n
        <5> QED BY <1>2, <3>1, <3>2, <5>1
      <4> QED BY <1>2, <3>2, <4>1
    <3>4. g + 1 <= j
      BY <1>2, <3>1, <3>3
    <3>5. g <= Len(s)
      BY <1>0, <1>2, <3>4
    <3>6. s[g + 1] <= q
      BY <1>1, <1>2, <3>1, <3>4, <3>5
    <3>7. last = s[g + 1] + 1 /\ s[g + 1] \in Nat
      BY <1>0, <1>2, <3>5
    <3> QED BY <3>2, <3>6, <3>7
  <2>4. \/ \A i \in P : i <= last
        \/ last - 1 \in P /\ n <= last - 1 /\ w[last - 1] = c
    <3>1. CASE g <= Len(s)
      <4>1. last = s[g + 1] + 1 /\ g + 1 \in DOMAIN s /\ w[s[g + 1]] = c /\ s[g + 1] \in Nat /\ s[g + 1] \in P
        BY <1>0, <1>2, <3>1
      <4>2. last - 1 = s[g + 1]
        BY <4>1
      <4>3. n <= s[g + 1]
        <5>1. f + 1 <= g + 1
          BY <1>2
        <5> QED BY <1>1, <1>2, <4>1, <5>1 DEF n
      <4> QED BY <4>1, <4>2, <4>3
    <3>2. CASE ~(g <= Len(s))
      BY <1>0, <3>2
    <3> QED BY <3>1, <3>2
  <2> QED BY <1>2, <2>1, <2>2, <2>3, <2>4 DEF FirstBlock
<1>4. last \in Nat
  BY <1>3 DEF FirstBlock
<1>5. Positions(e) = P \ B
  <2>1. \A i \in DOMAIN s : (i < f \/ g + 3 <= i) <=> s[i] \notin B
    <3> TAKE i \in DOMAIN s
    <3>1. i \in Nat /\ s[i] \in Nat /\ s[i] \in P /\ i <= Len(s) /\ s[i] <= Len(w)
      BY <1>0
    <3>2. i < f <=> s[i] < n - 1
      BY <1>1, <1>2
    <3>3. g + 3 <= i <=> last < s[i]
      <4>1. CASE g <= Len(s)
        <5>1. last = s[g + 2] /\ g + 2 \in DOMAIN s
          BY <1>2, <4>1
        <5>2. g + 2 < i <=> s[g + 2] < s[i]
          BY <1>1, <5>1
        <5> QED BY <1>2, <3>1, <5>1, <5>2
      <4>2. CASE ~(g <= Len(s))
        <5>1. ~(g + 3 <= i)
          BY <1>0, <1>2, <3>1, <4>2
        <5>2. last = Len(w)
          BY <4>2
        <5> QED BY <3>1, <5>1, <5>2
      <4> QED BY <4>1, <4>2
    <3>4. s[i] \in B <=> n - 1 <= s[i] /\ s[i] <= last
      BY <3>1
    <3>5. (n - 1 <= s[i] <=> ~(s[i] < n - 1)) /\ (s[i] <= last <=> ~(last < s[i]))
      BY <1>2, <1>4, <3>1
    <3> QED BY <3>2, <3>3, <3>4, <3>5
  <2>2. Positions(e) = {s[i] : i \in {i \in DOMAIN s : i < f \/ g + 3 <= i}}
    BY DEF CutOut
  <2> HIDE DEF B
  <2>3. \A i \in DOMAIN s : s[i] \in P
    BY <1>0
  <2>4. {s[i] : i \in {i \in DOMAIN s : i < f \/ g + 3 <= i}} \subseteq P \ B
    BY <2>1, <2>3
  <2>5. \A m \in P \ B : m \in {s[i] : i \in {i \in DOMAIN s : i < f \/ g + 3 <= i}}
    <3> TAKE m \in P \ B
    <3>1. PICK i \in DOMAIN s : s[i] = m
      BY <1>0
    <3> QED BY <2>1, <3>1
  <2> QED BY <2>2, <2>4, <2>5
<1> HIDE DEF last, B
<1>6. /\ Outer(w, P \ B, o, c) = Outer(w, P, o, c)
      /\ Whole(w, P \ B, o, c)
      /\ \A m \in P \ B : w[m] = o => last < m - 1
  BY <1>0, <1>3, EraseBlock
<1>7. e \in Seq(Nat) /\ Increasing(e) /\ DOMAIN e = 1 .. Len(e) /\ Len(e) \in Nat /\ f - 1 <= Len(e)
  BY DEF CutOut
<1>8. Reduced(w, A, e, o, c)
  <2>1. Outer(w, P, o, c) = Outer(w, A, o, c)
    BY DEF Reduced, P
  <2>2. P \ B \subseteq A
    BY <1>0
  <2> QED BY <1>5, <1>6, <1>7, <2>1, <2>2 DEF Reduced
<1>9. OpensBehind(w, e, o, f)
  <2> SUFFICES ASSUME NEW j \in DOMAIN e, w[e[j]] = o, ~(f < j) PROVE FALSE
    BY DEF OpensBehind
  <2>1. e[j] \in P \ B /\ e[j] \in Nat
    BY <1>0, <1>5 DEF Positions
  <2>2. e[j] - 1 \in Positions(e)
    BY <1>5, <1>6, <2>1 DEF Whole
  <2>3. j - 1 \in DOMAIN e /\ e[j - 1] = e[j] - 1
    BY <1>7, <2>2, Adjacent
  <2>4. j - 1 < f /\ j - 1 \in Nat
    <3>1. j \in 1 .. Len(e) /\ j - 1 \in 1 .. Len(e) /\ f \in Nat
      BY <1>2, <1>7, <2>3
    <3> QED BY <3>1
  <2>5. j - 1 \in DOMAIN s /\ e[j - 1] = s[j - 1]
    BY <2>3, <2>4 DEF CutOut
  <2>6. s[j - 1] < n - 1
    BY <1>1, <1>2, <2>4, <2>5
  <2>7. n <= e[j]
    BY <1>3, <2>1 DEF FirstBlock
  <2> QED BY <1>2, <2>1, <2>3, <2>5, <2>6, <2>7
<1>10. f \in 1 .. Len(e) + 1
  BY <1>2, <1>7
<1>11. Len(e) < Len(s)
  <2>1. f <= Len(s) /\ f < g + 3
    BY <1>0, <1>2
  <2> QED BY <2>1 DEF CutOut
<1>12. ~NoneOpen(w, s, o)
  BY <1>2 DEF NoneOpen, n
<1> QED BY <1>8, <1>9, <1>10, <1>11, <1>12 DEF EraseStep

LEMMA EraseTurn ==
    ASSUME NEW w \in Seq(STRING), NEW A \in SUBSET (1 .. Len(w)), NEW o, NEW c, Brackets(o, c),
           NEW r, Reduced(w, A, r.shown, o, c), r.search \in 1 .. Len(r.shown) + 1,
           OpensBehind(w, r.shown, o, r.search),
           NEW e, e = EraseFirst(w, r, <<"<", o>>, <<"<", c, ">">>)
    PROVE  EraseStep(w, A, r.shown, e.shown, e.search, o, c)
<1> DEFINE s == r.shown
           u == Symbols(w, s)
           f == Find(u, {<<"<", o>>}, r.search)
           g == Find(u, {<<"<", c, ">">>}, f)
           x == e.shown
<1>1. WithoutMiddle(s, f, g + 3, x) /\ e.search = f
  <2>1. Len(<<"<", c, ">">>) = 3
    OBVIOUS
  <2> HIDE DEF g
  <2>2. EraseFirst(w, r, <<"<", o>>, <<"<", c, ">">>)
            = [shown |-> SubSeq(s, 1, f - 1) \o SubSeq(s, g + Len(<<"<", c, ">">>), Len(s)),
               search |-> f]
    BY DEF EraseFirst, Symbols, g
  <2> DEFINE y == SubSeq(s, 1, f - 1) \o SubSeq(s, g + 3, Len(s))
  <2>3. e = [shown |-> y, search |-> f]
    BY <2>1, <2>2
  <2> HIDE DEF y, f, s
  <2>4. e.shown = y /\ e.search = f
    BY <2>3
  <2> HIDE DEF x
  <2>5. x = y /\ e.search = f
    BY <2>4 DEF x
  <2> QED BY <2>5 DEF WithoutMiddle, y
<1> DEFINE k == r.search
<1>2. /\ s \in Seq(Nat) /\ Increasing(s) /\ Len(s) \in Nat /\ DOMAIN s = 1 .. Len(s)
      /\ Whole(w, Positions(s), o, c) /\ Positions(s) \subseteq DOMAIN w /\ Len(w) \in Nat
      /\ k \in 1 .. Len(s) + 1 /\ k \in Nat \ {0} /\ Reduced(w, A, s, o, c) /\ OpensBehind(w, s, o, k)
  <2>1. s \in Seq(Nat) /\ Increasing(s) /\ Whole(w, Positions(s), o, c) /\ Positions(s) \subseteq A
    BY DEF Reduced
  <2>2. Len(w) \in Nat /\ DOMAIN w = 1 .. Len(w)
    OBVIOUS
  <2>3. k \in 1 .. Len(s) + 1
    OBVIOUS
  <2> HIDE DEF s, k
  <2>4. Len(s) \in Nat /\ DOMAIN s = 1 .. Len(s)
    BY <2>1
  <2>5. k \in Nat \ {0}
    BY <2>3, <2>4
  <2> QED BY <2>1, <2>2, <2>3, <2>4, <2>5 DEF s, k
<1> HIDE DEF s, k, x
<1>3. u \in Seq(STRING) /\ Len(u) = Len(s)
  BY <1>2, SymbolsAre
<1>4. f = Find(u, {<<"<", o>>}, k)
  BY DEF k
<1> HIDE DEF u
<1>5. \A p \in Nat \ {0} :
        /\ StartsAt(u, p, <<"<", o>>) <=> p + 1 <= Len(s) /\ w[s[p + 1]] = o
        /\ StartsAt(u, p, <<"<", c, ">">>) <=> p + 1 <= Len(s) /\ w[s[p + 1]] = c
        /\ p + 1 <= Len(s) /\ w[s[p + 1]] \in {o, c} => s[p] = s[p + 1] - 1
        /\ p + 1 <= Len(s) /\ w[s[p + 1]] = c => p + 2 <= Len(s) /\ s[p + 2] = s[p + 1] + 1
  <2>1. u = Symbols(w, s)
    BY DEF u
  <2>2. /\ s \in Seq(Nat) /\ Increasing(s) /\ Positions(s) \subseteq DOMAIN w
        /\ Whole(w, Positions(s), o, c)
    BY <1>2
  <2>3. \A p \in Nat \ {0} : TagsAt(w, s, u, o, c, p)
    BY <2>1, <2>2, TagPlaces
  <2> QED BY <2>3 DEF TagsAt
<1>6. \/ /\ f = Len(s) + 1
         /\ \A p \in k .. Len(s) : ~StartsAt(u, p, <<"<", o>>)
      \/ /\ f \in k .. Len(s)
         /\ StartsAt(u, f, <<"<", o>>)
         /\ \A p \in k .. f - 1 : ~StartsAt(u, p, <<"<", o>>)
  <2> DEFINE M == {<<"<", o>>}
  <2>1. f = Find(u, M, k)
    BY <1>4
  <2> HIDE DEF M, f
  <2>2. \/ /\ f = Len(u) + 1
           /\ \A p \in k .. Len(u) : \A m \in M : ~StartsAt(u, p, m)
        \/ /\ f \in k .. Len(u)
           /\ \E m \in M : StartsAt(u, f, m)
           /\ \A p \in k .. f - 1 : \A m \in M : ~StartsAt(u, p, m)
    <3>1. u \in Seq(STRING) /\ k \in Nat
      BY <1>2, <1>3
    <3> QED BY <2>1, <3>1, FindIs
  <2> QED BY <1>3, <2>2 DEF M
<1>7. f \in Nat \ {0} /\ f \in 1 .. Len(s) + 1
  BY <1>2, <1>6
<1>8. \/ /\ g = Len(s) + 1
         /\ \A p \in f .. Len(s) : ~StartsAt(u, p, <<"<", c, ">">>)
      \/ /\ g \in f .. Len(s)
         /\ StartsAt(u, g, <<"<", c, ">">>)
         /\ \A p \in f .. g - 1 : ~StartsAt(u, p, <<"<", c, ">">>)
  <2> DEFINE M == {<<"<", c, ">">>}
  <2>1. g = Find(u, M, f)
    OBVIOUS
  <2> HIDE DEF M, f, g
  <2>2. \/ /\ g = Len(u) + 1
           /\ \A p \in f .. Len(u) : \A m \in M : ~StartsAt(u, p, m)
        \/ /\ g \in f .. Len(u)
           /\ \E m \in M : StartsAt(u, g, m)
           /\ \A p \in f .. g - 1 : \A m \in M : ~StartsAt(u, p, m)
    BY <1>3, <1>7, <2>1, FindIs
  <2> QED BY <1>3, <2>2 DEF M
<1> HIDE DEF f, g
<1>9. g \in f .. Len(s) + 1 /\ g \in Nat
  BY <1>2, <1>7, <1>8
<1>10. CutOut(s, f, g + 3, x)
  <2>1. g + 3 \in Nat /\ f <= g + 3
    BY <1>7, <1>9
  <2> QED BY <1>1, <1>2, <1>7, <2>1, CutIs
<1>11. ASSUME NEW j \in DOMAIN s, w[s[j]] = o PROVE k <= j - 1 /\ f \in k .. Len(s) /\ f + 1 <= j
  <2>1. k < j /\ j \in Nat /\ j <= Len(s)
    BY <1>2, <1>11 DEF OpensBehind
  <2>2. j - 1 \in Nat \ {0} /\ j - 1 \in k .. Len(s) /\ (j - 1) + 1 = j
    BY <1>2, <2>1
  <2>3. StartsAt(u, j - 1, <<"<", o>>)
    BY <1>5, <1>11, <2>1, <2>2
  <2>4. f \in k .. Len(s) /\ j - 1 \notin k .. f - 1
    BY <1>6, <2>2, <2>3
  <2> QED BY <1>2, <1>7, <2>1, <2>2, <2>4
<1>12. CASE f = Len(s) + 1
  <2>1. NoneOpen(w, s, o)
    <3>1. f \notin k .. Len(s)
      BY <1>2, <1>12
    <3> QED BY <1>11, <3>1 DEF NoneOpen
  <2>2. g + 3 \in Nat /\ Len(s) + 1 <= g + 3
    BY <1>2, <1>9, <1>12
  <2> DEFINE d == g + 3
  <2>3. d \in Nat /\ Len(s) + 1 <= d /\ CutOut(s, Len(s) + 1, d, x)
    BY <1>10, <1>12, <2>2
  <2> HIDE DEF d
  <2>4. EraseStep(w, A, s, x, Len(s) + 1, o, c)
    BY <1>2, <2>1, <2>3, NothingToErase
  <2> QED BY <1>1, <1>12, <2>4 DEF s, x
<1>13. CASE f # Len(s) + 1
  <2>1. f \in k .. Len(s) /\ StartsAt(u, f, <<"<", o>>)
    BY <1>6, <1>13
  <2>2. f + 1 <= Len(s) /\ w[s[f + 1]] = o /\ s[f] = s[f + 1] - 1
    BY <1>5, <1>7, <2>1
  <2>3. f \in DOMAIN s /\ f + 1 \in DOMAIN s
    BY <1>2, <1>7, <2>2
  <2>4. \A j \in DOMAIN s : w[s[j]] = o => f + 1 <= j
    BY <1>11
  <2>5. \A j \in DOMAIN s : f + 1 <= j /\ w[s[j]] = c => g + 1 <= j
    <3> SUFFICES ASSUME NEW j \in DOMAIN s, f + 1 <= j, w[s[j]] = c PROVE g + 1 <= j
      OBVIOUS
    <3>1. j - 1 \in Nat \ {0} /\ j - 1 \in f .. Len(s) /\ (j - 1) + 1 = j /\ j <= Len(s) /\ j \in Nat
      <4>1. j \in 1 .. Len(s) /\ f \in Nat \ {0} /\ Len(s) \in Nat
        BY <1>2, <1>7
      <4> QED BY <4>1
    <3>2. StartsAt(u, j - 1, <<"<", c, ">">>)
      BY <1>5, <3>1
    <3>3. g \in f .. Len(s) /\ j - 1 \notin f .. g - 1
      BY <1>8, <3>1, <3>2
    <3> QED BY <1>9, <1>7, <3>1, <3>3
  <2>6. ASSUME g <= Len(s)
        PROVE  g + 2 \in DOMAIN s /\ w[s[g + 1]] = c /\ s[g + 2] = s[g + 1] + 1
    <3>1. StartsAt(u, g, <<"<", c, ">">>) /\ g \in Nat \ {0}
      BY <1>2, <1>7, <1>8, <1>9, <2>6
    <3>2. w[s[g + 1]] = c /\ g + 1 <= Len(s)
      BY <1>5, <3>1
    <3>3. g + 2 <= Len(s) /\ s[g + 2] = s[g + 1] + 1
      BY <1>5, <3>1, <3>2
    <3> QED BY <1>2, <3>1, <3>2, <3>3
  <2>7. BlockAt(w, s, f, g, o, c)
    BY <1>9, <2>2, <2>3, <2>4, <2>5, <2>6 DEF BlockAt
  <2>8. EraseStep(w, A, s, x, f, o, c)
    BY <1>2, <1>10, <2>7, BlockErased
  <2> QED BY <1>1, <2>8 DEF s, x
<1> QED BY <1>12, <1>13

\* What is shown after n turns, given what is after one less.
Turned(w, s, f, n, open, close) ==
    IF n = 0 THEN [shown |-> s, search |-> 1] ELSE EraseFirst(w, f[n - 1], open, close)

Erases(w, s, f, open, close) == f = [n \in 0 .. Len(s) + 1 |-> Turned(w, s, f, n, open, close)]

LEMMA EraseFrom ==
    \A w, s, open, close :
        Erase(w, s, open, close) = (CHOOSE f : Erases(w, s, f, open, close))[Len(s) + 1].shown
BY DEF Erase, Erases, Turned

LEMMA ErasesExists ==
    ASSUME NEW w, NEW s, Len(s) \in Nat, NEW open, NEW close
    PROVE  \E f : Erases(w, s, f, open, close)
<1> DEFINE N == Len(s) + 1
           Suits(f, d) == \A n \in 0 .. d : f[n] = Turned(w, s, f, n, open, close)
           T == {d \in Nat : \E f : Suits(f, d)}
<1>0. N \in Nat
  OBVIOUS
<1>1. ASSUME NEW f, NEW g, NEW n \in Nat, n # 0 => f[n - 1] = g[n - 1]
      PROVE  Turned(w, s, f, n, open, close) = Turned(w, s, g, n, open, close)
  BY <1>1 DEF Turned
<1>2. 0 \in T
  <2> DEFINE f == [n \in 0 .. 0 |-> Turned(w, s, <<>>, 0, open, close)]
  <2>1. \A n \in 0 .. 0 : n = 0
    OBVIOUS
  <2>2. f[0] = Turned(w, s, <<>>, 0, open, close)
    OBVIOUS
  <2> HIDE DEF f
  <2>3. Turned(w, s, f, 0, open, close) = Turned(w, s, <<>>, 0, open, close)
    BY DEF Turned
  <2>4. Suits(f, 0)
    BY <2>1, <2>2, <2>3
  <2> HIDE DEF Suits
  <2> QED BY <2>4
<1>3. ASSUME NEW d \in 1 .. N, EachPlace(T, d - 1) PROVE d \in T
  <2>1. d \in Nat /\ d - 1 \in 0 .. d - 1
    BY <1>0
  <2>2. d - 1 \in T
    <3> HIDE DEF T
    <3> QED BY <1>3, <2>1 DEF EachPlace
  <2>3. PICK f : Suits(f, d - 1)
    BY <2>2
  <2> DEFINE g == [n \in 0 .. d |-> IF n = d THEN Turned(w, s, f, d, open, close) ELSE f[n]]
  <2>4. \A n \in 0 .. d - 1 : n \in 0 .. d /\ n # d
    BY <2>1
  <2>5. g[d] = Turned(w, s, f, d, open, close) /\ \A n \in 0 .. d - 1 : g[n] = f[n]
    <3>1. d \in 0 .. d
      BY <2>1
    <3> QED BY <2>4, <3>1
  <2> HIDE DEF g
  <2>6. ASSUME NEW n \in 0 .. d PROVE g[n] = Turned(w, s, g, n, open, close)
    <3>1. n \in Nat /\ (n # 0 => n - 1 \in 0 .. d - 1) /\ (n = d \/ n \in 0 .. d - 1)
      BY <2>1
    <3>2. n # 0 => f[n - 1] = g[n - 1]
      BY <2>5, <3>1
    <3>3. Turned(w, s, f, n, open, close) = Turned(w, s, g, n, open, close)
      BY <1>1, <3>1, <3>2
    <3>4. g[n] = Turned(w, s, f, n, open, close)
      BY <2>3, <2>5, <3>1
    <3> QED BY <3>3, <3>4
  <2>7. Suits(g, d)
    BY <2>6
  <2> HIDE DEF Suits
  <2> QED BY <2>1, <2>7
<1>4. T \in SUBSET Nat
  OBVIOUS
<1>5. N \in T
  <2> HIDE DEF T, N
  <2>1. EachPlace(T, N)
    BY <1>0, <1>2, <1>3, <1>4, DownTo
  <2> QED BY <1>0, <2>1 DEF EachPlace
<1>6. PICK f : Suits(f, N)
  BY <1>5
<1> HIDE DEF T
<1> DEFINE g == [n \in 0 .. N |-> f[n]]
<1>7. \A n \in 0 .. N : g[n] = f[n]
  OBVIOUS
<1>8. \A n \in 0 .. N : f[n] = Turned(w, s, g, n, open, close)
  <2> SUFFICES ASSUME NEW n \in 0 .. N PROVE f[n] = Turned(w, s, g, n, open, close)
    OBVIOUS
  <2> HIDE DEF g
  <2>1. n \in Nat /\ (n # 0 => n - 1 \in 0 .. N)
    BY <1>0
  <2>2. n # 0 => f[n - 1] = g[n - 1]
    BY <1>7, <2>1
  <2>3. f[n] = Turned(w, s, f, n, open, close)
    BY <1>6
  <2> QED BY <1>1, <2>1, <2>2, <2>3
<1>9. g = [n \in 0 .. N |-> Turned(w, s, g, n, open, close)]
  <2> DEFINE h == [n \in 0 .. N |-> Turned(w, s, g, n, open, close)]
             D == 0 .. N
  <2>1. \A n \in D : f[n] = Turned(w, s, g, n, open, close)
    BY <1>8
  <2>2. g = [n \in D |-> f[n]]
    OBVIOUS
  <2> HIDE DEF D, g
  <2>3. [n \in D |-> f[n]] = [n \in D |-> Turned(w, s, g, n, open, close)]
    BY <2>1
  <2>4. g = [n \in D |-> Turned(w, s, g, n, open, close)]
    BY <2>2, <2>3
  <2> QED BY <2>4 DEF D
<1> HIDE DEF g
<1>10. Erases(w, s, g, open, close)
  BY <1>9 DEF Erases
<1> QED BY <1>10

\* What is left when everything has been erased.
LEMMA EraseIs ==
    ASSUME NEW w \in Seq(STRING), NEW s \in Seq(Nat), Increasing(s), Positions(s) \subseteq 1 .. Len(w),
           NEW o, NEW c, Brackets(o, c), Whole(w, Positions(s), o, c),
           NEW x, x = Erase(w, s, <<"<", o>>, <<"<", c, ">">>)
    PROVE  x \in Seq(Nat) /\ Increasing(x) /\ Positions(x) = Outer(w, Positions(s), o, c)
<1> DEFINE open == <<"<", o>>
           close == <<"<", c, ">">>
           N == Len(s) + 1
           A == Positions(s)
           g == CHOOSE f : Erases(w, s, f, open, close)
<1>0. Len(s) \in Nat /\ DOMAIN s = 1 .. Len(s) /\ N \in Nat
  OBVIOUS
<1>1. x = Erase(w, s, open, close)
  OBVIOUS
<1> HIDE DEF open, close
<1>2. Erases(w, s, g, open, close)
  BY <1>0, ErasesExists
<1>3. x = g[N].shown
  BY <1>1, EraseFrom
<1> HIDE DEF g
<1>4. \A n \in 0 .. N : g[n] = Turned(w, s, g, n, open, close)
  <2> DEFINE D == 0 .. N
  <2>1. g = [n \in D |-> Turned(w, s, g, n, open, close)]
    BY <1>2 DEF Erases
  <2> HIDE DEF D
  <2>2. \A n \in D : g[n] = Turned(w, s, g, n, open, close)
    BY <2>1
  <2> QED BY <2>2 DEF D
<1> DEFINE Good(n) == /\ Reduced(w, A, g[n].shown, o, c)
                      /\ g[n].search \in 1 .. Len(g[n].shown) + 1
                      /\ OpensBehind(w, g[n].shown, o, g[n].search)
                      /\ Len(g[n].shown) + n <= Len(s) \/ NoneOpen(w, g[n].shown, o)
           T == {n \in Nat : Good(n)}
<1>5. 0 \in T
  <2>1. g[0] = [shown |-> s, search |-> 1]
    <3>1. 0 \in 0 .. N
      BY <1>0
    <3> QED BY <1>4, <3>1 DEF Turned
  <2>2. g[0].shown = s /\ g[0].search = 1
    BY <2>1
  <2>3. Reduced(w, A, s, o, c)
    BY DEF Reduced
  <2>4. OpensBehind(w, s, o, 1)
    <3> SUFFICES ASSUME NEW j \in DOMAIN s, w[s[j]] = o PROVE 1 < j
      BY DEF OpensBehind
    <3>1. s[j] \in Positions(s)
      BY DEF Positions
    <3>2. s[j] - 1 \in Positions(s)
      BY <3>1 DEF Whole
    <3>3. j - 1 \in DOMAIN s
      BY <3>2, Adjacent
    <3> QED BY <1>0, <3>3
  <2>5. 1 \in 1 .. Len(s) + 1 /\ Len(s) + 0 <= Len(s)
    BY <1>0
  <2> HIDE DEF A
  <2>6. Good(0)
    BY <2>2, <2>3, <2>4, <2>5
  <2> HIDE DEF Good
  <2> QED BY <2>6
<1>6. ASSUME NEW n \in 1 .. N, EachPlace(T, n - 1) PROVE n \in T
  <2>1. n \in Nat /\ n - 1 \in 0 .. n - 1 /\ n # 0 /\ n \in 0 .. N /\ n - 1 \in Nat
    BY <1>0
  <2>2. n - 1 \in T
    <3> HIDE DEF T
    <3> QED BY <1>6, <2>1 DEF EachPlace
  <2>3. Good(n - 1)
    BY <2>2
  <2> DEFINE r == g[n - 1]
             e == g[n]
  <2>4. e = EraseFirst(w, r, open, close)
    BY <1>4, <2>1 DEF Turned
  <2>5. EraseStep(w, A, r.shown, e.shown, e.search, o, c)
    <3>1. /\ Reduced(w, A, r.shown, o, c) /\ r.search \in 1 .. Len(r.shown) + 1
          /\ OpensBehind(w, r.shown, o, r.search)
      BY <2>3
    <3>2. A \in SUBSET (1 .. Len(w))
      OBVIOUS
    <3>3. e = EraseFirst(w, r, <<"<", o>>, <<"<", c, ">">>)
      BY <2>4 DEF open, close
    <3> HIDE DEF r, e, A
    <3> QED BY <3>1, <3>2, <3>3, EraseTurn
  <2>6. Len(r.shown) + (n - 1) <= Len(s) \/ NoneOpen(w, r.shown, o)
    BY <2>3
  <2>7. Len(r.shown) \in Nat /\ Len(e.shown) \in Nat
    <3>1. r.shown \in Seq(Nat) /\ e.shown \in Seq(Nat)
      BY <2>3, <2>5 DEF Reduced, EraseStep
    <3> HIDE DEF r, e
    <3> QED BY <3>1
  <2> HIDE DEF r, e
  <2>8. Len(e.shown) + n <= Len(s) \/ NoneOpen(w, e.shown, o)
    <3>1. CASE NoneOpen(w, r.shown, o) \/ NoneOpen(w, e.shown, o)
      BY <2>5, <3>1 DEF EraseStep
    <3>2. CASE ~(NoneOpen(w, r.shown, o) \/ NoneOpen(w, e.shown, o))
      <4>1. Len(e.shown) < Len(r.shown) /\ Len(r.shown) + (n - 1) <= Len(s)
        BY <2>5, <2>6, <3>2 DEF EraseStep
      <4> QED BY <1>0, <2>1, <2>7, <4>1
    <3> QED BY <3>1, <3>2
  <2>9. Good(n)
    <3> HIDE DEF A
    <3>1. /\ Reduced(w, A, e.shown, o, c) /\ e.search \in 1 .. Len(e.shown) + 1
          /\ OpensBehind(w, e.shown, o, e.search)
      BY <2>5 DEF EraseStep
    <3> QED BY <2>8, <3>1 DEF e
  <2> HIDE DEF Good
  <2> QED BY <2>1, <2>9
<1>7. T \in SUBSET Nat
  OBVIOUS
<1>8. N \in T
  <2> HIDE DEF T, N
  <2>1. EachPlace(T, N)
    BY <1>0, <1>5, <1>6, <1>7, DownTo
  <2> QED BY <1>0, <2>1 DEF EachPlace
<1>9. Good(N)
  BY <1>8
<1>10. Reduced(w, A, x, o, c) /\ NoneOpen(w, x, o)
  <2>1. Reduced(w, A, x, o, c) /\ (Len(x) + N <= Len(s) \/ NoneOpen(w, x, o))
    <3> HIDE DEF N, A
    <3> QED BY <1>3, <1>9
  <2>2. x \in Seq(Nat)
    BY <2>1 DEF Reduced
  <2>3. ~(Len(x) + N <= Len(s))
    <3>1. Len(x) \in Nat
      BY <2>2
    <3> QED BY <1>0, <3>1
  <2> QED BY <2>1, <2>3
<1>11. Outer(w, Positions(x), o, c) = Positions(x)
  <2>1. \A n \in Positions(x) : w[n] # o
    BY <1>10 DEF NoneOpen, Positions
  <2> QED BY <2>1 DEF Outer, InsideOf
<1> QED BY <1>10, <1>11 DEF Reduced
-----------------------------------------------------------------------------
(* What is extracted from an orderly text.                                 *)

\* Where no block begins behind b nothing is in one.
LEMMA NoneInside ==
    ASSUME NEW t \in Seq(STRING), NEW b \in Nat \ {0}, NEW d \in b .. Len(t) + 1,
           NEW tag, NEW close, ClosedBy(t, b, tag, close),
           \A n \in DOMAIN t : n \in b + 1 .. d => t[n] # tag
    PROVE  \A i \in b .. d - 1 : ~Inside(t, i, tag, close)
<1>0. Len(t) \in Nat /\ DOMAIN t = 1 .. Len(t) /\ d \in Nat /\ b <= d
  OBVIOUS
<1> SUFFICES ASSUME NEW i \in b .. d - 1, Inside(t, i, tag, close) PROVE FALSE
  OBVIOUS
<1>1. PICK n \in DOMAIN t : n <= i + 1 /\ t[n] = tag /\ \A q \in n .. i - 2 : t[q] # close
  BY DEF Inside
<1>2. n <= b /\ i \in Nat
  BY <1>0, <1>1
<1>3. PICK q \in n .. b - 2 : t[q] = close
  BY <1>1, <1>2 DEF ClosedBy
<1>4. q \in n .. i - 2
  BY <1>0, <1>2, <1>3
<1> QED BY <1>1, <1>3, <1>4

\* f is where the first of these names is from p on.
FirstName(t, names, p, f) ==
    /\ f \in p .. Len(t) + 1 /\ f \in Nat \ {0}
    /\ Found(t, f) => /\ f \in 1 .. Len(t) /\ f + 1 \in DOMAIN t /\ t[f + 1] \in names
                      /\ BehindTag(t, t, f, After(t, f))
    /\ ~Found(t, f) => f = Len(t) + 1
    /\ \A n \in DOMAIN t : n \in p + 1 .. f => t[n] \notin names

LEMMA FirstNameIs ==
    ASSUME NEW t \in Seq(STRING), Tidy(t), NEW names, names \subseteq Tags,
           NEW markers, Names(t, t, markers, names, 1),
           NEW p \in 1 .. Len(t) + 1, NEW f, f = Find(t, markers, p)
    PROVE  FirstName(t, names, p, f)
<1>0. Len(t) \in Nat /\ DOMAIN t = 1 .. Len(t) /\ p \in Nat \ {0} /\ Prefix(t, t)
  BY DEF Prefix
<1>1. \A q \in Nat \ {0} : (\E m \in markers : StartsAt(t, q, m)) <=> q + 1 <= Len(t) /\ t[q + 1] \in names
  BY DEF Names
<1>2. \/ f = Len(t) + 1 /\ \A q \in p .. Len(t) : \A m \in markers : ~StartsAt(t, q, m)
      \/ /\ f \in p .. Len(t) /\ \E m \in markers : StartsAt(t, f, m)
         /\ \A q \in p .. f - 1 : \A m \in markers : ~StartsAt(t, q, m)
  BY <1>0, FindIs
<1>3. f \in p .. Len(t) + 1 /\ f \in Nat \ {0} /\ (~Found(t, f) => f = Len(t) + 1)
  BY <1>0, <1>2 DEF Found
<1>4. ASSUME Found(t, f)
      PROVE  /\ f \in 1 .. Len(t) /\ f + 1 \in DOMAIN t /\ t[f + 1] \in names
             /\ BehindTag(t, t, f, After(t, f))
  <2>1. f \in 1 .. Len(t) /\ \E m \in markers : StartsAt(t, f, m)
    BY <1>0, <1>2, <1>4 DEF Found
  <2>2. f + 1 <= Len(t) /\ t[f + 1] \in names
    BY <1>1, <1>3, <2>1
  <2>3. f + 1 \in DOMAIN t /\ t[f + 1] \in Tags
    BY <1>0, <1>3, <2>2
  <2>4. /\ TagEnd(t, f) # NoEnd => BehindTag(t, t, f, TagEnd(t, f))
        /\ TagEnd(t, f) # NoEnd
    BY <1>0, <2>1, <2>2, <2>3, TagEnds
  <2>5. After(t, f) = TagEnd(t, f)
    BY <2>4 DEF After
  <2> QED BY <2>1, <2>2, <2>3, <2>4, <2>5
<1>5. ASSUME NEW n \in DOMAIN t, n \in p + 1 .. f, t[n] \in names PROVE FALSE
  <2>1. n - 1 \in p .. f - 1 /\ n - 1 \in Nat \ {0} /\ (n - 1) + 1 = n /\ n <= Len(t) /\ n - 1 \in p .. Len(t)
    BY <1>0, <1>3, <1>5
  <2>2. \E m \in markers : StartsAt(t, n - 1, m)
    BY <1>1, <1>5, <2>1
  <2> QED BY <1>2, <2>1, <2>2
<1> QED BY <1>3, <1>4, <1>5 DEF FirstName

LEMMA ThoughtNamesAre ==
    ASSUME NEW t \in Seq(STRING), Tidy(t)
    PROVE  /\ Names(t, t, OpenThink, {"k"}, 1)
           /\ Names(t, t, CloseThink, {"/k"}, 1)
           /\ Names(t, t, OpenTool, {"t", "f"}, 1)
<1>0. Prefix(t, t)
  BY DEF Prefix
<1>1. {"k", "/k", "t", "f"} \subseteq Tags
  BY DEF Tags
<1>2. ASSUME NEW p \in Nat \ {0}, NEW s \in {"k", "/k", "t", "f"}
      PROVE  StartsAt(t, p, <<"<", s>>) <=> p + 1 <= Len(t) /\ t[p + 1] = s
  BY <1>0, <1>1, <1>2, OpenMarks
<1>3. ASSUME NEW p \in Nat \ {0}
      PROVE  (\E m \in OpenThink : StartsAt(t, p, m)) <=> p + 1 <= Len(t) /\ t[p + 1] \in {"k"}
  <2>1. (\E m \in OpenThink : StartsAt(t, p, m)) <=> StartsAt(t, p, <<"<", "k">>)
    BY DEF OpenThink
  <2> QED BY <1>2, <2>1
<1>4. ASSUME NEW p \in Nat \ {0}
      PROVE  (\E m \in CloseThink : StartsAt(t, p, m)) <=> p + 1 <= Len(t) /\ t[p + 1] \in {"/k"}
  <2>1. (\E m \in CloseThink : StartsAt(t, p, m)) <=> StartsAt(t, p, <<"<", "/k">>)
    BY DEF CloseThink
  <2> QED BY <1>2, <2>1
<1>5. ASSUME NEW p \in Nat \ {0}
      PROVE  (\E m \in OpenTool : StartsAt(t, p, m)) <=> p + 1 <= Len(t) /\ t[p + 1] \in {"t", "f"}
  <2>1. (\E m \in OpenTool : StartsAt(t, p, m))
            <=> StartsAt(t, p, <<"<", "t">>) \/ StartsAt(t, p, <<"<", "f">>)
    BY DEF OpenTool, OpenCall, OpenFunction
  <2> QED BY <1>2, <2>1
<1> QED BY <1>3, <1>4, <1>5 DEF Names

\* What is outside of the thoughts from a on.
Unthought(t, a) == {i \in a .. Len(t) : t[i] # "n" /\ ~Inside(t, i, "k", "/k")}

RightContent(t, e, a) == Placed(t, e.content, a) /\ SolidIn(t, e.content) = Unthought(t, a)

Outset(t, p) == p = Len(t) + 1 \/ ClosedBy(t, p, "k", "/k")

\* The thought that begins at f is over at d.
ThoughtOver(t, f, d) ==
    /\ d \in f + 3 .. Len(t) + 1 /\ Outset(t, d)
    /\ \A i \in f .. d - 1 : t[i] # "n" => Inside(t, i, "k", "/k")

LEMMA ThoughtIsOver ==
    ASSUME NEW t \in Seq(STRING), Tidy(t), Nests(t), NEW p \in 1 .. Len(t) + 1,
           NEW f, f = ThoughtAt(t, p), Found(t, f)
    PROVE  ThoughtOver(t, f, NextAt(t, p))
<1> DEFINE c == BodyAt(t, p)
           g == ThoughtEnds(t, p)
           h == CallAt(t, p)
           d == NextAt(t, p)
<1>0. Len(t) \in Nat /\ DOMAIN t = 1 .. Len(t) /\ p \in Nat \ {0}
  OBVIOUS
<1>1. /\ f \in 1 .. Len(t) /\ f + 1 \in DOMAIN t /\ t[f + 1] = "k"
      /\ f \in Nat \ {0} /\ BehindTag(t, t, f, After(t, f))
  <2>1. FirstName(t, {"k"}, p, f)
    <3>1. {"k"} \subseteq Tags
      BY DEF Tags
    <3> QED BY <3>1, FirstNameIs, ThoughtNamesAre DEF ThoughtAt
  <2> QED BY <2>1 DEF FirstName
<1>2. /\ c \in f + 3 .. Len(t) + 1 /\ \A n \in DOMAIN t : n \in f + 2 .. c => t[n] \notin Tags
      /\ c \in 1 .. Len(t) + 1 /\ c \in Nat \ {0}
  <2>1. c = After(t, f)
    BY DEF BodyAt
  <2> HIDE DEF c
  <2>2. c \in f + 3 .. Len(t) + 1 /\ \A n \in DOMAIN t : n \in f + 2 .. c => t[n] \notin Tags
    BY <1>1, <2>1 DEF BehindTag
  <2> QED BY <1>0, <1>1, <2>2
<1>3. FirstName(t, {"/k"}, c, g) /\ FirstName(t, {"t", "f"}, c, h)
  <2>1. {"/k"} \subseteq Tags /\ {"t", "f"} \subseteq Tags
    BY DEF Tags
  <2>2. g = Find(t, CloseThink, c) /\ h = Find(t, OpenTool, c)
    BY DEF ThoughtEnds, CallAt
  <2> HIDE DEF c, g, h
  <2> QED BY <1>2, <2>1, <2>2, FirstNameIs, ThoughtNamesAre
<1>4. d = IF h < g THEN h ELSE IF Found(t, g) THEN After(t, g) ELSE Len(t) + 1
  BY DEF NextAt
<1> HIDE DEF c, g, h, d
<1>5. /\ g \in c .. Len(t) + 1 /\ h \in c .. Len(t) + 1 /\ g \in Nat /\ h \in Nat
      /\ Found(t, g) => /\ g \in 1 .. Len(t) /\ g + 1 \in DOMAIN t /\ t[g + 1] = "/k"
                        /\ BehindTag(t, t, g, After(t, g))
      /\ Found(t, h) => h + 1 \in DOMAIN t /\ t[h + 1] \in {"t", "f"}
      /\ ~Found(t, g) => g = Len(t) + 1
      /\ \A n \in DOMAIN t : n \in c + 1 .. g => t[n] # "/k"
  BY <1>3 DEF FirstName
<1>6. \A n \in f + 1 .. g : n \in DOMAIN t => t[n] # "/k"
  <2> TAKE n \in f + 1 .. g
  <2> HAVE n \in DOMAIN t
  <2>1. n = f + 1 \/ n \in f + 2 .. c \/ n \in c + 1 .. g
    BY <1>0, <1>1, <1>2, <1>5
  <2>2. "/k" \in Tags
    BY DEF Tags
  <2> QED BY <1>1, <1>2, <1>5, <2>1, <2>2
<1>7. ~(h < g)
  <2> SUFFICES ASSUME h < g PROVE FALSE
    OBVIOUS
  <2>1. Found(t, h)
    BY <1>0, <1>5 DEF Found
  <2>2. h + 1 \in DOMAIN t /\ t[h + 1] \in {"t", "f"}
    BY <1>5, <2>1
  <2>3. ~Thinking(t, h + 1)
    BY <2>2 DEF Nests
  <2>4. f + 1 \in 1 .. (h + 1) - 1
    BY <1>0, <1>1, <1>2, <1>5
  <2>5. \A q \in f + 1 .. (h + 1) - 1 : t[q] # "/k"
    <3> TAKE q \in f + 1 .. (h + 1) - 1
    <3>1. q \in f + 1 .. g /\ q \in DOMAIN t
      BY <1>0, <1>1, <1>5, <2>1 DEF Found
    <3> QED BY <1>6, <3>1
  <2> QED BY <1>1, <2>3, <2>4, <2>5 DEF Thinking, IsOpen
<1>8. CASE Found(t, g)
  <2>1. /\ d \in g + 3 .. Len(t) + 1 /\ \A n \in DOMAIN t : n \in g + 2 .. d => t[n] \notin Tags
        /\ \A i \in g + 3 .. d - 1 : t[i] = "n"
        /\ g \in 1 .. Len(t) /\ g + 1 \in DOMAIN t /\ t[g + 1] = "/k"
    <3>1. d = After(t, g) /\ BehindTag(t, t, g, After(t, g)) /\ t[g + 1] # "f"
      BY <1>4, <1>5, <1>7, <1>8
    <3> QED BY <1>5, <1>8, <3>1 DEF BehindTag
  <2>2. d \in f + 3 .. Len(t) + 1 /\ d \in Nat
    BY <1>0, <1>1, <1>2, <1>5, <2>1
  <2>3. ClosedBy(t, d, "k", "/k")
    <3> SUFFICES ASSUME NEW n \in DOMAIN t, n <= d, t[n] = "k"
                 PROVE  \E q \in n .. d - 2 : t[q] = "/k"
      BY DEF ClosedBy
    <3>1. "k" \in Tags
      BY DEF Tags
    <3>2. n \notin g + 2 .. d /\ n # g + 1
      BY <2>1, <3>1
    <3>3. g + 1 \in n .. d - 2
      BY <1>0, <1>5, <2>1, <2>2, <3>2
    <3> QED BY <2>1, <3>3
  <2>4. ASSUME NEW i \in f .. d - 1, t[i] # "n" PROVE Inside(t, i, "k", "/k")
    <3>1. i \notin g + 3 .. d - 1
      BY <2>1, <2>4
    <3>2. i <= g + 2 /\ i \in Nat /\ f + 1 <= i + 1
      BY <1>1, <1>5, <2>2, <3>1
    <3>3. \A q \in f + 1 .. i - 2 : t[q] # "/k"
      <4> TAKE q \in f + 1 .. i - 2
      <4>1. q \in f + 1 .. g /\ q \in DOMAIN t
        BY <1>0, <1>1, <2>1, <3>2
      <4> QED BY <1>6, <4>1
    <3> QED BY <1>1, <3>2, <3>3 DEF Inside
  <2> QED BY <2>2, <2>3, <2>4 DEF ThoughtOver, Outset, d
<1>9. CASE ~Found(t, g)
  <2>1. d = Len(t) + 1 /\ g = Len(t) + 1
    BY <1>4, <1>5, <1>7, <1>9
  <2>2. d \in f + 3 .. Len(t) + 1
    BY <1>0, <1>1, <1>2, <2>1
  <2>3. ASSUME NEW i \in f .. d - 1 PROVE Inside(t, i, "k", "/k")
    <3>1. i \in Nat /\ f + 1 <= i + 1 /\ i <= Len(t)
      BY <1>0, <1>1, <2>1
    <3>2. \A q \in f + 1 .. i - 2 : t[q] # "/k"
      <4> TAKE q \in f + 1 .. i - 2
      <4>1. q \in f + 1 .. g /\ q \in DOMAIN t
        BY <1>0, <1>1, <2>1, <3>1
      <4> QED BY <1>6, <4>1
    <3> QED BY <1>1, <3>1, <3>2 DEF Inside
  <2> QED BY <2>1, <2>2, <2>3 DEF ThoughtOver, Outset, d
<1> QED BY <1>8, <1>9

LEMMA ContentTurn ==
    ASSUME NEW t \in Seq(STRING), Tidy(t), Nests(t),
           NEW r, \A p \in 1 .. Len(t) + 1 : r[p] = Extracted(t, r, p),
           NEW p \in 1 .. Len(t) + 1, Outset(t, p),
           \A d \in p + 1 .. Len(t) + 1 : Outset(t, d) => RightContent(t, r[d], d)
    PROVE  RightContent(t, r[p], p)
<1> DEFINE end == Len(t) + 1
           f == ThoughtAt(t, p)
           d == NextAt(t, p)
           x == r[p].content
<1>0. /\ Len(t) \in Nat /\ DOMAIN t = 1 .. Len(t) /\ p \in Nat \ {0} /\ end \in Nat /\ p <= end
      /\ p \in 1 .. p /\ end \in p .. end
  OBVIOUS
<1>1. f = Find(t, OpenThink, p)
  BY DEF ThoughtAt
<1>2. /\ f \in p .. Len(t) + 1 /\ f \in Nat \ {0}
      /\ Found(t, f) => f \in 1 .. Len(t)
      /\ ~Found(t, f) => f = Len(t) + 1
      /\ \A n \in DOMAIN t : n \in p + 1 .. f => t[n] # "k"
  <2> HIDE DEF f
  <2>1. {"k"} \subseteq Tags
    BY DEF Tags
  <2>2. FirstName(t, {"k"}, p, f)
    BY <1>1, <2>1, FirstNameIs, ThoughtNamesAre
  <2> QED BY <2>2 DEF FirstName
<1>3. r[p] = Extracted(t, r, p)
  OBVIOUS
<1>4. \A i \in p .. f - 1 : ~Inside(t, i, "k", "/k")
  <2>1. CASE p = Len(t) + 1
    <3>1. p .. f - 1 = {}
      BY <1>0, <1>2, <2>1
    <3> QED BY <3>1
  <2>2. CASE ClosedBy(t, p, "k", "/k")
    <3> HIDE DEF f
    <3> QED BY <1>0, <1>2, <2>2, NoneInside
  <2> QED BY <2>1, <2>2 DEF Outset
<1>5. CASE ~Found(t, f)
  <2>1. x = Span(p, f) \o <<>>
    <3>1. x = Span(p, f)
      BY <1>2, <1>3, <1>5 DEF Extracted
    <3>2. Span(p, f) \in Seq(Nat)
      BY <1>0, <1>2, SpanIs
    <3> QED BY <3>1, <3>2
  <2> DEFINE e == <<>>
  <2>2. Placed(t, e, f) /\ SolidIn(t, e) = {} /\ x = Span(p, f) \o e
    BY <1>2, <2>1, EmptyPlaced
  <2>3. f \in f .. Len(t) + 1
    BY <1>0, <1>2
  <2> HIDE DEF e, f, x
  <2>4. Joins(t, x, p, p, f, e)
    BY <1>0, <1>2, <2>2, <2>3, SpanThen
  <2>5. Placed(t, x, p) /\ SolidIn(t, x) = Solids(t, p, f)
    BY <2>2, <2>4 DEF Joins
  <2>6. Solids(t, p, f) = Unthought(t, p)
    <3>1. f = Len(t) + 1 /\ p .. f - 1 = p .. Len(t)
      BY <1>0, <1>2, <1>5
    <3> QED BY <1>4, <3>1 DEF Solids, Unthought
  <2> QED BY <2>5, <2>6 DEF RightContent, x
<1>6. CASE Found(t, f)
  <2>1. x = Span(p, f) \o r[d].content
    BY <1>3, <1>6 DEF Extracted
  <2>2. /\ d \in f + 3 .. Len(t) + 1 /\ Outset(t, d)
        /\ \A i \in f .. d - 1 : t[i] # "n" => Inside(t, i, "k", "/k")
    <3> HIDE DEF f, d
    <3>1. ThoughtOver(t, f, NextAt(t, p))
      BY <1>6, ThoughtIsOver DEF f
    <3> QED BY <3>1 DEF ThoughtOver, d
  <2> HIDE DEF f, d
  <2>3. d \in p + 1 .. Len(t) + 1 /\ d \in f .. Len(t) + 1 /\ d \in Nat
    BY <1>0, <1>2, <2>2
  <2>4. RightContent(t, r[d], d)
    BY <2>2, <2>3
  <2> DEFINE e == r[d].content
  <2>5. Placed(t, e, d) /\ SolidIn(t, e) = Unthought(t, d) /\ x = Span(p, f) \o e
    BY <2>1, <2>4 DEF RightContent
  <2> HIDE DEF e, x
  <2>6. Joins(t, x, p, p, f, e)
    BY <1>0, <1>2, <2>3, <2>5, SpanThen
  <2>7. Placed(t, x, p) /\ SolidIn(t, x) = Solids(t, p, f) \cup Unthought(t, d)
    BY <2>5, <2>6 DEF Joins
  <2>8. Solids(t, p, f) \cup Unthought(t, d) = Unthought(t, p)
    <3>1. \A i : i \in p .. Len(t) <=> i \in p .. f - 1 \/ i \in f .. d - 1 \/ i \in d .. Len(t)
      BY <1>0, <1>2, <2>2, <2>3
    <3> QED BY <1>4, <2>2, <3>1 DEF Solids, Unthought
  <2> QED BY <2>7, <2>8 DEF RightContent, x
<1> QED BY <1>5, <1>6

\* The content of an orderly text is what is outside of its thoughts.
LEMMA OrderlyContent ==
    ASSUME NEW t \in Seq(STRING), Tidy(t), Nests(t)
    PROVE  RightContent(t, Extract(t), 1)
<1>0. Len(t) \in Nat /\ DOMAIN t = 1 .. Len(t)
  OBVIOUS
<1>1. PICK r : Extract(t) = r[1] /\ \A p \in 1 .. Len(t) + 1 : r[p] = Extracted(t, r, p)
  BY ExtractIs
<1> DEFINE Good(p) == Outset(t, p) => RightContent(t, r[p], p)
           T == {i \in Nat : Good((Len(t) + 1) - i)}
<1>2. ASSUME NEW i \in 0 .. Len(t), \A j \in 0 .. i - 1 : j \in T PROVE i \in T
  <2> DEFINE p == (Len(t) + 1) - i
  <2>1. p \in 1 .. Len(t) + 1
    BY <1>0
  <2>2. ASSUME NEW d \in p + 1 .. Len(t) + 1, Outset(t, d) PROVE RightContent(t, r[d], d)
    <3> DEFINE j == (Len(t) + 1) - d
    <3>1. j \in 0 .. i - 1 /\ (Len(t) + 1) - j = d
      BY <1>0
    <3>2. Good((Len(t) + 1) - j)
      BY <1>2, <3>1
    <3> HIDE DEF j
    <3> QED BY <2>2, <3>1, <3>2
  <2> HIDE DEF p
  <2>3. Good(p)
    BY <1>1, <2>1, <2>2, ContentTurn
  <2> HIDE DEF Good
  <2> QED BY <2>3 DEF p
<1>3. T \in SUBSET Nat
  OBVIOUS
<1> HIDE DEF Good
<1>4. 0 \in T
  BY <1>0, <1>2
<1>5. ASSUME NEW i \in 1 .. Len(t), EachPlace(T, i - 1) PROVE i \in T
  <2>1. i \in 0 .. Len(t)
    BY <1>0
  <2> HIDE DEF T
  <2> QED BY <1>2, <1>5, <2>1 DEF EachPlace
<1>6. Len(t) \in T
  <2> HIDE DEF T
  <2>1. EachPlace(T, Len(t))
    BY <1>0, <1>3, <1>4, <1>5, DownTo
  <2> QED BY <1>0, <2>1 DEF EachPlace
<1>7. Good(1)
  <2>1. (Len(t) + 1) - Len(t) = 1
    BY <1>0
  <2> QED BY <1>6, <2>1
<1>8. Outset(t, 1)
  <2>1. ClosedBy(t, 1, "k", "/k")
    <3> SUFFICES ASSUME NEW n \in DOMAIN t, n <= 1, t[n] = "k" PROVE FALSE
      BY DEF ClosedBy
    <3>1. n - 1 \in DOMAIN t
      BY DEF Tidy, Tags
    <3> QED BY <1>0, <3>1
  <2> QED BY <2>1 DEF Outset
<1> QED BY <1>1, <1>7, <1>8 DEF Good
-----------------------------------------------------------------------------
(* What terminal_output() makes of an orderly text.                        *)

\* A tag is in a block as its "<" and its ">" are.
LEMMA TagTogether ==
    ASSUME NEW t \in Seq(STRING), Tidy(t), NEW n \in DOMAIN t, t[n] \in Tags,
           NEW tag \in Tags, t[n] # tag, NEW close \in {"/k", "/t", "/f"}
    PROVE  /\ n - 1 \in DOMAIN t /\ t[n - 1] # "n"
           /\ n + 1 \in DOMAIN t /\ t[n + 1] # "n"
           /\ Inside(t, n - 1, tag, close) => Inside(t, n, tag, close)
           /\ Inside(t, n + 1, tag, close) => Inside(t, n, tag, close)
<1>0. Len(t) \in Nat /\ DOMAIN t = 1 .. Len(t) /\ n \in Nat \ {0}
  OBVIOUS
<1>1. /\ n - 1 \in DOMAIN t /\ t[n - 1] = "<" /\ n + 1 \in DOMAIN t /\ t[n + 1] \in {">", "a"}
  BY DEF Tidy
<1>2. \A m \in DOMAIN t : m <= n + 2 /\ t[m] = tag => m < n
  <2> SUFFICES ASSUME NEW m \in DOMAIN t, m <= n + 2, t[m] = tag, ~(m < n) PROVE FALSE
    OBVIOUS
  <2>1. m # n /\ m \in Nat /\ t[m - 1] = "<"
    BY <1>0 DEF Tidy
  <2>2. m = n + 1 \/ m = n + 2
    BY <1>0, <2>1
  <2>3. CASE m = n + 1
    <3>1. m - 1 = n
      BY <1>0, <2>3
    <3>2. t[n] = "<"
      BY <2>1, <3>1
    <3> QED BY <3>2 DEF Tags
  <2>4. CASE m = n + 2
    <3>1. m - 1 = n + 1
      BY <1>0, <2>4
    <3> QED BY <1>1, <2>1, <3>1
  <2> QED BY <2>2, <2>3, <2>4
<1>3. \A q \in DOMAIN t : q = n - 2 => t[q] # close
  <2> SUFFICES ASSUME NEW q \in DOMAIN t, q = n - 2, t[q] = close PROVE FALSE
    OBVIOUS
  <2>1. t[q] \in Tags /\ t[q] # "f"
    BY DEF Tags
  <2>2. t[q + 1] = ">"
    BY <2>1 DEF Tidy
  <2>3. q + 1 = n - 1
    BY <1>0
  <2> QED BY <1>1, <2>2, <2>3
<1>4. ASSUME Inside(t, n - 1, tag, close) PROVE Inside(t, n, tag, close)
  <2>1. PICK m \in DOMAIN t : m <= (n - 1) + 1 /\ t[m] = tag /\ \A q \in m .. (n - 1) - 2 : t[q] # close
    BY <1>4 DEF Inside
  <2>2. m < n /\ m \in Nat \ {0}
    BY <1>0, <1>2, <2>1
  <2>3. \A q \in m .. n - 2 : t[q] # close
    <3> TAKE q \in m .. n - 2
    <3>1. q \in DOMAIN t /\ (q = n - 2 \/ q \in m .. (n - 1) - 2)
      BY <1>0, <2>2
    <3> QED BY <1>3, <2>1, <3>1
  <2>4. m <= n + 1
    BY <1>0, <2>2
  <2> QED BY <2>1, <2>3, <2>4 DEF Inside
<1>5. ASSUME Inside(t, n + 1, tag, close) PROVE Inside(t, n, tag, close)
  <2>1. PICK m \in DOMAIN t : m <= (n + 1) + 1 /\ t[m] = tag /\ \A q \in m .. (n + 1) - 2 : t[q] # close
    BY <1>5 DEF Inside
  <2>2. m < n /\ m \in Nat \ {0} /\ m <= n + 1
    BY <1>0, <1>2, <2>1
  <2>3. \A q \in m .. n - 2 : q \in m .. (n + 1) - 2
    BY <1>0, <2>2
  <2> QED BY <2>1, <2>2, <2>3 DEF Inside
<1> QED BY <1>1, <1>4, <1>5

\* A tag in a block comes behind the tag that opens it.
LEMMA OpenBefore ==
    ASSUME NEW t \in Seq(STRING), Tidy(t), NEW n \in DOMAIN t, t[n] \in Tags,
           NEW tag \in Tags, t[n] # tag, NEW close \in {"/k", "/t", "/f"}, Inside(t, n, tag, close)
    PROVE  \E m \in DOMAIN t : m < n /\ t[m] = tag /\ \A q \in m .. n - 1 : t[q] # close
<1>0. Len(t) \in Nat /\ DOMAIN t = 1 .. Len(t) /\ n \in Nat \ {0}
  OBVIOUS
<1>1. PICK m \in DOMAIN t : m <= n + 1 /\ t[m] = tag /\ \A q \in m .. n - 2 : t[q] # close
  BY DEF Inside
<1>2. m \in Nat \ {0} /\ m # n /\ t[m - 1] = "<" /\ t[n - 1] = "<"
  BY <1>0, <1>1 DEF Tidy
<1>3. m # n + 1
  <2> SUFFICES ASSUME m = n + 1 PROVE FALSE
    OBVIOUS
  <2>1. m - 1 = n
    BY <1>0
  <2>2. t[n] = "<"
    BY <1>2, <2>1
  <2> QED BY <2>2 DEF Tags
<1>4. m < n
  BY <1>0, <1>1, <1>2, <1>3
<1>5. \A q \in m .. n - 1 : t[q] # close
  <2> TAKE q \in m .. n - 1
  <2>1. q = n - 1 \/ q \in m .. n - 2
    BY <1>0, <1>2
  <2> QED BY <1>1, <1>2, <2>1
<1> QED BY <1>1, <1>4, <1>5

ToolTags == {"t", "/t", "f", "/f"}

\* No call and no function begins or ends in a thought.
LEMMA ToolsOutside ==
    ASSUME NEW t \in Seq(STRING), Tidy(t), Nests(t), NEW n \in DOMAIN t, t[n] \in ToolTags
    PROVE  ~Inside(t, n, "k", "/k")
<1>0. Len(t) \in Nat /\ DOMAIN t = 1 .. Len(t) /\ n \in Nat \ {0}
  OBVIOUS
<1> SUFFICES ASSUME Inside(t, n, "k", "/k") PROVE FALSE
  OBVIOUS
<1>1. PICK m \in DOMAIN t : m < n /\ t[m] = "k" /\ \A q \in m .. n - 1 : t[q] # "/k"
  <2>1. t[n] \in Tags /\ "k" \in Tags /\ t[n] # "k"
    BY DEF ToolTags, Tags
  <2> QED BY <2>1, OpenBefore
<1>2. ~Calling(t, m) /\ ~Naming(t, m)
  BY <1>1 DEF Nests
<1>3. ASSUME NEW p \in 1 .. n - 1, t[p] \in {"t", "f"}, m < p PROVE FALSE
  <2>1. p \in DOMAIN t
    BY <1>0
  <2>2. ~Thinking(t, p)
    BY <1>3, <2>1 DEF Nests
  <2>3. m \in 1 .. p - 1 /\ \A q \in m .. p - 1 : q \in m .. n - 1
    BY <1>0, <1>3
  <2> QED BY <1>1, <2>2, <2>3 DEF Thinking, IsOpen
<1>4. ASSUME NEW p \in 1 .. n - 1, NEW close, \A q \in p .. n - 1 : t[q] # close, p < m
      PROVE  p \in 1 .. m - 1 /\ \A q \in p .. m - 1 : t[q] # close
  <2>1. p \in 1 .. m - 1 /\ \A q \in p .. m - 1 : q \in p .. n - 1
    BY <1>0, <1>1, <1>4
  <2> QED BY <1>4, <2>1
<1>5. CASE t[n] \in {"t", "f"}
  <2>1. ~Thinking(t, n)
    BY <1>5 DEF Nests
  <2>2. m \in 1 .. n - 1
    BY <1>0, <1>1
  <2> QED BY <1>1, <2>1, <2>2 DEF Thinking, IsOpen
<1>6. CASE t[n] = "/t"
  <2>1. Calling(t, n)
    BY <1>6 DEF Nests
  <2>2. PICK p \in 1 .. n - 1 : t[p] = "t" /\ \A q \in p .. n - 1 : t[q] # "/t"
    BY <2>1 DEF Calling, IsOpen
  <2>3. p # m /\ ~(m < p)
    BY <1>1, <1>3, <2>2
  <2>4. p < m
    BY <1>0, <2>3
  <2> QED BY <1>2, <1>4, <2>2, <2>4 DEF Calling, IsOpen
<1>7. CASE t[n] = "/f"
  <2>1. Naming(t, n)
    BY <1>7 DEF Nests
  <2>2. PICK p \in 1 .. n - 1 : t[p] = "f" /\ \A q \in p .. n - 1 : t[q] # "/f"
    BY <2>1 DEF Naming, IsOpen
  <2>3. p # m /\ ~(m < p)
    BY <1>1, <1>3, <2>2
  <2>4. p < m
    BY <1>0, <2>3
  <2> QED BY <1>2, <1>4, <2>2, <2>4 DEF Naming, IsOpen
<1> QED BY <1>5, <1>6, <1>7 DEF ToolTags

\* A holds the calls and functions whole, and of the rest what is solid and out
\* of the thoughts.
Thoughtless(t, A) ==
    /\ A \subseteq DOMAIN t
    /\ \A i \in DOMAIN t : t[i] # "n" => (i \in A <=> ~Inside(t, i, "k", "/k"))

LEMMA CallsKept ==
    ASSUME NEW t \in Seq(STRING), Tidy(t), Nests(t), NEW A, Thoughtless(t, A)
    PROVE  /\ \A n \in DOMAIN t : t[n] \in ToolTags => n \in A /\ n - 1 \in A /\ n + 1 \in A
           /\ Whole(t, A, "t", "/t")
           /\ \A i \in A : InsideOf(t, A, i, "t", "/t") <=> Inside(t, i, "t", "/t")
<1>0. Len(t) \in Nat /\ DOMAIN t = 1 .. Len(t) /\ A \subseteq DOMAIN t
  BY DEF Thoughtless
<1>1. ASSUME NEW n \in DOMAIN t, t[n] \in ToolTags PROVE n \in A /\ n - 1 \in A /\ n + 1 \in A
  <2>1. ~Inside(t, n, "k", "/k")
    BY <1>1, ToolsOutside
  <2>2. t[n] \in Tags /\ "k" \in Tags /\ t[n] # "k" /\ t[n] # "n"
    BY <1>1 DEF ToolTags, Tags
  <2>3. /\ n - 1 \in DOMAIN t /\ t[n - 1] # "n" /\ ~Inside(t, n - 1, "k", "/k")
        /\ n + 1 \in DOMAIN t /\ t[n + 1] # "n" /\ ~Inside(t, n + 1, "k", "/k")
    BY <2>1, <2>2, TagTogether
  <2> QED BY <2>1, <2>2, <2>3 DEF Thoughtless
<1>2. Whole(t, A, "t", "/t")
  <2> SUFFICES ASSUME NEW n \in A
               PROVE  /\ t[n] \in {"t", "/t"} => n - 1 \in A /\ t[n - 1] = "<"
                      /\ t[n] = "/t" => n + 1 \in A /\ t[n + 1] = ">"
    BY DEF Whole
  <2>1. n \in DOMAIN t
    BY <1>0
  <2>2. t[n] \in {"t", "/t"} => t[n] \in ToolTags /\ t[n] \in Tags /\ t[n] # "f"
    BY DEF ToolTags, Tags
  <2> QED BY <1>1, <2>1, <2>2 DEF Tidy
<1>3. ASSUME NEW i \in A PROVE InsideOf(t, A, i, "t", "/t") <=> Inside(t, i, "t", "/t")
  <2>0. i \in Nat /\ i <= Len(t)
    BY <1>0
  <2>1. \A n \in DOMAIN t : t[n] \in {"t", "/t"} => n \in A
    BY <1>1 DEF ToolTags
  <2>2. \A n \in DOMAIN t : \A q : q \in n .. i - 2 <=> q \in DOMAIN t /\ n <= q /\ q <= i - 2
    BY <1>0, <2>0
  <2>3. ASSUME NEW n \in DOMAIN t
        PROVE  (\A q \in A : n <= q /\ q <= i - 2 => t[q] # "/t") <=> \A q \in n .. i - 2 : t[q] # "/t"
    BY <1>0, <2>1, <2>2
  <2> QED BY <1>0, <2>1, <2>3 DEF InsideOf, Inside
<1> QED BY <1>1, <1>2, <1>3

\* A holds all but the thoughts and the calls.
Callless(t, A) ==
    /\ A \subseteq DOMAIN t
    /\ \A n \in DOMAIN t : t[n] \in {"f", "/f"} =>
          (\A i \in {n - 1, n, n + 1} : i \in A <=> ~Inside(t, i, "t", "/t"))
    /\ \A i \in A : ~Inside(t, i, "t", "/t")

\* A function is in a call or out of it as a whole.
LEMMA FunctionsWhole ==
    ASSUME NEW t \in Seq(STRING), Tidy(t), NEW A, Callless(t, A)
    PROVE  Whole(t, A, "f", "/f")
<1> SUFFICES ASSUME NEW n \in A
             PROVE  /\ t[n] \in {"f", "/f"} => n - 1 \in A /\ t[n - 1] = "<"
                    /\ t[n] = "/f" => n + 1 \in A /\ t[n + 1] = ">"
  BY DEF Whole
<1>1. n \in DOMAIN t /\ ~Inside(t, n, "t", "/t")
  BY DEF Callless
<1>2. ASSUME t[n] \in {"f", "/f"} PROVE n - 1 \in A /\ n + 1 \in A /\ t[n] \in Tags
  <2>1. t[n] \in Tags /\ "t" \in Tags /\ t[n] # "t"
    BY <1>2 DEF Tags
  <2>2. ~Inside(t, n - 1, "t", "/t") /\ ~Inside(t, n + 1, "t", "/t")
    BY <1>1, <2>1, TagTogether
  <2>3. n - 1 \in A /\ n + 1 \in A
    BY <1>1, <1>2, <2>2 DEF Callless
  <2> QED BY <2>1, <2>3
<1> QED BY <1>1, <1>2 DEF Tidy

\* Out of the calls it makes no difference that the calls are gone.
LEMMA FunctionsKept ==
    ASSUME NEW t \in Seq(STRING), Tidy(t), Nests(t), NEW A, Callless(t, A), NEW i \in A
    PROVE  InsideOf(t, A, i, "f", "/f") <=> Inside(t, i, "f", "/f")
<1>0. Len(t) \in Nat /\ DOMAIN t = 1 .. Len(t) /\ A \subseteq DOMAIN t /\ i \in Nat /\ i <= Len(t)
  BY DEF Callless
<1>1. \A n \in DOMAIN t : t[n] \in {"f", "/f"} => (n \in A <=> ~Inside(t, n, "t", "/t"))
  BY DEF Callless
<1>2. ASSUME NEW n \in DOMAIN t, t[n] \in {"f", "/f"}, Inside(t, n, "t", "/t")
      PROVE  \E m \in DOMAIN t : m < n /\ t[m] = "t" /\ \A q \in m .. n - 1 : t[q] # "/t"
  <2>1. t[n] \in Tags /\ "t" \in Tags /\ t[n] # "t"
    BY <1>2 DEF Tags
  <2> QED BY <1>2, <2>1, OpenBefore
<1>3. ASSUME InsideOf(t, A, i, "f", "/f") PROVE Inside(t, i, "f", "/f")
  <2>1. PICK n \in A : n <= i + 1 /\ t[n] = "f" /\ \A q \in A : n <= q /\ q <= i - 2 => t[q] # "/f"
    BY <1>3 DEF InsideOf
  <2>2. n \in DOMAIN t /\ n \in Nat \ {0} /\ ~Inside(t, n, "t", "/t")
    BY <1>0, <1>1, <2>1
  <2> DEFINE S == {q \in n .. i - 2 : t[q] = "/f"}
  <2>3. SUFFICES ASSUME S # {} PROVE FALSE
    BY <2>1, <2>2 DEF Inside
  <2>4. PICK q \in S : \A r \in S : q <= r
    <3>1. S \in SUBSET Nat
      BY <1>0, <2>2
    <3> HIDE DEF S
    <3> QED BY <2>3, <3>1, LeastExists
  <2>5. q \in DOMAIN t /\ n <= q /\ q <= i - 2 /\ t[q] = "/f" /\ q \in Nat
    BY <1>0, <2>2
  <2>6. Inside(t, q, "t", "/t")
    BY <1>1, <2>1, <2>5
  <2>7. PICK m \in DOMAIN t : m < q /\ t[m] = "t" /\ \A r \in m .. q - 1 : t[r] # "/t"
    BY <1>2, <2>5, <2>6
  <2>8. m \in Nat \ {0} /\ m # n
    BY <1>0, <2>1, <2>7
  <2>9. CASE m < n
    <3>1. \A r \in m .. n - 2 : r \in m .. q - 1
      BY <2>2, <2>5, <2>8
    <3>2. m <= n + 1
      BY <2>2, <2>8, <2>9
    <3> QED BY <2>2, <2>7, <3>1, <3>2 DEF Inside
  <2>10. CASE n < m
    <3>1. ~Naming(t, m)
      BY <2>7 DEF Nests
    <3>2. n \in 1 .. m - 1
      BY <2>2, <2>8, <2>10
    <3>3. PICK r \in n .. m - 1 : t[r] = "/f"
      BY <2>1, <3>1, <3>2 DEF Naming, IsOpen
    <3>4. r \in n .. i - 2 /\ ~(q <= r)
      <4>1. m < q /\ q <= i - 2 /\ n <= r /\ r <= m - 1 /\ r \in Nat
        BY <2>2, <2>5, <2>7, <2>8
      <4> QED BY <1>0, <2>2, <2>5, <2>8, <4>1
    <3> QED BY <2>4, <3>3, <3>4
  <2> QED BY <2>2, <2>8, <2>9, <2>10
<1>4. ASSUME Inside(t, i, "f", "/f") PROVE InsideOf(t, A, i, "f", "/f")
  <2>1. PICK n \in DOMAIN t : n <= i + 1 /\ t[n] = "f" /\ \A q \in n .. i - 2 : t[q] # "/f"
    BY <1>4 DEF Inside
  <2>2. n \in Nat \ {0}
    BY <1>0
  <2>3. n \in A
    <3> SUFFICES ASSUME Inside(t, n, "t", "/t") PROVE FALSE
      BY <1>1, <2>1
    <3>1. PICK m \in DOMAIN t : m < n /\ t[m] = "t" /\ \A q \in m .. n - 1 : t[q] # "/t"
      BY <1>2, <2>1
    <3>2. ~Inside(t, i, "t", "/t") /\ m <= i + 1 /\ m \in Nat \ {0}
      BY <1>0, <2>1, <2>2, <3>1 DEF Callless
    <3>3. PICK q \in m .. i - 2 : t[q] = "/t"
      BY <3>1, <3>2 DEF Inside
    <3>4. q \in DOMAIN t /\ n \in 1 .. q - 1 /\ q \in Nat
      <4>1. q \notin m .. n - 1 /\ q # n
        BY <2>1, <3>1, <3>3
      <4> QED BY <1>0, <2>2, <3>2, <4>1
    <3>5. ~Naming(t, q)
      BY <3>3, <3>4 DEF Nests
    <3>6. PICK r \in n .. q - 1 : t[r] = "/f"
      BY <2>1, <3>4, <3>5 DEF Naming, IsOpen
    <3>7. r \in n .. i - 2
      BY <1>0, <2>2, <3>2, <3>4
    <3> QED BY <2>1, <3>6, <3>7
  <2>4. \A q \in A : n <= q /\ q <= i - 2 => t[q] # "/f"
    <3>1. \A q \in A : n <= q /\ q <= i - 2 => q \in n .. i - 2
      BY <1>0, <2>2
    <3> QED BY <2>1, <3>1
  <2> QED BY <2>1, <2>3, <2>4 DEF InsideOf
<1> QED BY <1>3, <1>4

LEMMA OutputIs ==
    ASSUME NEW t \in Seq(STRING), Orderly(t)
    PROVE  /\ Increasing(TerminalOutput(t))
           /\ SolidIn(t, TerminalOutput(t)) = Visible(t, Len(t) + 1)
<1> DEFINE s == Extract(t).content
           A == Positions(s)
           x == Erase(t, s, <<"<", "t">>, <<"<", "/t", ">">>)
           B == Positions(x)
           y == Erase(t, x, <<"<", "f">>, <<"<", "/f", ">">>)
<1>0. Len(t) \in Nat /\ DOMAIN t = 1 .. Len(t) /\ Tidy(t) /\ Nests(t)
  BY OrderlyIs
<1>1. TerminalOutput(t) = y
  BY DEF TerminalOutput, OpenCall, CloseCall, OpenFunction, CloseFunction
<1>2. s \in Seq(Nat) /\ Increasing(s) /\ A \subseteq 1 .. Len(t) /\ SolidIn(t, s) = Unthought(t, 1)
  <2>1. RightContent(t, Extract(t), 1)
    BY <1>0, OrderlyContent
  <2>2. Placed(t, s, 1) /\ SolidIn(t, s) = Unthought(t, 1)
    BY <2>1 DEF RightContent
  <2> HIDE DEF s
  <2>3. s \in Seq(Nat) /\ Increasing(s) /\ \A i \in DOMAIN s : s[i] \in 1 .. Len(t)
    BY <2>2 DEF Placed
  <2> QED BY <2>2, <2>3 DEF Positions
<1> HIDE DEF s
<1>3. Thoughtless(t, A)
  <2>1. \A i \in DOMAIN t : t[i] # "n" => (i \in A <=> ~Inside(t, i, "k", "/k"))
    <3> HIDE DEF A
    <3>1. A \ Breaks(t) = Unthought(t, 1)
      BY <1>2 DEF SolidIn, A
    <3> QED BY <1>0, <3>1 DEF Breaks, Unthought
  <2> QED BY <1>0, <1>2, <2>1 DEF Thoughtless
<1>4. /\ \A n \in DOMAIN t : t[n] \in ToolTags => n \in A /\ n - 1 \in A /\ n + 1 \in A
      /\ Whole(t, A, "t", "/t")
      /\ \A i \in A : InsideOf(t, A, i, "t", "/t") <=> Inside(t, i, "t", "/t")
  <2> HIDE DEF A
  <2> QED BY <1>0, <1>3, CallsKept
<1>5. x \in Seq(Nat) /\ Increasing(x) /\ B = Outer(t, A, "t", "/t")
  <2>1. Brackets("t", "/t")
    BY DEF Brackets
  <2> DEFINE o == "t"
             c == "/t"
  <2>2. Brackets(o, c) /\ Whole(t, Positions(s), o, c) /\ x = Erase(t, s, <<"<", o>>, <<"<", c, ">">>)
    BY <1>4, <2>1
  <2> HIDE DEF x, o, c
  <2>3. x \in Seq(Nat) /\ Increasing(x) /\ Positions(x) = Outer(t, Positions(s), o, c)
    BY <1>2, <2>2, EraseIs
  <2> QED BY <2>3 DEF o, c
<1> HIDE DEF A, x
<1>6. \A i : i \in B <=> i \in A /\ ~Inside(t, i, "t", "/t")
  BY <1>4, <1>5 DEF Outer
<1> HIDE DEF B
<1>7. Callless(t, B)
  <2>1. \A n \in DOMAIN t : t[n] \in {"f", "/f"} => n \in A /\ n - 1 \in A /\ n + 1 \in A
    BY <1>4 DEF ToolTags
  <2> QED BY <1>3, <1>6, <2>1 DEF Callless, Thoughtless
<1>8. Whole(t, B, "f", "/f") /\ \A i \in B : InsideOf(t, B, i, "f", "/f") <=> Inside(t, i, "f", "/f")
  BY <1>0, <1>7, FunctionsWhole, FunctionsKept
<1>9. y \in Seq(Nat) /\ Increasing(y) /\ Positions(y) = Outer(t, B, "f", "/f")
  <2>1. Brackets("f", "/f")
    BY DEF Brackets
  <2> DEFINE o == "f"
             c == "/f"
  <2>2. Brackets(o, c) /\ Whole(t, Positions(x), o, c) /\ y = Erase(t, x, <<"<", o>>, <<"<", c, ">">>)
    BY <1>8, <2>1 DEF B
  <2>3. Positions(x) \subseteq 1 .. Len(t)
    BY <1>0, <1>7 DEF Callless, B
  <2> HIDE DEF y, o, c
  <2>4. y \in Seq(Nat) /\ Increasing(y) /\ Positions(y) = Outer(t, Positions(x), o, c)
    <3>1. x \in Seq(Nat) /\ Increasing(x)
      BY <1>5
    <3> QED BY <2>2, <2>3, <3>1, EraseIs
  <2> QED BY <2>4 DEF o, c, B
<1> HIDE DEF y
<1>10. SolidIn(t, y) = Visible(t, Len(t) + 1)
  <2>1. 1 .. (Len(t) + 1) - 1 = DOMAIN t
    BY <1>0
  <2>2. \A i : i \in Positions(y) <=> i \in A /\ ~Inside(t, i, "t", "/t") /\ ~Inside(t, i, "f", "/f")
    BY <1>6, <1>8, <1>9 DEF Outer
  <2>3. \A i : i \in A => i \in DOMAIN t
    BY <1>3 DEF Thoughtless
  <2>4. \A i \in DOMAIN t : i \notin Breaks(t) => (i \in A <=> ~Inside(t, i, "k", "/k"))
    BY <1>3 DEF Thoughtless, Breaks
  <2> QED BY <2>1, <2>2, <2>3, <2>4 DEF SolidIn, Visible, Plain
<1> QED BY <1>1, <1>9, <1>10

-----------------------------------------------------------------------------
\* What the terminal prints of an orderly text while it is generated is what
\* terminal_output() makes of it in the end, wherever the tokens cut it, as
\* long as </tool_call> ends the token it comes in.
THEOREM TerminalMatchesCorrect == ASSUME CallsEndTokens PROVE Spec => []TerminalMatchesOutput
<1>1. Init => TerminalInv
  BY TerminalInvInit
<1>2. TerminalInv /\ [Next]_vars => TerminalInv'
  BY TerminalInvStep
<1>3. TerminalInv => TerminalMatchesOutput
  <2> SUFFICES ASSUME TerminalInv, tstate = "done", Orderly(text)
               PROVE  Matches(shown, TerminalOutput(text))
    BY DEF TerminalMatchesOutput
  <2>1. text \in Seq(STRING) /\ Len(text) \in Nat
    BY DEF TerminalInv
  <2>2. Becomes(text)
    BY <2>1 DEF Becomes
  <2>3. ShowsWell(text)
    BY <2>1, <2>2 DEF TerminalInv
  <2>4. Increasing(shown) /\ SolidIn(text, shown) = Visible(text, Len(text) + 1)
    BY <2>3 DEF ShowsWell, SentBelow, End
  <2>5. SolidIn(text, TerminalOutput(text)) = Visible(text, Len(text) + 1)
    BY <2>1, OutputIs
  <2>6. \A z : Solid(z) = SolidIn(text, z)
    BY DEF Solid, SolidIn, Positions, Breaks
  <2> QED BY <2>4, <2>5, <2>6 DEF Matches
<1> QED BY <1>1, <1>2, <1>3, PTL DEF Spec

=============================================================================
