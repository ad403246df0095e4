---------------------------- MODULE LegacyProofs ----------------------------
(***************************************************************************)
(* The session cache of the older engine, for every set of tokens and      *)
(* prompts, any layers with any matrix sizes, any environments that the    *)
(* start-up code accepts, and any limits of the cache.                     *)
(*                                                                         *)
(* One inductive invariant relates the cache (checkpoints, order of use,   *)
(* radix tree, bytes) to itself, the call in progress to the cache and the *)
(* device, and the packed weights of the layers to each other; the nine    *)
(* safety properties of the runs are read off it.                          *)
(***************************************************************************)
EXTENDS LegacySession, SequenceTheorems, WellFoundedInduction, TLAPS

-----------------------------------------------------------------------------
(* The radix tree finds, for every alphabet, any distinct prefixes in any  *)
(* order of insertion, and every prompt, the longest stored proper prefix  *)
(* and the longest agreement with any.  It is kept such that a node that   *)
(* goes on from another is reached through the child for its next token: a *)
(* descent passes every stored prefix of the prompt.                       *)

\* A nonempty set of naturals has a least element.
LEMMA LeastExists ==
    ASSUME NEW S \in SUBSET Nat, S # {}
    PROVE  \E x \in S : \A y \in S : x <= y
<1> DEFINE R == OpToRel(<, Nat)
<1> HIDE DEF R
<1>1. IsWellFoundedOn(R, Nat)
      BY NatLessThanWellFounded DEF R
<1>2. PICK x \in S : \A y \in S : <<y, x>> \notin R
      BY <1>1, WFMin
<1>3. \A y \in S : ~(y < x)
      BY <1>2 DEF OpToRel, R
<1> QED BY <1>3

\* The least and the largest of a set, whichever CHOOSE takes.
LEMMA MinIs ==
    ASSUME NEW S \in SUBSET Nat, S # {}
    PROVE  Min(S) \in S /\ \A y \in S : Min(S) <= y
BY LeastExists DEF Min

\* The largest element, whichever CHOOSE takes.
LEMMA MaxIs ==
    ASSUME NEW S \in SUBSET Nat, NEW m \in S, \A y \in S : y <= m
    PROVE  Max(S) = m
<1>1. \A x \in S : (\A y \in S : x >= y) <=> x = m
  OBVIOUS
<1>2. QED
  BY <1>1 DEF Max

\* What holds at the beginning and goes on from one turn to the next holds at
\* every turn.
LEMMA EachTurn ==
    ASSUME NEW k \in Nat, NEW T \in SUBSET Nat, 0 \in T,
           \A n \in 1 .. k : n - 1 \in T => n \in T
    PROVE  0 .. k \subseteq T
<1> SUFFICES ASSUME (0 .. k) \ T # {} PROVE FALSE
  OBVIOUS
<1>1. PICK x \in (0 .. k) \ T : \A y \in (0 .. k) \ T : x <= y
  <2>1. (0 .. k) \ T \in SUBSET Nat
    OBVIOUS
  <2>2. QED
    BY <2>1, LeastExists
<1>2. x \in 1 .. k /\ x - 1 \in 0 .. k
  BY <1>1
<1>3. QED
  BY <1>1, <1>2

-----------------------------------------------------------------------------
\* Sequences from the front.

\* p is a prefix of q.
Under(p, q) == Len(p) <= Len(q) /\ \A i \in 1 .. Len(p) : p[i] = q[i]

\* As the module for sequences has it.
LEMMA UnderIsPrefix ==
    ASSUME NEW S, NEW p \in Seq(S), NEW q \in Seq(S)
    PROVE  IsPrefix(p, q) <=> Under(p, q)
<1>1. CASE Len(p) > Len(q)
  BY <1>1 DEF IsPrefix, Under
<1>2. CASE Len(p) <= Len(q)
  <2>1. SubSeq(p, 1, Len(p)) = p
    BY SubSeqFull
  <2>2. SubSeq(q, 1, Len(p)) \in Seq(S) /\ Len(SubSeq(q, 1, Len(p))) = Len(p)
        /\ \A i \in 1 .. Len(p) : SubSeq(q, 1, Len(p))[i] = q[i]
    BY <1>2, SubSeqProperties
  <2>3. p = SubSeq(q, 1, Len(p)) <=> \A i \in 1 .. Len(p) : p[i] = q[i]
    BY <2>2, SeqEqual
  <2>4. QED
    BY <1>2, <2>1, <2>3 DEF IsPrefix, Under
<1>3. QED
  BY <1>1, <1>2

\* Every front of a sequence is one, of the length it is cut to.
LEMMA UnderIsSubSeq ==
    ASSUME NEW S, NEW q \in Seq(S), NEW n \in 0 .. Len(q)
    PROVE  /\ SubSeq(q, 1, n) \in Seq(S) /\ Len(SubSeq(q, 1, n)) = n
           /\ Under(SubSeq(q, 1, n), q)
           /\ \A i \in 1 .. n : SubSeq(q, 1, n)[i] = q[i]
BY SubSeqProperties DEF Under

\* Prefixes of one length are the same.
LEMMA UnderEqual ==
    ASSUME NEW S, NEW p \in Seq(S), NEW q \in Seq(S), Under(p, q), Len(q) <= Len(p)
    PROVE  p = q
BY SeqEqual DEF Under

\* What two sequences share.
LEMMA SharedIs ==
    ASSUME NEW S, NEW p \in Seq(S), NEW q \in Seq(S)
    PROVE  /\ Shared(p, q) \in 0 .. Len(p) /\ Shared(p, q) <= Len(q)
           /\ \A i \in 1 .. Shared(p, q) : p[i] = q[i]
           /\ Shared(p, q) < Len(p) /\ Shared(p, q) < Len(q) =>
                  p[Shared(p, q) + 1] # q[Shared(p, q) + 1]
<1> DEFINE differ == {i \in DOMAIN p : i \notin DOMAIN q \/ p[i] # q[i]}
<1>1. DOMAIN p = 1 .. Len(p) /\ DOMAIN q = 1 .. Len(q) /\ Len(p) \in Nat /\ Len(q) \in Nat
  OBVIOUS
<1>2. CASE differ = {}
  <2>1. Shared(p, q) = Len(p)
    BY <1>2 DEF Shared
  <2>2. \A i \in 1 .. Len(p) : i \in 1 .. Len(q) /\ p[i] = q[i]
    BY <1>1, <1>2
  <2>3. Len(p) <= Len(q)
    BY <1>1, <2>2
  <2>4. QED
    BY <1>1, <2>1, <2>2, <2>3
<1>3. CASE differ # {}
  <2>1. differ \in SUBSET Nat
    BY <1>1
  <2>2. Shared(p, q) = Min(differ) - 1
    BY <1>3 DEF Shared
  <2>3. Min(differ) \in differ /\ \A y \in differ : Min(differ) <= y
    <3> HIDE DEF differ
    <3> QED BY <1>3, <2>1, MinIs
  <2> DEFINE m == Min(differ)
  <2>4. m \in 1 .. Len(p) /\ (m \notin 1 .. Len(q) \/ p[m] # q[m])
    BY <1>1, <2>3
  <2>5. \A i \in 1 .. m - 1 : i \in 1 .. Len(q) /\ p[i] = q[i]
    <3> TAKE i \in 1 .. m - 1
    <3>1. i \notin differ
      <4>1. m \in Nat /\ i < m
        BY <2>4
      <4> HIDE DEF m, differ
      <4>2. QED
        BY <2>3, <4>1 DEF m
    <3>2. i \in 1 .. Len(p)
      BY <1>1, <2>4
    <3>3. QED
      BY <1>1, <3>1, <3>2
  <2> HIDE DEF m, differ
  <2>6. m - 1 <= Len(q)
    <3>1. CASE m = 1
      BY <3>1, <1>1
    <3>2. CASE m > 1
      BY <3>2, <1>1, <2>4, <2>5
    <3>3. QED
      BY <2>4, <3>1, <3>2, <1>1
  <2>7. QED
    BY <1>1, <2>2, <2>4, <2>5, <2>6 DEF m
<1>4. QED
  BY <1>2, <1>3

\* A number of shared tokens that cannot be more is Shared.
LEMMA SharedUnique ==
    ASSUME NEW S, NEW p \in Seq(S), NEW q \in Seq(S), NEW n \in Nat,
           n <= Len(p), n <= Len(q), \A i \in 1 .. n : p[i] = q[i],
           n < Len(p) /\ n < Len(q) => p[n + 1] # q[n + 1]
    PROVE  Shared(p, q) = n
<1>1. Shared(p, q) \in Nat /\ Shared(p, q) <= Len(p) /\ Shared(p, q) <= Len(q)
      /\ (\A i \in 1 .. Shared(p, q) : p[i] = q[i])
      /\ (Shared(p, q) < Len(p) /\ Shared(p, q) < Len(q) =>
              p[Shared(p, q) + 1] # q[Shared(p, q) + 1])
      /\ Len(p) \in Nat /\ Len(q) \in Nat
  BY SharedIs
<1>2. ~(Shared(p, q) < n)
  <2> SUFFICES ASSUME Shared(p, q) < n PROVE FALSE
    OBVIOUS
  <2>1. Shared(p, q) + 1 \in 1 .. n
    BY <1>1
  <2>2. QED
    BY <1>1, <2>1
<1>3. ~(n < Shared(p, q))
  <2> SUFFICES ASSUME n < Shared(p, q) PROVE FALSE
    OBVIOUS
  <2>1. n + 1 \in 1 .. Shared(p, q)
    BY <1>1
  <2>2. QED
    BY <1>1, <2>1
<1>4. QED
  BY <1>1, <1>2, <1>3

\* The turns of a descent.
LEMMA DescentTurns ==
    ASSUME NEW S, NEW T, NEW s \in Seq(S)
    PROVE  \E after :
               /\ after[0] = [node |-> <<>>, best |-> 0]
               /\ \A n \in 1 .. Len(s) : after[n] = Turn(T, after[n - 1], s)
               /\ Descent(T, s) = after[Len(s)]
<1> DEFINE start == [node |-> <<>>, best |-> 0]
           P == {n \in Nat : \E f : f = [i \in 0 .. n |->
                     IF i = 0 THEN start ELSE Turn(T, f[i - 1], s)]}
<1> HIDE DEF start
<1>1. 0 \in P
  <2> DEFINE f == [i \in 0 .. 0 |-> start]
  <2>1. f = [i \in 0 .. 0 |-> IF i = 0 THEN start ELSE Turn(T, f[i - 1], s)]
    OBVIOUS
  <2>2. QED
    BY <2>1
<1>2. \A n \in 1 .. Len(s) : n - 1 \in P => n \in P
  <2> TAKE n \in 1 .. Len(s)
  <2> HAVE n - 1 \in P
  <2>1. PICK f : f = [i \in 0 .. n - 1 |-> IF i = 0 THEN start ELSE Turn(T, f[i - 1], s)]
    OBVIOUS
  <2> DEFINE g == [i \in 0 .. n |-> IF i = n THEN Turn(T, f[n - 1], s) ELSE f[i]]
  <2>2. g = [i \in 0 .. n |-> IF i = 0 THEN start ELSE Turn(T, g[i - 1], s)]
    <3>1. \A i \in 0 .. n : g[i] = IF i = 0 THEN start ELSE Turn(T, g[i - 1], s)
      <4> TAKE i \in 0 .. n
      <4>1. CASE i = n
        <5>1. g[n] = Turn(T, f[n - 1], s) /\ g[n - 1] = f[n - 1]
          OBVIOUS
        <5>2. QED
          BY <4>1, <5>1
      <4>2. CASE i # n /\ i # 0
        <5>1. g[i] = f[i] /\ g[i - 1] = f[i - 1] /\ f[i] = Turn(T, f[i - 1], s)
          BY <4>2, <2>1
        <5>2. QED
          BY <4>2, <5>1
      <4>3. CASE i # n /\ i = 0
        BY <4>3, <2>1
      <4>4. QED
        BY <4>1, <4>2, <4>3
    <3>2. QED
      BY <3>1
  <2>3. \E h : h = [i \in 0 .. n |-> IF i = 0 THEN start ELSE Turn(T, h[i - 1], s)]
    <3> HIDE DEF g
    <3> QED BY <2>2
  <2>4. n \in Nat
    OBVIOUS
  <2> QED BY <2>3, <2>4
<1>3. Len(s) \in P
  <2> HIDE DEF P
  <2>1. P \in SUBSET Nat /\ Len(s) \in Nat
    BY DEF P
  <2>2. 0 .. Len(s) \subseteq P
    BY <1>1, <1>2, <2>1, EachTurn
  <2>3. QED
    BY <2>1, <2>2
<1> DEFINE after == CHOOSE f : f = [i \in 0 .. Len(s) |->
                        IF i = 0 THEN start ELSE Turn(T, f[i - 1], s)]
<1>4. after = [i \in 0 .. Len(s) |-> IF i = 0 THEN start ELSE Turn(T, after[i - 1], s)]
  BY <1>3
<1>5. Descent(T, s) = after[Len(s)]
  BY DEF Descent, start
<1> HIDE DEF after
<1>6. after[0] = start
  BY <1>4
<1>7. \A n \in 1 .. Len(s) : after[n] = Turn(T, after[n - 1], s)
  BY <1>4
<1>8. QED
  BY <1>5, <1>6, <1>7 DEF start

-----------------------------------------------------------------------------
\* A child goes on from its parent with the token it is found by.
Children(T) ==
    \A p \in DOMAIN T : \A t \in DOMAIN T[p].children :
        LET q == T[p].children[t]
        IN  q \in DOMAIN T /\ Len(p) < Len(q) /\ Under(p, q) /\ q[Len(p) + 1] = t

\* Whatever goes on from a node is reached through the child for its next token.
Radix(T) ==
    \A p \in DOMAIN T, q \in DOMAIN T :
        Len(p) < Len(q) /\ Under(p, q) =>
            /\ q[Len(p) + 1] \in DOMAIN T[p].children
            /\ Under(T[p].children[q[Len(p) + 1]], q)

\* A node other than the root is there for some checkpoint.
Purposeful(T) ==
    /\ T[<<>>].checkpoint = 0
    /\ \A p \in DOMAIN T \ {<<>>} : \E q \in DOMAIN T : Under(p, q) /\ T[q].checkpoint # 0

\* A radix tree over tokens of S.
Tree(T, S) ==
    /\ DOMAIN T \subseteq Seq(S) /\ <<>> \in DOMAIN T
    /\ Children(T) /\ Radix(T) /\ Purposeful(T)

\* Prefixes of prefixes.
LEMMA UnderTransitive ==
    ASSUME NEW S, NEW p \in Seq(S), NEW q \in Seq(S), NEW r \in Seq(S),
           Under(p, q), Under(q, r)
    PROVE  Under(p, r)
BY DEF Under

\* Of two prefixes of one sequence the shorter is a prefix of the longer.
LEMMA UnderBoth ==
    ASSUME NEW S, NEW p \in Seq(S), NEW q \in Seq(S), NEW r \in Seq(S),
           Under(p, r), Under(q, r), Len(p) <= Len(q)
    PROVE  Under(p, q)
BY DEF Under

\* What is under some tokens and beyond a node on the way to them is beyond the
\* child there.
LEMMA OnTheWay ==
    ASSUME NEW S, NEW T, Tree(T, S), NEW s \in Seq(S), NEW p \in DOMAIN T, NEW q \in DOMAIN T,
           Under(p, s), Under(q, s), Len(p) < Len(q)
    PROVE  /\ GoesOn(T, p, s)
           /\ Under(Child(T, p, s), q)
<1>1. p \in Seq(S) /\ q \in Seq(S)
  BY DEF Tree
<1>2. Under(p, q) /\ Len(p) \in Nat /\ Len(q) \in Nat /\ Len(s) \in Nat
  BY <1>1, UnderBoth
<1>3. q[Len(p) + 1] = s[Len(p) + 1] /\ Len(p) < Len(s)
  BY <1>2 DEF Under
<1>4. HasChild(T, p, s) /\ Under(Child(T, p, s), q)
  BY <1>2, <1>3 DEF Tree, Radix, HasChild, Child
<1>5. Child(T, p, s) \in Seq(S)
  BY <1>4 DEF Tree, Children, HasChild, Child
<1>6. Under(Child(T, p, s), s)
  BY <1>1, <1>4, <1>5, UnderTransitive
<1>7. IsPrefix(Child(T, p, s), s)
  BY <1>5, <1>6, UnderIsPrefix
<1>8. QED
  BY <1>4, <1>7 DEF GoesOn

\* The child for the next token of a sequence.
LEMMA ChildIs ==
    ASSUME NEW S, NEW T, Tree(T, S), NEW s \in Seq(S), NEW p \in DOMAIN T, Under(p, s),
           HasChild(T, p, s)
    PROVE  LET c == Child(T, p, s)
           IN  /\ c \in DOMAIN T /\ c \in Seq(S) /\ Under(p, c) /\ Len(p) < Len(c)
               /\ c[Len(p) + 1] = s[Len(p) + 1]
               /\ GoesOn(T, p, s) <=> Under(c, s)
<1>1. Child(T, p, s) \in DOMAIN T /\ Child(T, p, s) \in Seq(S)
  BY DEF Tree, Children, HasChild, Child
<1>2. GoesOn(T, p, s) <=> Under(Child(T, p, s), s)
  BY <1>1, UnderIsPrefix DEF GoesOn
<1>3. QED
  BY <1>1, <1>2 DEF Tree, Children, HasChild, Child

\* A node whose checkpoint may be taken for some tokens.
Candidate(T, s, p) ==
    p \in DOMAIN T /\ Under(p, s) /\ Len(p) < Len(s) /\ T[p].checkpoint # 0

\* What a descent knows after n turns.
OnWay(T, s, at, n) ==
    /\ at.node \in DOMAIN T /\ Under(at.node, s)
    /\ Len(at.node) >= n \/ ~GoesOn(T, at.node, s)
    /\ \A p : Candidate(T, s, p) /\ Len(p) <= Len(at.node) => at.best # 0
    /\ at.best # 0 =>
           \E b : /\ Candidate(T, s, b) /\ at.best = T[b].checkpoint
                  /\ \A p : Candidate(T, s, p) /\ Len(p) <= Len(at.node) => Len(p) <= Len(b)

\* One more turn of a descent.
LEMMA TurnOnWay ==
    ASSUME NEW S, NEW T, Tree(T, S), NEW s \in Seq(S), NEW at, NEW n \in Nat, OnWay(T, s, at, n)
    PROVE  OnWay(T, s, Turn(T, at, s), n + 1)
<1>1. at.node \in DOMAIN T /\ Under(at.node, s) /\ at.node \in Seq(S)
  BY DEF OnWay, Tree
<1>2. CASE ~GoesOn(T, at.node, s)
  BY <1>2 DEF Turn, OnWay
<1>3. CASE GoesOn(T, at.node, s)
  <2> DEFINE c == Child(T, at.node, s)
             marked == T[c].checkpoint # 0 /\ Len(c) < Len(s)
             best == IF marked THEN T[c].checkpoint ELSE at.best
  <2>1. Turn(T, at, s) = [node |-> c, best |-> best]
    BY <1>3 DEF Turn
  <2>2. /\ c \in DOMAIN T /\ c \in Seq(S) /\ Under(c, s) /\ Len(at.node) < Len(c)
        /\ Len(c) \in Nat /\ Len(at.node) \in Nat
    BY <1>1, <1>3, ChildIs DEF GoesOn
  <2>3. Len(c) >= n + 1
    BY <1>3, <2>2 DEF OnWay
  <2>4. ASSUME NEW p, Candidate(T, s, p), Len(p) <= Len(c), Len(p) > Len(at.node)
        PROVE  p = c
    <3>1. p \in DOMAIN T /\ p \in Seq(S) /\ Under(p, s)
      BY <2>4 DEF Candidate, Tree
    <3>2. Under(c, p)
      BY <1>1, <2>4, <3>1, OnTheWay
    <3>3. QED
      BY <2>2, <2>4, <3>1, <3>2, UnderEqual
  <2>5. marked <=> Candidate(T, s, c)
    BY <2>2 DEF Candidate
  <2>6. \A p : Candidate(T, s, p) => Len(p) \in Nat
    BY DEF Candidate, Tree
  <2> HIDE DEF c
  <2>7. ASSUME NEW p, Candidate(T, s, p), Len(p) <= Len(c)
        PROVE  best # 0
    <3>1. CASE p = c
      BY <3>1, <2>5, <2>7
    <3>2. CASE p # c
      BY <2>2, <2>4, <2>6, <2>7, <3>2 DEF OnWay
    <3>3. QED
      BY <3>1, <3>2
  <2>8. ASSUME best # 0
        PROVE  \E b : /\ Candidate(T, s, b) /\ best = T[b].checkpoint
                      /\ \A p : Candidate(T, s, p) /\ Len(p) <= Len(c) => Len(p) <= Len(b)
    <3>1. CASE marked
      BY <2>5, <3>1
    <3>2. CASE ~marked
      <4>1. at.best # 0 /\ best = at.best
        BY <2>8, <3>2
      <4>2. PICK b : /\ Candidate(T, s, b) /\ at.best = T[b].checkpoint
                     /\ \A p : Candidate(T, s, p) /\ Len(p) <= Len(at.node) => Len(p) <= Len(b)
        BY <4>1 DEF OnWay
      <4>3. \A p : Candidate(T, s, p) /\ Len(p) <= Len(c) => Len(p) <= Len(at.node)
        BY <2>2, <2>4, <2>5, <2>6, <3>2
      <4>4. QED
        BY <4>1, <4>2, <4>3
    <3>3. QED
      BY <3>1, <3>2
  <2> HIDE DEF best
  <2>9. QED
    BY <2>1, <2>2, <2>3, <2>7, <2>8 DEF OnWay
<1>4. QED
  BY <1>2, <1>3

\* A descent ends at the last node on the way to the tokens, with the checkpoint
\* of the longest candidate.
LEMMA DescentIs ==
    ASSUME NEW S, NEW T, Tree(T, S), NEW s \in Seq(S)
    PROVE  LET d == Descent(T, s)
           IN  /\ d.node \in DOMAIN T /\ Under(d.node, s) /\ ~GoesOn(T, d.node, s)
               /\ (\E p : Candidate(T, s, p)) => d.best # 0
               /\ d.best # 0 =>
                      \E b : /\ Candidate(T, s, b) /\ d.best = T[b].checkpoint
                             /\ \A p : Candidate(T, s, p) => Len(p) <= Len(b)
<1>1. PICK after : /\ after[0] = [node |-> <<>>, best |-> 0]
                   /\ \A n \in 1 .. Len(s) : after[n] = Turn(T, after[n - 1], s)
                   /\ Descent(T, s) = after[Len(s)]
  BY DescentTurns
<1> DEFINE P == {n \in Nat : OnWay(T, s, after[n], n)}
<1>2. 0 \in P
  <2>1. <<>> \in DOMAIN T /\ Under(<<>>, s) /\ Len(<<>>) = 0
    BY DEF Tree, Under
  <2>2. \A p : Candidate(T, s, p) => p # <<>> /\ p \in Seq(S)
    BY DEF Candidate, Tree, Purposeful
  <2>3. \A p : Candidate(T, s, p) => ~(Len(p) <= 0)
    BY <2>2
  <2>4. QED
    BY <1>1, <2>1, <2>3 DEF OnWay
<1>3. \A n \in 1 .. Len(s) : n - 1 \in P => n \in P
  <2> SUFFICES ASSUME NEW n \in 1 .. Len(s), n - 1 \in P PROVE n \in P
    OBVIOUS
  <2>1. OnWay(T, s, Turn(T, after[n - 1], s), (n - 1) + 1)
    BY TurnOnWay
  <2>2. (n - 1) + 1 = n /\ n \in Nat
    OBVIOUS
  <2>3. QED
    BY <1>1, <2>1, <2>2
<1>4. Len(s) \in Nat /\ P \in SUBSET Nat
  OBVIOUS
<1>5. OnWay(T, s, Descent(T, s), Len(s))
  <2>1. 0 .. Len(s) \subseteq P
    <3> HIDE DEF P
    <3> QED BY <1>2, <1>3, <1>4, EachTurn
  <2>2. QED
    BY <1>1, <1>4, <2>1
<1> DEFINE d == Descent(T, s)
<1> HIDE DEF d
<1>6. d.node \in DOMAIN T /\ Under(d.node, s) /\ d.node \in Seq(S)
  BY <1>5 DEF OnWay, Tree, d
<1>7. ~GoesOn(T, d.node, s)
  BY <1>4, <1>5, <1>6 DEF OnWay, GoesOn, HasChild, d
<1>8. \A p : Candidate(T, s, p) => Len(p) <= Len(d.node)
  <2> SUFFICES ASSUME NEW p, Candidate(T, s, p), ~(Len(p) <= Len(d.node)) PROVE FALSE
    OBVIOUS
  <2>1. p \in DOMAIN T /\ p \in Seq(S) /\ Under(p, s) /\ Len(d.node) < Len(p)
    BY <1>6 DEF Candidate, Tree
  <2>2. QED
    BY <1>6, <1>7, <2>1, OnTheWay
<1>9. QED
  BY <1>5, <1>6, <1>7, <1>8 DEF OnWay, d

-----------------------------------------------------------------------------
\* The children and the checkpoints once a node has been attached.
Attached(U, T, p, c, node) ==
    /\ DOMAIN U = DOMAIN T \union {c}
    /\ U[c] = node
    /\ U[p].checkpoint = T[p].checkpoint
    /\ DOMAIN U[p].children = DOMAIN T[p].children \union {c[Len(p) + 1]}
    /\ U[p].children[c[Len(p) + 1]] = c
    /\ \A t \in DOMAIN T[p].children \ {c[Len(p) + 1]} :
           U[p].children[t] = T[p].children[t]
    /\ \A q \in DOMAIN T \ {p} : U[q] = T[q]

\* What Attach makes of the tree.
LEMMA AttachIs ==
    ASSUME NEW T, NEW p \in DOMAIN T, NEW c, c \notin DOMAIN T, NEW node
    PROVE  Attached(Attach(T, p, c, node), T, p, c, node)
BY DEF Attached, Attach, Node

\* A tree with one node more, and no other checkpoint changed.
Grown(U, T, S, new, checkpoint) ==
    /\ Tree(U, S)
    /\ new \notin DOMAIN T /\ DOMAIN U = DOMAIN T \union {new}
    /\ U[new].checkpoint = checkpoint
    /\ \A p \in DOMAIN T : U[p].checkpoint = T[p].checkpoint

\* The new node has one child.
Forked(U, T, S, c, f) == Grown(U, T, S, f, 0) /\ DOMAIN U[f].children = {c[Len(f) + 1]}

\* A child and the first token of its edge.
ChildOf(T, p, t, c) == t \in DOMAIN T[p].children /\ c = T[p].children[t]

\* An edge becomes two, with a new node without a checkpoint between them.
LEMMA ForkTree ==
    ASSUME NEW S, NEW T, Tree(T, S), NEW e \in DOMAIN T, NEW t, NEW c, ChildOf(T, e, t, c),
           NEW f \in Seq(S), Under(f, c),
           Len(e) < Len(f), Len(f) < Len(c),
           NEW U, U = Split(T, e, c, f)
    PROVE  Forked(U, T, S, c, f)
<1>1. /\ c \in DOMAIN T /\ c \in Seq(S) /\ Under(e, c) /\ Len(e) < Len(c) /\ c[Len(e) + 1] = t
      /\ e \in Seq(S)
      /\ Len(e) \in Nat /\ Len(c) \in Nat /\ Len(f) \in Nat
  BY DEF Tree, Children, ChildOf
<1>0. t \in DOMAIN T[e].children /\ T[e].children[t] = c
  BY DEF ChildOf
<1>2. \A i \in 1 .. Len(f) : f[i] = c[i]
  BY DEF Under
<1>6. Under(e, f) /\ f[Len(e) + 1] = t
  <2>1. Len(e) <= Len(f) /\ Len(e) + 1 \in 1 .. Len(f)
    BY <1>1
  <2>2. QED
    BY <1>1, <1>2, <2>1, UnderBoth
<1>7. f \notin DOMAIN T
  <2> SUFFICES ASSUME f \in DOMAIN T PROVE FALSE
    OBVIOUS
  <2>1. Under(c, f)
    BY <1>0, <1>1, <1>6 DEF Tree, Radix
  <2>2. QED
    BY <1>1, <2>1 DEF Under
<1> DEFINE tail == c[Len(f) + 1]
<1>8. /\ DOMAIN U = DOMAIN T \union {f}
      /\ U[f] = Node([token \in {tail} |-> c], 0)
      /\ U[e].checkpoint = T[e].checkpoint
      /\ DOMAIN U[e].children = DOMAIN T[e].children \union {t}
      /\ U[e].children[t] = f
      /\ \A x \in DOMAIN T[e].children \ {t} : U[e].children[x] = T[e].children[x]
      /\ \A q \in DOMAIN T \ {e} : U[q] = T[q]
  <2>1. U = Attach(T, e, f, Node([token \in {tail} |-> c], 0))
    BY DEF Split
  <2>2. Attached(U, T, e, f, Node([token \in {tail} |-> c], 0))
    BY <1>7, <2>1, AttachIs
  <2> HIDE DEF tail
  <2>3. QED
    BY <1>6, <2>2 DEF Attached
<1> HIDE DEF tail
<1>9. DOMAIN U[f].children = {tail} /\ U[f].children[tail] = c /\ U[f].checkpoint = 0
  BY <1>8 DEF Node
<1>10. DOMAIN U \subseteq Seq(S) /\ <<>> \in DOMAIN U
  BY <1>8 DEF Tree
<1>11. Children(U)
  <2> SUFFICES ASSUME NEW p \in DOMAIN U, NEW x \in DOMAIN U[p].children
               PROVE  /\ U[p].children[x] \in DOMAIN U /\ Len(p) < Len(U[p].children[x])
                      /\ Under(p, U[p].children[x]) /\ U[p].children[x][Len(p) + 1] = x
    BY DEF Children
  <2>1. CASE p = f
    <3>1. x = tail /\ U[p].children[x] = c
      BY <1>9, <2>1
    <3>2. QED
      BY <1>1, <1>8, <2>1, <3>1 DEF tail
  <2>2. CASE p = e /\ x = t
    BY <1>6, <1>8, <2>2
  <2>3. CASE p = e /\ x # t
    BY <1>8, <2>3 DEF Tree, Children
  <2>4. CASE p # e /\ p # f
    BY <1>8, <2>4 DEF Tree, Children
  <2>5. QED
    BY <2>1, <2>2, <2>3, <2>4
<1>12. Radix(U)
  <2> SUFFICES ASSUME NEW p \in DOMAIN U, NEW q \in DOMAIN U, Len(p) < Len(q), Under(p, q)
               PROVE  /\ q[Len(p) + 1] \in DOMAIN U[p].children
                      /\ Under(U[p].children[q[Len(p) + 1]], q)
    BY DEF Radix
  <2>0. p \in Seq(S) /\ q \in Seq(S) /\ Len(p) \in Nat /\ Len(q) \in Nat
        /\ Len(p) + 1 \in 1 .. Len(q)
    BY <1>10
  <2> DEFINE x == q[Len(p) + 1]
  <2>1. ASSUME p \in DOMAIN T, q \in DOMAIN T
        PROVE  x \in DOMAIN T[p].children /\ Under(T[p].children[x], q)
    BY <2>1 DEF Tree, Radix
  <2>2. CASE p = f
    <3>1. q \in DOMAIN T /\ Under(e, q) /\ Len(e) < Len(q)
      BY <1>1, <1>6, <1>8, <2>0, <2>2, UnderTransitive
    <3>2. q[Len(e) + 1] = t
      BY <1>1, <1>6, <2>2 DEF Under
    <3>3. Under(c, q)
      BY <1>0, <3>1, <3>2 DEF Tree, Radix
    <3>4. x = tail
      BY <1>1, <1>2, <2>2, <3>3 DEF Under, tail
    <3>5. QED
      BY <1>9, <2>2, <3>3, <3>4
  <2>3. CASE p = e /\ q = f
    BY <1>6, <1>8, <2>3 DEF Under
  <2>4. CASE p = e /\ q # f
    <3>1. q \in DOMAIN T /\ x \in DOMAIN T[p].children /\ Under(T[p].children[x], q)
      BY <1>8, <2>1, <2>4
    <3>2. CASE x = t
      <4>1. Under(c, q)
        BY <1>0, <2>4, <3>1, <3>2
      <4>2. Under(f, q)
        BY <1>1, <2>0, <4>1, UnderTransitive
      <4>3. QED
        BY <1>8, <2>4, <3>2, <4>2
    <3>3. CASE x # t
      BY <1>8, <2>4, <3>1, <3>3
    <3>4. QED
      BY <3>2, <3>3
  <2>5. CASE p # e /\ p # f /\ q # f
    BY <1>8, <2>1, <2>5
  <2>6. CASE p # e /\ p # f /\ q = f
    <3>1. p \in DOMAIN T /\ Under(p, c) /\ Len(p) < Len(c) /\ U[p] = T[p]
      BY <1>1, <1>8, <2>0, <2>6, UnderTransitive
    <3>2. x = c[Len(p) + 1]
      BY <2>0, <2>6 DEF Under
    <3> DEFINE d == T[p].children[x]
    <3>3. x \in DOMAIN T[p].children /\ Under(d, c)
      BY <1>1, <3>1, <3>2 DEF Tree, Radix
    <3>4. d \in DOMAIN T /\ d \in Seq(S) /\ Len(p) < Len(d)
      BY <3>1, <3>3 DEF Tree, Children
    <3> HIDE DEF d, x
    <3>5. Len(d) <= Len(f)
      <4>1. CASE Len(p) < Len(e)
        <5>1. Under(p, e)
          BY <1>1, <2>0, <3>1, <4>1, UnderBoth
        <5>2. e[Len(p) + 1] = x
          BY <1>1, <2>0, <3>2, <4>1 DEF Under
        <5>3. Under(d, e)
          BY <3>1, <4>1, <5>1, <5>2 DEF Tree, Radix, d
        <5>4. QED
          BY <1>1, <3>4, <5>3 DEF Under
      <4>2. CASE Len(e) < Len(p)
        <5>1. Under(e, p)
          BY <1>1, <2>0, <3>1, <4>2, UnderBoth
        <5>2. p[Len(e) + 1] = t
          <6>1. Len(e) + 1 \in 1 .. Len(p)
            BY <1>1, <2>0, <4>2
          <6>2. p[Len(e) + 1] = c[Len(e) + 1]
            BY <3>1, <6>1 DEF Under
          <6>3. QED
            BY <1>1, <6>2
        <5>3. Under(c, p)
          BY <1>0, <3>1, <4>2, <5>1, <5>2 DEF Tree, Radix
        <5>4. QED
          BY <1>1, <2>0, <3>1, <5>3 DEF Under
      <4>3. CASE Len(e) = Len(p)
        <5>1. Under(e, p) /\ Len(p) <= Len(e)
          BY <1>1, <2>0, <3>1, <4>3, UnderBoth
        <5>2. e = p
          BY <1>1, <2>0, <5>1, UnderEqual
        <5>3. QED
          BY <2>6, <5>2
      <4>4. QED
        BY <1>1, <2>0, <4>1, <4>2, <4>3
    <3>6. Under(d, f)
      BY <1>1, <3>3, <3>4, <3>5, UnderBoth
    <3>7. QED
      BY <2>6, <3>1, <3>3, <3>6 DEF d, x
  <2>7. QED
    BY <2>2, <2>3, <2>4, <2>5, <2>6
<1>13. \A p \in DOMAIN T : U[p].checkpoint = T[p].checkpoint
  BY <1>8
<1>14. Purposeful(U)
  <2>1. U[<<>>].checkpoint = 0
    BY <1>13 DEF Tree, Purposeful
  <2>2. ASSUME NEW p \in DOMAIN U \ {<<>>}
        PROVE  \E q \in DOMAIN U : Under(p, q) /\ U[q].checkpoint # 0
    <3>1. CASE p \in DOMAIN T
      <4>1. PICK q \in DOMAIN T : Under(p, q) /\ T[q].checkpoint # 0
        BY <3>1 DEF Tree, Purposeful
      <4>2. QED
        BY <1>8, <1>13, <4>1
    <3>2. CASE p = f
      <4>1. PICK q \in DOMAIN T : Under(c, q) /\ T[q].checkpoint # 0
        <5>1. c # <<>>
          BY <1>1
        <5>2. QED
          BY <1>1, <5>1 DEF Tree, Purposeful
      <4>2. Under(f, q)
        BY <1>1, <4>1, UnderTransitive DEF Tree
      <4>3. QED
        BY <1>8, <1>13, <3>2, <4>1, <4>2
    <3>3. QED
      BY <1>8, <3>1, <3>2
  <2>3. QED
    BY <2>1, <2>2 DEF Purposeful
<1>15. QED
  BY <1>7, <1>8, <1>9, <1>10, <1>11, <1>12, <1>13, <1>14 DEF Tree, Grown, Forked, tail

\* Where the tokens leave an edge.
LEMMA SplitTree ==
    ASSUME NEW S, NEW T, Tree(T, S), NEW s \in Seq(S), NEW e \in DOMAIN T, Under(e, s),
           HasChild(T, e, s), ~GoesOn(T, e, s),
           NEW c, c = Child(T, e, s), NEW f, f = SubSeq(c, 1, Shared(c, s)),
           NEW U, U = Split(T, e, c, f)
    PROVE  Grown(U, T, S, f, 0) /\ Under(f, s) /\ ~HasChild(U, f, s)
<1> DEFINE n == Shared(c, s)
           t == s[Len(e) + 1]
<1>1. /\ c \in DOMAIN T /\ c \in Seq(S) /\ Under(e, c) /\ Len(e) < Len(c) /\ c[Len(e) + 1] = t
      /\ ~Under(c, s) /\ e \in Seq(S) /\ Len(e) < Len(s)
      /\ Len(e) \in Nat /\ Len(c) \in Nat /\ Len(s) \in Nat
  <2>1. /\ c \in DOMAIN T /\ c \in Seq(S) /\ Under(e, c) /\ Len(e) < Len(c)
        /\ c[Len(e) + 1] = t
        /\ GoesOn(T, e, s) <=> Under(c, s)
    BY ChildIs
  <2>2. e \in Seq(S)
    BY DEF Tree
  <2>3. Len(e) < Len(s)
    BY DEF HasChild
  <2>4. QED
    BY <2>1, <2>2, <2>3
<1>2. /\ n \in 0 .. Len(c) /\ n <= Len(s) /\ \A i \in 1 .. n : c[i] = s[i]
      /\ n < Len(c) /\ n < Len(s) => c[n + 1] # s[n + 1]
  BY <1>1, SharedIs
<1>3. t \in DOMAIN T[e].children /\ T[e].children[t] = c
  BY DEF HasChild, Child
<1> HIDE DEF n
<1>4. n < Len(c)
  BY <1>1, <1>2 DEF Under
<1>5. Len(e) < n
  <2>1. \A i \in 1 .. Len(e) : c[i] = s[i]
    BY <1>1 DEF Under
  <2>2. c[Len(e) + 1] = s[Len(e) + 1]
    BY <1>1
  <2>3. SUFFICES ASSUME n <= Len(e) PROVE FALSE
    BY <1>1, <1>2
  <2>4. c[n + 1] # s[n + 1] /\ n + 1 \in 1 .. Len(e) + 1
    BY <1>1, <1>2, <1>4, <2>3
  <2>5. QED
    BY <1>1, <2>1, <2>2, <2>4
<1>6. f \in Seq(S) /\ Len(f) = n /\ Under(f, c) /\ \A i \in 1 .. n : f[i] = c[i]
  BY <1>1, <1>2, UnderIsSubSeq DEF n
<1>7. Forked(U, T, S, c, f)
  <2>1. Len(e) < Len(f) /\ Len(f) < Len(c)
    BY <1>4, <1>5, <1>6
  <2>2. ChildOf(T, e, t, c)
    BY <1>3 DEF ChildOf
  <2> HIDE DEF t
  <2>3. QED
    BY <1>6, <2>1, <2>2, ForkTree
<1>8. Under(f, s)
  BY <1>2, <1>6 DEF Under
<1>9. ~HasChild(U, f, s)
  BY <1>1, <1>2, <1>4, <1>6, <1>7 DEF HasChild, Forked
<1>10. QED
  BY <1>7, <1>8, <1>9 DEF Forked

\* Where there is no edge to follow, a leaf is put for the tokens.
LEMMA GrowTree ==
    ASSUME NEW S, NEW T, Tree(T, S), NEW s \in Seq(S), NEW e \in DOMAIN T, Under(e, s),
           Len(e) < Len(s), ~HasChild(T, e, s), NEW k, k # 0,
           NEW U, U = Attach(T, e, s, Leaf(k))
    PROVE  Grown(U, T, S, s, k)
<1> DEFINE t == s[Len(e) + 1]
<1>1. /\ e \in Seq(S) /\ Len(e) \in Nat /\ Len(s) \in Nat
      /\ t \notin DOMAIN T[e].children
  BY DEF Tree, HasChild
<1>2. \A q \in DOMAIN T : Under(e, q) /\ Len(e) < Len(q) => q[Len(e) + 1] \in DOMAIN T[e].children
  BY DEF Tree, Radix
<1>3. s \notin DOMAIN T
  BY <1>1, <1>2
<1>4. /\ DOMAIN U = DOMAIN T \union {s}
      /\ U[s] = Leaf(k)
      /\ U[e].checkpoint = T[e].checkpoint
      /\ DOMAIN U[e].children = DOMAIN T[e].children \union {t}
      /\ U[e].children[t] = s
      /\ \A x \in DOMAIN T[e].children \ {t} : U[e].children[x] = T[e].children[x]
      /\ \A q \in DOMAIN T \ {e} : U[q] = T[q]
  <2>1. Attached(U, T, e, s, Leaf(k))
    BY <1>3, AttachIs
  <2>2. QED
    BY <2>1 DEF Attached
<1>5. DOMAIN U[s].children = {} /\ U[s].checkpoint = k
  BY <1>4 DEF Leaf, Node
<1>6. DOMAIN U \subseteq Seq(S) /\ <<>> \in DOMAIN U
  BY <1>4 DEF Tree
<1>7. Children(U)
  <2> SUFFICES ASSUME NEW p \in DOMAIN U, NEW x \in DOMAIN U[p].children
               PROVE  /\ U[p].children[x] \in DOMAIN U /\ Len(p) < Len(U[p].children[x])
                      /\ Under(p, U[p].children[x]) /\ U[p].children[x][Len(p) + 1] = x
    BY DEF Children
  <2>1. p # s
    BY <1>5
  <2>2. CASE p = e /\ x = t
    BY <1>4, <2>2
  <2>3. CASE p = e /\ x # t
    BY <1>4, <2>3 DEF Tree, Children
  <2>4. CASE p # e
    BY <1>4, <2>1, <2>4 DEF Tree, Children
  <2>5. QED
    BY <2>2, <2>3, <2>4
<1>8. Radix(U)
  <2> SUFFICES ASSUME NEW p \in DOMAIN U, NEW q \in DOMAIN U, Len(p) < Len(q), Under(p, q)
               PROVE  /\ q[Len(p) + 1] \in DOMAIN U[p].children
                      /\ Under(U[p].children[q[Len(p) + 1]], q)
    BY DEF Radix
  <2>0. p \in Seq(S) /\ q \in Seq(S) /\ Len(p) \in Nat /\ Len(q) \in Nat
        /\ Len(p) + 1 \in 1 .. Len(q)
    BY <1>6
  <2> DEFINE x == q[Len(p) + 1]
  <2>1. ASSUME p \in DOMAIN T, q \in DOMAIN T
        PROVE  x \in DOMAIN T[p].children /\ Under(T[p].children[x], q)
    BY <2>1 DEF Tree, Radix
  <2>2. CASE p = s
    <3>1. q \in DOMAIN T /\ Under(e, q) /\ Len(e) < Len(q)
      BY <1>1, <1>4, <2>0, <2>2, UnderTransitive
    <3>2. q[Len(e) + 1] = t
      BY <1>1, <2>2 DEF Under
    <3>3. QED
      BY <1>1, <1>2, <3>1, <3>2
  <2>3. CASE p = e /\ q = s
    BY <1>4, <2>0, <2>3 DEF Under
  <2>4. CASE p = e /\ q # s
    <3>1. x \in DOMAIN T[p].children /\ Under(T[p].children[x], q)
      BY <1>4, <2>1, <2>4
    <3>2. QED
      BY <1>1, <1>4, <2>4, <3>1
  <2>5. CASE p # e /\ p # s /\ q # s
    BY <1>4, <2>1, <2>5
  <2>6. CASE p # e /\ p # s /\ q = s
    <3>1. p \in DOMAIN T /\ U[p] = T[p]
      BY <1>4, <2>6
    <3>2. CASE Len(p) < Len(e)
      <4>1. Under(p, e) /\ e[Len(p) + 1] = x
        <5>1. Under(p, e)
          BY <1>1, <2>0, <2>6, <3>2, UnderBoth
        <5>2. Len(p) + 1 \in 1 .. Len(e)
          BY <1>1, <2>0, <3>2
        <5>3. QED
          BY <2>6, <5>1, <5>2 DEF Under
      <4>2. x \in DOMAIN T[p].children /\ Under(T[p].children[x], e)
        BY <3>1, <3>2, <4>1 DEF Tree, Radix
      <4>3. T[p].children[x] \in Seq(S)
        BY <3>1, <4>2 DEF Tree, Children
      <4>4. Under(T[p].children[x], q)
        BY <1>1, <2>0, <2>6, <4>2, <4>3, UnderTransitive
      <4>5. QED
        BY <3>1, <4>2, <4>4
    <3>3. CASE Len(e) < Len(p)
      <4>1. Under(e, p) /\ p[Len(e) + 1] = t
        <5>1. Under(e, p)
          BY <1>1, <2>0, <2>6, <3>3, UnderBoth
        <5>2. Len(e) + 1 \in 1 .. Len(p)
          BY <1>1, <2>0, <3>3
        <5>3. QED
          BY <2>6, <5>1, <5>2 DEF Under
      <4>2. QED
        BY <1>1, <1>2, <3>1, <3>3, <4>1
    <3>4. CASE Len(e) = Len(p)
      <4>1. Under(e, p) /\ Len(p) <= Len(e)
        BY <1>1, <2>0, <2>6, <3>4, UnderBoth
      <4>2. e = p
        BY <1>1, <2>0, <4>1, UnderEqual
      <4>3. QED
        BY <2>6, <4>2
    <3>5. QED
      BY <1>1, <2>0, <3>2, <3>3, <3>4
  <2>7. QED
    BY <2>2, <2>3, <2>4, <2>5, <2>6
<1>9. \A p \in DOMAIN T : U[p].checkpoint = T[p].checkpoint
  BY <1>4
<1>10. Purposeful(U)
  <2>1. U[<<>>].checkpoint = 0
    BY <1>9 DEF Tree, Purposeful
  <2>2. ASSUME NEW p \in DOMAIN U \ {<<>>}
        PROVE  \E q \in DOMAIN U : Under(p, q) /\ U[q].checkpoint # 0
    <3>1. CASE p \in DOMAIN T
      <4>1. PICK q \in DOMAIN T : Under(p, q) /\ T[q].checkpoint # 0
        BY <3>1 DEF Tree, Purposeful
      <4>2. QED
        BY <1>4, <1>9, <4>1
    <3>2. CASE p = s
      BY <1>4, <1>5, <3>2 DEF Under
    <3>3. QED
      BY <1>4, <3>1, <3>2
  <2>3. QED
    BY <2>1, <2>2 DEF Purposeful
<1>11. QED
  BY <1>3, <1>4, <1>5, <1>6, <1>7, <1>8, <1>9, <1>10 DEF Tree, Grown

\* A node is given a checkpoint.
Marked(U, T, S, s, checkpoint) ==
    /\ Tree(U, S) /\ DOMAIN U = DOMAIN T
    /\ U[s].checkpoint = checkpoint
    /\ \A p \in DOMAIN T \ {s} : U[p].checkpoint = T[p].checkpoint

\* A marked tree is one, with one checkpoint more.
LEMMA MarkTree ==
    ASSUME NEW S, NEW T, Tree(T, S), NEW s \in DOMAIN T, s # <<>>, NEW k, k # 0,
           NEW U, U = Mark(T, s, k)
    PROVE  Marked(U, T, S, s, k)
<1>1. /\ DOMAIN U = DOMAIN T
      /\ \A p \in DOMAIN T : U[p].children = T[p].children
      /\ U[s].checkpoint = k
      /\ \A p \in DOMAIN T \ {s} : U[p].checkpoint = T[p].checkpoint
  BY DEF Mark, Node
<1>2. Children(U) /\ Radix(U)
  <2>1. Children(U)
    <3> SUFFICES ASSUME NEW p \in DOMAIN U, NEW x \in DOMAIN U[p].children
                 PROVE  /\ U[p].children[x] \in DOMAIN U /\ Len(p) < Len(U[p].children[x])
                        /\ Under(p, U[p].children[x]) /\ U[p].children[x][Len(p) + 1] = x
      BY DEF Children
    <3>1. QED
      BY <1>1 DEF Tree, Children
  <2>2. Radix(U)
    <3> SUFFICES ASSUME NEW p \in DOMAIN U, NEW q \in DOMAIN U, Len(p) < Len(q), Under(p, q)
                 PROVE  /\ q[Len(p) + 1] \in DOMAIN U[p].children
                        /\ Under(U[p].children[q[Len(p) + 1]], q)
      BY DEF Radix
    <3>1. QED
      BY <1>1 DEF Tree, Radix
  <2>3. QED
    BY <2>1, <2>2
<1>3. Purposeful(U)
  <2>1. U[<<>>].checkpoint = 0
    BY <1>1 DEF Tree, Purposeful
  <2>2. ASSUME NEW p \in DOMAIN U \ {<<>>}
        PROVE  \E q \in DOMAIN U : Under(p, q) /\ U[q].checkpoint # 0
    <3>1. PICK q \in DOMAIN T : Under(p, q) /\ T[q].checkpoint # 0
      BY <1>1 DEF Tree, Purposeful
    <3>2. QED
      BY <1>1, <3>1
  <2>3. QED
    BY <2>1, <2>2 DEF Purposeful
<1>4. QED
  BY <1>1, <1>2, <1>3 DEF Tree, Marked

\* insert_session_prefix() keeps a tree and gives the tokens their checkpoint, no
\* other node another one.
THEOREM InsertIs ==
    ASSUME NEW S, NEW T, Tree(T, S), NEW s \in Seq(S) \ {<<>>}, NEW k, k # 0
    PROVE  LET U == Insert(T, s, k)
           IN  /\ Tree(U, S)
               /\ DOMAIN T \subseteq DOMAIN U
               /\ s \in DOMAIN U /\ U[s].checkpoint = k
               /\ \A p \in DOMAIN T \ {s} : U[p].checkpoint = T[p].checkpoint
               /\ \A p \in DOMAIN U \ {s} : p \notin DOMAIN T => U[p].checkpoint = 0
<1> DEFINE e == Descent(T, s).node
           c == Child(T, e, s)
           leaves == HasChild(T, e, s)
           node == IF leaves THEN SubSeq(c, 1, Shared(c, s)) ELSE e
           open == IF leaves THEN Split(T, e, c, node) ELSE T
           U == IF node = s THEN Mark(open, node, k) ELSE Attach(open, node, s, Leaf(k))
<1>1. Insert(T, s, k) = U
  BY DEF Insert
<1>2. e \in DOMAIN T /\ Under(e, s) /\ ~GoesOn(T, e, s)
  BY DescentIs
<1> HIDE DEF e
<1>3. /\ Tree(open, S) /\ DOMAIN open = DOMAIN T \union {node}
      /\ \A p \in DOMAIN T : open[p].checkpoint = T[p].checkpoint
      /\ node \notin DOMAIN T => open[node].checkpoint = 0
      /\ Under(node, s) /\ ~HasChild(open, node, s)
  <2>1. CASE leaves
    <3>1. node = SubSeq(c, 1, Shared(c, s)) /\ open = Split(T, e, c, node)
      BY <2>1
    <3>2. Grown(open, T, S, node, 0) /\ Under(node, s) /\ ~HasChild(open, node, s)
      <4> HIDE DEF node, open
      <4> QED BY <1>2, <2>1, <3>1, SplitTree
    <3> HIDE DEF node, open
    <3>3. QED
      BY <3>2 DEF Grown
  <2>2. CASE ~leaves
    BY <1>2, <2>2
  <2>3. QED
    BY <2>1, <2>2
<1> HIDE DEF open, node
<1>4. node \in Seq(S) /\ node \in DOMAIN open
  BY <1>3 DEF Tree
<1>5. CASE node = s
  <2>1. U = Mark(open, s, k)
    BY <1>5
  <2>2. /\ Tree(U, S) /\ DOMAIN U = DOMAIN open /\ U[s].checkpoint = k
        /\ \A p \in DOMAIN open \ {s} : U[p].checkpoint = open[p].checkpoint
    <3>1. s \in DOMAIN open /\ s # <<>>
      BY <1>4, <1>5
    <3>2. Marked(U, open, S, s, k)
      <4> HIDE DEF U
      <4> QED BY <1>3, <2>1, <3>1, MarkTree
    <3> HIDE DEF U
    <3>3. QED
      BY <3>2 DEF Marked
  <2> HIDE DEF U
  <2>3. QED
    BY <1>1, <1>3, <1>5, <2>2
<1>6. CASE node # s
  <2>1. U = Attach(open, node, s, Leaf(k))
    BY <1>6
  <2>2. Len(node) < Len(s)
    BY <1>3, <1>4, <1>6, UnderEqual DEF Under
  <2>3. /\ Tree(U, S) /\ s \notin DOMAIN open /\ DOMAIN U = DOMAIN open \union {s}
        /\ U[s].checkpoint = k
        /\ \A p \in DOMAIN open : U[p].checkpoint = open[p].checkpoint
    <3>1. Grown(U, open, S, s, k)
      <4> HIDE DEF U
      <4> QED BY <1>3, <1>4, <2>1, <2>2, GrowTree
    <3> HIDE DEF U
    <3>2. QED
      BY <3>1 DEF Grown
  <2> HIDE DEF U
  <2>4. QED
    BY <1>1, <1>3, <2>3
<1>7. QED
  BY <1>5, <1>6

-----------------------------------------------------------------------------
\* The tree has the stored prefixes, each with its number for checkpoint, and no
\* other checkpoint.
Distinct(prefixes) ==
    \A i \in DOMAIN prefixes, j \in DOMAIN prefixes : prefixes[i] = prefixes[j] => i = j

Has(T, S, prefixes, n) ==
    /\ Tree(T, S)
    /\ \A i \in 1 .. n : prefixes[i] \in DOMAIN T /\ T[prefixes[i]].checkpoint = i
    /\ \A p \in DOMAIN T : T[p].checkpoint # 0 =>
           T[p].checkpoint \in 1 .. n /\ prefixes[T[p].checkpoint] = p

\* A tree that indexes all of them.
Indexes(T, S, prefixes) == Has(T, S, prefixes, Len(prefixes))

\* The root alone indexes nothing.
LEMMA RootHas ==
    ASSUME NEW S, NEW prefixes
    PROVE  Has(Root, S, prefixes, 0)
<1>1. DOMAIN Root = {<<>>} /\ Root[<<>>].checkpoint = 0 /\ DOMAIN Root[<<>>].children = {}
  BY DEF Root, Leaf, Node
<1>2. Tree(Root, S)
  BY <1>1 DEF Tree, Children, Radix, Purposeful
<1>3. QED
  BY <1>1, <1>2 DEF Has

\* One insertion indexes one prefix more.
LEMMA InsertHas ==
    ASSUME NEW S, NEW prefixes \in Seq(Seq(S) \ {<<>>}), Distinct(prefixes),
           NEW n \in 1 .. Len(prefixes), NEW T, Has(T, S, prefixes, n - 1)
    PROVE  Has(Insert(T, prefixes[n], n), S, prefixes, n)
<1> DEFINE s == prefixes[n]
           U == Insert(T, s, n)
<1>1. s \in Seq(S) \ {<<>>} /\ n # 0 /\ n \in Nat /\ DOMAIN prefixes = 1 .. Len(prefixes)
  OBVIOUS
<1>2. /\ Tree(U, S) /\ DOMAIN T \subseteq DOMAIN U
      /\ s \in DOMAIN U /\ U[s].checkpoint = n
      /\ \A p \in DOMAIN T \ {s} : U[p].checkpoint = T[p].checkpoint
      /\ \A p \in DOMAIN U \ {s} : p \notin DOMAIN T => U[p].checkpoint = 0
  <2>1. Tree(T, S)
    BY DEF Has
  <2> HIDE DEF s
  <2>2. QED
    BY <1>1, <2>1, InsertIs
<1> HIDE DEF U
<1>3. \A i \in 1 .. n : prefixes[i] \in DOMAIN U /\ U[prefixes[i]].checkpoint = i
  <2> TAKE i \in 1 .. n
  <2>1. CASE i = n
    BY <1>2, <2>1
  <2>2. CASE i # n
    <3>1. i \in 1 .. n - 1 /\ i \in DOMAIN prefixes /\ n \in DOMAIN prefixes
      BY <1>1, <2>2
    <3>2. prefixes[i] \in DOMAIN T \ {s} /\ T[prefixes[i]].checkpoint = i
      BY <2>2, <3>1 DEF Has, Distinct
    <3>3. QED
      BY <1>2, <3>2
  <2>3. QED
    BY <2>1, <2>2
<1>4. ASSUME NEW p \in DOMAIN U, U[p].checkpoint # 0
      PROVE  U[p].checkpoint \in 1 .. n /\ prefixes[U[p].checkpoint] = p
  <2>1. CASE p = s
    BY <1>1, <1>2, <2>1
  <2>2. CASE p # s
    <3>1. p \in DOMAIN T \ {s} /\ U[p].checkpoint = T[p].checkpoint
      BY <1>2, <1>4, <2>2
    <3>2. T[p].checkpoint \in 1 .. n - 1 /\ prefixes[T[p].checkpoint] = p
      BY <1>4, <3>1 DEF Has
    <3>3. QED
      BY <1>1, <3>1, <3>2
  <2>3. QED
    BY <2>1, <2>2
<1>5. QED
  BY <1>2, <1>3, <1>4 DEF Has, U

\* rebuild_session_prefix_index() makes such a tree of any distinct prefixes.
THEOREM RebuiltIs ==
    ASSUME NEW S, NEW prefixes \in Seq(Seq(S) \ {<<>>}), Distinct(prefixes)
    PROVE  Indexes(Rebuilt(prefixes), S, prefixes)
<1> DEFINE P == {n \in Nat : n <= Len(prefixes) =>
                     \E f : /\ f = [i \in 0 .. n |->
                                IF i = 0 THEN Root ELSE Insert(f[i - 1], prefixes[i], i)]
                            /\ Has(f[n], S, prefixes, n)}
<1>1. 0 \in P
  <2> DEFINE f == [i \in 0 .. 0 |-> Root]
  <2>1. f = [i \in 0 .. 0 |-> IF i = 0 THEN Root ELSE Insert(f[i - 1], prefixes[i], i)]
    OBVIOUS
  <2>2. Has(f[0], S, prefixes, 0)
    BY RootHas
  <2> HIDE DEF f
  <2>3. QED
    BY <2>1, <2>2
<1>2. \A n \in 1 .. Len(prefixes) : n - 1 \in P => n \in P
  <2> TAKE n \in 1 .. Len(prefixes)
  <2> HAVE n - 1 \in P
  <2>1. PICK f : /\ f = [i \in 0 .. n - 1 |->
                     IF i = 0 THEN Root ELSE Insert(f[i - 1], prefixes[i], i)]
                 /\ Has(f[n - 1], S, prefixes, n - 1)
    OBVIOUS
  <2> DEFINE g == [i \in 0 .. n |->
                      IF i = n THEN Insert(f[n - 1], prefixes[n], n) ELSE f[i]]
  <2>2. \A i \in 0 .. n : g[i] = IF i = 0 THEN Root ELSE Insert(g[i - 1], prefixes[i], i)
    <3> TAKE i \in 0 .. n
    <3>1. CASE i = n
      <4>1. g[n] = Insert(f[n - 1], prefixes[n], n) /\ g[n - 1] = f[n - 1]
        OBVIOUS
      <4>2. QED
        BY <3>1, <4>1
    <3>2. CASE i # n /\ i # 0
      <4>1. /\ g[i] = f[i] /\ g[i - 1] = f[i - 1]
            /\ f[i] = Insert(f[i - 1], prefixes[i], i)
        BY <3>2, <2>1
      <4>2. QED
        BY <3>2, <4>1
    <3>3. CASE i # n /\ i = 0
      BY <3>3, <2>1
    <3>4. QED
      BY <3>1, <3>2, <3>3
  <2>3. Has(g[n], S, prefixes, n)
    <3>1. Has(Insert(f[n - 1], prefixes[n], n), S, prefixes, n)
      BY <2>1, InsertHas
    <3>2. QED
      BY <3>1
  <2>4. g = [i \in 0 .. n |-> IF i = 0 THEN Root ELSE Insert(g[i - 1], prefixes[i], i)]
    BY <2>2
  <2> HIDE DEF g
  <2>5. n \in Nat
    OBVIOUS
  <2> QED BY <2>3, <2>4, <2>5
<1>3. PICK f : /\ f = [i \in 0 .. Len(prefixes) |->
                   IF i = 0 THEN Root ELSE Insert(f[i - 1], prefixes[i], i)]
               /\ Has(f[Len(prefixes)], S, prefixes, Len(prefixes))
  <2>1. Len(prefixes) \in Nat /\ P \in SUBSET Nat
    OBVIOUS
  <2>2. 0 .. Len(prefixes) \subseteq P
    <3> HIDE DEF P
    <3> QED BY <1>1, <1>2, <2>1, EachTurn
  <2>3. Len(prefixes) \in P
    BY <2>1, <2>2
  <2>4. QED
    BY <2>3
<1> DEFINE g == CHOOSE h : h = [i \in 0 .. Len(prefixes) |->
                   IF i = 0 THEN Root ELSE Insert(h[i - 1], prefixes[i], i)]
<1>4. g = [i \in 0 .. Len(prefixes) |->
              IF i = 0 THEN Root ELSE Insert(g[i - 1], prefixes[i], i)]
  BY <1>3
<1>5. Rebuilt(prefixes) = g[Len(prefixes)]
  BY DEF Rebuilt
<1> HIDE DEF g
<1>6. Has(g[Len(prefixes)], S, prefixes, Len(prefixes))
  <2> DEFINE Q == {n \in Nat : n <= Len(prefixes) => g[n] = f[n]}
  <2>1. 0 \in Q
    BY <1>3, <1>4
  <2>2. \A n \in 1 .. Len(prefixes) : n - 1 \in Q => n \in Q
    <3> TAKE n \in 1 .. Len(prefixes)
    <3> HAVE n - 1 \in Q
    <3>1. n \in Nat /\ n \in 0 .. Len(prefixes) /\ n # 0 /\ n - 1 <= Len(prefixes)
      OBVIOUS
    <3>2. g[n] = Insert(g[n - 1], prefixes[n], n)
      BY <1>4, <3>1
    <3>3. f[n] = Insert(f[n - 1], prefixes[n], n)
      BY <1>3, <3>1
    <3>4. g[n - 1] = f[n - 1]
      BY <3>1
    <3>5. QED
      BY <3>1, <3>2, <3>3, <3>4
  <2>3. Len(prefixes) \in Nat /\ Q \in SUBSET Nat
    OBVIOUS
  <2>4. 0 .. Len(prefixes) \subseteq Q
    <3> HIDE DEF Q
    <3> QED BY <2>1, <2>2, <2>3, EachTurn
  <2>5. g[Len(prefixes)] = f[Len(prefixes)]
    BY <2>3, <2>4
  <2>6. QED
    BY <1>3, <2>5
<1>7. QED
  BY <1>5, <1>6 DEF Indexes

\* How far the descent says any edge agrees with the prompt is how far a stored
\* prefix does, and no other agrees further.
LEMMA CommonIs ==
    ASSUME NEW S, NEW prefixes \in Seq(Seq(S) \ {<<>>}), NEW T, Indexes(T, S, prefixes),
           NEW s \in Seq(S)
    PROVE  /\ Longest(T, s).common \in Nat
           /\ \A i \in DOMAIN prefixes : Shared(prefixes[i], s) <= Longest(T, s).common
           /\ \/ Longest(T, s).common = 0
              \/ \E i \in DOMAIN prefixes : Shared(prefixes[i], s) = Longest(T, s).common
<1> DEFINE e == Descent(T, s).node
           c == Child(T, e, s)
           common == IF HasChild(T, e, s) THEN Shared(c, s) ELSE Len(e)
<1>1. Longest(T, s).common = common
  BY DEF Longest
<1>2. Tree(T, S)
  BY DEF Indexes, Has
<1>3. e \in DOMAIN T /\ Under(e, s) /\ ~GoesOn(T, e, s)
  BY <1>2, DescentIs
<1> HIDE DEF e
<1>4. e \in Seq(S) /\ Len(e) \in Nat /\ Len(s) \in Nat /\ DOMAIN T \subseteq Seq(S)
  BY <1>2, <1>3 DEF Tree
<1>5. \A i \in DOMAIN prefixes : prefixes[i] \in DOMAIN T
  BY DEF Indexes, Has
<1>6. ASSUME NEW p \in DOMAIN T, T[p].checkpoint # 0
      PROVE  \E i \in DOMAIN prefixes : prefixes[i] = p
  BY <1>6 DEF Indexes, Has
\* A prefix that agrees with the prompt beyond the node goes on from it like the prompt.
<1>7. ASSUME NEW q \in DOMAIN T, Len(e) < Shared(q, s)
      PROVE  HasChild(T, e, s) /\ Under(c, q)
  <2>1. /\ q \in Seq(S) /\ Len(q) \in Nat
        /\ Shared(q, s) \in Nat /\ Shared(q, s) <= Len(q) /\ Shared(q, s) <= Len(s)
        /\ \A i \in 1 .. Shared(q, s) : q[i] = s[i]
    BY <1>4, SharedIs
  <2>2. Under(e, q) /\ Len(e) < Len(q) /\ Len(e) < Len(s) /\ q[Len(e) + 1] = s[Len(e) + 1]
    <3>1. Len(e) < Len(q) /\ Len(e) < Len(s) /\ Len(e) + 1 \in 1 .. Shared(q, s)
      BY <1>4, <1>7, <2>1
    <3>2. \A i \in 1 .. Len(e) : i \in 1 .. Shared(q, s) /\ e[i] = s[i]
      BY <1>3, <1>4, <1>7, <2>1 DEF Under
    <3>3. Under(e, q)
      BY <2>1, <3>1, <3>2 DEF Under
    <3>4. QED
      BY <2>1, <3>1, <3>3
  <2>3. QED
    BY <1>2, <1>3, <2>2 DEF Tree, Radix, HasChild, Child
<1>8. CASE HasChild(T, e, s)
  <2>1. c \in DOMAIN T /\ c \in Seq(S) /\ Under(e, c) /\ Len(e) < Len(c) /\ ~Under(c, s)
        /\ Len(c) \in Nat
    <3>1. /\ c \in DOMAIN T /\ c \in Seq(S) /\ Under(e, c) /\ Len(e) < Len(c)
          /\ GoesOn(T, e, s) <=> Under(c, s)
      BY <1>2, <1>3, <1>8, ChildIs
    <3>2. QED
      BY <1>3, <3>1
  <2> HIDE DEF c
  <2>2. /\ common = Shared(c, s) /\ common \in 0 .. Len(c) /\ common <= Len(s)
        /\ \A i \in 1 .. common : c[i] = s[i]
        /\ common < Len(c) /\ common < Len(s) => c[common + 1] # s[common + 1]
    BY <1>8, <2>1, SharedIs
  <2> HIDE DEF common
  <2>3. common < Len(c)
    BY <2>1, <2>2 DEF Under
  <2>4. ASSUME NEW q \in DOMAIN T, Under(c, q)
        PROVE  Shared(q, s) = common
    <3>1. q \in Seq(S) /\ Len(q) \in Nat /\ Len(c) <= Len(q)
      BY <1>4, <2>4 DEF Under
    <3>2. \A i \in 1 .. common : q[i] = s[i]
      BY <2>1, <2>2, <2>4, <3>1 DEF Under
    <3>3. common < Len(s) => q[common + 1] # s[common + 1]
      <4>1. common + 1 \in 1 .. Len(c)
        BY <2>1, <2>2, <2>3
      <4>2. c[common + 1] = q[common + 1]
        BY <2>4, <4>1 DEF Under
      <4>3. QED
        BY <2>2, <2>3, <4>2
    <3>4. common \in Nat /\ common <= Len(q) /\ common <= Len(s)
      BY <2>1, <2>2, <2>3, <3>1
    <3>5. QED
      BY <3>1, <3>2, <3>3, <3>4, SharedUnique
  <2>5. Len(e) < common
    <3>1. \A i \in 1 .. Len(e) : c[i] = s[i]
      BY <1>3, <2>1, <1>4 DEF Under
    <3>2. c[Len(e) + 1] = s[Len(e) + 1]
      BY <1>2, <1>3, <1>8 DEF Tree, Children, HasChild, Child, c
    <3>3. Len(e) < Len(s)
      BY <1>8 DEF HasChild
    <3>4. SUFFICES ASSUME common <= Len(e) PROVE FALSE
      BY <1>4, <2>2
    <3>5. common + 1 \in 1 .. Len(e) + 1 /\ c[common + 1] # s[common + 1]
      BY <1>4, <2>2, <2>3, <3>3, <3>4
    <3>6. QED
      BY <1>4, <3>1, <3>2, <3>5
  <2>6. \A i \in DOMAIN prefixes : Shared(prefixes[i], s) <= common
    <3> TAKE i \in DOMAIN prefixes
    <3>1. prefixes[i] \in DOMAIN T /\ Shared(prefixes[i], s) \in Nat
      BY <1>4, <1>5, SharedIs
    <3>2. CASE Len(e) < Shared(prefixes[i], s)
      BY <1>7, <2>2, <2>4, <3>1, <3>2
    <3>3. CASE ~(Len(e) < Shared(prefixes[i], s))
      BY <1>4, <2>2, <2>5, <3>1, <3>3
    <3>4. QED
      BY <3>2, <3>3
  <2>7. \E i \in DOMAIN prefixes : Shared(prefixes[i], s) = common
    <3>1. c # <<>>
      BY <1>4, <2>1
    <3>2. PICK q \in DOMAIN T : Under(c, q) /\ T[q].checkpoint # 0
      BY <1>2, <2>1, <3>1 DEF Tree, Purposeful
    <3>3. QED
      BY <1>6, <2>4, <3>2
  <2>8. QED
    BY <1>1, <2>2, <2>6, <2>7
<1>9. CASE ~HasChild(T, e, s)
  <2>1. common = Len(e)
    BY <1>9
  <2>2. \A i \in DOMAIN prefixes : Shared(prefixes[i], s) <= Len(e)
    <3> TAKE i \in DOMAIN prefixes
    <3>1. prefixes[i] \in DOMAIN T /\ Shared(prefixes[i], s) \in Nat
      BY <1>4, <1>5, SharedIs
    <3>2. ~(Len(e) < Shared(prefixes[i], s))
      BY <1>7, <1>9, <3>1
    <3>3. QED
      BY <1>4, <3>1, <3>2
  <2>3. CASE e # <<>>
    <3>1. PICK q \in DOMAIN T : Under(e, q) /\ T[q].checkpoint # 0
      BY <1>2, <1>3, <2>3 DEF Tree, Purposeful
    <3>2. /\ q \in Seq(S) /\ Len(q) \in Nat /\ Len(e) <= Len(q) /\ Len(e) <= Len(s)
          /\ \A i \in 1 .. Len(e) : q[i] = s[i]
      BY <1>3, <1>4, <3>1 DEF Under
    <3>3. Len(e) < Len(q) /\ Len(e) < Len(s) => q[Len(e) + 1] # s[Len(e) + 1]
      BY <1>2, <1>3, <1>9, <3>1 DEF Tree, Radix, HasChild
    <3>4. Shared(q, s) = Len(e)
      BY <1>4, <3>2, <3>3, SharedUnique
    <3>5. QED
      BY <1>1, <1>4, <1>6, <2>1, <2>2, <3>1, <3>4
  <2>4. CASE e = <<>>
    BY <1>1, <2>1, <2>2, <2>4
  <2>5. QED
    BY <2>3, <2>4
<1>10. QED
  BY <1>8, <1>9

\* The lengths of the stored proper prefixes of a prompt.
StoredBefore(prefixes, s) ==
    {n \in 1 .. Len(s) - 1 : \E i \in DOMAIN prefixes : prefixes[i] = SubSeq(s, 1, n)}

\* The checkpoint of the longest of them, and the longest agreement with any.
Finds(found, prefixes, s) ==
    LET stored == StoredBefore(prefixes, s)
    IN  /\ stored = {} => found.checkpoint = 0
        /\ stored # {} =>
               /\ Max(stored) \in stored /\ found.checkpoint \in DOMAIN prefixes
               /\ prefixes[found.checkpoint] = SubSeq(s, 1, Max(stored))
        /\ found.common = Max({0} \union {Shared(prefixes[i], s) : i \in DOMAIN prefixes})

\* longest_session_checkpoint() finds the longest stored proper prefix of a
\* prompt, and how far any stored prefix agrees with it.
THEOREM LongestIs ==
    ASSUME NEW S, NEW prefixes \in Seq(Seq(S) \ {<<>>}), NEW T, Indexes(T, S, prefixes),
           NEW s \in Seq(S)
    PROVE  Finds(Longest(T, s), prefixes, s)
<1> DEFINE best == Descent(T, s).best
           stored == StoredBefore(prefixes, s)
<1>1. Longest(T, s).checkpoint = best
  BY DEF Longest
<1>2. Tree(T, S)
  BY DEF Indexes, Has
<1>3. /\ (\E p : Candidate(T, s, p)) => best # 0
      /\ best # 0 => \E b : /\ Candidate(T, s, b) /\ best = T[b].checkpoint
                            /\ \A p : Candidate(T, s, p) => Len(p) <= Len(b)
  BY <1>2, DescentIs
<1> HIDE DEF best, stored
<1>4. ASSUME NEW n \in stored
      PROVE  Candidate(T, s, SubSeq(s, 1, n)) /\ Len(SubSeq(s, 1, n)) = n
  <2>1. n \in 1 .. Len(s) - 1 /\ n \in 0 .. Len(s) /\ Len(s) \in Nat
    BY <1>4 DEF stored, StoredBefore
  <2>2. Len(SubSeq(s, 1, n)) = n /\ Under(SubSeq(s, 1, n), s)
    BY <2>1, UnderIsSubSeq
  <2>3. PICK i \in DOMAIN prefixes : prefixes[i] = SubSeq(s, 1, n)
    BY <1>4 DEF stored, StoredBefore
  <2>4. prefixes[i] \in DOMAIN T /\ T[prefixes[i]].checkpoint # 0
    <3>1. i \in 1 .. Len(prefixes) /\ i # 0
      OBVIOUS
    <3>2. QED
      BY <3>1 DEF Indexes, Has
  <2>5. QED
    BY <2>1, <2>2, <2>3, <2>4 DEF Candidate
<1>5. ASSUME NEW b, Candidate(T, s, b)
      PROVE  /\ Len(b) \in stored /\ b = SubSeq(s, 1, Len(b))
             /\ T[b].checkpoint \in DOMAIN prefixes /\ prefixes[T[b].checkpoint] = b
  <2>1. T[b].checkpoint \in DOMAIN prefixes /\ prefixes[T[b].checkpoint] = b
    BY <1>5 DEF Candidate, Indexes, Has
  <2>2. b \in Seq(S) \ {<<>>} /\ Under(b, s) /\ Len(b) < Len(s)
    <3> DEFINE i == T[b].checkpoint
    <3> HIDE DEF i
    <3>1. b \in Seq(S) \ {<<>>}
      <4>1. i \in DOMAIN prefixes /\ prefixes[i] = b
        BY <2>1 DEF i
      <4>2. prefixes[i] \in Seq(S) \ {<<>>}
        BY <4>1
      <4>3. QED
        BY <4>1, <4>2
    <3>2. QED
      BY <1>5, <3>1 DEF Candidate
  <2>3. Len(b) \in 1 .. Len(s) - 1 /\ Len(b) \in 0 .. Len(s)
    BY <2>2
  <2>4. /\ SubSeq(s, 1, Len(b)) \in Seq(S) /\ Len(SubSeq(s, 1, Len(b))) = Len(b)
        /\ \A i \in 1 .. Len(b) : SubSeq(s, 1, Len(b))[i] = s[i]
    BY <2>3, UnderIsSubSeq
  <2>5. b = SubSeq(s, 1, Len(b))
    BY <2>2, <2>4, SeqEqual DEF Under
  <2>6. QED
    BY <2>1, <2>3, <2>5 DEF stored, StoredBefore
<1>6. ASSUME stored = {}
      PROVE  Longest(T, s).checkpoint = 0
  <2>1. \A p : ~Candidate(T, s, p)
    BY <1>5, <1>6
  <2>2. QED
    BY <1>1, <1>3, <2>1
<1>7. ASSUME stored # {}
      PROVE  /\ Max(stored) \in stored /\ Longest(T, s).checkpoint \in DOMAIN prefixes
             /\ prefixes[Longest(T, s).checkpoint] = SubSeq(s, 1, Max(stored))
  <2>1. best # 0
    BY <1>3, <1>4, <1>7
  <2>2. PICK b : /\ Candidate(T, s, b) /\ best = T[b].checkpoint
                 /\ \A p : Candidate(T, s, p) => Len(p) <= Len(b)
    BY <1>3, <2>1
  <2>3. \A n \in stored : n <= Len(b)
    BY <1>4, <2>2
  <2>4. Max(stored) = Len(b)
    <3>1. stored \in SUBSET Nat /\ Len(b) \in stored
      BY <1>5, <2>2 DEF stored, StoredBefore
    <3>2. QED
      BY <2>3, <3>1, MaxIs
  <2>5. QED
    BY <1>1, <1>5, <2>2, <2>4
<1>8. Longest(T, s).common
          = Max({0} \union {Shared(prefixes[i], s) : i \in DOMAIN prefixes})
  <2> DEFINE common == Longest(T, s).common
             shared == {0} \union {Shared(prefixes[i], s) : i \in DOMAIN prefixes}
  <2>1. /\ common \in Nat /\ \A i \in DOMAIN prefixes : Shared(prefixes[i], s) <= common
        /\ common = 0 \/ \E i \in DOMAIN prefixes : Shared(prefixes[i], s) = common
    BY CommonIs
  <2>2. \A i \in DOMAIN prefixes : Shared(prefixes[i], s) \in Nat
    <3> TAKE i \in DOMAIN prefixes
    <3>1. prefixes[i] \in Seq(S)
      OBVIOUS
    <3>2. QED
      BY <3>1, SharedIs
  <2> HIDE DEF common
  <2>3. shared \in SUBSET Nat /\ common \in shared /\ \A y \in shared : y <= common
    BY <2>1, <2>2
  <2> HIDE DEF shared
  <2>4. Max(shared) = common
    BY <2>3, MaxIs
  <2>5. QED
    BY <2>4 DEF shared, common
<1>9. QED
  BY <1>6, <1>7, <1>8 DEF stored, Finds

-----------------------------------------------------------------------------
(* The inductive invariant of the session.                                 *)

\* What the device may hold.
Fed == Token \union {"g", "?"}
Device ==
    [state : Seq(Fed), kv : Seq(Fed), scalar : BOOLEAN, misread : SUBSET {"rows", "weights"}]

\* A checkpoint has the state and the rows of its tokens, and was taken at a
\* boundary.
Entry ==
    {c \in [tokens : Seq(Token) \ {<<>>}, bytes : Nat, saved : Device] :
        /\ c.bytes = StorageBytes(Len(c.tokens))
        /\ Len(c.tokens) % Full = 0
        /\ c.saved.state = c.tokens /\ c.saved.kv = c.tokens /\ ~c.saved.scalar}

\* How many bytes each takes.
BytesOf(entries) == [i \in DOMAIN entries |-> entries[i].bytes]

\* Checkpoints of different tokens, their order of use and their bytes.
Coherent(entries, order, size) ==
    /\ entries \in Seq(Entry)
    /\ Distinct(PrefixesOf(entries))
    /\ order \in Seq(Seq(Token) \ {<<>>}) /\ Distinct(order)
    /\ ToSet(order) = ToSet(PrefixesOf(entries)) /\ Len(order) = Len(entries)
    /\ size = Total(BytesOf(entries))

\* Such a cache, indexed and within its limits.
Cached(entries, order, tree, size) ==
    /\ Coherent(entries, order, size)
    /\ Indexes(tree, Token, PrefixesOf(entries))
    /\ size <= Budget /\ Len(entries) <= MaxCheckpoints

CacheInv == Cached(checkpoints, recency, root, bytes)

\* What the scratch buffers and the references of the layers may be.
WeightStates ==
    [scratch : [Groups -> Sizes \union {None}],
     content : [Groups -> [Sizes -> DOMAIN Layers \union {None}]],
     held : [DOMAIN Layers -> [Groups -> Sizes \union {None}]]]

\* What reuse, prompt, reused and base of the call in progress may be.
CallInv ==
    /\ phase \in {"idle", "prefill", "decode"}
    /\ environment \in Environments
    /\ live \in Device /\ reuse \in BOOLEAN
    /\ phase # "idle" => prompt \in Prompts

\* The tokens the device has taken are the first of the prompt.
PrefillInv ==
    phase = "prefill" =>
        /\ base \in 0 .. Len(prompt)
        /\ live.state = SubSeq(prompt, 1, base)
        /\ base <= Len(live.kv) /\ SubSeq(live.kv, 1, base) = SubSeq(prompt, 1, base)

\* A call decodes from its whole prompt.
DecodeInv ==
    phase = "decode" =>
        /\ Len(prompt) <= Len(live.state) /\ SubSeq(live.state, 1, Len(prompt)) = prompt
        /\ Len(live.state) <= Len(live.kv) /\ SubSeq(live.kv, 1, Len(prompt)) = prompt

\* Once tokens went through a layer one by one what is left is no full chunk.
ScalarInv ==
    phase = "prefill" /\ live.scalar => Left < Full /\ (Remainder => Left < Wide)

\* A prompt is processed in whole chunks up to the last, which may be split.
Aligned(n, chunk, length) ==
    \E k \in 0 .. n : chunk * k <= n /\ (n = chunk * k \/ length <= chunk * (k + 1))

\* While the engine prefills, base is where such chunks lead.
AlignedInv ==
    phase = "prefill" /\ Full % environment.chunk = 0 =>
        Aligned(base, environment.chunk, Len(prompt))

\* What a call resumed from is lost only where it and what the call captures
\* have no room together.
RestorePoint(entries, n) ==
    /\ reused \in Seq(Token) /\ Len(reused) <= n
    /\ \/ \E i \in DOMAIN entries : entries[i].tokens = reused
       \/ /\ Len(entries) <= 1
          /\ \A i \in DOMAIN entries : Len(reused) <= Len(entries[i].tokens)
          /\ MaxCheckpoints = 1 \/ StorageBytes(Len(reused)) + StorageBytes(n) > Budget

\* What was resumed from is there until the prompt is processed.
ReusedInv == phase = "prefill" /\ reused # <<>> => RestorePoint(checkpoints, base)

\* Neither the device nor a checkpoint has anything made with such a fault.
Without(fault, device, entries) ==
    /\ fault \notin device.misread
    /\ \A i \in DOMAIN entries : fault \notin entries[i].saved.misread

\* With whole chunks of kFullPrefillCapacity tokens no rows are missed.
RowsInv ==
    environment.scheduler \notin {"partial", "compose"} /\ environment.chunk = Full =>
        Without("rows", live, checkpoints)

\* No layer holds anything, and nothing was multiplied by the wrong weights,
\* unless a call was left on the way.
WeightsInv ==
    /\ weights \in WeightStates /\ abandoned \in BOOLEAN
    /\ phase = "decode" \/ (phase = "prefill" /\ Left = 0) \/ ~abandoned => NothingHeld(weights)
    /\ ~abandoned \/ environment.resident = Groups => Without("weights", live, checkpoints)

IInv ==
    /\ CacheInv /\ CallInv /\ PrefillInv /\ DecodeInv /\ ScalarInv /\ AlignedInv
    /\ ReusedInv /\ RowsInv /\ WeightsInv

-----------------------------------------------------------------------------
\* Sums of sequences of numbers.
LEMMA TotalUpTo ==
    ASSUME NEW s \in Seq(Nat)
    PROVE  \E f : /\ f[0] = 0
                  /\ \A n \in 1 .. Len(s) : f[n] = f[n - 1] + s[n]
                  /\ \A n \in 0 .. Len(s) : f[n] \in Nat
                  /\ Total(s) = f[Len(s)]
<1> DEFINE P == {n \in Nat : n <= Len(s) =>
                     \E f : f = [i \in 0 .. n |-> IF i = 0 THEN 0 ELSE f[i - 1] + s[i]]}
<1>1. 0 \in P
  <2> DEFINE f == [i \in 0 .. 0 |-> 0]
  <2>1. f = [i \in 0 .. 0 |-> IF i = 0 THEN 0 ELSE f[i - 1] + s[i]]
    OBVIOUS
  <2>2. QED
    BY <2>1
<1>2. \A n \in 1 .. Len(s) : n - 1 \in P => n \in P
  <2> TAKE n \in 1 .. Len(s)
  <2> HAVE n - 1 \in P
  <2>1. PICK f : f = [i \in 0 .. n - 1 |-> IF i = 0 THEN 0 ELSE f[i - 1] + s[i]]
    OBVIOUS
  <2> DEFINE g == [i \in 0 .. n |-> IF i = n THEN f[n - 1] + s[n] ELSE f[i]]
  <2>2. \A i \in 0 .. n : g[i] = IF i = 0 THEN 0 ELSE g[i - 1] + s[i]
    <3> TAKE i \in 0 .. n
    <3>1. CASE i = n
      <4>1. g[n] = f[n - 1] + s[n] /\ g[n - 1] = f[n - 1]
        OBVIOUS
      <4>2. QED
        BY <3>1, <4>1
    <3>2. CASE i # n /\ i # 0
      <4>1. g[i] = f[i] /\ g[i - 1] = f[i - 1] /\ f[i] = f[i - 1] + s[i]
        BY <3>2, <2>1
      <4>2. QED
        BY <3>2, <4>1
    <3>3. CASE i # n /\ i = 0
      BY <3>3, <2>1
    <3>4. QED
      BY <3>1, <3>2, <3>3
  <2>3. g = [i \in 0 .. n |-> IF i = 0 THEN 0 ELSE g[i - 1] + s[i]]
    BY <2>2
  <2> HIDE DEF g
  <2>4. n \in Nat
    OBVIOUS
  <2> QED BY <2>3, <2>4
<1>3. Len(s) \in Nat /\ P \in SUBSET Nat
  OBVIOUS
<1>4. \E f : f = [i \in 0 .. Len(s) |-> IF i = 0 THEN 0 ELSE f[i - 1] + s[i]]
  <2>1. 0 .. Len(s) \subseteq P
    <3> HIDE DEF P
    <3> QED BY <1>1, <1>2, <1>3, EachTurn
  <2>2. Len(s) \in P
    BY <1>3, <2>1
  <2>3. QED
    BY <2>2
<1> DEFINE g == CHOOSE f : f = [i \in 0 .. Len(s) |-> IF i = 0 THEN 0 ELSE f[i - 1] + s[i]]
<1>5. g = [i \in 0 .. Len(s) |-> IF i = 0 THEN 0 ELSE g[i - 1] + s[i]]
  BY <1>4
<1>6. Total(s) = g[Len(s)]
  BY DEF Total
<1> HIDE DEF g
<1>7. g[0] = 0 /\ \A n \in 1 .. Len(s) : g[n] = g[n - 1] + s[n]
  BY <1>5
<1>8. \A n \in 0 .. Len(s) : g[n] \in Nat
  <2> DEFINE Q == {n \in Nat : g[n] \in Nat}
  <2>1. 0 \in Q
    BY <1>7
  <2>2. \A n \in 1 .. Len(s) : n - 1 \in Q => n \in Q
    BY <1>7
  <2>3. 0 .. Len(s) \subseteq Q
    <3> HIDE DEF Q
    <3>1. Q \in SUBSET Nat
      BY DEF Q
    <3> QED BY <1>3, <2>1, <2>2, <3>1, EachTurn
  <2>4. QED
    BY <2>3
<1>9. QED
  BY <1>6, <1>7, <1>8

\* The sum of no numbers, and of any.
LEMMA TotalNone ==
    /\ Total(<<>>) = 0
    /\ \A s \in Seq(Nat) : Total(s) \in Nat
<1>1. <<>> \in Seq(Nat) /\ Len(<<>>) = 0
  OBVIOUS
<1>2. Total(<<>>) = 0
  BY <1>1, TotalUpTo
<1>3. ASSUME NEW s \in Seq(Nat)
      PROVE  Total(s) \in Nat
  <2>1. PICK f : (\A n \in 0 .. Len(s) : f[n] \in Nat) /\ Total(s) = f[Len(s)]
    BY TotalUpTo
  <2>2. QED
    BY <2>1
<1>4. QED
  BY <1>2, <1>3

\* One number more.
LEMMA TotalAppend ==
    ASSUME NEW s \in Seq(Nat), NEW x \in Nat
    PROVE  Total(Append(s, x)) = Total(s) + x
<1> DEFINE t == Append(s, x)
<1>1. /\ t \in Seq(Nat) /\ Len(t) = Len(s) + 1 /\ t[Len(s) + 1] = x
      /\ \A n \in 1 .. Len(s) : t[n] = s[n]
      /\ Len(s) \in Nat
  OBVIOUS
<1> HIDE DEF t
<1>2. PICK f : /\ f[0] = 0 /\ \A n \in 1 .. Len(s) : f[n] = f[n - 1] + s[n]
               /\ Total(s) = f[Len(s)]
  BY TotalUpTo
<1>3. PICK g : /\ g[0] = 0 /\ \A n \in 1 .. Len(t) : g[n] = g[n - 1] + t[n]
               /\ Total(t) = g[Len(t)]
  BY <1>1, TotalUpTo
<1> DEFINE P == {n \in Nat : n <= Len(s) => g[n] = f[n]}
<1>4. 0 \in P
  BY <1>2, <1>3
<1>5. \A n \in 1 .. Len(s) : n - 1 \in P => n \in P
  <2> TAKE n \in 1 .. Len(s)
  <2> HAVE n - 1 \in P
  <2>1. f[n] = f[n - 1] + s[n] /\ g[n] = g[n - 1] + s[n] /\ g[n - 1] = f[n - 1]
    BY <1>1, <1>2, <1>3
  <2>2. QED
    BY <2>1
<1>6. g[Len(s)] = f[Len(s)]
  <2>1. 0 .. Len(s) \subseteq P
    <3> HIDE DEF P
    <3>1. P \in SUBSET Nat
      BY DEF P
    <3> QED BY <1>1, <1>4, <1>5, <3>1, EachTurn
  <2>2. Len(s) \in P
    BY <1>1, <2>1
  <2>3. QED
    BY <1>1, <2>2
<1>7. g[Len(s) + 1] = g[Len(s)] + x
  BY <1>1, <1>3
<1>8. QED
  BY <1>1, <1>2, <1>3, <1>6, <1>7 DEF t

\* A sequence without one of its elements.
LEMMA RemoveAtIs ==
    ASSUME NEW S, NEW s \in Seq(S), NEW i \in 1 .. Len(s)
    PROVE  /\ RemoveAt(s, i) \in Seq(S) /\ Len(RemoveAt(s, i)) = Len(s) - 1
           /\ \A j \in 1 .. Len(s) - 1 :
                  RemoveAt(s, i)[j] = IF j < i THEN s[j] ELSE s[j + 1]
<1> DEFINE a == SubSeq(s, 1, i - 1)
           b == SubSeq(s, i + 1, Len(s))
<1>1. a \in Seq(S) /\ Len(a) = i - 1 /\ \A j \in 1 .. i - 1 : a[j] = s[j]
  <2>1. i - 1 \in 0 .. Len(s)
    OBVIOUS
  <2>2. QED
    BY <2>1, UnderIsSubSeq
<1>2. b \in Seq(S) /\ Len(b) = Len(s) - i /\ \A j \in 1 .. Len(s) - i : b[j] = s[i + j]
  <2>1. b \in Seq(S)
    BY SubSeqProperties
  <2>2. Len(b) = Len(s) - i
    BY SubSeqProperties
  <2>3. \A j \in 1 .. Len(s) - i : b[j] = s[i + j]
    BY <2>2, SubSeqProperties
  <2>4. QED
    BY <2>1, <2>2, <2>3
<1> HIDE DEF a, b
<1>3. RemoveAt(s, i) = a \o b
  BY DEF RemoveAt, a, b
<1>4. /\ a \o b \in Seq(S) /\ Len(a \o b) = Len(a) + Len(b)
      /\ \A j \in 1 .. Len(a) + Len(b) : (a \o b)[j] = IF j <= Len(a) THEN a[j] ELSE b[j - Len(a)]
  BY <1>1, <1>2, ConcatProperties
<1>5. \A j \in 1 .. Len(s) - 1 : (a \o b)[j] = IF j < i THEN s[j] ELSE s[j + 1]
  <2> TAKE j \in 1 .. Len(s) - 1
  <2>1. CASE j < i
    BY <1>1, <1>2, <1>4, <2>1
  <2>2. CASE j >= i
    <3>1. j - (i - 1) \in 1 .. Len(s) - i /\ j \in 1 .. Len(a) + Len(b) /\ ~(j <= Len(a))
      BY <1>1, <1>2, <2>2
    <3>2. (a \o b)[j] = b[j - (i - 1)]
      BY <1>1, <1>4, <3>1
    <3>3. b[j - (i - 1)] = s[i + (j - (i - 1))] /\ i + (j - (i - 1)) = j + 1
      BY <1>2, <3>1
    <3>4. QED
      BY <2>2, <3>2, <3>3
  <2>3. j < i \/ j >= i
    OBVIOUS
  <2>4. QED
    BY <2>1, <2>2, <2>3
<1>6. QED
  BY <1>1, <1>2, <1>3, <1>4, <1>5

\* One number less.
LEMMA TotalRemoveAt ==
    ASSUME NEW s \in Seq(Nat), NEW i \in 1 .. Len(s)
    PROVE  Total(RemoveAt(s, i)) = Total(s) - s[i]
<1> DEFINE t == RemoveAt(s, i)
<1>1. /\ t \in Seq(Nat) /\ Len(t) = Len(s) - 1 /\ Len(s) \in Nat
      /\ \A j \in 1 .. Len(s) - 1 : t[j] = IF j < i THEN s[j] ELSE s[j + 1]
  BY RemoveAtIs
<1> HIDE DEF t
<1>2. PICK f : /\ f[0] = 0 /\ \A n \in 1 .. Len(s) : f[n] = f[n - 1] + s[n]
               /\ \A n \in 0 .. Len(s) : f[n] \in Nat
               /\ Total(s) = f[Len(s)]
  BY TotalUpTo
<1>3. PICK g : /\ g[0] = 0 /\ \A n \in 1 .. Len(t) : g[n] = g[n - 1] + t[n]
               /\ \A n \in 0 .. Len(t) : g[n] \in Nat
               /\ Total(t) = g[Len(t)]
  BY <1>1, TotalUpTo
<1> DEFINE P == {n \in Nat : n <= Len(s) - 1 =>
                     g[n] = IF n < i THEN f[n] ELSE f[n + 1] - s[i]}
<1>4. 0 \in P
  BY <1>2, <1>3
<1>5. \A n \in 1 .. Len(s) - 1 : n - 1 \in P => n \in P
  <2> TAKE n \in 1 .. Len(s) - 1
  <2> HAVE n - 1 \in P
  <2>0. /\ n \in 1 .. Len(s) /\ n + 1 \in 1 .. Len(s) /\ n \in 1 .. Len(t)
        /\ n - 1 \in 0 .. Len(s)
        /\ s[i] \in Nat /\ s[n] \in Nat /\ s[n + 1] \in Nat
    <3>1. /\ n \in 1 .. Len(s) /\ n + 1 \in 1 .. Len(s) /\ n \in 1 .. Len(t)
          /\ n - 1 \in 0 .. Len(s)
      BY <1>1
    <3>2. \A j \in 1 .. Len(s) : s[j] \in Nat
      BY ElementOfSeq
    <3>3. s[i] \in Nat /\ s[n] \in Nat /\ s[n + 1] \in Nat
      BY <3>1, <3>2
    <3>4. QED
      BY <3>1, <3>3
  <2>1. f[n] = f[n - 1] + s[n] /\ f[n + 1] = f[n] + s[n + 1] /\ g[n] = g[n - 1] + t[n]
        /\ f[n] \in Nat /\ f[n - 1] \in Nat
    BY <1>2, <1>3, <2>0
  <2>2. g[n - 1] = IF n - 1 < i THEN f[n - 1] ELSE f[n] - s[i]
    BY <2>0
  <2>3. t[n] = IF n < i THEN s[n] ELSE s[n + 1]
    BY <1>1
  <2>4. CASE n < i
    BY <2>0, <2>1, <2>2, <2>3, <2>4
  <2>5. CASE n = i
    <3>1. g[n - 1] = f[n - 1] /\ t[n] = s[n + 1] /\ s[n] = s[i]
      BY <2>0, <2>2, <2>3, <2>5
    <3>2. g[n] = f[n + 1] - s[i]
      <4>1. f[n + 1] = f[n] + s[n + 1] /\ g[n] = g[n - 1] + s[n + 1]
        BY <2>1, <3>1
      <4>2. f[n] = f[n - 1] + s[n]
        BY <2>1
      <4>3. g[n - 1] = f[n] - s[i]
        <5> DEFINE d == f[n - 1]
                   v == s[i]
        <5>1. d \in Nat /\ v \in Nat /\ f[n] = d + v /\ g[n - 1] = d
          BY <2>0, <2>1, <3>1, <4>2
        <5> HIDE DEF d, v
        <5>2. g[n - 1] = f[n] - v
          BY <5>1
        <5>3. QED
          BY <5>2 DEF v
      <4> DEFINE d == f[n]
                 u == s[n + 1]
                 v == s[i]
      <4>4. d \in Nat /\ u \in Nat /\ v \in Nat
        BY <2>0, <2>1
      <4>5. f[n + 1] = d + u /\ g[n] = (d - v) + u
        BY <4>1, <4>3
      <4> HIDE DEF d, u, v
      <4>6. g[n] = f[n + 1] - v
        BY <4>4, <4>5
      <4>7. QED
        BY <4>6 DEF v
    <3>3. QED
      BY <2>0, <2>5, <3>2
  <2>6. CASE n > i
    <3>1. g[n - 1] = f[n] - s[i] /\ t[n] = s[n + 1]
      BY <2>0, <2>2, <2>3, <2>6
    <3>2. g[n] = f[n + 1] - s[i]
      <4>1. f[n + 1] = f[n] + s[n + 1] /\ g[n] = g[n - 1] + s[n + 1]
        BY <2>1, <3>1
      <4>2. f[n] = f[n - 1] + s[n]
        BY <2>1
      <4>3. g[n - 1] = f[n] - s[i]
        BY <2>0, <2>1, <3>1, <4>2
      <4> DEFINE d == f[n]
                 u == s[n + 1]
                 v == s[i]
      <4>4. d \in Nat /\ u \in Nat /\ v \in Nat
        BY <2>0, <2>1
      <4>5. f[n + 1] = d + u /\ g[n] = (d - v) + u
        BY <4>1, <4>3
      <4> HIDE DEF d, u, v
      <4>6. g[n] = f[n + 1] - v
        BY <4>4, <4>5
      <4>7. QED
        BY <4>6 DEF v
    <3>3. QED
      BY <2>0, <2>6, <3>2
  <2>7. QED
    BY <2>4, <2>5, <2>6
<1>6. g[Len(s) - 1] = f[Len(s)] - s[i]
  <2>1. 0 .. Len(s) - 1 \subseteq P
    <3> HIDE DEF P
    <3>1. P \in SUBSET Nat /\ Len(s) - 1 \in Nat
      BY DEF P
    <3> QED BY <1>4, <1>5, <3>1, EachTurn
  <2>2. Len(s) - 1 \in P
    <3>1. Len(s) - 1 \in 0 .. Len(s) - 1
      BY <1>1
    <3>2. QED
      BY <2>1, <3>1
  <2>3. g[Len(s) - 1] = IF Len(s) - 1 < i THEN f[Len(s) - 1] ELSE f[Len(s)] - s[i]
    BY <1>1, <2>2
  <2>4. f[Len(s)] = f[Len(s) - 1] + s[Len(s)] /\ s[Len(s)] \in Nat /\ f[Len(s) - 1] \in Nat
    <3>1. Len(s) \in 1 .. Len(s) /\ Len(s) - 1 \in 0 .. Len(s)
      BY <1>1
    <3>2. QED
      BY <1>2, <3>1
  <2>5. CASE Len(s) - 1 < i
    <3>1. i = Len(s)
      BY <1>1, <2>5
    <3>2. QED
      BY <2>3, <2>4, <2>5, <3>1
  <2>6. QED
    BY <2>3, <2>5
<1>7. QED
  BY <1>1, <1>2, <1>3, <1>6 DEF t

-----------------------------------------------------------------------------
\* Sequences without repetition.
LEMMA DistinctRemoveAt ==
    ASSUME NEW S, NEW s \in Seq(S), NEW i \in 1 .. Len(s), Distinct(s)
    PROVE  /\ Distinct(RemoveAt(s, i)) /\ ToSet(RemoveAt(s, i)) = ToSet(s) \ {s[i]}
<1> DEFINE t == RemoveAt(s, i)
<1>1. /\ t \in Seq(S) /\ Len(t) = Len(s) - 1 /\ Len(s) \in Nat
      /\ \A j \in 1 .. Len(s) - 1 : t[j] = IF j < i THEN s[j] ELSE s[j + 1]
  BY RemoveAtIs
<1> HIDE DEF t
<1>2. DOMAIN t = 1 .. Len(s) - 1 /\ DOMAIN s = 1 .. Len(s)
  BY <1>1
<1> DEFINE at(j) == IF j < i THEN j ELSE j + 1
<1>3. \A j \in DOMAIN t : at(j) \in DOMAIN s \ {i} /\ t[j] = s[at(j)]
  BY <1>1, <1>2
<1>4. \A j \in DOMAIN t, k \in DOMAIN t : at(j) = at(k) => j = k
  BY <1>1, <1>2
<1>5. \A k \in DOMAIN s \ {i} : \E j \in DOMAIN t : at(j) = k
  <2> TAKE k \in DOMAIN s \ {i}
  <2>1. CASE k < i
    BY <1>1, <1>2, <2>1
  <2>2. CASE k > i
    <3>1. k - 1 \in DOMAIN t /\ at(k - 1) = k
      BY <1>1, <1>2, <2>2
    <3>2. QED
      BY <3>1
  <2>3. k < i \/ k > i
    BY <1>1, <1>2
  <2>4. QED
    BY <2>1, <2>2, <2>3
<1> HIDE DEF at
<1>6. Distinct(t)
  BY <1>3, <1>4 DEF Distinct
<1>7. i \in DOMAIN s
  BY <1>2
<1>8. ToSet(t) = ToSet(s) \ {s[i]}
  <2>1. \A j \in DOMAIN t : t[j] \in ToSet(s) \ {s[i]}
    BY <1>3, <1>7 DEF Distinct, ToSet
  <2>2. \A k \in DOMAIN s : s[k] # s[i] => \E j \in DOMAIN t : t[j] = s[k]
    BY <1>3, <1>5
  <2>3. QED
    BY <2>1, <2>2 DEF ToSet
<1>9. QED
  BY <1>6, <1>8 DEF t

\* What is not in a sequence yet may follow it.
LEMMA DistinctAppend ==
    ASSUME NEW S, NEW s \in Seq(S), NEW x \in S, x \notin ToSet(s), Distinct(s)
    PROVE  /\ Append(s, x) \in Seq(S) /\ Len(Append(s, x)) = Len(s) + 1
           /\ Append(s, x)[Len(s) + 1] = x
           /\ Distinct(Append(s, x)) /\ ToSet(Append(s, x)) = ToSet(s) \union {x}
<1> DEFINE t == Append(s, x)
<1>1. /\ t \in Seq(S) /\ Len(t) = Len(s) + 1 /\ t[Len(s) + 1] = x /\ Len(s) \in Nat
      /\ \A n \in 1 .. Len(s) : t[n] = s[n]
      /\ DOMAIN s = 1 .. Len(s) /\ DOMAIN t = 1 .. Len(s) + 1
  OBVIOUS
<1> HIDE DEF t
<1>2. \A n \in DOMAIN s : s[n] # x
  BY DEF ToSet
<1>3. \A n \in DOMAIN t : (n \in DOMAIN s /\ t[n] = s[n]) \/ (n = Len(s) + 1 /\ t[n] = x)
  BY <1>1
<1>4. Distinct(t)
  BY <1>2, <1>3 DEF Distinct
<1>5. ToSet(t) = ToSet(s) \union {x}
  <2>1. \A n \in DOMAIN s : n \in DOMAIN t /\ t[n] = s[n]
    BY <1>1
  <2>2. Len(s) + 1 \in DOMAIN t
    BY <1>1
  <2>3. QED
    BY <1>1, <1>3, <2>1, <2>2 DEF ToSet
<1>6. QED
  BY <1>1, <1>4, <1>5 DEF t

\* touch_session_checkpoint() puts what is used last.
UsedAs(new, order, tokens) ==
    /\ Distinct(new) /\ ToSet(new) = ToSet(order) /\ Len(new) = Len(order)
    /\ tokens \in ToSet(order) => new # <<>> /\ new[Len(new)] = tokens

\* The moved tokens are the last and all others keep their order.
LEMMA UsedIs ==
    ASSUME NEW S, NEW order \in Seq(S), Distinct(order), NEW tokens
    PROVE  Used(order, tokens) \in Seq(S) /\ UsedAs(Used(order, tokens), order, tokens)
<1>1. CASE tokens \notin ToSet(order)
  BY <1>1 DEF Used, UsedAs
<1>2. CASE tokens \in ToSet(order)
  <2> DEFINE i == CHOOSE j \in DOMAIN order : order[j] = tokens
             rest == RemoveAt(order, i)
  <2>1. i \in 1 .. Len(order) /\ order[i] = tokens
    BY <1>2 DEF ToSet
  <2>2. tokens \in S
    BY <2>1
  <2>3. Used(order, tokens) = Append(rest, tokens)
    BY <1>2 DEF Used
  <2> HIDE DEF i
  <2>4. rest \in Seq(S) /\ Len(rest) = Len(order) - 1
    BY <2>1, RemoveAtIs
  <2>5. Distinct(rest) /\ ToSet(rest) = ToSet(order) \ {tokens}
    BY <2>1, DistinctRemoveAt
  <2> HIDE DEF rest
  <2>6. /\ Append(rest, tokens) \in Seq(S) /\ Len(Append(rest, tokens)) = Len(rest) + 1
        /\ Append(rest, tokens)[Len(rest) + 1] = tokens
        /\ Distinct(Append(rest, tokens))
        /\ ToSet(Append(rest, tokens)) = ToSet(rest) \union {tokens}
    BY <2>2, <2>4, <2>5, DistinctAppend
  <2>7. Len(order) \in Nat /\ Len(rest) \in Nat
    BY <2>4
  <2>8. Append(rest, tokens) # <<>>
    BY <2>4
  <2>9. QED
    BY <1>2, <2>3, <2>4, <2>5, <2>6, <2>7, <2>8 DEF UsedAs
<1>3. QED
  BY <1>1, <1>2

\* What the checkpoints are named by and how long they are.
LEMMA EntriesAre ==
    ASSUME NEW entries \in Seq(Entry)
    PROVE  /\ PrefixesOf(entries) \in Seq(Seq(Token) \ {<<>>})
           /\ Len(PrefixesOf(entries)) = Len(entries)
           /\ \A i \in 1 .. Len(entries) : PrefixesOf(entries)[i] = entries[i].tokens
           /\ BytesOf(entries) \in Seq(Nat) /\ Len(BytesOf(entries)) = Len(entries)
           /\ \A i \in 1 .. Len(entries) : BytesOf(entries)[i] = entries[i].bytes
<1>1. DOMAIN entries = 1 .. Len(entries) /\ Len(entries) \in Nat
  OBVIOUS
<1>2. \A i \in 1 .. Len(entries) :
          entries[i].tokens \in Seq(Token) \ {<<>>} /\ entries[i].bytes \in Nat
  <2> TAKE i \in 1 .. Len(entries)
  <2>1. entries[i] \in Entry
    BY ElementOfSeq
  <2>2. QED
    BY <2>1 DEF Entry
<1>3. PrefixesOf(entries) = [i \in 1 .. Len(entries) |-> entries[i].tokens]
  BY <1>1 DEF PrefixesOf
<1>4. BytesOf(entries) = [i \in 1 .. Len(entries) |-> entries[i].bytes]
  BY <1>1 DEF BytesOf
<1>5. PrefixesOf(entries) \in Seq(Seq(Token) \ {<<>>})
  BY <1>1, <1>2, <1>3, IsASeq
<1>6. BytesOf(entries) \in Seq(Nat)
  BY <1>1, <1>2, <1>4, IsASeq
<1>7. QED
  BY <1>1, <1>3, <1>4, <1>5, <1>6

\* evict_oldest_session_checkpoint() takes one checkpoint and its bytes away.
Subset(some, all) == \A i \in DOMAIN some : \E j \in DOMAIN all : some[i] = all[j]

EvictedOf(new, old) ==
    /\ Coherent(new.entries, new.order, new.bytes)
    /\ new.order = Tail(old.order)
    /\ new.bytes <= old.bytes
    /\ Subset(new.entries, old.entries)

\* One eviction takes the least recently used checkpoint and its bytes.
LEMMA EvictIs ==
    ASSUME NEW c, Coherent(c.entries, c.order, c.bytes), c.order # <<>>
    PROVE  EvictedOf(Evict(c), c)
<1> DEFINE X == Seq(Token) \ {<<>>}
           prefixes == PrefixesOf(c.entries)
           sizes == BytesOf(c.entries)
           i == CHOOSE j \in DOMAIN c.entries : c.entries[j].tokens = Head(c.order)
           rest == RemoveAt(c.entries, i)
<1>1. /\ c.entries \in Seq(Entry) /\ Distinct(prefixes) /\ c.order \in Seq(X)
      /\ Distinct(c.order) /\ ToSet(c.order) = ToSet(prefixes)
      /\ Len(c.order) = Len(c.entries) /\ c.bytes = Total(sizes)
      /\ DOMAIN c.entries = 1 .. Len(c.entries) /\ Len(c.entries) \in Nat
  BY DEF Coherent
<1>2. /\ prefixes \in Seq(X) /\ Len(prefixes) = Len(c.entries)
      /\ \A j \in 1 .. Len(c.entries) : prefixes[j] = c.entries[j].tokens
      /\ sizes \in Seq(Nat) /\ Len(sizes) = Len(c.entries)
      /\ \A j \in 1 .. Len(c.entries) : sizes[j] = c.entries[j].bytes
  BY <1>1, EntriesAre
<1>3. /\ Head(c.order) = c.order[1] /\ Tail(c.order) = RemoveAt(c.order, 1)
      /\ 1 \in 1 .. Len(c.order)
  <2>1. 1 \in 1 .. Len(c.order) /\ Head(c.order) = c.order[1]
    BY <1>1
  <2>2. /\ Tail(c.order) \in Seq(X) /\ Len(Tail(c.order)) = Len(c.order) - 1
        /\ \A j \in 1 .. Len(c.order) - 1 : Tail(c.order)[j] = c.order[j + 1]
    BY <1>1, HeadTailProperties
  <2>3. /\ RemoveAt(c.order, 1) \in Seq(X) /\ Len(RemoveAt(c.order, 1)) = Len(c.order) - 1
        /\ \A j \in 1 .. Len(c.order) - 1 :
               RemoveAt(c.order, 1)[j] = IF j < 1 THEN c.order[j] ELSE c.order[j + 1]
    BY <1>1, <2>1, RemoveAtIs
  <2>4. \A j \in 1 .. Len(c.order) - 1 : ~(j < 1)
    BY <1>1
  <2>5. Tail(c.order) = RemoveAt(c.order, 1)
    <3>1. Len(Tail(c.order)) = Len(RemoveAt(c.order, 1))
      BY <2>2, <2>3
    <3>2. \A j \in 1 .. Len(Tail(c.order)) : Tail(c.order)[j] = RemoveAt(c.order, 1)[j]
      BY <2>2, <2>3, <2>4
    <3> HIDE DEF X
    <3>3. QED
      BY <2>2, <2>3, <3>1, <3>2, SeqEqual
  <2>6. QED
    BY <2>1, <2>5
<1>4. i \in 1 .. Len(c.entries) /\ c.entries[i].tokens = Head(c.order)
  <2> HIDE DEF prefixes, X
  <2>1. Head(c.order) \in ToSet(prefixes)
    <3>1. DOMAIN c.order = 1 .. Len(c.order)
      BY <1>1
    <3>2. c.order[1] \in ToSet(c.order)
      BY <1>3, <3>1 DEF ToSet
    <3>3. QED
      BY <1>1, <1>3, <3>2
  <2>2. \E j \in DOMAIN c.entries : c.entries[j].tokens = Head(c.order)
    <3>1. PICK j \in DOMAIN prefixes : prefixes[j] = Head(c.order)
      BY <2>1 DEF ToSet
    <3>2. DOMAIN prefixes = DOMAIN c.entries
      BY <1>1, <1>2
    <3>3. QED
      BY <1>1, <1>2, <3>1, <3>2
  <2>3. QED
    BY <1>1, <2>2
<1>5. Evict(c) = [entries |-> rest, order |-> Tail(c.order),
                  bytes |-> c.bytes - c.entries[i].bytes]
  BY DEF Evict
<1> HIDE DEF i
<1>6. /\ rest \in Seq(Entry) /\ Len(rest) = Len(c.entries) - 1
      /\ \A j \in 1 .. Len(c.entries) - 1 :
             rest[j] = IF j < i THEN c.entries[j] ELSE c.entries[j + 1]
  BY <1>1, <1>4, RemoveAtIs
<1>7. PrefixesOf(rest) = RemoveAt(prefixes, i) /\ BytesOf(rest) = RemoveAt(sizes, i)
  <2> HIDE DEF rest, prefixes, sizes
  <2>1. /\ PrefixesOf(rest) \in Seq(X) /\ Len(PrefixesOf(rest)) = Len(rest)
        /\ \A j \in 1 .. Len(rest) : PrefixesOf(rest)[j] = rest[j].tokens
        /\ BytesOf(rest) \in Seq(Nat) /\ Len(BytesOf(rest)) = Len(rest)
        /\ \A j \in 1 .. Len(rest) : BytesOf(rest)[j] = rest[j].bytes
    BY <1>6, EntriesAre
  <2>2. /\ RemoveAt(prefixes, i) \in Seq(X) /\ Len(RemoveAt(prefixes, i)) = Len(prefixes) - 1
        /\ \A j \in 1 .. Len(prefixes) - 1 :
               RemoveAt(prefixes, i)[j] = IF j < i THEN prefixes[j] ELSE prefixes[j + 1]
    BY <1>2, <1>4, RemoveAtIs
  <2>3. /\ RemoveAt(sizes, i) \in Seq(Nat) /\ Len(RemoveAt(sizes, i)) = Len(sizes) - 1
        /\ \A j \in 1 .. Len(sizes) - 1 :
               RemoveAt(sizes, i)[j] = IF j < i THEN sizes[j] ELSE sizes[j + 1]
    BY <1>2, <1>4, RemoveAtIs
  <2>4. \A j \in 1 .. Len(rest) : /\ j \in 1 .. Len(c.entries) /\ j + 1 \in 1 .. Len(c.entries)
    BY <1>1, <1>6
  <2>5. \A j \in 1 .. Len(rest) : PrefixesOf(rest)[j] = RemoveAt(prefixes, i)[j]
    BY <1>1, <1>2, <1>6, <2>1, <2>2, <2>4
  <2>6. \A j \in 1 .. Len(rest) : BytesOf(rest)[j] = RemoveAt(sizes, i)[j]
    BY <1>1, <1>2, <1>6, <2>1, <2>3, <2>4
  <2> HIDE DEF X
  <2>7. PrefixesOf(rest) = RemoveAt(prefixes, i)
    <3>1. Len(PrefixesOf(rest)) = Len(RemoveAt(prefixes, i))
      BY <1>2, <1>6, <2>1, <2>2
    <3>2. QED
      BY <2>1, <2>2, <2>5, <3>1, SeqEqual
  <2>8. BytesOf(rest) = RemoveAt(sizes, i)
    <3>1. Len(BytesOf(rest)) = Len(RemoveAt(sizes, i))
      BY <1>2, <1>6, <2>1, <2>3
    <3>2. \A j \in 1 .. Len(BytesOf(rest)) : BytesOf(rest)[j] = RemoveAt(sizes, i)[j]
      BY <2>1, <2>6
    <3>3. QED
      BY <2>1, <2>3, <3>1, <3>2, SeqEqual
  <2>9. QED
    BY <2>7, <2>8
<1>8. Distinct(PrefixesOf(rest)) /\ ToSet(PrefixesOf(rest)) = ToSet(prefixes) \ {Head(c.order)}
  <2>1. Distinct(RemoveAt(prefixes, i))
        /\ ToSet(RemoveAt(prefixes, i)) = ToSet(prefixes) \ {prefixes[i]}
    BY <1>1, <1>2, <1>4, DistinctRemoveAt
  <2>2. prefixes[i] = Head(c.order)
    BY <1>2, <1>4
  <2>3. QED
    BY <1>7, <2>1, <2>2
<1>9. /\ Tail(c.order) \in Seq(X) /\ Len(Tail(c.order)) = Len(c.order) - 1
      /\ Distinct(Tail(c.order)) /\ ToSet(Tail(c.order)) = ToSet(c.order) \ {Head(c.order)}
  <2>1. Distinct(RemoveAt(c.order, 1))
        /\ ToSet(RemoveAt(c.order, 1)) = ToSet(c.order) \ {c.order[1]}
    BY <1>1, <1>3, DistinctRemoveAt
  <2>2. RemoveAt(c.order, 1) \in Seq(X) /\ Len(RemoveAt(c.order, 1)) = Len(c.order) - 1
    BY <1>1, <1>3, RemoveAtIs
  <2>3. QED
    BY <1>3, <2>1, <2>2
<1>10. c.bytes - c.entries[i].bytes = Total(BytesOf(rest))
       /\ c.bytes - c.entries[i].bytes <= c.bytes
  <2>1. Total(RemoveAt(sizes, i)) = Total(sizes) - sizes[i] /\ Total(sizes) \in Nat
    BY <1>2, <1>4, TotalRemoveAt, TotalNone
  <2>2. sizes[i] = c.entries[i].bytes /\ sizes[i] \in Nat
    BY <1>2, <1>4, ElementOfSeq
  <2> HIDE DEF sizes, rest
  <2>3. QED
    BY <1>1, <1>7, <2>1, <2>2
<1>11. Subset(rest, c.entries)
  <2>1. \A j \in DOMAIN rest : /\ j \in 1 .. Len(c.entries) - 1
                               /\ j \in DOMAIN c.entries /\ j + 1 \in DOMAIN c.entries
    <3> HIDE DEF rest
    <3>1. DOMAIN rest = 1 .. Len(c.entries) - 1
      BY <1>1, <1>6
    <3>2. QED
      BY <1>1, <3>1
  <2> HIDE DEF rest
  <2>2. QED
    BY <1>6, <2>1 DEF Subset
<1> HIDE DEF rest, prefixes, sizes
<1>12. Coherent(rest, Tail(c.order), c.bytes - c.entries[i].bytes)
  BY <1>1, <1>6, <1>8, <1>9, <1>10 DEF Coherent
<1>13. QED
  BY <1>5, <1>10, <1>11, <1>12 DEF EvictedOf

\* What is left after some evictions.
LeftOf(cache, n) ==
    /\ Coherent(cache.entries, cache.order, cache.bytes)
    /\ cache.order = SubSeq(Touched, n + 1, Len(Touched))
    /\ cache.bytes <= bytes
    /\ Subset(cache.entries, checkpoints)

\* So many evictions take so many of the least recently used.
LEMMA EvictionsAre ==
    ASSUME Coherent(checkpoints, Touched, bytes)
    PROVE  /\ Evictions[0] = [entries |-> checkpoints, order |-> Touched, bytes |-> bytes]
           /\ \A n \in 0 .. Len(Touched) : LeftOf(Evictions[n], n)
<1> DEFINE start == [entries |-> checkpoints, order |-> Touched, bytes |-> bytes]
           N == Len(Touched)
           P == {n \in Nat : n <= N =>
                     \E f : f = [i \in 0 .. n |-> IF i = 0 THEN start ELSE Evict(f[i - 1])]}
<1>1. Touched \in Seq(Seq(Token) \ {<<>>}) /\ N \in Nat
  BY DEF Coherent
<1> HIDE DEF start, N
<1>2. 0 \in P
  <2> DEFINE f == [i \in 0 .. 0 |-> start]
  <2>1. f = [i \in 0 .. 0 |-> IF i = 0 THEN start ELSE Evict(f[i - 1])]
    OBVIOUS
  <2>2. QED
    BY <2>1
<1>3. \A n \in 1 .. N : n - 1 \in P => n \in P
  <2> TAKE n \in 1 .. N
  <2> HAVE n - 1 \in P
  <2>0. n \in Nat /\ n - 1 <= N
    BY <1>1
  <2>1. PICK f : f = [i \in 0 .. n - 1 |-> IF i = 0 THEN start ELSE Evict(f[i - 1])]
    BY <2>0
  <2> DEFINE g == [i \in 0 .. n |-> IF i = n THEN Evict(f[n - 1]) ELSE f[i]]
  <2>2. \A i \in 0 .. n : g[i] = IF i = 0 THEN start ELSE Evict(g[i - 1])
    <3> TAKE i \in 0 .. n
    <3>1. CASE i = n
      <4>1. g[n] = Evict(f[n - 1]) /\ g[n - 1] = f[n - 1]
        BY <2>0
      <4>2. QED
        BY <3>1, <4>1
    <3>2. CASE i # n /\ i # 0
      <4>1. g[i] = f[i] /\ g[i - 1] = f[i - 1] /\ f[i] = Evict(f[i - 1])
        BY <2>0, <3>2, <2>1
      <4>2. QED
        BY <3>2, <4>1
    <3>3. CASE i # n /\ i = 0
      BY <2>0, <3>3, <2>1
    <3>4. QED
      BY <3>1, <3>2, <3>3
  <2>3. g = [i \in 0 .. n |-> IF i = 0 THEN start ELSE Evict(g[i - 1])]
    BY <2>2
  <2> HIDE DEF g
  <2> QED BY <2>0, <2>3
<1>4. N \in P
  <2>1. 0 .. N \subseteq P
    <3> HIDE DEF P
    <3>1. P \in SUBSET Nat
      BY DEF P
    <3> QED BY <1>1, <1>2, <1>3, <3>1, EachTurn
  <2>2. QED
    BY <1>1, <2>1
<1>5. Evictions = [i \in 0 .. N |-> IF i = 0 THEN start ELSE Evict(Evictions[i - 1])]
  <2> DEFINE left == CHOOSE f : f = [i \in 0 .. N |-> IF i = 0 THEN start ELSE Evict(f[i - 1])]
  <2>1. left = [i \in 0 .. N |-> IF i = 0 THEN start ELSE Evict(left[i - 1])]
    BY <1>4
  <2>2. Evictions = left
    BY DEF Evictions, start, N
  <2> HIDE DEF left
  <2>3. QED
    BY <2>1, <2>2
<1>6. Evictions[0] = start /\ \A n \in 1 .. N : Evictions[n] = Evict(Evictions[n - 1])
  BY <1>1, <1>5
<1> DEFINE Q == {n \in Nat : n <= N => LeftOf(Evictions[n], n)}
<1>7. 0 \in Q
  <2>1. start.entries = checkpoints /\ start.order = Touched /\ start.bytes = bytes
    BY DEF start
  <2>2. SubSeq(Touched, 0 + 1, Len(Touched)) = Touched
    BY <1>1, SubSeqFull
  <2>3. Subset(checkpoints, checkpoints)
    BY DEF Subset
  <2>4. bytes <= bytes
    <3>1. BytesOf(checkpoints) \in Seq(Nat)
      BY EntriesAre DEF Coherent
    <3>2. bytes \in Nat
      BY <3>1, TotalNone DEF Coherent
    <3>3. QED
      BY <3>2
  <2>5. LeftOf(start, 0)
    BY <2>1, <2>2, <2>3, <2>4 DEF LeftOf
  <2>6. QED
    BY <1>6, <2>5
<1>8. \A n \in 1 .. N : n - 1 \in Q => n \in Q
  <2> TAKE n \in 1 .. N
  <2> HAVE n - 1 \in Q
  <2>0. n \in Nat /\ n - 1 <= N
    BY <1>1
  <2> DEFINE c == Evictions[n - 1]
  <2>1. /\ Coherent(c.entries, c.order, c.bytes)
        /\ c.order = SubSeq(Touched, (n - 1) + 1, N)
        /\ c.bytes <= bytes /\ Subset(c.entries, checkpoints)
    BY <2>0 DEF LeftOf, N
  <2> HIDE DEF c
  <2>2. c.order = SubSeq(Touched, n, N) /\ n \in 1 .. Len(Touched) /\ N \in n .. Len(Touched)
    BY <1>1, <2>0, <2>1 DEF N
  <2>3. Tail(c.order) = SubSeq(Touched, n + 1, N)
    BY <1>1, <2>2, HeadTailOfSubSeq
  <2>4. c.order # <<>>
    <3>1. Len(c.order) = N - n + 1
      BY <1>1, <2>2, SubSeqProperties DEF N
    <3>2. Len(c.order) # 0
      BY <1>1, <3>1
    <3>3. QED
      BY <3>2
  <2>5. EvictedOf(Evict(c), c)
    BY <2>1, <2>4, EvictIs
  <2>6. Evict(c).bytes <= bytes
    <3>1. ASSUME NEW d, Coherent(d.entries, d.order, d.bytes) PROVE d.bytes \in Nat
      <4>1. BytesOf(d.entries) \in Seq(Nat)
        BY <3>1, EntriesAre DEF Coherent
      <4>2. QED
        BY <3>1, <4>1, TotalNone DEF Coherent
    <3>2. c.bytes \in Nat /\ Evict(c).bytes \in Nat
      BY <2>1, <2>5, <3>1 DEF EvictedOf
    <3>3. bytes \in Nat
      <4>1. BytesOf(checkpoints) \in Seq(Nat)
        BY EntriesAre DEF Coherent
      <4>2. QED
        BY <4>1, TotalNone DEF Coherent
    <3>4. QED
      BY <2>1, <2>5, <3>2, <3>3 DEF EvictedOf
  <2>7. LeftOf(Evict(c), n)
    BY <2>1, <2>3, <2>5, <2>6 DEF LeftOf, EvictedOf, Subset, N
  <2>8. Evictions[n] = Evict(c)
    BY <1>6 DEF c
  <2>9. QED
    BY <2>0, <2>7, <2>8
<1>9. 0 .. N \subseteq Q
  <2> HIDE DEF Q
  <2>1. Q \in SUBSET Nat
    BY DEF Q
  <2> QED BY <1>1, <1>7, <1>8, <2>1, EachTurn
<1>10. \A n \in 0 .. N : LeftOf(Evictions[n], n)
  <2> TAKE n \in 0 .. N
  <2>1. n \in Q
    BY <1>9
  <2>2. n <= N
    BY <1>1
  <2>3. QED
    BY <2>1, <2>2
<1>11. QED
  BY <1>6, <1>10 DEF start, N

-----------------------------------------------------------------------------
\* Division.
LEMMA DivMod ==
    ASSUME NEW n \in Nat, NEW d \in Nat \ {0}
    PROVE  n % d \in 0 .. d - 1 /\ n \div d \in Nat /\ n = d * (n \div d) + (n % d)
<1>1. n % d \in 0 .. d - 1
  OBVIOUS
<1>2. n \div d \in Nat
  OBVIOUS
<1>3. n = d * (n \div d) + (n % d)
  OBVIOUS
<1>4. QED
  BY <1>1, <1>2, <1>3

LEMMA MultipleMod ==
    ASSUME NEW q \in Nat, NEW d \in Nat \ {0}
    PROVE  (d * q) % d = 0
OBVIOUS

\* What division leaves nothing of is a multiple.
LEMMA Multiple ==
    ASSUME NEW n \in Nat, NEW d \in Nat \ {0}, n % d = 0
    PROVE  \E k \in Nat : n = d * k
<1>1. n \div d \in Nat /\ n = d * (n \div d) + (n % d)
  BY DivMod
<1>2. n = d * (n \div d)
  BY <1>1
<1>3. QED
  BY <1>1, <1>2

\* What is left without the part that does not fill a batch fills some.
LEMMA TrimmedMod ==
    ASSUME NEW n \in Nat, NEW d \in Nat \ {0}
    PROVE  (n - (n % d)) % d = 0
<1>1. n \div d \in Nat /\ n - (n % d) = d * (n \div d)
  BY DivMod
<1>2. QED
  BY <1>1, MultipleMod

\* The whole multiples of a divisor's multiple.
LEMMA WholeMod ==
    ASSUME NEW n \in Nat, NEW w \in Nat \ {0}, NEW d \in Nat \ {0}, w % d = 0, n >= w
    PROVE  (n \div w) * w \in w .. n /\ ((n \div w) * w) % d = 0
<1>1. PICK k \in Nat : w = d * k
  BY Multiple
<1> DEFINE q == n \div w
<1>2. q \in Nat /\ n = w * q + (n % w) /\ n % w \in 0 .. w - 1
  BY DivMod
<1> HIDE DEF q
<1>3. q # 0
  BY <1>2
<1>4. q * w <= n /\ w <= q * w
  BY <1>2, <1>3
<1>5. q * w = d * (k * q) /\ k * q \in Nat
  BY <1>1, <1>2
<1>6. (q * w) % d = 0
  BY <1>5, MultipleMod
<1>7. q * w \in w .. n
  BY <1>2, <1>4
<1>8. QED
  BY <1>6, <1>7 DEF q

\* From a multiple of the chunk length to the next is no boundary of a length that
\* chunks divide.
LEMMA WithinFull ==
    ASSUME NEW F \in Nat \ {0}, NEW c \in Nat \ {0}, F % c = 0,
           NEW k \in Nat, NEW b \in Nat, c * k <= b
    PROVE  (b % F) + (c * (k + 1) - b) <= F
<1>1. PICK m \in Nat : F = c * m
  BY Multiple
<1> DEFINE q == b \div F
           r == b % F
<1>2. q \in Nat /\ r \in 0 .. F - 1 /\ b = F * q + r
  BY DivMod
<1> HIDE DEF q, r
<1>3. b = c * (m * q) + r /\ r < c * m
  BY <1>1, <1>2
<1>4. c * k < c * (m * q + m)
  BY <1>2, <1>3
<1>5. k < m * q + m
  BY <1>2, <1>4
<1>6. k + 1 <= m * q + m
  BY <1>2, <1>5
<1>7. c * (k + 1) <= c * (m * q + m)
  BY <1>2, <1>6
<1>8. c * (k + 1) <= F * q + F
  BY <1>1, <1>2, <1>7
<1>9. QED
  BY <1>2, <1>8 DEF r

-----------------------------------------------------------------------------
\* What the schedulers make of what is left of a prompt.
EnvironmentOK ==
    /\ Full \in Nat \ {0} /\ Wide \in Nat \ {0} /\ Batch \in Nat \ {0}
    /\ Batch < Wide /\ Wide < Full /\ Wide % Batch = 0
    /\ Scheduler \in {"default", "remainder", "b64", "compose", "partial"}
    /\ environment.chunk \in Wide .. Full /\ environment.chunk \in Nat \ {0}
    /\ environment.chunk % Batch = 0
    /\ environment.resident \in SUBSET Groups

LEMMA EnvironmentIs ==
    ASSUME environment \in Environments
    PROVE  EnvironmentOK
BY RoutesAssumption DEF EnvironmentOK, Scheduler, Groups

\* requested_chunk_size is the chunk length, or what is left.
LEMMA RequestedIs ==
    ASSUME EnvironmentOK, Left \in Nat \ {0}
    PROVE  /\ Requested \in 1 .. Left /\ Requested <= environment.chunk
           /\ Left >= environment.chunk => Requested = environment.chunk
           /\ Left < environment.chunk => Requested = Left
BY DEF EnvironmentOK, Requested

\* Without the remainder chunk the wide lengths are whole batches.
LEMMA TrimmedIs ==
    ASSUME EnvironmentOK, Left \in Nat \ {0}
    PROVE  /\ Trimmed \in 1 .. Left /\ Trimmed <= environment.chunk
           /\ Left >= environment.chunk => Trimmed = environment.chunk
           /\ Left < environment.chunk => Trimmed < environment.chunk
           /\ Remainder /\ Left < environment.chunk => Trimmed = Left
           /\ ~Remainder /\ Trimmed >= Wide => Trimmed % Batch = 0
<1> DEFINE r == Requested
           e == environment.chunk
<1>1. r \in Nat /\ r \in 1 .. Left /\ r <= e /\ (Left >= e => r = e) /\ (Left < e => r = Left)
  BY RequestedIs
<1>2. Trimmed = IF ~Remainder /\ r >= Wide THEN r - (r % Batch) ELSE r
  BY DEF Trimmed
<1>3. r % Batch \in 0 .. Batch - 1 /\ (r - (r % Batch)) % Batch = 0
  BY <1>1, DivMod, TrimmedMod DEF EnvironmentOK
<1> HIDE DEF r, e
<1>4. CASE ~Remainder /\ r >= Wide
  <2>1. Trimmed = r - (r % Batch)
    BY <1>2, <1>4
  <2>2. Trimmed \in 1 .. r
    BY <1>1, <1>3, <1>4, <2>1 DEF EnvironmentOK
  <2>3. Left >= e => Trimmed = e
    BY <1>1, <2>1 DEF EnvironmentOK, e
  <2>4. Trimmed % Batch = 0
    BY <1>3, <2>1
  <2>5. e \in Nat
    BY DEF EnvironmentOK, e
  <2>6. QED
    BY <1>1, <1>4, <2>2, <2>3, <2>4, <2>5 DEF e
<1>5. CASE ~(~Remainder /\ r >= Wide)
  <2>1. Trimmed = r
    BY <1>2, <1>5
  <2>2. e \in Nat
    BY DEF EnvironmentOK, e
  <2>3. QED
    BY <1>1, <1>5, <2>1, <2>2 DEF e
<1>6. QED
  BY <1>4, <1>5

\* The scheduled chunk is part of what is left, and shorter than the chunk
\* length only at the end.
LEMMA ScheduledIs ==
    ASSUME EnvironmentOK, Left \in Nat \ {0}, base \in Nat
    PROVE  /\ Scheduled \in 1 .. Left /\ Scheduled <= environment.chunk
           /\ Left >= environment.chunk => Scheduled = environment.chunk
           /\ Left < environment.chunk => Scheduled < environment.chunk
           /\ Remainder /\ Left < environment.chunk =>
                  Scheduled = Left \/ (base >= Full /\ Scheduled = IF Left >= Wide THEN Wide ELSE Batch)
           /\ ~Remainder /\ Scheduled >= Wide => Scheduled % Batch = 0
<1> DEFINE t == Trimmed
           e == environment.chunk
           whole == (t \div Wide) * Wide
<1>1. /\ t \in Nat /\ t \in 1 .. Left /\ t <= e /\ (Left >= e => t = e) /\ (Left < e => t < e)
      /\ Remainder /\ Left < e => t = Left
      /\ ~Remainder /\ t >= Wide => t % Batch = 0
  BY TrimmedIs
<1>2. Scheduled = IF base < Full \/ t = e THEN t
                  ELSE IF Remainder /\ t >= Wide THEN Wide
                  ELSE IF Scheduler \in {"b64", "compose"} /\ t >= Batch THEN Batch
                  ELSE IF Scheduler = "partial" /\ t >= Wide THEN whole
                  ELSE IF Scheduler = "partial" /\ t > Batch THEN Batch
                  ELSE t
  BY DEF Scheduled
<1>3. t >= Wide => whole \in Wide .. t /\ whole % Batch = 0
  BY <1>1, WholeMod DEF EnvironmentOK
<1>4. e \in Nat /\ e >= Wide /\ Wide \in Nat /\ Batch \in Nat \ {0} /\ Batch < Wide /\ Full \in Nat
  BY DEF EnvironmentOK, e
<1> HIDE DEF t, e, whole
<1>5. CASE base < Full \/ t = e
  BY <1>1, <1>2, <1>4, <1>5 DEF e
<1>6. CASE ~(base < Full \/ t = e)
  <2>1. Left < e /\ base >= Full
    BY <1>1, <1>4, <1>6
  <2>2. CASE Remainder /\ t >= Wide
    <3>1. Scheduled = Wide /\ t = Left
      BY <1>1, <1>2, <1>6, <2>1, <2>2
    <3>2. QED
      BY <1>1, <1>4, <2>1, <2>2, <3>1 DEF e
  <2>3. CASE ~(Remainder /\ t >= Wide) /\ Scheduler \in {"b64", "compose"} /\ t >= Batch
    <3>1. Scheduled = Batch /\ Remainder /\ t = Left
      BY <1>1, <1>2, <1>6, <2>1, <2>3 DEF Remainder
    <3>2. QED
      BY <1>1, <1>4, <2>1, <2>3, <3>1 DEF e
  <2>4. CASE Scheduler = "partial" /\ t >= Wide
    <3>1. Scheduled = whole /\ ~Remainder
      BY <1>2, <1>6, <2>4 DEF Remainder
    <3>2. QED
      BY <1>1, <1>3, <1>4, <2>1, <2>4, <3>1 DEF e
  <2>5. CASE Scheduler = "partial" /\ ~(t >= Wide) /\ t > Batch
    <3>1. Scheduled = Batch /\ ~Remainder
      BY <1>2, <1>6, <2>5 DEF Remainder
    <3>2. QED
      BY <1>1, <1>4, <2>1, <2>5, <3>1 DEF e
  <2>6. CASE /\ ~(Remainder /\ t >= Wide) /\ ~(Scheduler \in {"b64", "compose"} /\ t >= Batch)
             /\ ~(Scheduler = "partial" /\ t >= Wide) /\ ~(Scheduler = "partial" /\ t > Batch)
    <3>1. Scheduled = t
      BY <1>2, <1>6, <2>6
    <3>2. QED
      BY <1>1, <1>4, <2>1, <2>6, <3>1 DEF e
  <2>7. QED
    BY <2>2, <2>3, <2>4, <2>5, <2>6
<1>7. QED
  BY <1>5, <1>6

\* A chunk is part of what is left and no longer than chunks are; a full one when
\* that much is left, and the rest of the prompt or a part of it otherwise.
LEMMA ChunkIs ==
    ASSUME EnvironmentOK, Left \in Nat \ {0}, base \in Nat
    PROVE  /\ Chunk \in 1 .. Left /\ Chunk <= environment.chunk
           /\ Left >= environment.chunk => Chunk = environment.chunk
           /\ Left < environment.chunk => Chunk < environment.chunk
           /\ Remainder /\ Left < environment.chunk =>
                  Chunk = Left \/ (base >= Full /\ Chunk = IF Left >= Wide THEN Wide ELSE Batch)
           /\ ~Remainder /\ Chunk >= Wide => Chunk % Batch = 0
           /\ FullLayer <=> Chunk = Full \/ (Remainder /\ Chunk = Wide)
<1>1. Wide \in Nat /\ Batch \in Nat \ {0} /\ Batch < Wide /\ Wide < Full /\ Full \in Nat
      /\ environment.chunk \in Nat /\ environment.chunk >= Wide
  BY DEF EnvironmentOK
<1>2. /\ Scheduled \in 1 .. Left /\ Scheduled <= environment.chunk
      /\ Left >= environment.chunk => Scheduled = environment.chunk
      /\ Left < environment.chunk => Scheduled < environment.chunk
      /\ Remainder /\ Left < environment.chunk =>
             Scheduled = Left \/ (base >= Full /\ Scheduled = IF Left >= Wide THEN Wide ELSE Batch)
      /\ ~Remainder /\ Scheduled >= Wide => Scheduled % Batch = 0
  BY ScheduledIs
<1>3. CASE ~FullLayer /\ ~Remainder /\ Scheduled > Batch /\ Scheduled < Wide
  <2>1. Chunk = Batch
    BY <1>3 DEF Chunk
  <2>2. QED
    BY <1>1, <1>2, <1>3, <2>1
<1>4. CASE ~(~FullLayer /\ ~Remainder /\ Scheduled > Batch /\ Scheduled < Wide)
  <2>1. Chunk = Scheduled
    BY <1>4 DEF Chunk
  <2>2. QED
    BY <1>2, <2>1 DEF FullLayer
<1>5. QED
  BY <1>3, <1>4

-----------------------------------------------------------------------------
\* The scratch buffers and who refers to them.
\* A buffer that a slot or a layer refers to keeps its content.
LEMMA AliveKeeps ==
    ASSUME NEW w \in WeightStates, NEW g \in Groups, NEW s \in Sizes,
           s = w.scratch[g] \/ \E l \in DOMAIN Layers : w.held[l][g] = s
    PROVE  Alive(w).content[g][s] = w.content[g][s]
<1>1. w = [scratch |-> w.scratch, content |-> w.content, held |-> w.held]
  BY DEF WeightStates
<1>2. Alive(w).content[g][s]
          = IF s = w.scratch[g] \/ \E l \in DOMAIN Layers : w.held[l][g] = s
            THEN w.content[g][s] ELSE None
  BY <1>1 DEF Alive
<1>3. QED
  BY <1>2

\* Letting go of dead buffers changes no reference.
LEMMA AliveHolds ==
    ASSUME NEW w \in WeightStates
    PROVE  /\ Alive(w).held = w.held /\ Alive(w).scratch = w.scratch
           /\ Alive(w) \in WeightStates
<1> DEFINE kept(g, s) ==
               IF s = w.scratch[g] \/ \E l \in DOMAIN Layers : w.held[l][g] = s
               THEN w.content[g][s] ELSE None
           content == [g \in Groups |-> [s \in Sizes |-> kept(g, s)]]
<1>1. Alive(w) = [w EXCEPT !.content = content]
  BY DEF Alive
<1>2. content \in [Groups -> [Sizes -> DOMAIN Layers \union {None}]]
  <2>1. \A g \in Groups, s \in Sizes : kept(g, s) \in DOMAIN Layers \union {None}
    BY DEF WeightStates
  <2> HIDE DEF kept
  <2>2. QED
    BY <2>1
<1> HIDE DEF content
<1>3. QED
  BY <1>1, <1>2 DEF WeightStates

\* The buffer for a matrix is as long as one of the matrices.
LEMMA BytesAreSizes ==
    ASSUME NEW w \in WeightStates, NEW l \in DOMAIN Layers, NEW g \in Groups
    PROVE  Larger(w.scratch[g], PackedBytes[l][g]) \in Sizes
<1>1. PackedBytes[l][g] \in Sizes
  BY DEF Sizes
<1>2. w.scratch[g] \in Sizes \union {None}
  BY DEF WeightStates
<1>3. Sizes \subseteq Nat \ {None}
  BY LayersAssumption
<1>4. CASE w.scratch[g] < PackedBytes[l][g]
  BY <1>1, <1>4 DEF Larger
<1>5. CASE ~(w.scratch[g] < PackedBytes[l][g])
  <2>1. w.scratch[g] # None
    <3>1. PackedBytes[l][g] \in Nat /\ PackedBytes[l][g] # 0
      BY <1>1, <1>3 DEF None
    <3>2. QED
      BY <3>1, <1>5 DEF None
  <2>2. QED
    BY <1>2, <1>5, <2>1 DEF Larger
<1>6. QED
  BY <1>4, <1>5

\* The upload of one layer, before dead buffers go.
Written(w, l, groups) ==
    LET size(g) == Larger(w.scratch[g], PackedBytes[l][g])
    IN  [scratch |-> [g \in Groups |-> IF g \in groups THEN size(g) ELSE w.scratch[g]],
         content |-> [g \in Groups |-> [s \in Sizes |->
             IF g \in groups /\ s = size(g) THEN l ELSE w.content[g][s]]],
         held |-> [w.held EXCEPT ![l] = [g \in Groups |->
             IF g \in groups THEN size(g) ELSE w.held[l][g]]]]

\* An upload leads to such a state again.
LEMMA WrittenType ==
    ASSUME NEW w \in WeightStates, NEW l \in DOMAIN Layers, NEW groups \in SUBSET Groups
    PROVE  Written(w, l, groups) \in WeightStates
<1>1. \A g \in Groups : Larger(w.scratch[g], PackedBytes[l][g]) \in Sizes
  BY BytesAreSizes
<1>3. [g \in Groups |-> IF g \in groups THEN Larger(w.scratch[g], PackedBytes[l][g])
                        ELSE w.scratch[g]] \in [Groups -> Sizes \union {None}]
  BY <1>1 DEF WeightStates
<1>4. [g \in Groups |-> [s \in Sizes |->
          IF g \in groups /\ s = Larger(w.scratch[g], PackedBytes[l][g]) THEN l
          ELSE w.content[g][s]]] \in [Groups -> [Sizes -> DOMAIN Layers \union {None}]]
  BY DEF WeightStates
<1>5. [w.held EXCEPT ![l] = [g \in Groups |->
           IF g \in groups THEN Larger(w.scratch[g], PackedBytes[l][g]) ELSE w.held[l][g]]]
         \in [DOMAIN Layers -> [Groups -> Sizes \union {None}]]
  BY <1>1 DEF WeightStates
<1>6. QED
  BY <1>3, <1>4, <1>5 DEF Written, WeightStates

\* What was uploaded is the layer's own (upload_packed in
\* ensure_m23_repacked).
LEMMA UploadedIsOwn ==
    ASSUME NEW w \in WeightStates, NEW l \in DOMAIN Layers, NEW groups \in SUBSET Groups,
           NEW g \in groups
    PROVE  Uploaded(w, l, groups).content[g][Uploaded(w, l, groups).held[l][g]] = l
<1> DEFINE v == Written(w, l, groups)
           size == Larger(w.scratch[g], PackedBytes[l][g])
<1>1. Uploaded(w, l, groups) = Alive(v)
  BY DEF Uploaded, Written
<1>2. v \in WeightStates
  BY WrittenType
<1>3. size \in Sizes
  BY BytesAreSizes
<1>5. v.held[l][g] = size
  BY DEF Written, WeightStates
<1>6. v.content[g][size] = l
  BY <1>3 DEF Written
<1>7. Alive(v).content[g][size] = v.content[g][size]
  BY <1>2, <1>3, <1>5, AliveKeeps
<1>8. Alive(v).held = v.held
  BY <1>2, AliveHolds
<1>9. QED
  BY <1>1, <1>5, <1>6, <1>7, <1>8

\* An upload gives references to this layer only, and a state again.
LEMMA UploadedHolds ==
    ASSUME NEW w \in WeightStates, NEW l \in DOMAIN Layers, NEW groups \in SUBSET Groups
    PROVE  /\ Uploaded(w, l, groups) \in WeightStates
           /\ \A k \in DOMAIN Layers : k # l => Uploaded(w, l, groups).held[k] = w.held[k]
<1>1. Uploaded(w, l, groups) = Alive(Written(w, l, groups))
  BY DEF Uploaded, Written
<1>2. Written(w, l, groups) \in WeightStates
  BY WrittenType
<1>3. Alive(Written(w, l, groups)).held = Written(w, l, groups).held
  BY <1>2, AliveHolds
<1>4. \A k \in DOMAIN Layers : k # l => Written(w, l, groups).held[k] = w.held[k]
  BY DEF Written, WeightStates
<1>5. QED
  BY <1>1, <1>2, <1>3, <1>4, AliveHolds

-----------------------------------------------------------------------------
\* A layer that begins while no layer holds anything has its own weights, and
\* once it has released them again no layer holds anything: a chunk that is
\* processed to its end hands the next one what it found (ensure_m23_repacked,
\* release_m23_repacked).
THEOREM LayerHasItsOwn ==
    ASSUME NEW w \in WeightStates, NEW l \in DOMAIN Layers, NEW resident \in SUBSET Groups,
           NothingHeld(w)
    PROVE  /\ Own(Ensured(w, l, resident), l, resident)
           /\ Released(Ensured(w, l, resident), l) \in WeightStates
           /\ NothingHeld(Released(Ensured(w, l, resident), l))
<1> DEFINE groups == Groups \ resident
           u == Uploaded(w, l, groups)
           r == [u EXCEPT !.held[l] = [g \in Groups |-> None]]
<1>1. Ensured(w, l, resident) = u
  BY DEF Ensured, Missing, NothingHeld
<1>2. Own(u, l, resident)
  <2>1. SUFFICES ASSUME NEW g \in groups PROVE u.content[g][u.held[l][g]] = l
    BY <2>1 DEF Own
  <2>2. QED
    BY UploadedIsOwn
<1>3. u \in WeightStates /\ \A k \in DOMAIN Layers : k # l => u.held[k] = w.held[k]
  BY UploadedHolds
<1>4. r \in WeightStates
  BY <1>3 DEF WeightStates
<1>5. Released(u, l) = Alive(r)
  BY DEF Released
<1>6. Alive(r) \in WeightStates /\ Alive(r).held = r.held
  BY <1>4, AliveHolds
<1>7. \A k \in DOMAIN Layers, g \in Groups : w.held[k][g] = None
  BY DEF NothingHeld, Held
<1>8. \A k \in DOMAIN Layers, g \in Groups : r.held[k][g] = None
  BY <1>3, <1>7 DEF WeightStates
<1>9. NothingHeld(Alive(r))
  <2> HIDE DEF r
  <2>1. QED
    BY <1>6, <1>8 DEF NothingHeld, Held
<1>10. QED
  BY <1>1, <1>2, <1>5, <1>6, <1>9

-----------------------------------------------------------------------------
\* Layers one after another.
LEMMA ReleasedIs ==
    ASSUME NEW w \in WeightStates, NEW l \in DOMAIN Layers
    PROVE  /\ Released(w, l) \in WeightStates /\ Held(Released(w, l), l) = {}
           /\ \A k \in DOMAIN Layers : k # l => Released(w, l).held[k] = w.held[k]
<1> DEFINE r == [w EXCEPT !.held[l] = [g \in Groups |-> None]]
<1>1. r \in WeightStates
  BY DEF WeightStates
<1>2. Released(w, l) = Alive(r)
  BY DEF Released
<1>3. Alive(r) \in WeightStates /\ Alive(r).held = r.held
  BY <1>1, AliveHolds
<1>4. \A g \in Groups : r.held[l][g] = None
  BY DEF WeightStates
<1>5. \A k \in DOMAIN Layers : k # l => r.held[k] = w.held[k]
  BY DEF WeightStates
<1> HIDE DEF r
<1>6. Held(Alive(r), l) = {}
  BY <1>3, <1>4 DEF Held
<1>7. QED
  BY <1>2, <1>3, <1>5, <1>6

\* A layer that is entered changes no reference of another.
LEMMA EnteredIs ==
    ASSUME NEW w \in WeightStates, NEW l \in DOMAIN Layers, NEW e \in Environments, NEW n
    PROVE  /\ Entered(w, e, l, n) \in WeightStates
           /\ \A k \in DOMAIN Layers : k # l => Entered(w, e, l, n).held[k] = w.held[k]
<1> DEFINE groups == Missing(w, l, e.resident)
<1>1. groups \in SUBSET Groups
  BY DEF Missing
<1>2. /\ Uploaded(w, l, groups) \in WeightStates
      /\ \A k \in DOMAIN Layers : k # l => Uploaded(w, l, groups).held[k] = w.held[k]
  <2> HIDE DEF groups
  <2> QED BY <1>1, UploadedHolds
<1>3. QED
  BY <1>2 DEF Entered, Ensured

\* Every environment keeps some of the groups on the device.
Resident == \A e \in Environments : e.resident \in SUBSET Groups

LEMMA ResidentIs == Resident
BY RoutesAssumption DEF Resident, Groups

\* What a layer finds.
Before(w, e, n, l) == Behind(w, e, n)[l - 1]

\* What each layer leaves behind is computed from what the one before it left.
LEMMA BehindTurns ==
    ASSUME NEW w, NEW e, NEW n
    PROVE  /\ Behind(w, e, n)[0] = w
           /\ \A l \in 1 .. Len(Layers) :
                  Behind(w, e, n)[l] = Released(Entered(Before(w, e, n, l), e, l, n), l)
<1> DEFINE N == Len(Layers)
           P == {m \in Nat : m <= N =>
                     \E f : f = [l \in 0 .. m |-> IF l = 0 THEN w
                                    ELSE Released(Entered(f[l - 1], e, l, n), l)]}
<1>1. N \in Nat
  BY LayersAssumption
<1> HIDE DEF N
<1>2. 0 \in P
  <2> DEFINE f == [l \in 0 .. 0 |-> w]
  <2>1. f = [l \in 0 .. 0 |-> IF l = 0 THEN w ELSE Released(Entered(f[l - 1], e, l, n), l)]
    OBVIOUS
  <2>2. QED
    BY <2>1
<1>3. \A m \in 1 .. N : m - 1 \in P => m \in P
  <2> TAKE m \in 1 .. N
  <2> HAVE m - 1 \in P
  <2>0. m \in Nat /\ m - 1 <= N
    BY <1>1
  <2>1. PICK f : f = [l \in 0 .. m - 1 |-> IF l = 0 THEN w
                         ELSE Released(Entered(f[l - 1], e, l, n), l)]
    BY <2>0
  <2> DEFINE g == [l \in 0 .. m |-> IF l = m THEN Released(Entered(f[m - 1], e, m, n), m)
                                   ELSE f[l]]
  <2>2. \A l \in 0 .. m : g[l] = IF l = 0 THEN w ELSE Released(Entered(g[l - 1], e, l, n), l)
    <3> TAKE l \in 0 .. m
    <3>1. CASE l = m
      <4>1. g[m] = Released(Entered(f[m - 1], e, m, n), m) /\ g[m - 1] = f[m - 1]
        BY <2>0
      <4>2. QED
        BY <3>1, <4>1
    <3>2. CASE l # m /\ l # 0
      <4>1. /\ g[l] = f[l] /\ g[l - 1] = f[l - 1]
            /\ f[l] = Released(Entered(f[l - 1], e, l, n), l)
        BY <2>0, <3>2, <2>1
      <4>2. QED
        BY <3>2, <4>1
    <3>3. CASE l # m /\ l = 0
      BY <2>0, <3>3, <2>1
    <3>4. QED
      BY <3>1, <3>2, <3>3
  <2>3. g = [l \in 0 .. m |-> IF l = 0 THEN w ELSE Released(Entered(g[l - 1], e, l, n), l)]
    BY <2>2
  <2> HIDE DEF g
  <2> QED BY <2>0, <2>3
<1>4. N \in P
  <2>1. 0 .. N \subseteq P
    <3> HIDE DEF P
    <3>1. P \in SUBSET Nat
      BY DEF P
    <3> QED BY <1>1, <1>2, <1>3, <3>1, EachTurn
  <2>2. QED
    BY <1>1, <2>1
<1> DEFINE done == CHOOSE f : f = [l \in 0 .. N |-> IF l = 0 THEN w
                                      ELSE Released(Entered(f[l - 1], e, l, n), l)]
<1>5. done = [l \in 0 .. N |-> IF l = 0 THEN w ELSE Released(Entered(done[l - 1], e, l, n), l)]
  BY <1>4
<1>6. Behind(w, e, n) = done
  BY DEF Behind, N
<1> HIDE DEF done
<1>7. done[0] = w /\ \A l \in 1 .. N : done[l] = Released(Entered(done[l - 1], e, l, n), l)
  BY <1>1, <1>5
<1>8. QED
  BY <1>6, <1>7 DEF Before, N

\* What the first l layers of a chunk have left.
LEMMA BehindIs ==
    ASSUME NEW w \in WeightStates, NEW e \in Environments, NEW n
    PROVE  \A l \in 0 .. Len(Layers) :
               /\ Behind(w, e, n)[l] \in WeightStates
               /\ \A k \in 1 .. l : Held(Behind(w, e, n)[l], k) = {}
               /\ NothingHeld(w) => NothingHeld(Behind(w, e, n)[l])
<1> DEFINE N == Len(Layers)
           v(l) == Behind(w, e, n)[l]
           P == {l \in Nat : l <= N => /\ v(l) \in WeightStates
                                       /\ \A k \in 1 .. l : Held(v(l), k) = {}
                                       /\ NothingHeld(w) => NothingHeld(v(l))}
<1>1. N \in Nat /\ DOMAIN Layers = 1 .. N
  BY LayersAssumption
<1>2. v(0) = w /\ \A l \in 1 .. N : v(l) = Released(Entered(v(l - 1), e, l, n), l)
  BY BehindTurns DEF Before
<1> HIDE DEF v, N
<1>3. 0 \in P
  BY <1>2
<1>4. \A l \in 1 .. N : l - 1 \in P => l \in P
  <2> TAKE l \in 1 .. N
  <2> HAVE l - 1 \in P
  <2>0. l \in Nat /\ l - 1 <= N /\ l \in DOMAIN Layers
    BY <1>1
  <2> DEFINE a == v(l - 1)
             b == Entered(a, e, l, n)
  <2>1. /\ a \in WeightStates /\ \A k \in 1 .. l - 1 : Held(a, k) = {}
        /\ NothingHeld(w) => NothingHeld(a)
    BY <2>0
  <2> HIDE DEF a
  <2>2. b \in WeightStates /\ \A k \in DOMAIN Layers : k # l => b.held[k] = a.held[k]
    BY <2>0, <2>1, EnteredIs
  <2> HIDE DEF b
  <2>3. /\ Released(b, l) \in WeightStates /\ Held(Released(b, l), l) = {}
        /\ \A k \in DOMAIN Layers : k # l => Released(b, l).held[k] = b.held[k]
    BY <2>0, <2>2, ReleasedIs
  <2>4. v(l) = Released(b, l)
    BY <1>2 DEF a, b
  <2>5. \A k \in DOMAIN Layers : k # l => Held(v(l), k) = Held(a, k)
    BY <2>2, <2>3, <2>4 DEF Held
  <2>6. \A k \in 1 .. l : Held(v(l), k) = {}
    <3> TAKE k \in 1 .. l
    <3>1. CASE k = l
      BY <2>3, <2>4, <3>1
    <3>2. CASE k # l
      <4>1. k \in 1 .. l - 1 /\ k \in DOMAIN Layers
        BY <1>1, <2>0, <3>2
      <4>2. QED
        BY <2>1, <2>5, <3>2, <4>1
    <3>3. QED
      BY <3>1, <3>2
  <2>7. NothingHeld(w) => NothingHeld(v(l))
    BY <2>1, <2>3, <2>4, <2>5 DEF NothingHeld
  <2>8. QED
    BY <2>0, <2>3, <2>4, <2>6, <2>7
<1>5. 0 .. N \subseteq P
  <2> HIDE DEF P
  <2>1. P \in SUBSET Nat
    BY DEF P
  <2> QED BY <1>1, <1>3, <1>4, <2>1, EachTurn
<1>6. \A l \in 0 .. N : /\ v(l) \in WeightStates
                        /\ \A k \in 1 .. l : Held(v(l), k) = {}
                        /\ NothingHeld(w) => NothingHeld(v(l))
  <2> TAKE l \in 0 .. N
  <2>1. l \in P /\ l <= N
    BY <1>1, <1>5
  <2>2. QED
    BY <2>1
<1>7. QED
  BY <1>6 DEF v, N

\* A chunk that all layers have taken leaves nothing held, whatever it found.
LEMMA SweptIs ==
    ASSUME NEW w \in WeightStates, NEW e \in Environments, NEW n
    PROVE  /\ Behind(w, e, n)[Len(Layers)] \in WeightStates
           /\ NothingHeld(Behind(w, e, n)[Len(Layers)])
<1>1. Len(Layers) \in 0 .. Len(Layers) /\ DOMAIN Layers = 1 .. Len(Layers)
  BY LayersAssumption
<1>2. QED
  BY <1>1, BehindIs DEF NothingHeld

\* No layer multiplies the weights of another one in a chunk that begins while
\* nothing is held, or with all weights on the device.
LEMMA WeightsOwned ==
    ASSUME NEW w \in WeightStates, NEW e \in Environments, NEW n,
           NothingHeld(w) \/ e.resident = Groups
    PROVE  ~WeightsForeign(w, e, n)
<1> SUFFICES ASSUME NEW l \in DOMAIN Layers, Multiplies(e, l, n)
             PROVE  Own(Entered(Before(w, e, n, l), e, l, n), l, e.resident)
  BY DEF WeightsForeign, Before
<1>1. CASE e.resident = Groups
  BY <1>1 DEF Own
<1>2. CASE NothingHeld(w)
  <2> DEFINE v == Before(w, e, n, l)
  <2>1. l - 1 \in 0 .. Len(Layers)
    BY LayersAssumption
  <2>2. v \in WeightStates /\ NothingHeld(v)
    BY <1>2, <2>1, BehindIs DEF Before
  <2> HIDE DEF v
  <2>3. Ensures(e, l, n)
    BY DEF Multiplies, Ensures, Prepared
  <2>4. e.resident \in SUBSET Groups
    BY ResidentIs DEF Resident
  <2>5. Own(Ensured(v, l, e.resident), l, e.resident)
    BY <2>2, <2>4, LayerHasItsOwn
  <2>6. Entered(v, e, l, n) = Ensured(v, l, e.resident)
    BY <2>3 DEF Entered
  <2>7. QED
    BY <2>5, <2>6 DEF v
<1>3. QED
  BY <1>1, <1>2

\* Where a call may be left is a state of the weights.
LEMMA LeftIs ==
    ASSUME NEW w \in WeightStates, NEW e \in Environments, NEW n
    PROVE  LeftByCancel(w, e, n) \subseteq WeightStates
           /\ LeftByFailure(w, e, n) \subseteq WeightStates
<1>1. \A l \in Reached(e, n) : l \in DOMAIN Layers
  BY DEF Reached
<1>2. \A l \in DOMAIN Layers : Behind(w, e, n)[l - 1] \in WeightStates
  <2> TAKE l \in DOMAIN Layers
  <2>1. l - 1 \in 0 .. Len(Layers)
    BY LayersAssumption
  <2>2. QED
    BY <2>1, BehindIs
<1>3. \A l \in DOMAIN Layers : Entered(Behind(w, e, n)[l - 1], e, l, n) \in WeightStates
  BY <1>2, EnteredIs
<1>4. LeftByCancel(w, e, n) \subseteq WeightStates
  BY <1>1, <1>2, <1>3 DEF LeftByCancel
<1>5. ASSUME NEW l \in DOMAIN Layers, NEW groups \in SUBSET Groups
      PROVE  Uploaded(Behind(w, e, n)[l - 1], l, groups) \in WeightStates
  BY <1>2, UploadedHolds
<1>6. \A before, l : Missing(before, l, e.resident) \in SUBSET Groups
  BY DEF Missing
<1>7. LeftByFailure(w, e, n) \subseteq WeightStates
  <2> DEFINE some(l) == {Missing(Behind(w, e, n)[l - 1], l, e.resident) \ {"ffn"},
                         Missing(Behind(w, e, n)[l - 1], l, e.resident)}
             left(l) == {Uploaded(Behind(w, e, n)[l - 1], l, groups) : groups \in some(l)}
             reached == {m \in Reached(e, n) : Ensures(e, m, n)}
  <2>1. LeftByFailure(w, e, n) = LeftByCancel(w, e, n) \union UNION {left(l) : l \in reached}
    BY DEF LeftByFailure
  <2>2. \A l \in DOMAIN Layers : some(l) \subseteq SUBSET Groups
    BY <1>6
  <2> HIDE DEF some
  <2>3. \A l \in DOMAIN Layers : left(l) \subseteq WeightStates
    BY <1>5, <2>2
  <2>4. reached \subseteq DOMAIN Layers
    BY <1>1
  <2> HIDE DEF left, reached
  <2>5. UNION {left(l) : l \in reached} \subseteq WeightStates
    BY <2>3, <2>4
  <2>6. QED
    BY <1>4, <2>1, <2>5
<1>8. QED
  BY <1>4, <1>7

-----------------------------------------------------------------------------
\* The routes of a chunk.

\* The wide layers take every chunk but the first of what a scheduler that leaves
\* the unaligned part in it makes of a prompt.
LEMMA ChunkServedIs ==
    ASSUME EnvironmentOK, Left \in Nat \ {0}, base \in Nat, ~(Remainder /\ base < Full)
    PROVE  Served(environment, Chunk)
<1> DEFINE n == Chunk
           e == environment.chunk
<1>1. /\ Wide \in Nat /\ Batch \in Nat \ {0} /\ Batch < Wide /\ Full \in Nat
      /\ e \in Nat /\ e % Batch = 0 /\ Wide % Batch = 0
  BY DEF EnvironmentOK, e
<1>2. /\ n \in Nat /\ n <= e /\ (Left >= e => n = e)
      /\ Remainder /\ Left < e => n = Left \/ n = (IF Left >= Wide THEN Wide ELSE Batch)
      /\ ~Remainder /\ n >= Wide => n % Batch = 0
  BY ChunkIs DEF e
<1>3. Remainder /\ Left < e /\ n >= Wide => n = Wide
  <2> SUFFICES ASSUME Remainder, Left < e, n >= Wide PROVE n = Wide
    OBVIOUS
  <2>1. base >= Full
    BY <1>1
  <2>2. Left >= Wide
    <3>1. CASE ~(Left >= Wide)
      <4>1. n = Left \/ n = Batch
        BY <1>2, <3>1
      <4> HIDE DEF n
      <4>2. QED
        BY <1>1, <3>1, <4>1
    <3>2. QED
      BY <3>1
  <2>3. Scheduled = Wide
    <3>1. Trimmed = Left /\ Left \in Nat
      BY TrimmedIs DEF e
    <3>2. ~(base < Full \/ Trimmed = e)
      BY <1>1, <2>1, <3>1
    <3>3. QED
      BY <2>2, <3>1, <3>2 DEF Scheduled, e
  <2>4. QED
    BY <2>3 DEF Chunk
<1>4. Batch % Batch = 0
  BY <1>1
<1> HIDE DEF n, e
<1>5. ASSUME n >= Wide
      PROVE  n % Batch = 0
  <2>1. CASE ~Remainder
    BY <1>2, <1>5, <2>1
  <2>2. CASE Remainder /\ Left >= e
    BY <1>1, <1>2, <2>2
  <2>3. CASE Remainder /\ Left < e
    BY <1>1, <1>3, <1>5, <2>3
  <2>4. Left \in Nat
    OBVIOUS
  <2>5. QED
    BY <1>1, <2>1, <2>2, <2>3, <2>4
<1>6. QED
  BY <1>2, <1>4, <1>5 DEF Served, Matrix, n, e

\* A chunk some layer takes token by token is behind the last full one.
LEMMA OneByOneIsShort ==
    ASSUME EnvironmentOK, Left \in Nat \ {0}, base \in Nat, ~FullLayer,
           NEW l \in DOMAIN Layers, OneByOne(environment, l, Chunk)
    PROVE  Left - Chunk < Full /\ (Remainder => Left - Chunk < Wide)
<1> DEFINE n == Chunk
           e == environment.chunk
<1>1. /\ Wide \in Nat \ {0} /\ Batch \in Nat \ {0} /\ Batch < Wide /\ Full \in Nat
      /\ e \in Wide .. Full /\ e % Batch = 0 /\ Wide < Full
  BY DEF EnvironmentOK, e
<1>2. /\ n \in 1 .. Left /\ (Left >= e => n = e)
      /\ Remainder /\ Left < e => n = Left \/ n = (IF Left >= Wide THEN Wide ELSE Batch)
      /\ FullLayer <=> n = Full \/ (Remainder /\ n = Wide)
  BY ChunkIs DEF e
<1>3. n # e
  <2> SUFFICES ASSUME n = e PROVE FALSE
    OBVIOUS
  <2>1. Matrix(environment, n)
    BY <1>1 DEF Matrix
  <2>2. Layers[l] \in {"recurrent", "attention"}
    BY LayersAssumption
  <2>3. CASE Layers[l] = "recurrent"
    BY <2>1, <2>3 DEF OneByOne, WideRecurrent
  <2>4. CASE Layers[l] = "attention"
    <3>1. Prepared(environment, l, n)
      BY <1>1, <2>1, <2>4 DEF Prepared
    <3>2. QED
      BY <2>1, <3>1 DEF OneByOne, Batched
  <2>5. QED
    BY <2>2, <2>3, <2>4
<1> HIDE DEF n, e
<1>4. Left < e /\ Left \in Nat
  BY <1>1, <1>2, <1>3
<1>5. Left - n < Full
  BY <1>1, <1>2, <1>4
<1>6. ASSUME Remainder
      PROVE  Left - n < Wide
  <2>1. CASE n = Left
    BY <1>1, <1>4, <2>1
  <2>2. CASE n # Left
    <3>1. n # Wide
      BY <1>2, <1>6
    <3>2. Left < Wide
      BY <1>1, <1>2, <1>4, <1>6, <2>2, <3>1
    <3>3. QED
      BY <1>1, <1>2, <1>4, <3>2
  <2>3. QED
    BY <2>1, <2>2
<1>7. QED
  BY <1>5, <1>6 DEF n

\* No attention layer looks for rows of a wide layer before it.
LEMMA RowsAre ==
    ASSUME EnvironmentOK, Left \in Nat \ {0}, base \in Nat,
           environment.scheduler \notin {"partial", "compose"}, environment.chunk = Full
    PROVE  ~RowsMissing(environment, Route)
<1> SUFFICES ASSUME NEW l \in DOMAIN Layers, Prepared(environment, l, Chunk), ~FullLayer,
                    WideRecurrent(environment, l - 1, Chunk)
             PROVE  FALSE
  BY DEF RowsMissing, RowsExpected, Route
<1>1. Chunk >= Wide
  BY DEF WideRecurrent, Matrix
<1>2. Chunk \in {Batch, Full}
  BY DEF Prepared
<1>3. Chunk = Full
  BY <1>1, <1>2 DEF EnvironmentOK
<1>4. FullLayer
  BY <1>3, ChunkIs
<1>5. QED
  BY <1>4

-----------------------------------------------------------------------------
\* What a call has processed.

\* The device has taken some of the prompt, and some of it is left.
Prefilling ==
    /\ EnvironmentOK /\ environment \in Environments
    /\ Left \in Nat \ {0} /\ base \in 0 .. Len(prompt)
    /\ prompt \in Seq(Token) /\ live \in Device
    /\ live.state = SubSeq(prompt, 1, base)
    /\ base <= Len(live.kv) /\ SubSeq(live.kv, 1, base) = SubSeq(prompt, 1, base)

\* Behind a chunk the device has the tokens up to the boundary.
Took(after, scalar) ==
    /\ after \in Device
    /\ after.state = SubSeq(prompt, 1, Boundary)
    /\ Boundary <= Len(after.kv) /\ SubSeq(after.kv, 1, Boundary) = SubSeq(prompt, 1, Boundary)
    /\ after.scalar = (live.scalar \/ scalar)
    /\ after.misread = live.misread \union Misread(weights, environment, Route)

\* The boundary of a chunk lies in the prompt, beyond the last one.
LEMMA BoundaryIs ==
    ASSUME Prefilling
    PROVE  /\ Len(prompt) \in Nat /\ base \in Nat /\ Chunk \in Nat \ {0}
           /\ Boundary \in 1 .. Len(prompt) /\ base < Boundary
           /\ Tokens \in Seq(Token) \ {<<>>} /\ Len(Tokens) = Boundary
           /\ Boundary - base = Chunk /\ Len(prompt) - Boundary = Left - Chunk
<1>1. Len(prompt) \in Nat /\ base \in Nat
  BY DEF Prefilling
<1>2. Chunk \in 1 .. Left
  BY <1>1, ChunkIs DEF Prefilling
<1>3. Boundary \in 1 .. Len(prompt) /\ base < Boundary
  BY <1>1, <1>2 DEF Boundary, Left, Prefilling
<1>4. Tokens \in Seq(Token) /\ Len(Tokens) = Boundary
  <2>1. prompt \in Seq(Token) /\ Boundary \in 0 .. Len(prompt)
    BY <1>1, <1>3 DEF Prefilling
  <2>2. QED
    BY <2>1, UnderIsSubSeq DEF Tokens
<1>5. Tokens # <<>>
  BY <1>3, <1>4
<1>6. QED
  BY <1>1, <1>2, <1>3, <1>4, <1>5 DEF Boundary, Left

\* Processing a chunk takes the device to the boundary.
LEMMA ProcessedIs ==
    ASSUME Prefilling, NEW scalar \in BOOLEAN
    PROVE  Took(Processed(scalar), scalar)
<1> DEFINE tokens == SubSeq(prompt, base + 1, base + Chunk)
           front == SubSeq(prompt, 1, base)
           rows == SubSeq(live.kv, 1, base) \o tokens
           m == Min({Len(rows), Len(live.kv)})
           rest == From(live.kv, m)
           whole == SubSeq(prompt, 1, Boundary)
<1>1. /\ Len(prompt) \in Nat /\ base \in 0 .. Len(prompt) /\ Chunk \in Nat
      /\ Boundary \in 1 .. Len(prompt) /\ base <= Boundary
  BY BoundaryIs DEF Prefilling
<1>2. prompt \in Seq(Token) /\ prompt \in Seq(Fed)
  <2>1. Token \subseteq Fed
    BY DEF Fed
  <2>2. QED
    BY <2>1, SeqMonotonic DEF Prefilling
<1>3. live.kv \in Seq(Fed) /\ live.misread \subseteq {"rows", "weights"} /\ live.scalar \in BOOLEAN
  BY DEF Prefilling, Device
<1>4. front \o tokens = whole
  <2>1. 1 \in 1 .. Len(prompt) + 1 /\ base \in 1 - 1 .. Len(prompt) /\ Boundary \in base .. Len(prompt)
    BY <1>1
  <2>2. SubSeq(prompt, 1, base) \o SubSeq(prompt, base + 1, Boundary) = SubSeq(prompt, 1, Boundary)
    BY <1>2, <2>1, ConcatAdjacentSubSeq
  <2>3. QED
    BY <2>2 DEF Boundary
<1>5. whole \in Seq(Fed) /\ Len(whole) = Boundary
  <2>1. Boundary \in 0 .. Len(prompt)
    BY <1>1
  <2>2. QED
    BY <1>2, <2>1, UnderIsSubSeq
<1>6. rows = whole
  BY <1>4 DEF Prefilling
<1>7. m \in Nat
  <2>1. {Len(rows), Len(live.kv)} \in SUBSET Nat
    BY <1>1, <1>3, <1>5, <1>6
  <2>2. QED
    BY <2>1, MinIs
<1>8. rest \in Seq(Fed)
  <2> HIDE DEF m
  <2>1. \A i \in m + 1 .. Len(live.kv) : live.kv[i] \in Fed
    BY <1>3, <1>7
  <2>2. Len(live.kv) \in Nat
    BY <1>3
  <2>3. QED
    BY <1>7, <2>1, <2>2, SubSeqProperties DEF From
<1>9. Processed(scalar) = [state |-> live.state \o tokens, kv |-> rows \o rest,
          scalar |-> live.scalar \/ scalar,
          misread |-> live.misread \union Misread(weights, environment, Route)]
  BY DEF Processed
<1>10. live.state \o tokens = whole
  BY <1>4 DEF Prefilling
<1>11. Misread(weights, environment, Route) \subseteq {"rows", "weights"}
  BY DEF Misread
<1> HIDE DEF rows, tokens, rest, whole, front, m
<1>12. /\ rows \o rest \in Seq(Fed) /\ Len(rows \o rest) = Boundary + Len(rest) /\ Len(rest) \in Nat
  BY <1>5, <1>6, <1>8, ConcatProperties
<1>13. SubSeq(rows \o rest, 1, Boundary) = whole
  <2>1. 1 \in 1 .. Len(rows) /\ Boundary \in 1 .. Len(rows)
    BY <1>1, <1>5, <1>6
  <2>2. SubSeq(rows \o rest, 1, Boundary) = SubSeq(rows, 1, Boundary)
    BY <1>5, <1>6, <1>8, <2>1, SubSeqOfConcat1
  <2>3. SubSeq(whole, 1, Len(whole)) = whole
    BY <1>5, SubSeqFull
  <2>4. QED
    BY <1>5, <1>6, <2>2, <2>3
<1>14. Boundary <= Len(rows \o rest)
  BY <1>1, <1>12
<1>15. Processed(scalar) \in Device
  BY <1>3, <1>5, <1>9, <1>10, <1>11, <1>12 DEF Device
<1> DEFINE after == Processed(scalar)
<1>16. after.state = whole /\ after.kv = rows \o rest
  BY <1>9, <1>10
<1>17. after.misread = live.misread \union Misread(weights, environment, Route)
  BY <1>9
<1>18. after.scalar = (live.scalar \/ scalar)
  <2> DEFINE either == live.scalar \/ scalar
             read == live.misread \union Misread(weights, environment, Route)
  <2>1. after = [state |-> live.state \o tokens, kv |-> rows \o rest,
                 scalar |-> either, misread |-> read]
    BY <1>9
  <2> HIDE DEF either, read, after
  <2>2. after.scalar = either
    BY <2>1
  <2>3. QED
    BY <2>2 DEF either
<1>19. after \in Device
  BY <1>15
<1> HIDE DEF after
<1>20. Took(after, scalar)
  BY <1>13, <1>14, <1>16, <1>17, <1>18, <1>19 DEF Took, whole
<1>21. QED
  BY <1>20 DEF after

\* Room for a longer prefix takes more of it.
LEMMA StorageIs ==
    ASSUME NEW m \in Nat, NEW n \in Nat, m <= n
    PROVE  StorageBytes(m) \in Nat /\ StorageBytes(m) <= StorageBytes(n)
<1>1. StateBytes \in Nat /\ RowBytes \in Nat
  BY SizesAssumption
<1>2. PICK k \in Nat : n = m + k
  <2>1. n - m \in Nat /\ n = m + (n - m)
    OBVIOUS
  <2>2. QED
    BY <2>1
<1>3. 2 * n * RowBytes = 2 * m * RowBytes + 2 * k * RowBytes
  BY <1>1, <1>2
<1>4. 2 * m * RowBytes \in Nat /\ 2 * k * RowBytes \in Nat
  BY <1>1
<1>5. QED
  BY <1>1, <1>3, <1>4 DEF StorageBytes

\* No number is larger than the sum.
LEMMA TotalAtLeast ==
    ASSUME NEW s \in Seq(Nat), NEW i \in 1 .. Len(s)
    PROVE  s[i] <= Total(s)
<1>1. Total(RemoveAt(s, i)) = Total(s) - s[i] /\ RemoveAt(s, i) \in Seq(Nat)
  BY TotalRemoveAt, RemoveAtIs
<1>2. Total(s) \in Nat /\ Total(RemoveAt(s, i)) \in Nat /\ s[i] \in Nat
  BY <1>1, TotalNone, ElementOfSeq
<1>3. QED
  BY <1>1, <1>2

-----------------------------------------------------------------------------
\* Room for a checkpoint.
LEMMA CoherentSizes ==
    ASSUME NEW entries, NEW order, NEW size, Coherent(entries, order, size)
    PROVE  /\ size \in Nat /\ Len(entries) \in Nat /\ Len(order) = Len(entries)
           /\ \A i \in 1 .. Len(entries) : entries[i].bytes <= size
           /\ Len(entries) = 0 => entries = <<>> /\ size = 0
           /\ Len(entries) = 1 => size = entries[1].bytes
<1> DEFINE sizes == BytesOf(entries)
<1>1. /\ entries \in Seq(Entry) /\ Len(entries) \in Nat /\ Len(order) = Len(entries)
      /\ size = Total(sizes)
  BY DEF Coherent
<1>2. /\ sizes \in Seq(Nat) /\ Len(sizes) = Len(entries)
      /\ \A i \in 1 .. Len(entries) : sizes[i] = entries[i].bytes
  BY <1>1, EntriesAre
<1> HIDE DEF sizes
<1>3. size \in Nat
  BY <1>1, <1>2, TotalNone
<1>4. \A i \in 1 .. Len(entries) : entries[i].bytes <= size
  BY <1>1, <1>2, TotalAtLeast
<1>5. Len(entries) = 0 => entries = <<>> /\ size = 0
  <2> SUFFICES ASSUME Len(entries) = 0 PROVE entries = <<>> /\ size = 0
    OBVIOUS
  <2>1. entries = <<>> /\ sizes = <<>>
    BY <1>1, <1>2
  <2>2. QED
    BY <1>1, <2>1, TotalNone
<1>6. Len(entries) = 1 => size = entries[1].bytes
  <2> SUFFICES ASSUME Len(entries) = 1 PROVE size = entries[1].bytes
    OBVIOUS
  <2> DEFINE x == sizes[1]
  <2>1. x \in Nat /\ x = entries[1].bytes
    BY <1>2
  <2>2. sizes = Append(<<>>, x)
    BY <1>2
  <2> HIDE DEF x
  <2>3. <<>> \in Seq(Nat)
    OBVIOUS
  <2>4. Total(Append(<<>>, x)) = Total(<<>>) + x
    BY <2>1, <2>3, TotalAppend
  <2>5. QED
    BY <1>1, <2>1, <2>2, <2>4, TotalNone
<1>7. QED
  BY <1>1, <1>3, <1>4, <1>5, <1>6

\* A touched checkpoint leaves the cache coherent.
LEMMA CoherentUsed ==
    ASSUME NEW entries, NEW order, NEW size, Coherent(entries, order, size), NEW tokens
    PROVE  Coherent(entries, Used(order, tokens), size)
<1>1. order \in Seq(Seq(Token) \ {<<>>}) /\ Distinct(order)
  BY DEF Coherent
<1>2. /\ Used(order, tokens) \in Seq(Seq(Token) \ {<<>>})
      /\ UsedAs(Used(order, tokens), order, tokens)
  BY <1>1, UsedIs
<1>3. QED
  BY <1>2 DEF Coherent, UsedAs

\* What is used, or left over, is what checkpoints are named by.
LEMMA StoredIs ==
    ASSUME NEW entries, NEW order, NEW size, Coherent(entries, order, size), NEW tokens
    PROVE  tokens \in ToSet(order) <=> \E i \in DOMAIN entries : entries[i].tokens = tokens
<1>1. ToSet(order) = ToSet(PrefixesOf(entries))
  BY DEF Coherent
<1>2. QED
  BY <1>1 DEF ToSet, PrefixesOf

\* touch_session_checkpoint() keeps the cache and puts the restore point last.
LEMMA TouchedIs ==
    ASSUME Coherent(checkpoints, recency, bytes)
    PROVE  /\ Coherent(checkpoints, Touched, bytes)
           /\ reused # <<>> /\ Stores(reused) => Touched # <<>> /\ Touched[Len(Touched)] = reused
<1>1. CASE reused = <<>>
  BY <1>1 DEF Touched
<1>2. CASE reused # <<>>
  <2>1. Touched = Used(recency, reused)
    BY <1>2 DEF Touched
  <2>2. Coherent(checkpoints, Touched, bytes)
    BY <2>1, CoherentUsed
  <2>3. recency \in Seq(Seq(Token) \ {<<>>}) /\ Distinct(recency)
    BY DEF Coherent
  <2>4. UsedAs(Touched, recency, reused)
    BY <2>1, <2>3, UsedIs
  <2>5. Stores(reused) => reused \in ToSet(recency)
    BY StoredIs DEF Stores
  <2>6. QED
    BY <2>2, <2>4, <2>5 DEF UsedAs
<1>3. QED
  BY <1>1, <1>2

\* Once enough of the oldest are gone there is room; what the call resumed from
\* goes last.
Room(cache) ==
    /\ Coherent(cache.entries, cache.order, cache.bytes)
    /\ Subset(cache.entries, checkpoints)
    /\ Fits(cache) /\ cache.bytes <= bytes

\* What eviction lost it lost for room: the restore point goes only if it is in
\* the way of the new checkpoint.
LostFor(cache) ==
    /\ cache.entries = <<>>
    /\ MaxCheckpoints = 1 \/ StorageBytes(Len(reused)) + StorageBytes(Boundary) > Budget

\* The loop ends at the first cache that fits, or with none left.
LEMMA EvictedIs ==
    ASSUME Coherent(checkpoints, recency, bytes)
    PROVE  /\ Evicted \in 0 .. Len(Touched)
           /\ Evicted = Len(Touched) \/ Fits(Evictions[Evicted])
           /\ \A n \in 0 .. Len(Touched) : n < Evicted => ~Fits(Evictions[n])
<1> DEFINE S == {n \in 0 .. Len(Touched) : n = Len(Touched) \/ Fits(Evictions[n])}
<1>1. Len(Touched) \in Nat
  BY TouchedIs DEF Coherent
<1>2. S \in SUBSET Nat /\ Len(Touched) \in S
  BY <1>1
<1>3. Evicted = Min(S)
  BY DEF Evicted
<1>4. \A n \in S : n \in 0 .. Len(Touched) /\ (n = Len(Touched) \/ Fits(Evictions[n]))
  OBVIOUS
<1>5. \A n \in 0 .. Len(Touched) : Fits(Evictions[n]) => n \in S
  OBVIOUS
<1> HIDE DEF S
<1>6. Evicted \in S /\ \A n \in S : Evicted <= n
  BY <1>2, <1>3, MinIs
<1>7. QED
  BY <1>1, <1>2, <1>4, <1>5, <1>6

\* A checkpoint within the budget finds room behind the loop.
LEMMA RemainingFits ==
    ASSUME Coherent(checkpoints, recency, bytes), Prefilling, StorageBytes(Boundary) <= Budget
    PROVE  Room(Remaining)
<1> DEFINE c == Remaining
<1>1. Coherent(checkpoints, Touched, bytes) /\ Len(Touched) \in Nat
  BY TouchedIs DEF Coherent
<1>2. Evicted \in 0 .. Len(Touched) /\ (Evicted = Len(Touched) \/ Fits(c))
  BY EvictedIs DEF Remaining
<1>3. LeftOf(c, Evicted)
  BY <1>1, <1>2, EvictionsAre DEF Remaining
<1> HIDE DEF c
<1>4. /\ Coherent(c.entries, c.order, c.bytes) /\ Subset(c.entries, checkpoints)
      /\ c.order = SubSeq(Touched, Evicted + 1, Len(Touched)) /\ c.bytes <= bytes
  BY <1>3 DEF LeftOf
<1>5. Evicted = Len(Touched) => Fits(c)
  <2> SUFFICES ASSUME Evicted = Len(Touched) PROVE Fits(c)
    OBVIOUS
  <2>1. c.order = <<>>
    BY <1>1, <1>4, SubSeqEmpty
  <2>2. Len(c.entries) = 0 /\ c.bytes = 0
    <3>1. Len(c.order) = 0
      BY <2>1
    <3>2. Len(c.order) = Len(c.entries) /\ (Len(c.entries) = 0 => c.bytes = 0)
      BY <1>4, CoherentSizes
    <3>3. QED
      BY <3>1, <3>2
  <2>3. StorageBytes(Boundary) \in Nat
    BY BoundaryIs, StorageIs
  <2>4. QED
    BY <2>2, <2>3, SizesAssumption DEF Fits
<1>6. QED
  BY <1>2, <1>4, <1>5 DEF Room, c

\* What the call resumed from is left, or nothing is: both have no room together.
LEMMA RestorePointLasts ==
    ASSUME Coherent(checkpoints, recency, bytes), Prefilling,
           reused \in Seq(Token) \ {<<>>}, Stores(reused)
    PROVE  (\E i \in DOMAIN Remaining.entries : Remaining.entries[i].tokens = reused)
               \/ LostFor(Remaining)
<1> DEFINE N == Len(Touched)
           c == Remaining
           d == Evictions[N - 1]
<1>1. Coherent(checkpoints, Touched, bytes) /\ Touched # <<>> /\ Touched[N] = reused
  BY TouchedIs
<1>2. Touched \in Seq(Seq(Token) \ {<<>>})
  BY <1>1 DEF Coherent
<1>3. N \in Nat \ {0}
  BY <1>1, <1>2
<1>4. Evicted \in 0 .. N /\ \A n \in 0 .. N : n < Evicted => ~Fits(Evictions[n])
  BY EvictedIs
<1>5. \A n \in 0 .. N : /\ Coherent(Evictions[n].entries, Evictions[n].order, Evictions[n].bytes)
                        /\ Evictions[n].order = SubSeq(Touched, n + 1, N)
                        /\ Subset(Evictions[n].entries, checkpoints)
  BY <1>1, EvictionsAre DEF LeftOf
<1>6. c = Evictions[Evicted]
  BY DEF Remaining
<1> HIDE DEF N, c
<1>7. CASE Evicted < N
  <2>1. \A i \in Evicted + 1 .. N : Touched[i] \in Seq(Token) \ {<<>>}
    BY <1>2, <1>4 DEF N
  <2>2. Evicted + 1 \in Int /\ N \in Int /\ Evicted + 1 <= N
    BY <1>3, <1>4, <1>7
  <2>3. /\ c.order \in Seq(Seq(Token) \ {<<>>}) /\ Len(c.order) = N - Evicted
        /\ \A i \in 1 .. N - Evicted : c.order[i] = Touched[Evicted + i]
    <3> DEFINE X == Seq(Token) \ {<<>>}
               o == SubSeq(Touched, Evicted + 1, N)
    <3>1. \A i \in Evicted + 1 .. N : Touched[i] \in X
      BY <2>1
    <3> HIDE DEF X
    <3>2. /\ o \in Seq(X) /\ Len(o) = N - (Evicted + 1) + 1
          /\ \A i \in 1 .. N - (Evicted + 1) + 1 : o[i] = Touched[(Evicted + 1) + i - 1]
      BY <2>2, <3>1, SubSeqProperties
    <3>3. c.order = o
      BY <1>4, <1>5, <1>6
    <3> HIDE DEF o
    <3>4. N - (Evicted + 1) + 1 = N - Evicted
      BY <1>3, <1>4
    <3>5. \A i \in 1 .. N - Evicted : (Evicted + 1) + i - 1 = Evicted + i
      BY <1>3, <1>4
    <3>6. QED
      BY <3>2, <3>3, <3>4, <3>5 DEF X
  <2>4. N - Evicted \in 1 .. N - Evicted /\ Evicted + (N - Evicted) = N
    BY <1>3, <1>4, <1>7
  <2>5. c.order[N - Evicted] = reused /\ N - Evicted \in DOMAIN c.order
    BY <1>1, <2>3, <2>4
  <2>6. reused \in ToSet(c.order)
    BY <2>5 DEF ToSet
  <2>7. Coherent(c.entries, c.order, c.bytes)
    BY <1>4, <1>5, <1>6
  <2>8. QED
    BY <2>6, <2>7, StoredIs DEF c
<1>8. CASE Evicted = N
  <2>1. Coherent(c.entries, c.order, c.bytes) /\ c.order = SubSeq(Touched, N + 1, N)
    BY <1>4, <1>5, <1>6, <1>8
  <2>2. c.entries = <<>>
    <3>1. c.order = <<>>
      BY <1>3, <2>1, SubSeqEmpty
    <3>2. Len(c.order) = 0
      BY <3>1
    <3>3. Len(c.order) = Len(c.entries) /\ (Len(c.entries) = 0 => c.entries = <<>>)
      BY <2>1, CoherentSizes
    <3>4. QED
      BY <3>2, <3>3
  <2>3. N - 1 \in 0 .. N /\ N - 1 < Evicted /\ (N - 1) + 1 = N
    BY <1>3, <1>8
  <2>4. /\ ~Fits(d) /\ Coherent(d.entries, d.order, d.bytes) /\ d.order = SubSeq(Touched, N, N)
    BY <1>4, <1>5, <2>3
  <2> HIDE DEF d
  <2>5. Len(d.order) = 1 /\ DOMAIN d.order = {1} /\ d.order[1] = reused
    <3> DEFINE X == Seq(Token) \ {<<>>}
    <3>1. N \in 1 .. Len(Touched) /\ N \in N .. N
      BY <1>3 DEF N
    <3>2. \A i \in N .. N : Touched[i] \in X
      BY <1>2, <3>1
    <3> HIDE DEF X
    <3>3. /\ SubSeq(Touched, N, N) \in Seq(X) /\ Len(SubSeq(Touched, N, N)) = N - N + 1
          /\ \A i \in 1 .. N - N + 1 : SubSeq(Touched, N, N)[i] = Touched[N + i - 1]
      BY <1>3, <3>2, SubSeqProperties
    <3>4. N - N + 1 = 1 /\ N + 1 - 1 = N /\ 1 \in 1 .. 1 /\ 1 .. 1 = {1}
      BY <1>3
    <3>5. QED
      BY <1>1, <2>4, <3>3, <3>4
  <2>6. Len(d.entries) = 1 /\ d.bytes = d.entries[1].bytes
    BY <2>4, <2>5, CoherentSizes
  <2>7. d.entries[1].tokens = reused
    <3>1. reused \in ToSet(d.order)
      BY <2>5 DEF ToSet
    <3>2. PICK i \in DOMAIN d.entries : d.entries[i].tokens = reused
      BY <2>4, <3>1, StoredIs
    <3>3. DOMAIN d.entries = 1 .. Len(d.entries)
      BY <2>4 DEF Coherent
    <3>4. i = 1
      BY <2>6, <3>2, <3>3
    <3>5. QED
      BY <3>2, <3>4
  <2>8. d.entries[1].bytes = StorageBytes(Len(reused))
    <3>1. d.entries \in Seq(Entry) /\ 1 \in 1 .. Len(d.entries)
      BY <2>4, <2>6 DEF Coherent
    <3>2. d.entries[1] \in Entry
      BY <3>1, ElementOfSeq
    <3>3. QED
      BY <2>7, <3>2 DEF Entry
  <2>9. MaxCheckpoints = 1 \/ StorageBytes(Len(reused)) + StorageBytes(Boundary) > Budget
    <3>1. ~(1 < MaxCheckpoints) \/ ~(d.bytes + StorageBytes(Boundary) <= Budget)
      BY <2>4, <2>6 DEF Fits
    <3>2. StorageBytes(Len(reused)) \in Nat /\ StorageBytes(Boundary) \in Nat
      BY BoundaryIs, StorageIs
    <3>3. MaxCheckpoints \in Nat \ {0} /\ Budget \in Nat
      BY SizesAssumption
    <3>4. d.bytes = StorageBytes(Len(reused))
      BY <2>6, <2>8
    <3> HIDE DEF d
    <3>5. QED
      BY <3>1, <3>2, <3>3, <3>4
  <2>10. QED
    BY <2>2, <2>9 DEF LostFor, c
<1>9. N \in Nat /\ Evicted \in Nat /\ (Evicted < N \/ Evicted = N)
  BY <1>3, <1>4
<1>10. QED
  BY <1>7, <1>8, <1>9

\* Where it is gone already nothing is left.
LEMMA RestorePointGone ==
    ASSUME Coherent(checkpoints, recency, bytes), Prefilling, StorageBytes(Boundary) <= Budget,
           reused \in Seq(Token), Len(reused) <= base,
           \A i \in DOMAIN checkpoints : Len(reused) <= Len(checkpoints[i].tokens),
           MaxCheckpoints = 1 \/ StorageBytes(Len(reused)) + StorageBytes(base) > Budget
    PROVE  LostFor(Remaining)
<1> DEFINE c == Remaining
<1>1. Room(c)
  BY RemainingFits
<1> HIDE DEF c
<1>2. /\ Coherent(c.entries, c.order, c.bytes) /\ Subset(c.entries, checkpoints)
      /\ Len(c.entries) < MaxCheckpoints /\ c.bytes + StorageBytes(Boundary) <= Budget
  BY <1>1 DEF Room, Fits
<1>3. /\ c.bytes \in Nat /\ Len(c.entries) \in Nat
      /\ \A i \in 1 .. Len(c.entries) : c.entries[i].bytes <= c.bytes
      /\ Len(c.entries) = 0 => c.entries = <<>>
  BY <1>2, CoherentSizes
<1>4. /\ StorageBytes(base) \in Nat /\ StorageBytes(Boundary) \in Nat
      /\ StorageBytes(base) <= StorageBytes(Boundary) /\ StorageBytes(Len(reused)) \in Nat
  <2>1. base \in Nat /\ Boundary \in Nat /\ base <= Boundary /\ Len(reused) \in Nat
    BY BoundaryIs
  <2>2. QED
    BY <2>1, StorageIs
<1>5. MaxCheckpoints \in Nat \ {0} /\ Budget \in Nat
  BY SizesAssumption
<1>6. MaxCheckpoints = 1 \/ StorageBytes(Len(reused)) + StorageBytes(Boundary) > Budget
  BY <1>4, <1>5
<1>7. Len(c.entries) = 0
  <2> SUFFICES ASSUME Len(c.entries) # 0 PROVE FALSE
    OBVIOUS
  <2>1. 1 \in 1 .. Len(c.entries) /\ c.entries \in Seq(Entry)
    BY <1>2, <1>3 DEF Coherent
  <2>2. c.entries[1] \in Entry /\ 1 \in DOMAIN c.entries
    BY <2>1, ElementOfSeq
  <2>3. PICK j \in DOMAIN checkpoints : c.entries[1] = checkpoints[j]
    BY <1>2, <2>2 DEF Subset
  <2>4. /\ c.entries[1].bytes = StorageBytes(Len(c.entries[1].tokens))
        /\ Len(c.entries[1].tokens) \in Nat
    BY <2>2 DEF Entry
  <2>5. Len(reused) <= Len(c.entries[1].tokens) /\ Len(reused) \in Nat
    BY <2>3
  <2> DEFINE x == c.entries[1].bytes
             n == Len(c.entries[1].tokens)
  <2>6. x = StorageBytes(n) /\ n \in Nat /\ Len(reused) <= n /\ x <= c.bytes
    BY <1>3, <2>1, <2>4, <2>5
  <2> HIDE DEF x, n
  <2>7. StorageBytes(Len(reused)) <= StorageBytes(n) /\ StorageBytes(n) \in Nat
    BY <2>5, <2>6, StorageIs
  <2>8. StorageBytes(Len(reused)) + StorageBytes(Boundary) <= Budget
    BY <1>2, <1>3, <1>4, <1>5, <2>6, <2>7
  <2>9. MaxCheckpoints = 1
    BY <1>4, <1>5, <1>6, <2>8
  <2>10. QED
    BY <1>2, <1>3, <2>9
<1>8. QED
  BY <1>3, <1>6, <1>7 DEF LostFor, c

-----------------------------------------------------------------------------
\* The cache behind a capture.

\* What a checkpoint is made of: a boundary, and a device nothing went through one
\* by one.
Capturing ==
    /\ Prefilling /\ Cached(checkpoints, recency, root, bytes)
    /\ Took(live', FALSE) /\ ~live.scalar
    /\ Boundary % Full = 0 /\ ToCapture

\* The cache is one again, what the call resumed from is kept or lost for want of
\* room, and no fault is new.
Captured ==
    /\ Cached(checkpoints', recency', root', bytes')
    /\ reused # <<>> /\ RestorePoint(checkpoints, base) => RestorePoint(checkpoints', Boundary)
    /\ \A fault : Without(fault, live, checkpoints) /\ fault \notin live'.misread
                      => Without(fault, live', checkpoints')

\* What is captured is a checkpoint of the processed tokens.
LEMMA StoredEntry ==
    ASSUME Capturing
    PROVE  /\ Stored(live') \in Entry /\ Stored(live').tokens = Tokens
           /\ Stored(live').bytes = StorageBytes(Boundary)
           /\ Stored(live').saved.misread = live'.misread
<1> DEFINE d == live'
           saved == [d EXCEPT !.kv = SubSeq(d.kv, 1, Boundary)]
<1>1. /\ d \in Device /\ d.state = Tokens /\ SubSeq(d.kv, 1, Boundary) = Tokens
      /\ d.scalar = (live.scalar \/ FALSE) /\ ~live.scalar
  BY DEF Capturing, Took, Tokens
<1>2. /\ Tokens \in Seq(Token) \ {<<>>} /\ Len(Tokens) = Boundary /\ Boundary \in Nat
  BY BoundaryIs DEF Capturing
<1>3. Tokens \in Seq(Fed)
  <2>1. Token \subseteq Fed
    BY DEF Fed
  <2>2. QED
    BY <1>2, <2>1, SeqMonotonic
<1>4. StorageBytes(Boundary) \in Nat
  BY <1>2, StorageIs
<1>5. ~d.scalar
  BY <1>1
<1> HIDE DEF d
<1>6. /\ saved \in Device /\ saved.state = Tokens /\ saved.kv = Tokens /\ ~saved.scalar
      /\ saved.misread = d.misread
  BY <1>1, <1>3, <1>5 DEF Device
<1>7. Stored(d) = [tokens |-> Tokens, bytes |-> StorageBytes(Boundary), saved |-> saved]
  BY DEF Stored
<1> HIDE DEF saved
<1>8. Boundary % Full = 0
  BY DEF Capturing
<1>9. /\ Stored(d).tokens = Tokens /\ Stored(d).bytes = StorageBytes(Boundary)
      /\ Stored(d).saved = saved
      /\ Stored(d) \in [tokens : Seq(Token) \ {<<>>}, bytes : Nat, saved : Device]
  BY <1>2, <1>4, <1>6, <1>7
<1>10. Stored(d) \in Entry
  BY <1>2, <1>6, <1>8, <1>9 DEF Entry
<1>11. QED
  BY <1>6, <1>9, <1>10 DEF d

\* Checkpoints of the same tokens in the same places.
LEMMA SameNames ==
    ASSUME NEW old \in Seq(Entry), NEW new \in Seq(Entry), Len(new) = Len(old),
           \A i \in 1 .. Len(old) : new[i].tokens = old[i].tokens
    PROVE  PrefixesOf(new) = PrefixesOf(old) /\ BytesOf(new) = BytesOf(old)
<1>1. DOMAIN new = 1 .. Len(old) /\ DOMAIN old = 1 .. Len(old)
  OBVIOUS
<1>2. \A i \in 1 .. Len(old) : new[i].bytes = old[i].bytes
  <2> TAKE i \in 1 .. Len(old)
  <2>1. new[i] \in Entry /\ old[i] \in Entry
    BY ElementOfSeq
  <2>2. QED
    BY <2>1 DEF Entry
<1>3. PrefixesOf(new) = [i \in 1 .. Len(old) |-> new[i].tokens]
      /\ PrefixesOf(old) = [i \in 1 .. Len(old) |-> old[i].tokens]
      /\ BytesOf(new) = [i \in 1 .. Len(old) |-> new[i].bytes]
      /\ BytesOf(old) = [i \in 1 .. Len(old) |-> old[i].bytes]
  BY <1>1 DEF PrefixesOf, BytesOf
<1>4. QED
  BY <1>2, <1>3

\* What has no room with a boundary has none with a later one.
LEMMA RestorePointLater ==
    ASSUME NEW entries, RestorePoint(entries, base), Prefilling
    PROVE  RestorePoint(entries, Boundary)
<1>1. base \in Nat /\ Boundary \in Nat /\ base <= Boundary
  BY BoundaryIs
<1>2. StorageBytes(base) <= StorageBytes(Boundary) /\ StorageBytes(base) \in Nat
      /\ StorageBytes(Boundary) \in Nat
  BY <1>1, StorageIs
<1>3. reused \in Seq(Token) /\ Len(reused) \in Nat
  BY DEF RestorePoint
<1>4. StorageBytes(Len(reused)) \in Nat /\ Budget \in Nat
  BY <1>3, StorageIs, SizesAssumption
<1>5. Len(reused) <= Boundary
  BY <1>1, <1>3 DEF RestorePoint
<1>6. StorageBytes(Len(reused)) + StorageBytes(base) > Budget
          => StorageBytes(Len(reused)) + StorageBytes(Boundary) > Budget
  BY <1>2, <1>4
<1>7. QED
  BY <1>5, <1>6 DEF RestorePoint

\* A checkpoint taken again.
LEMMA RecaptureKeeps ==
    ASSUME Capturing, Recapture(live')
    PROVE  Captured
<1> DEFINE new == checkpoints'
           N == Len(checkpoints)
           entry == Stored(live')
<1>1. /\ entry \in Entry /\ entry.tokens = Tokens /\ entry.saved.misread = live'.misread
  BY StoredEntry
<1>2. /\ Coherent(checkpoints, recency, bytes) /\ Indexes(root, Token, PrefixesOf(checkpoints))
      /\ bytes <= Budget /\ Len(checkpoints) <= MaxCheckpoints
      /\ checkpoints \in Seq(Entry) /\ N \in Nat /\ DOMAIN checkpoints = 1 .. N
  BY DEF Capturing, Cached, Coherent
<1>3. new = [i \in 1 .. N |-> IF checkpoints[i].tokens = Tokens THEN entry ELSE checkpoints[i]]
      /\ recency' = Used(Touched, Tokens) /\ root' = root /\ bytes' = bytes
  BY <1>2 DEF Recapture
<1> HIDE DEF entry, new, N
<1>4. \A i \in 1 .. N : checkpoints[i] \in Entry
  BY <1>2, ElementOfSeq DEF N
<1>5. new \in Seq(Entry) /\ Len(new) = N /\ DOMAIN new = 1 .. N
  <2>1. \A i \in 1 .. N : (IF checkpoints[i].tokens = Tokens THEN entry ELSE checkpoints[i]) \in Entry
    BY <1>1, <1>4
  <2>2. new \in Seq(Entry)
    BY <1>2, <1>3, <2>1, IsASeq
  <2>3. QED
    BY <1>2, <1>3, <2>2
<1>6. \A i \in 1 .. N : new[i].tokens = checkpoints[i].tokens
  BY <1>1, <1>3
<1>7. PrefixesOf(new) = PrefixesOf(checkpoints) /\ BytesOf(new) = BytesOf(checkpoints)
  BY <1>2, <1>5, <1>6, SameNames DEF N
<1>8. Coherent(checkpoints, Used(Touched, Tokens), bytes)
  BY <1>2, TouchedIs, CoherentUsed
<1>9. Coherent(new, recency', bytes')
  BY <1>3, <1>5, <1>7, <1>8 DEF Coherent, N
<1>10. Cached(new, recency', root', bytes')
  BY <1>2, <1>3, <1>5, <1>7, <1>9 DEF Cached, N
<1>11. ASSUME reused # <<>>, RestorePoint(checkpoints, base)
       PROVE  RestorePoint(new, Boundary)
  <2>1. RestorePoint(checkpoints, Boundary)
    BY <1>11, RestorePointLater DEF Capturing
  <2>2. QED
    BY <1>2, <1>5, <1>6, <2>1 DEF RestorePoint, N
<1>12. ASSUME NEW fault, Without(fault, live, checkpoints), fault \notin live'.misread
       PROVE  Without(fault, live', new)
  <2>1. \A i \in 1 .. N : fault \notin new[i].saved.misread
    BY <1>1, <1>2, <1>3, <1>12 DEF Without
  <2>2. QED
    BY <1>5, <1>12, <2>1 DEF Without
<1>13. QED
  BY <1>10, <1>11, <1>12 DEF Captured, new

\* Some of the checkpoints that a call resumed from one of, once others are gone.
LEMMA RemainingKeeps ==
    ASSUME Capturing
    PROVE  /\ Room(Remaining)
           /\ reused # <<>> /\ RestorePoint(checkpoints, base) =>
                  (\E i \in DOMAIN Remaining.entries : Remaining.entries[i].tokens = reused)
                      \/ LostFor(Remaining)
<1>1. Coherent(checkpoints, recency, bytes) /\ Prefilling /\ StorageBytes(Boundary) <= Budget
  BY DEF Capturing, Cached, ToCapture
<1>2. Room(Remaining)
  BY <1>1, RemainingFits
<1>3. ASSUME reused # <<>>, RestorePoint(checkpoints, base)
      PROVE  (\E i \in DOMAIN Remaining.entries : Remaining.entries[i].tokens = reused)
                 \/ LostFor(Remaining)
  <2>1. reused \in Seq(Token) \ {<<>>} /\ Len(reused) <= base
    BY <1>3 DEF RestorePoint
  <2>2. CASE Stores(reused)
    BY <1>1, <2>1, <2>2, RestorePointLasts
  <2>3. CASE ~Stores(reused)
    <3>1. /\ \A i \in DOMAIN checkpoints : Len(reused) <= Len(checkpoints[i].tokens)
          /\ MaxCheckpoints = 1 \/ StorageBytes(Len(reused)) + StorageBytes(base) > Budget
      BY <1>3, <2>3 DEF RestorePoint, Stores
    <3>2. QED
      BY <1>1, <2>1, <3>1, RestorePointGone
  <2>4. QED
    BY <2>2, <2>3
<1>4. QED
  BY <1>2, <1>3

\* A new checkpoint, behind the evictions for it.
LEMMA CaptureKeeps ==
    ASSUME Capturing, Capture(live')
    PROVE  Captured
<1> DEFINE c == Remaining
           entry == Stored(live')
           new == checkpoints'
           names == PrefixesOf(c.entries)
           sizes == BytesOf(c.entries)
           N == Len(c.entries)
           X == Seq(Token) \ {<<>>}
<1>1. /\ entry \in Entry /\ entry.tokens = Tokens /\ entry.bytes = StorageBytes(Boundary)
      /\ entry.saved.misread = live'.misread
  BY StoredEntry
<1>2. /\ Room(c)
      /\ reused # <<>> /\ RestorePoint(checkpoints, base) =>
             (\E i \in DOMAIN c.entries : c.entries[i].tokens = reused) \/ LostFor(c)
  BY RemainingKeeps
<1>3. /\ new = Append(c.entries, entry) /\ recency' = Append(c.order, Tokens)
      /\ root' = Rebuilt(PrefixesOf(new)) /\ bytes' = c.bytes + StorageBytes(Boundary)
      /\ Tokens \notin ToSet(PrefixesOf(checkpoints))
  BY DEF Capture
<1> HIDE DEF entry, new, c
<1>4. /\ Coherent(c.entries, c.order, c.bytes) /\ Subset(c.entries, checkpoints) /\ Fits(c)
      /\ c.entries \in Seq(Entry) /\ N \in Nat /\ DOMAIN c.entries = 1 .. N
      /\ Distinct(names) /\ c.order \in Seq(X) /\ Distinct(c.order)
      /\ ToSet(c.order) = ToSet(names) /\ Len(c.order) = N
      /\ c.bytes = Total(sizes)
  BY <1>2 DEF Room, Coherent
<1>5. /\ names \in Seq(X) /\ Len(names) = N
      /\ \A i \in 1 .. N : names[i] = c.entries[i].tokens
      /\ sizes \in Seq(Nat) /\ Len(sizes) = N
      /\ \A i \in 1 .. N : sizes[i] = c.entries[i].bytes
  BY <1>4, EntriesAre
<1>6. /\ Tokens \in X /\ Boundary \in Nat /\ Len(Tokens) = Boundary
      /\ StorageBytes(Boundary) \in Nat /\ Boundary >= base /\ base \in Nat
  BY BoundaryIs, StorageIs DEF Capturing
<1>7. Tokens \notin ToSet(names)
  BY <1>3, <1>4 DEF Subset, ToSet, PrefixesOf
<1> HIDE DEF names, sizes, N, X
<1>8. /\ new \in Seq(Entry) /\ Len(new) = N + 1 /\ DOMAIN new = 1 .. N + 1
      /\ \A i \in 1 .. N : new[i] = c.entries[i]
      /\ new[N + 1] = entry
  <2>1. /\ new \in Seq(Entry) /\ Len(new) = N + 1
        /\ \A i \in 1 .. N : new[i] = c.entries[i]
        /\ new[N + 1] = entry
    BY <1>1, <1>3, <1>4, AppendProperties DEF N
  <2>2. QED
    BY <2>1
<1>9. PrefixesOf(new) = Append(names, Tokens)
  <2>1. /\ PrefixesOf(new) \in Seq(X) /\ Len(PrefixesOf(new)) = N + 1
        /\ \A i \in 1 .. N + 1 : PrefixesOf(new)[i] = new[i].tokens
    BY <1>8, EntriesAre DEF X
  <2>2. /\ Append(names, Tokens) \in Seq(X) /\ Len(Append(names, Tokens)) = N + 1
        /\ \A i \in 1 .. N : Append(names, Tokens)[i] = names[i]
        /\ Append(names, Tokens)[N + 1] = Tokens
    BY <1>5, <1>6, AppendProperties
  <2>3. \A i \in 1 .. N + 1 : PrefixesOf(new)[i] = Append(names, Tokens)[i]
    <3> TAKE i \in 1 .. N + 1
    <3>1. CASE i = N + 1
      BY <1>1, <1>8, <2>1, <2>2, <3>1
    <3>2. CASE i # N + 1
      <4>1. i \in 1 .. N
        BY <1>4, <3>2
      <4>2. QED
        BY <1>5, <1>8, <2>1, <2>2, <4>1
    <3>3. QED
      BY <3>1, <3>2
  <2>4. \A i \in 1 .. Len(PrefixesOf(new)) : PrefixesOf(new)[i] = Append(names, Tokens)[i]
    BY <2>1, <2>3
  <2>5. QED
    BY <2>1, <2>2, <2>4, SeqEqual
<1>10. BytesOf(new) = Append(sizes, StorageBytes(Boundary))
  <2> DEFINE x == StorageBytes(Boundary)
  <2>1. /\ BytesOf(new) \in Seq(Nat) /\ Len(BytesOf(new)) = N + 1
        /\ \A i \in 1 .. N + 1 : BytesOf(new)[i] = new[i].bytes
    BY <1>8, EntriesAre
  <2>2. /\ Append(sizes, x) \in Seq(Nat) /\ Len(Append(sizes, x)) = N + 1
        /\ \A i \in 1 .. N : Append(sizes, x)[i] = sizes[i]
        /\ Append(sizes, x)[N + 1] = x
    BY <1>5, <1>6, AppendProperties
  <2>3. \A i \in 1 .. N + 1 : BytesOf(new)[i] = Append(sizes, x)[i]
    <3> TAKE i \in 1 .. N + 1
    <3>1. CASE i = N + 1
      BY <1>1, <1>8, <2>1, <2>2, <3>1
    <3>2. CASE i # N + 1
      <4>1. i \in 1 .. N
        BY <1>4, <3>2
      <4>2. QED
        BY <1>5, <1>8, <2>1, <2>2, <4>1
    <3>3. QED
      BY <3>1, <3>2
  <2>4. \A i \in 1 .. Len(BytesOf(new)) : BytesOf(new)[i] = Append(sizes, x)[i]
    BY <2>1, <2>3
  <2>5. QED
    BY <2>1, <2>2, <2>4, SeqEqual
<1>11. /\ Append(names, Tokens) \in Seq(X) /\ Distinct(Append(names, Tokens))
       /\ ToSet(Append(names, Tokens)) = ToSet(names) \union {Tokens}
  BY <1>4, <1>5, <1>6, <1>7, DistinctAppend
<1>12. /\ Append(c.order, Tokens) \in Seq(X) /\ Distinct(Append(c.order, Tokens))
       /\ ToSet(Append(c.order, Tokens)) = ToSet(c.order) \union {Tokens}
       /\ Len(Append(c.order, Tokens)) = N + 1
  BY <1>4, <1>6, <1>7, DistinctAppend
<1>13. bytes' = Total(BytesOf(new))
  BY <1>3, <1>4, <1>5, <1>6, <1>10, TotalAppend
<1>14. Coherent(new, recency', bytes')
  BY <1>3, <1>4, <1>8, <1>9, <1>11, <1>12, <1>13 DEF Coherent, X
<1>15. Indexes(root', Token, PrefixesOf(new))
  BY <1>3, <1>9, <1>11, RebuiltIs DEF X
<1>16. bytes' <= Budget /\ Len(new) <= MaxCheckpoints
  <2>1. N < MaxCheckpoints /\ c.bytes + StorageBytes(Boundary) <= Budget /\ MaxCheckpoints \in Nat
    BY <1>4, SizesAssumption DEF Fits, N
  <2>2. QED
    BY <1>3, <1>4, <1>8, <2>1
<1>17. Cached(new, recency', root', bytes')
  BY <1>14, <1>15, <1>16 DEF Cached
<1>18. ASSUME reused # <<>>, RestorePoint(checkpoints, base)
       PROVE  RestorePoint(new, Boundary)
  <2>1. reused \in Seq(Token) /\ Len(reused) <= base /\ Len(reused) \in Nat
    BY <1>18 DEF RestorePoint
  <2>2. Len(reused) <= Boundary
    BY <1>6, <2>1
  <2>3. CASE \E i \in DOMAIN c.entries : c.entries[i].tokens = reused
    <3>1. \A i \in DOMAIN c.entries : i \in DOMAIN new /\ new[i] = c.entries[i]
      BY <1>4, <1>8
    <3>2. QED
      BY <2>1, <2>2, <2>3, <3>1 DEF RestorePoint
  <2>4. CASE LostFor(c)
    <3>1. N = 0
      BY <2>4 DEF LostFor, N
    <3>2. Len(new) = 1 /\ \A i \in DOMAIN new : new[i].tokens = Tokens
      BY <1>1, <1>8, <3>1
    <3>3. Len(reused) <= Len(Tokens)
      BY <1>6, <2>2
    <3>4. QED
      BY <2>1, <2>2, <2>4, <3>2, <3>3 DEF RestorePoint, LostFor
  <2>5. QED
    BY <1>2, <1>18, <2>3, <2>4
<1>19. ASSUME NEW fault, Without(fault, live, checkpoints), fault \notin live'.misread
       PROVE  Without(fault, live', new)
  <2>1. \A i \in 1 .. N : fault \notin c.entries[i].saved.misread
    BY <1>4, <1>19 DEF Without, Subset
  <2>2. \A i \in 1 .. N + 1 : i \in 1 .. N \/ i = N + 1
    BY <1>4
  <2>3. \A i \in DOMAIN new : fault \notin new[i].saved.misread
    BY <1>1, <1>8, <1>19, <2>1, <2>2
  <2>4. QED
    BY <1>19, <2>3 DEF Without
<1>20. QED
  BY <1>17, <1>18, <1>19 DEF Captured, new

\* A checkpoint whose allocation fails, behind the evictions for it.
LEMMA AllocationFailsKeeps ==
    ASSUME Capturing, AllocationFails
    PROVE  Captured
<1> DEFINE c == Remaining
<1>1. /\ Room(c)
      /\ reused # <<>> /\ RestorePoint(checkpoints, base) =>
             (\E i \in DOMAIN c.entries : c.entries[i].tokens = reused) \/ LostFor(c)
  BY RemainingKeeps
<1>2. /\ checkpoints' = c.entries /\ recency' = c.order /\ root' = RootAfterEviction
      /\ bytes' = c.bytes
  BY DEF AllocationFails
<1>3. Evicted = 0 => c.entries = checkpoints
  <2>1. Coherent(checkpoints, Touched, bytes)
    BY TouchedIs DEF Capturing, Cached
  <2>2. Evictions[0].entries = checkpoints
    BY <2>1, EvictionsAre
  <2>3. QED
    BY <2>2 DEF Remaining
<1>4. root' = IF Evicted = 0 THEN root ELSE Rebuilt(PrefixesOf(c.entries))
  BY <1>2 DEF RootAfterEviction
<1> HIDE DEF c
<1>5. /\ Coherent(c.entries, c.order, c.bytes) /\ Subset(c.entries, checkpoints)
      /\ Fits(c) /\ c.bytes <= bytes
  BY <1>1 DEF Room
<1>6. Indexes(root', Token, PrefixesOf(c.entries))
  <2>1. CASE Evicted = 0
    BY <1>3, <1>4, <2>1 DEF Capturing, Cached
  <2>2. CASE Evicted # 0
    <3>1. PrefixesOf(c.entries) \in Seq(Seq(Token) \ {<<>>}) /\ Distinct(PrefixesOf(c.entries))
      BY <1>5, EntriesAre DEF Coherent
    <3>2. QED
      BY <1>4, <2>2, <3>1, RebuiltIs
  <2>3. QED
    BY <2>1, <2>2
<1>7. c.bytes <= Budget /\ Len(c.entries) <= MaxCheckpoints
  <2>1. c.bytes \in Nat /\ Len(c.entries) \in Nat
    BY <1>5, CoherentSizes
  <2>2. StorageBytes(Boundary) \in Nat
    BY BoundaryIs, StorageIs DEF Capturing
  <2>3. QED
    BY <1>5, <2>1, <2>2, SizesAssumption DEF Fits
<1>8. Cached(checkpoints', recency', root', bytes')
  BY <1>2, <1>5, <1>6, <1>7 DEF Cached
<1>9. ASSUME reused # <<>>, RestorePoint(checkpoints, base)
      PROVE  RestorePoint(c.entries, Boundary)
  <2>1. reused \in Seq(Token) /\ Len(reused) <= Boundary
    BY <1>9, RestorePointLater DEF RestorePoint, Capturing
  <2>2. CASE LostFor(c)
    <3>1. Len(c.entries) = 0 /\ DOMAIN c.entries = {}
      BY <2>2 DEF LostFor
    <3>2. QED
      BY <2>1, <2>2, <3>1 DEF RestorePoint, LostFor
  <2>3. QED
    BY <1>1, <1>9, <2>1, <2>2 DEF RestorePoint
<1>10. ASSUME NEW fault, Without(fault, live, checkpoints), fault \notin live'.misread
       PROVE  Without(fault, live', c.entries)
  BY <1>5, <1>10 DEF Without, Subset
<1>11. QED
  BY <1>2, <1>8, <1>9, <1>10 DEF Captured

-----------------------------------------------------------------------------
\* The beginning of a call.
LEMMA EmptyCache == Cached(<<>>, <<>>, Root, 0)
<1>1. /\ <<>> \in Seq(Entry) /\ Len(<<>>) = 0 /\ DOMAIN <<>> = {}
      /\ <<>> \in Seq(Seq(Token) \ {<<>>})
  OBVIOUS
<1>2. PrefixesOf(<<>>) = <<>> /\ BytesOf(<<>>) = <<>>
  <2>1. /\ PrefixesOf(<<>>) \in Seq(Seq(Token) \ {<<>>}) /\ Len(PrefixesOf(<<>>)) = 0
        /\ BytesOf(<<>>) \in Seq(Nat) /\ Len(BytesOf(<<>>)) = 0
    BY <1>1, EntriesAre
  <2>2. QED
    BY <2>1
<1>3. Coherent(<<>>, <<>>, 0)
  <2>1. Total(<<>>) = 0
    BY TotalNone
  <2>2. Distinct(<<>>)
    BY <1>1 DEF Distinct
  <2>3. QED
    BY <1>1, <1>2, <2>1, <2>2 DEF Coherent
<1>4. Indexes(Root, Token, <<>>)
  BY <1>1, RootHas DEF Indexes
<1>5. QED
  BY <1>1, <1>2, <1>3, <1>4, SizesAssumption DEF Cached

\* An empty device, and one whose buffers hold rest.
LEMMA DevicesAre == Fresh \in Device /\ Broken \in Device
<1>1. "?" \in Fed
  BY DEF Fed
<1>2. <<>> \in Seq(Fed) /\ <<"?">> \in Seq(Fed)
  BY <1>1
<1>3. QED
  BY <1>2 DEF Device, Fresh, Broken

\* A loaded model holds no packed weights.
LEMMA NoWeightsHeld == NoWeights \in WeightStates /\ NothingHeld(NoWeights)
<1>1. NoWeights \in WeightStates
  BY DEF NoWeights, WeightStates
<1>2. \A l \in DOMAIN Layers, g \in Groups : NoWeights.held[l][g] = None
  BY DEF NoWeights
<1>3. QED
  BY <1>1, <1>2 DEF NothingHeld, Held

\* A new engine has an empty cache and nothing on the device.
LEMMA InitIInv == Init => IInv
<1> SUFFICES ASSUME Init PROVE IInv
  OBVIOUS
<1>1. /\ checkpoints = <<>> /\ recency = <<>> /\ root = Root /\ bytes = 0
      /\ live = Fresh /\ phase = "idle" /\ reuse = FALSE
      /\ environment \in Environments /\ weights = NoWeights /\ abandoned = FALSE
  BY DEF Init
<1>2. CacheInv
  BY <1>1, EmptyCache DEF CacheInv
<1>3. CallInv
  BY <1>1, DevicesAre DEF CallInv
<1>4. PrefillInv /\ DecodeInv /\ ScalarInv /\ AlignedInv /\ ReusedInv
  BY <1>1 DEF PrefillInv, DecodeInv, ScalarInv, AlignedInv, ReusedInv
<1>5. \A fault : Without(fault, live, checkpoints)
  BY <1>1 DEF Without, Fresh
<1>6. RowsInv /\ WeightsInv
  BY <1>1, <1>5, NoWeightsHeld DEF RowsInv, WeightsInv
<1>7. QED
  BY <1>2, <1>3, <1>4, <1>6 DEF IInv

\* What is kept of the cache of the calls before, with a new index.
KeptOrder == IF reuse' THEN recency ELSE <<>>

\* A call that reuses keeps the cache; one that does not empties it.
LEMMA KeptIs ==
    ASSUME CacheInv, NEW next, Begin(next)
    PROVE  /\ checkpoints' = Kept /\ Cached(Kept, KeptOrder, root', bytes')
           /\ \A fault, device : Without(fault, live, checkpoints) /\ fault \notin device.misread
                                     => Without(fault, device, Kept)
<1>1. /\ checkpoints' = Kept /\ root' = Rebuilt(PrefixesOf(Kept))
      /\ bytes' = Total(BytesOf(Kept)) /\ reuse' \in BOOLEAN
  BY DEF Begin, BytesOf
<1>2. Coherent(Kept, KeptOrder, bytes') /\ bytes' <= Budget /\ Len(Kept) <= MaxCheckpoints
  <2>1. CASE reuse'
    <3>1. Kept = checkpoints /\ KeptOrder = recency
      BY <2>1 DEF Kept, KeptOrder
    <3>2. bytes = Total(BytesOf(checkpoints))
      BY DEF CacheInv, Cached, Coherent
    <3>3. QED
      BY <1>1, <3>1, <3>2 DEF CacheInv, Cached
  <2>2. CASE ~reuse'
    <3>1. Kept = <<>> /\ KeptOrder = <<>>
      BY <2>2 DEF Kept, KeptOrder
    <3>2. Coherent(<<>>, <<>>, 0) /\ 0 <= Budget /\ Len(<<>>) <= MaxCheckpoints
      BY EmptyCache DEF Cached
    <3>3. Total(BytesOf(<<>>)) = 0
      BY <3>2 DEF Coherent
    <3>4. QED
      BY <1>1, <3>1, <3>2, <3>3
  <2>3. QED
    BY <2>1, <2>2
<1>3. Indexes(root', Token, PrefixesOf(Kept))
  <2>1. PrefixesOf(Kept) \in Seq(Seq(Token) \ {<<>>}) /\ Distinct(PrefixesOf(Kept))
    BY <1>2, EntriesAre DEF Coherent
  <2>2. QED
    BY <1>1, <2>1, RebuiltIs
<1>4. ASSUME NEW fault, NEW device, Without(fault, live, checkpoints), fault \notin device.misread
      PROVE  Without(fault, device, Kept)
  <2>1. \A i \in DOMAIN Kept : i \in DOMAIN checkpoints /\ Kept[i] = checkpoints[i]
    BY DEF Kept
  <2>2. QED
    BY <1>4, <2>1 DEF Without
<1>5. QED
  BY <1>1, <1>2, <1>3, <1>4 DEF Cached

\* Prompts have tokens.
LEMMA PromptIs ==
    ASSUME NEW p \in Prompts
    PROVE  p \in Seq(Token) \ {<<>>} /\ Len(p) \in Nat \ {0}
<1>1. p \in Seq(Token) /\ p # <<>>
  BY PromptsAssumption
<1>2. QED
  BY <1>1

\* The weights are as they were, and no call has got to its end.
LEMMA WeightsStay ==
    ASSUME WeightsInv, phase = "idle", phase' \in {"idle", "prefill"},
           UNCHANGED <<environment, weightVars>>,
           ~abandoned \/ environment.resident = Groups => Without("weights", live', checkpoints'),
           phase' = "prefill" => Left' # 0
    PROVE  WeightsInv'
<1>1. /\ weights' = weights /\ abandoned' = abandoned /\ environment' = environment
  BY DEF weightVars
<1>2. /\ weights \in WeightStates /\ abandoned \in BOOLEAN /\ (~abandoned => NothingHeld(weights))
  BY DEF WeightsInv
<1>3. (phase' = "decode" \/ (phase' = "prefill" /\ Left' = 0) \/ ~abandoned')
          => NothingHeld(weights')
  BY <1>1, <1>2
<1>4. ~abandoned' \/ environment'.resident = Groups => Without("weights", live', checkpoints')
  BY <1>1
<1>5. weights' \in WeightStates /\ abandoned' \in BOOLEAN
  BY <1>1, <1>2
<1>6. QED
  BY <1>3, <1>4, <1>5 DEF WeightsInv

\* A call without a checkpoint begins at position 0 of an empty device.
LEMMA StartFreshKeeps ==
    ASSUME IInv, StartFresh
    PROVE  IInv'
<1>1. /\ phase = "idle" /\ phase' = "prefill" /\ prompt' \in Prompts /\ reuse' \in BOOLEAN
      /\ environment' = environment /\ UNCHANGED <<environment, weightVars>>
      /\ live' = Fresh /\ base' = 0 /\ reused' = <<>> /\ recency' = KeptOrder
  BY DEF StartFresh, Begin, KeptOrder
<1>2. /\ CacheInv /\ CallInv /\ RowsInv /\ WeightsInv
  BY DEF IInv
<1>3. /\ checkpoints' = Kept /\ Cached(Kept, KeptOrder, root', bytes')
      /\ \A fault, device : Without(fault, live, checkpoints) /\ fault \notin device.misread
                                => Without(fault, device, Kept)
  BY <1>2, KeptIs DEF StartFresh
<1>4. CacheInv'
  BY <1>1, <1>3 DEF CacheInv
<1>5. CallInv'
  BY <1>1, <1>2, DevicesAre DEF CallInv
<1>6. prompt' \in Seq(Token) /\ Len(prompt') \in Nat \ {0}
  BY <1>1, PromptIs
<1>7. PrefillInv' /\ DecodeInv'
  <2>1. SubSeq(prompt', 1, 0) = <<>> /\ SubSeq(<<>>, 1, 0) = <<>> /\ Len(<<>>) = 0
    BY SubSeqEmpty
  <2>2. Fresh.state = <<>> /\ Fresh.kv = <<>>
    BY DEF Fresh
  <2>3. 0 \in 0 .. Len(prompt')
    BY <1>6
  <2>4. QED
    BY <1>1, <2>1, <2>2, <2>3 DEF PrefillInv, DecodeInv
<1>8. ScalarInv'
  BY <1>1 DEF ScalarInv, Fresh
<1>9. AlignedInv'
  <2>1. ASSUME environment \in Environments PROVE environment.chunk * 0 = 0
    BY <2>1, EnvironmentIs DEF EnvironmentOK
  <2>2. environment'.chunk * 0 = 0 /\ 0 \in 0 .. 0
    BY <1>1, <1>2, <2>1 DEF CallInv
  <2>3. Aligned(0, environment'.chunk, Len(prompt'))
    BY <2>2 DEF Aligned
  <2>4. QED
    BY <1>1, <2>3 DEF AlignedInv
<1>10. ReusedInv'
  BY <1>1 DEF ReusedInv
<1>11. \A fault : Without(fault, live, checkpoints) => Without(fault, live', checkpoints')
  BY <1>1, <1>3 DEF Fresh
<1>12. RowsInv'
  BY <1>1, <1>2, <1>11 DEF RowsInv
<1>13. WeightsInv'
  <2>1. Left' # 0
    BY <1>1, <1>6 DEF Left
  <2>2. ~abandoned \/ environment.resident = Groups => Without("weights", live', checkpoints')
    BY <1>2, <1>11 DEF WeightsInv
  <2>3. QED
    BY <1>1, <1>2, <2>1, <2>2, WeightsStay
<1>14. QED
  BY <1>4, <1>5, <1>7, <1>8, <1>9, <1>10, <1>12, <1>13 DEF IInv

\* A restore that throws gives up the call and leaves the cache.
LEMMA RestoreFailsKeeps ==
    ASSUME IInv, RestoreFails
    PROVE  IInv'
<1>1. /\ phase = "idle" /\ phase' = "idle" /\ prompt' \in Prompts /\ reuse' \in BOOLEAN
      /\ environment' = environment /\ UNCHANGED <<environment, weightVars>>
      /\ live' = Broken /\ recency' = recency /\ Selected # 0
  BY DEF RestoreFails, Begin
<1>2. /\ CacheInv /\ CallInv /\ RowsInv /\ WeightsInv
  BY DEF IInv
<1>3. /\ checkpoints' = Kept /\ Cached(Kept, KeptOrder, root', bytes')
      /\ \A fault, device : Without(fault, live, checkpoints) /\ fault \notin device.misread
                                => Without(fault, device, Kept)
  BY <1>2, KeptIs DEF RestoreFails
<1>4. KeptOrder = recency
  BY <1>1 DEF Selected, KeptOrder
<1>5. CacheInv'
  BY <1>1, <1>3, <1>4 DEF CacheInv
<1>6. CallInv'
  BY <1>1, <1>2, DevicesAre DEF CallInv
<1>7. PrefillInv' /\ DecodeInv' /\ ScalarInv' /\ AlignedInv' /\ ReusedInv'
  BY <1>1 DEF PrefillInv, DecodeInv, ScalarInv, AlignedInv, ReusedInv
<1>8. \A fault : Without(fault, live, checkpoints) => Without(fault, live', checkpoints')
  BY <1>1, <1>3 DEF Broken
<1>9. RowsInv'
  BY <1>1, <1>2, <1>8 DEF RowsInv
<1>10. WeightsInv'
  <2>1. ~abandoned \/ environment.resident = Groups => Without("weights", live', checkpoints')
    BY <1>2, <1>8 DEF WeightsInv
  <2>2. QED
    BY <1>1, <1>2, <2>1, WeightsStay
<1>11. QED
  BY <1>5, <1>6, <1>7, <1>9, <1>10 DEF IInv

\* A boundary is a multiple of a chunk length that divides it.
LEMMA MultipleOfChunk ==
    ASSUME NEW n \in Nat, NEW F \in Nat \ {0}, NEW c \in Nat \ {0}, n % F = 0, F % c = 0,
           NEW length
    PROVE  Aligned(n, c, length)
<1>1. PICK j \in Nat : n = F * j
  BY Multiple
<1>2. PICK m \in Nat : F = c * m
  BY Multiple
<1>3. n = c * (m * j) /\ m * j \in Nat
  BY <1>1, <1>2
<1> DEFINE k == m * j
<1>4. k \in Nat /\ n = c * k
  BY <1>3
<1> HIDE DEF k
<1>5. k <= c * k
  BY <1>4
<1>6. k \in 0 .. n /\ c * k <= n
  BY <1>4, <1>5
<1>7. QED
  BY <1>4, <1>6 DEF Aligned

\* The index gives a checkpoint of the beginning of the prompt, and not all of it.
LEMMA SelectedIs ==
    ASSUME CacheInv, NEW next, Begin(next), Selected # 0
    PROVE  /\ Selected \in DOMAIN checkpoints /\ checkpoints[Selected] \in Entry
           /\ Len(checkpoints[Selected].tokens) \in 1 .. Len(prompt') - 1
           /\ checkpoints[Selected].tokens
                  = SubSeq(prompt', 1, Len(checkpoints[Selected].tokens))
<1> DEFINE names == PrefixesOf(checkpoints)
           stored == StoredBefore(names, prompt')
           n == Max(stored)
           i == Selected
<1>1. reuse' /\ Selected = Longest(root', prompt').checkpoint
  BY DEF Selected
<1>2. Cached(Kept, KeptOrder, root', bytes') /\ Kept = checkpoints
  BY <1>1, KeptIs DEF Kept
<1>3. /\ Indexes(root', Token, names) /\ checkpoints \in Seq(Entry)
      /\ DOMAIN checkpoints = 1 .. Len(checkpoints)
  BY <1>2 DEF Cached, Coherent
<1>4. /\ names \in Seq(Seq(Token) \ {<<>>}) /\ DOMAIN names = DOMAIN checkpoints
      /\ \A j \in DOMAIN checkpoints : names[j] = checkpoints[j].tokens
  BY <1>3, EntriesAre DEF PrefixesOf
<1>5. prompt' \in Seq(Token) /\ Len(prompt') \in Nat
  BY PromptIs DEF Begin
<1>6. /\ stored = {} => i = 0
      /\ stored # {} => n \in stored /\ i \in DOMAIN names /\ names[i] = SubSeq(prompt', 1, n)
  <2> DEFINE T == root'
             s == prompt'
  <2>1. /\ names \in Seq(Seq(Token) \ {<<>>}) /\ Indexes(T, Token, names) /\ s \in Seq(Token)
        /\ i = Longest(T, s).checkpoint
    BY <1>1, <1>3, <1>4, <1>5
  <2> HIDE DEF names, T, s, i
  <2>2. Finds(Longest(T, s), names, s)
    BY <2>1, LongestIs
  <2>3. QED
    BY <2>1, <2>2 DEF s, Finds
<1> HIDE DEF n, stored, i, names
<1>7. n \in stored /\ i \in DOMAIN checkpoints /\ checkpoints[i].tokens = SubSeq(prompt', 1, n)
  BY <1>4, <1>6 DEF i
<1>8. n \in 1 .. Len(prompt') - 1 /\ n \in 0 .. Len(prompt')
  BY <1>5, <1>7 DEF stored, StoredBefore
<1>9. Len(SubSeq(prompt', 1, n)) = n
  BY <1>5, <1>8, UnderIsSubSeq
<1>10. checkpoints[i] \in Entry
  BY <1>3, <1>7, ElementOfSeq
<1>11. QED
  BY <1>7, <1>8, <1>9, <1>10 DEF i

\* A restored checkpoint is the beginning of the prompt, with its state and rows.
LEMMA StartFromCheckpointKeeps ==
    ASSUME IInv, StartFromCheckpoint
    PROVE  IInv'
<1> DEFINE c == checkpoints[Selected]
           n == Len(c.tokens)
<1>1. /\ phase = "idle" /\ phase' = "prefill" /\ prompt' \in Prompts /\ reuse' \in BOOLEAN
      /\ environment' = environment /\ UNCHANGED <<environment, weightVars>>
      /\ live' = c.saved /\ base' = n /\ reused' = c.tokens
      /\ recency' = Used(recency, c.tokens) /\ Selected # 0
  BY DEF StartFromCheckpoint, Begin
<1>2. /\ CacheInv /\ CallInv /\ RowsInv /\ WeightsInv
  BY DEF IInv
<1>3. /\ checkpoints' = Kept /\ Cached(Kept, KeptOrder, root', bytes')
      /\ \A fault, device : Without(fault, live, checkpoints) /\ fault \notin device.misread
                                => Without(fault, device, Kept)
  BY <1>2, KeptIs DEF StartFromCheckpoint
<1>4. KeptOrder = recency /\ Kept = checkpoints
  BY <1>1 DEF Selected, KeptOrder, Kept
<1>5. /\ Selected \in DOMAIN checkpoints /\ c \in Entry /\ n \in 1 .. Len(prompt') - 1
      /\ c.tokens = SubSeq(prompt', 1, n)
  BY <1>1, <1>2, SelectedIs DEF StartFromCheckpoint
<1> HIDE DEF c
<1>6. /\ c.tokens \in Seq(Token) \ {<<>>} /\ c.saved \in Device /\ n % Full = 0
      /\ c.saved.state = c.tokens /\ c.saved.kv = c.tokens /\ ~c.saved.scalar
  BY <1>5 DEF Entry
<1>7. CacheInv'
  <2>1. Coherent(checkpoints, Used(recency, c.tokens), bytes')
    BY <1>3, <1>4, CoherentUsed DEF Cached
  <2>2. QED
    BY <1>1, <1>3, <1>4, <2>1 DEF CacheInv, Cached
<1>8. CallInv'
  BY <1>1, <1>2, <1>6 DEF CallInv
<1>9. prompt' \in Seq(Token) /\ Len(prompt') \in Nat \ {0}
  BY <1>1, PromptIs
<1>10. PrefillInv' /\ DecodeInv'
  <2>1. n \in 0 .. Len(prompt') /\ n <= n
    BY <1>5, <1>9
  <2>2. SubSeq(c.tokens, 1, n) = c.tokens
    BY <1>6, SubSeqFull
  <2>3. Len(c.saved.kv) = n
    BY <1>6
  <2> HIDE DEF n
  <2>4. PrefillInv'
    BY <1>1, <1>5, <1>6, <2>1, <2>2, <2>3 DEF PrefillInv
  <2>5. DecodeInv'
    BY <1>1 DEF DecodeInv
  <2>6. QED
    BY <2>4, <2>5
<1>11. ScalarInv'
  BY <1>1, <1>6 DEF ScalarInv
<1>12. AlignedInv'
  <2>1. EnvironmentOK
    BY <1>2, EnvironmentIs DEF CallInv
  <2> DEFINE e == environment.chunk
  <2>2. Full \in Nat \ {0} /\ e \in Nat \ {0}
    BY <2>1 DEF EnvironmentOK
  <2>3. n \in Nat
    BY <1>6
  <2> HIDE DEF n, e
  <2>4. Full % e = 0 => Aligned(n, e, Len(prompt'))
    <3>1. (n % Full) = 0
      BY <1>6 DEF n
    <3>2. QED
      BY <2>2, <2>3, <3>1, MultipleOfChunk
  <2>6. environment'.chunk = e
    BY <1>1 DEF e
  <2>7. QED
    BY <1>1, <2>4, <2>6 DEF AlignedInv, n
<1>13. ReusedInv'
  <2>1. reused' \in Seq(Token) /\ Len(reused') <= base'
    BY <1>1, <1>6
  <2>2. checkpoints'[Selected].tokens = reused' /\ Selected \in DOMAIN checkpoints'
    BY <1>1, <1>3, <1>4, <1>5 DEF c
  <2>3. QED
    BY <2>1, <2>2 DEF ReusedInv, RestorePoint
<1>14. \A fault : Without(fault, live, checkpoints) => Without(fault, live', checkpoints')
  <2>1. \A fault : Without(fault, live, checkpoints) => fault \notin c.saved.misread
    BY <1>5 DEF Without, c
  <2>2. QED
    BY <1>1, <1>3, <2>1
<1>15. RowsInv'
  BY <1>1, <1>2, <1>14 DEF RowsInv
<1>16. WeightsInv'
  <2>1. Left' # 0
    BY <1>1, <1>5, <1>9 DEF Left
  <2>2. ~abandoned \/ environment.resident = Groups => Without("weights", live', checkpoints')
    BY <1>2, <1>14 DEF WeightsInv
  <2>3. QED
    BY <1>1, <1>2, <2>1, <2>2, WeightsStay
<1>17. QED
  BY <1>7, <1>8, <1>10, <1>11, <1>12, <1>13, <1>15, <1>16 DEF IInv

-----------------------------------------------------------------------------
\* The chunks of a call.
LEMMA PrefillingIs ==
    ASSUME IInv, phase = "prefill", Left > 0
    PROVE  Prefilling
<1>1. CallInv /\ PrefillInv
  BY DEF IInv
<1>2. EnvironmentOK /\ environment \in Environments /\ live \in Device
  BY <1>1, EnvironmentIs DEF CallInv
<1>3. prompt \in Seq(Token) /\ Len(prompt) \in Nat
  BY <1>1, PromptIs DEF CallInv
<1>4. /\ base \in 0 .. Len(prompt) /\ live.state = SubSeq(prompt, 1, base)
      /\ base <= Len(live.kv) /\ SubSeq(live.kv, 1, base) = SubSeq(prompt, 1, base)
  BY <1>1 DEF PrefillInv
<1>5. Left \in Nat \ {0}
  BY <1>3, <1>4 DEF Left
<1>6. QED
  BY <1>2, <1>3, <1>4, <1>5 DEF Prefilling

\* One of all that a chunk does but to the cache.
Chunked(scalar) ==
    /\ IInv /\ Prefilling /\ scalar \in BOOLEAN
    /\ phase = "prefill" /\ Left > 0 /\ Swept
    /\ live' = Processed(scalar) /\ base' = Boundary
    /\ phase' = phase /\ UNCHANGED callVars

\* A chunk keeps base where whole chunks lead.
LEMMA AlignedNext ==
    ASSUME NEW b \in Nat, NEW c \in Nat \ {0}, NEW length \in Nat, NEW n \in Nat \ {0},
           Aligned(b, c, length), n <= c, b + n <= length, length - b >= c => n = c
    PROVE  Aligned(b + n, c, length)
<1>1. PICK k \in 0 .. b : c * k <= b /\ (b = c * k \/ length <= c * (k + 1))
  BY DEF Aligned
<1>2. c * (k + 1) = c * k + c /\ c * k \in Nat /\ c * (k + 1) \in Nat /\ k \in Nat
  BY <1>1
<1> DEFINE x == c * k
           y == c * (k + 1)
<1>3. /\ x \in Nat /\ y = x + c /\ x <= b /\ (b = x \/ length <= y)
  BY <1>1, <1>2
<1> HIDE DEF x, y
<1>4. CASE b = x /\ length - b >= c
  <2>1. b + n = y /\ y <= b + n /\ k + 1 \in 0 .. b + n
    BY <1>1, <1>3, <1>4
  <2>2. QED
    BY <2>1 DEF Aligned, y
<1>5. CASE length <= y
  <2>1. x <= b + n /\ k \in 0 .. b + n
    BY <1>1, <1>3
  <2>2. QED
    BY <1>5, <2>1 DEF Aligned, x, y
<1>6. b = x /\ ~(length - b >= c) => length <= y
  BY <1>3
<1>7. QED
  BY <1>3, <1>4, <1>5, <1>6

\* What every chunk keeps, captured or not.
LEMMA ChunkedKeeps ==
    ASSUME NEW scalar, Chunked(scalar)
    PROVE  /\ CallInv' /\ PrefillInv' /\ DecodeInv' /\ AlignedInv'
           /\ Took(live', scalar)
<1>1. /\ IInv /\ Prefilling /\ scalar \in BOOLEAN /\ phase = "prefill" /\ phase' = "prefill"
      /\ live' = Processed(scalar) /\ base' = Boundary
      /\ prompt' = prompt /\ reused' = reused /\ reuse' = reuse /\ environment' = environment
  BY DEF Chunked, callVars
<1>2. CallInv /\ AlignedInv
  BY <1>1 DEF IInv
<1>3. Took(live', scalar)
  BY <1>1, ProcessedIs
<1>4. CallInv'
  BY <1>1, <1>2, <1>3 DEF CallInv, Took
<1>5. PrefillInv'
  <2>1. Boundary \in 0 .. Len(prompt)
    BY <1>1, BoundaryIs
  <2>2. QED
    BY <1>1, <1>3, <2>1 DEF PrefillInv, Took
<1>6. DecodeInv'
  BY <1>1 DEF DecodeInv
<1>7. AlignedInv'
  <2> DEFINE e == environment.chunk
  <2>1. /\ Len(prompt) \in Nat /\ base \in Nat /\ Chunk \in Nat \ {0}
        /\ Boundary = base + Chunk /\ Boundary <= Len(prompt)
    BY <1>1, BoundaryIs DEF Boundary
  <2>2. Chunk <= e /\ (Left >= e => Chunk = e) /\ e \in Nat \ {0}
    BY <1>1, <2>1, ChunkIs DEF Prefilling, EnvironmentOK
  <2>3. Left = Len(prompt) - base
    BY DEF Left
  <2>4. Full % e = 0 => Aligned(base, e, Len(prompt))
    BY <1>1, <1>2 DEF AlignedInv
  <2> HIDE DEF e
  <2>5. Full % e = 0 => Aligned(base + Chunk, e, Len(prompt))
    BY <2>1, <2>2, <2>3, <2>4, AlignedNext
  <2>6. Full % e = 0 => Aligned(Boundary, e, Len(prompt))
    BY <2>1, <2>5
  <2>7. QED
    BY <1>1, <2>6 DEF AlignedInv, e
<1>8. QED
  BY <1>3, <1>4, <1>5, <1>6, <1>7

\* What a chunk adds to the faults.
LEMMA ChunkedFaults ==
    ASSUME NEW scalar, Chunked(scalar),
           \A fault : Without(fault, live, checkpoints) /\ fault \notin live'.misread
                          => Without(fault, live', checkpoints')
    PROVE  RowsInv' /\ WeightsInv'
<1>1. /\ IInv /\ Prefilling /\ phase = "prefill" /\ phase' = "prefill" /\ Swept
      /\ environment' = environment
  BY DEF Chunked, callVars
<1>2. RowsInv /\ WeightsInv
  BY <1>1 DEF IInv
<1>3. live'.misread = live.misread \union Misread(weights, environment, Route)
  BY ChunkedKeeps DEF Took
<1>4. /\ EnvironmentOK /\ environment \in Environments /\ Left \in Nat \ {0} /\ base \in Nat
  BY <1>1, BoundaryIs DEF Prefilling
<1>5. /\ weights' = Behind(weights, environment, Chunk)[Len(Layers)] /\ abandoned' = abandoned
  BY <1>1 DEF Swept
<1>6. RowsInv'
  <2>1. ASSUME environment.scheduler \notin {"partial", "compose"}, environment.chunk = Full
        PROVE  Without("rows", live', checkpoints')
    <3>1. Without("rows", live, checkpoints)
      BY <1>2, <2>1 DEF RowsInv
    <3>2. ~RowsMissing(environment, Route)
      BY <1>4, <2>1, RowsAre
    <3>3. "rows" \notin Misread(weights, environment, Route)
      BY <3>2 DEF Misread
    <3>4. "rows" \notin live'.misread
      BY <1>3, <3>1, <3>3 DEF Without
    <3>5. QED
      BY <3>1, <3>4
  <2>2. QED
    BY <1>1, <2>1 DEF RowsInv
<1>7. weights \in WeightStates /\ (~abandoned => NothingHeld(weights)) /\ abandoned \in BOOLEAN
  BY <1>2 DEF WeightsInv
<1>8. weights' \in WeightStates /\ NothingHeld(weights')
  BY <1>4, <1>5, <1>7, SweptIs
<1>9. ASSUME ~abandoned \/ environment.resident = Groups
      PROVE  Without("weights", live', checkpoints')
  <2>1. Without("weights", live, checkpoints)
    BY <1>2, <1>9 DEF WeightsInv
  <2>2. ~WeightsForeign(weights, environment, Route.n)
    BY <1>4, <1>7, <1>9, WeightsOwned
  <2>3. "weights" \notin Misread(weights, environment, Route)
    BY <2>2 DEF Misread
  <2>4. "weights" \notin live'.misread
    BY <1>3, <2>1, <2>3 DEF Without
  <2>5. QED
    BY <2>1, <2>4
<1>10. WeightsInv'
  BY <1>1, <1>5, <1>7, <1>8, <1>9 DEF WeightsInv
<1>11. QED
  BY <1>6, <1>10

\* A chunk by layers, with the capture at its boundary.
LEMMA FullChunkKeeps ==
    ASSUME IInv, FullChunk
    PROVE  IInv'
<1>1. /\ phase = "prefill" /\ Left > 0 /\ FullLayer /\ Swept
      /\ live' = Processed(FALSE) /\ base' = Boundary /\ phase' = phase /\ UNCHANGED callVars
  BY DEF FullChunk
<1>2. Prefilling
  BY <1>1, PrefillingIs
<1>3. Chunked(FALSE)
  BY <1>1, <1>2 DEF Chunked
<1>4. CallInv' /\ PrefillInv' /\ DecodeInv' /\ AlignedInv' /\ Took(live', FALSE)
  BY <1>3, ChunkedKeeps
<1>5. ~live.scalar
  <2>1. ScalarInv
    BY DEF IInv
  <2>2. Chunk <= Left /\ (Chunk = Full \/ (Remainder /\ Chunk = Wide)) /\ Chunk \in Nat
    BY <1>1, <1>2, BoundaryIs, ChunkIs DEF Prefilling
  <2>3. Full \in Nat /\ Wide \in Nat /\ Left \in Nat
    BY <1>2 DEF Prefilling, EnvironmentOK
  <2>4. QED
    BY <1>1, <2>1, <2>2, <2>3 DEF ScalarInv
<1>6. ScalarInv'
  BY <1>4, <1>5 DEF ScalarInv, Took
<1>7. Cached(checkpoints, recency, root, bytes)
  BY DEF IInv, CacheInv
<1>8. Captured
  <2>1. CASE reuse /\ Boundary % Full = 0 /\ ToCapture
    <3>1. Capturing
      BY <1>2, <1>4, <1>5, <1>7, <2>1 DEF Capturing
    <3>2. Recapture(live') \/ Capture(live') \/ AllocationFails
      BY <2>1 DEF FullChunk
    <3>3. QED
      BY <3>1, <3>2, RecaptureKeeps, CaptureKeeps, AllocationFailsKeeps
  <2>2. CASE ~(reuse /\ Boundary % Full = 0 /\ ToCapture)
    <3>1. /\ recency' \in {Touched, recency}
          /\ checkpoints' = checkpoints /\ root' = root /\ bytes' = bytes
      BY <2>2 DEF FullChunk, cacheVars
    <3>2. Coherent(checkpoints, recency', bytes)
      BY <1>7, <3>1, TouchedIs DEF Cached
    <3>3. Cached(checkpoints', recency', root', bytes')
      BY <1>7, <3>1, <3>2 DEF Cached
    <3>4. RestorePoint(checkpoints, base) => RestorePoint(checkpoints', Boundary)
      BY <1>2, <3>1, RestorePointLater
    <3>5. \A fault : Without(fault, live, checkpoints) /\ fault \notin live'.misread
                         => Without(fault, live', checkpoints')
      BY <3>1 DEF Without
    <3>6. QED
      BY <3>3, <3>4, <3>5 DEF Captured
  <2>3. QED
    BY <2>1, <2>2
<1>9. CacheInv'
  BY <1>8 DEF Captured, CacheInv
<1>10. ReusedInv'
  <2>1. ReusedInv /\ reused' = reused
    BY <1>1 DEF IInv, callVars
  <2>2. reused # <<>> => RestorePoint(checkpoints', Boundary)
    BY <1>1, <1>8, <2>1 DEF ReusedInv, Captured
  <2>3. QED
    BY <1>1, <2>1, <2>2 DEF ReusedInv, RestorePoint
<1>11. RowsInv' /\ WeightsInv'
  BY <1>3, <1>8, ChunkedFaults DEF Captured
<1>12. QED
  BY <1>4, <1>6, <1>9, <1>10, <1>11 DEF IInv

\* A chunk in which a layer takes the tokens one by one.
LEMMA TailChunkKeeps ==
    ASSUME IInv, TailChunk
    PROVE  IInv'
<1> DEFINE scalar == \E l \in DOMAIN Layers : OneByOne(environment, l, Chunk)
<1>1. /\ phase = "prefill" /\ Left > 0 /\ ~FullLayer /\ Swept
      /\ live' = Processed(scalar) /\ base' = Boundary /\ phase' = phase
      /\ UNCHANGED callVars /\ UNCHANGED cacheVars
  BY DEF TailChunk
<1>2. scalar \in BOOLEAN /\ Prefilling
  BY <1>1, PrefillingIs
<1>3. scalar => Left - Chunk < Full /\ (Remainder => Left - Chunk < Wide)
  <2>1. EnvironmentOK /\ Left \in Nat \ {0} /\ base \in Nat
    BY <1>2, BoundaryIs DEF Prefilling
  <2>2. QED
    BY <1>1, <2>1, OneByOneIsShort
<1> HIDE DEF scalar
<1>4. Chunked(scalar)
  BY <1>1, <1>2 DEF Chunked
<1>5. CallInv' /\ PrefillInv' /\ DecodeInv' /\ AlignedInv' /\ Took(live', scalar)
  BY <1>4, ChunkedKeeps
<1>6. checkpoints' = checkpoints /\ recency' = recency /\ root' = root /\ bytes' = bytes
  BY <1>1 DEF cacheVars
<1>7. prompt' = prompt /\ reused' = reused /\ environment' = environment
  BY <1>1 DEF callVars
<1>8. ScalarInv'
  <2>1. ScalarInv /\ live'.scalar = (live.scalar \/ scalar)
    BY <1>5 DEF IInv, Took
  <2>2. Left' = Left - Chunk /\ Remainder' = Remainder
    <3>1. Left' = Len(prompt) - Boundary
      BY <1>1, <1>7 DEF Left
    <3>2. Remainder' = Remainder
      BY <1>7 DEF Remainder, Scheduler
    <3>3. QED
      BY <1>2, <3>1, <3>2, BoundaryIs
  <2>3. Chunk \in Nat \ {0} /\ Full \in Nat /\ Wide \in Nat /\ Left \in Nat
    BY <1>2, BoundaryIs DEF Prefilling, EnvironmentOK
  <2>4. live.scalar => Left - Chunk < Full /\ (Remainder => Left - Chunk < Wide)
    BY <1>1, <2>1, <2>3 DEF ScalarInv
  <2>5. live'.scalar => Left' < Full /\ (Remainder => Left' < Wide)
    BY <1>3, <2>1, <2>2, <2>4
  <2>6. QED
    BY <2>2, <2>5 DEF ScalarInv
<1>9. CacheInv'
  BY <1>6 DEF IInv, CacheInv
<1>10. ReusedInv'
  <2>1. reused # <<>> => RestorePoint(checkpoints, base)
    BY <1>1 DEF IInv, ReusedInv
  <2>2. reused # <<>> => RestorePoint(checkpoints, Boundary)
    BY <1>2, <2>1, RestorePointLater
  <2>3. QED
    BY <1>1, <1>6, <1>7, <2>2 DEF ReusedInv, RestorePoint
<1>11. \A fault : Without(fault, live, checkpoints) /\ fault \notin live'.misread
                      => Without(fault, live', checkpoints')
  BY <1>6 DEF Without
<1>12. RowsInv' /\ WeightsInv'
  BY <1>4, <1>11, ChunkedFaults
<1>13. QED
  BY <1>5, <1>8, <1>9, <1>10, <1>12 DEF IInv

-----------------------------------------------------------------------------
\* The end of a call.
LEMMA PrefillEndsKeeps ==
    ASSUME IInv, PrefillEnds
    PROVE  IInv'
<1>1. /\ phase = "prefill" /\ Left = 0 /\ phase' = "decode" /\ live' = live /\ base' = base
      /\ checkpoints' = checkpoints /\ recency' = recency /\ root' = root /\ bytes' = bytes
      /\ prompt' = prompt /\ reused' = reused /\ reuse' = reuse /\ environment' = environment
      /\ weights' = weights /\ abandoned' = abandoned
  BY DEF PrefillEnds, cacheVars, callVars, weightVars
<1>2. /\ CacheInv /\ CallInv /\ PrefillInv /\ RowsInv /\ WeightsInv
  BY DEF IInv
<1>3. CacheInv' /\ CallInv'
  BY <1>1, <1>2 DEF CacheInv, CallInv
<1>4. PrefillInv' /\ ScalarInv' /\ AlignedInv' /\ ReusedInv'
  BY <1>1 DEF PrefillInv, ScalarInv, AlignedInv, ReusedInv
<1>5. DecodeInv'
  <2>1. prompt \in Seq(Token) /\ Len(prompt) \in Nat
    BY <1>1, <1>2, PromptIs DEF CallInv
  <2>2. base = Len(prompt)
    BY <1>1, <1>2, <2>1 DEF PrefillInv, Left
  <2>3. SubSeq(prompt, 1, Len(prompt)) = prompt
    BY <2>1, SubSeqFull
  <2>4. live.state = prompt /\ Len(prompt) <= Len(live.kv) /\ SubSeq(live.kv, 1, Len(prompt)) = prompt
    BY <1>1, <1>2, <2>2, <2>3 DEF PrefillInv
  <2>5. QED
    BY <1>1, <2>1, <2>3, <2>4 DEF DecodeInv
<1>6. RowsInv'
  BY <1>1, <1>2 DEF RowsInv
<1>7. WeightsInv'
  BY <1>1, <1>2 DEF WeightsInv
<1>8. QED
  BY <1>3, <1>4, <1>5, <1>6, <1>7 DEF IInv

\* A token behind a prompt changes nothing of the prompt.
LEMMA BehindPrompt ==
    ASSUME NEW S, NEW s \in Seq(S), NEW x \in S, NEW n \in 1 .. Len(s)
    PROVE  /\ Append(s, x) \in Seq(S) /\ Len(Append(s, x)) = Len(s) + 1
           /\ SubSeq(Append(s, x), 1, n) = SubSeq(s, 1, n)
<1>1. Append(s, x) = s \o <<x>> /\ <<x>> \in Seq(S) /\ 1 \in 1 .. Len(s)
  BY AppendIsConcat
<1>2. SubSeq(s \o <<x>>, 1, n) = SubSeq(s, 1, n)
  BY <1>1, SubSeqOfConcat1
<1>3. QED
  BY <1>1, <1>2, AppendProperties

\* A generated token: state and rows are left behind by it.
LEMMA DecodeStepKeeps ==
    ASSUME IInv, DecodeStep
    PROVE  IInv'
<1> DEFINE n == Len(live.state)
           front == SubSeq(live.kv, 1, n)
           rest == From(live.kv, n + 1)
           kv == front \o <<"g">> \o rest
           N == Len(prompt)
<1>1. /\ phase = "decode" /\ phase' = "decode" /\ base' = base
      /\ live' = [state |-> Append(live.state, "g"), scalar |-> TRUE, kv |-> kv,
                  misread |-> live.misread]
      /\ checkpoints' = checkpoints /\ recency' = recency /\ root' = root /\ bytes' = bytes
      /\ prompt' = prompt /\ reused' = reused /\ reuse' = reuse /\ environment' = environment
      /\ weights' = weights /\ abandoned' = abandoned
  BY DEF DecodeStep, cacheVars, callVars, weightVars
<1>2. /\ CacheInv /\ CallInv /\ DecodeInv /\ RowsInv /\ WeightsInv
  BY DEF IInv
<1>3. /\ live.state \in Seq(Fed) /\ live.kv \in Seq(Fed) /\ live.misread \subseteq {"rows", "weights"}
      /\ N \in Nat \ {0} /\ "g" \in Fed
  BY <1>1, <1>2, PromptIs DEF CallInv, Device, Fed
<1>4. /\ N <= n /\ SubSeq(live.state, 1, N) = prompt /\ n <= Len(live.kv)
      /\ SubSeq(live.kv, 1, N) = prompt /\ n \in Nat /\ Len(live.kv) \in Nat
  BY <1>1, <1>2, <1>3 DEF DecodeInv
<1>5. /\ Append(live.state, "g") \in Seq(Fed) /\ Len(Append(live.state, "g")) = n + 1
      /\ SubSeq(Append(live.state, "g"), 1, N) = prompt
  BY <1>3, <1>4, BehindPrompt
<1>6. front \in Seq(Fed) /\ Len(front) = n /\ SubSeq(front, 1, N) = SubSeq(live.kv, 1, N)
  <2>1. n \in 0 .. Len(live.kv)
    BY <1>4
  <2>2. front \in Seq(Fed) /\ Len(front) = n
    BY <1>3, <2>1, UnderIsSubSeq
  <2>3. SubSeq(SubSeq(live.kv, 1, n), 1, N) = SubSeq(live.kv, 1 + 1 - 1, 1 + N - 1)
    <3>1. /\ 1 \in 1 .. Len(live.kv) /\ n \in 1 .. Len(live.kv)
          /\ 1 \in 1 .. n - 1 + 1 /\ N \in 1 .. n - 1 + 1
      BY <1>3, <1>4
    <3> HIDE DEF n, N
    <3>2. QED
      BY <1>3, <3>1, SubSeqOfSubSeq
  <2>4. 1 + 1 - 1 = 1 /\ 1 + N - 1 = N
    BY <1>3
  <2>5. QED
    BY <2>2, <2>3, <2>4
<1>7. rest \in Seq(Fed)
  <2>1. \A i \in (n + 1) + 1 .. Len(live.kv) : live.kv[i] \in Fed
    BY <1>3, <1>4
  <2>2. (n + 1) + 1 \in Int /\ Len(live.kv) \in Int
    BY <1>4
  <2> HIDE DEF n
  <2>3. QED
    BY <2>1, <2>2, SubSeqProperties DEF From
<1> HIDE DEF front, rest, kv, n, N
<1>8. /\ <<"g">> \in Seq(Fed) /\ Len(<<"g">>) = 1
  BY <1>3
<1>9. /\ front \o <<"g">> \in Seq(Fed) /\ Len(front \o <<"g">>) = n + 1
      /\ SubSeq(front \o <<"g">>, 1, N) = prompt
  <2>1. front \o <<"g">> \in Seq(Fed) /\ Len(front \o <<"g">>) = n + 1
    BY <1>6, <1>8, ConcatProperties
  <2>2. N \in 1 .. Len(front) /\ 1 \in 1 .. Len(front)
    BY <1>3, <1>4, <1>6
  <2>3. SubSeq(front \o <<"g">>, 1, N) = SubSeq(front, 1, N)
    BY <1>6, <1>8, <2>2, SubSeqOfConcat1
  <2>4. QED
    BY <1>4, <1>6, <2>1, <2>3
<1>10. kv \in Seq(Fed) /\ n + 1 <= Len(kv) /\ SubSeq(kv, 1, N) = prompt
  <2> DEFINE a == front \o <<"g">>
  <2>0. kv = a \o rest
    BY DEF kv
  <2>1. a \in Seq(Fed) /\ Len(a) = n + 1 /\ SubSeq(a, 1, N) = prompt
    BY <1>9
  <2> HIDE DEF a
  <2>2. a \o rest \in Seq(Fed) /\ Len(a \o rest) = Len(a) + Len(rest) /\ Len(rest) \in Nat
    <3>1. a \in Seq(Fed) /\ Len(rest) \in Nat
      BY <1>7, <2>1
    <3>2. a \o rest \in Seq(Fed) /\ Len(a \o rest) = Len(a) + Len(rest)
      BY <1>7, <3>1, ConcatProperties
    <3>3. QED
      BY <3>1, <3>2
  <2>3. N \in 1 .. Len(a) /\ 1 \in 1 .. Len(a)
    BY <1>3, <1>4, <2>1
  <2>4. SubSeq(a \o rest, 1, N) = SubSeq(a, 1, N)
    BY <1>7, <2>1, <2>3, SubSeqOfConcat1
  <2>5. n + 1 <= Len(a \o rest)
    BY <1>4, <2>1, <2>2
  <2>6. QED
    BY <2>0, <2>1, <2>2, <2>4, <2>5
<1>11. /\ live'.state = Append(live.state, "g") /\ live'.kv = kv /\ live'.misread = live.misread
       /\ live' \in Device
  BY <1>1, <1>3, <1>5, <1>10 DEF Device
<1>12. CacheInv' /\ CallInv'
  BY <1>1, <1>2, <1>11 DEF CacheInv, CallInv
<1>13. PrefillInv' /\ ScalarInv' /\ AlignedInv' /\ ReusedInv'
  BY <1>1 DEF PrefillInv, ScalarInv, AlignedInv, ReusedInv
<1>14. DecodeInv'
  <2>1. phase' = "decode" /\ prompt' = prompt
    BY <1>1
  <2>2. Len(live'.state) = n + 1 /\ SubSeq(live'.state, 1, N) = prompt
    BY <1>5, <1>11
  <2>3. n + 1 <= Len(live'.kv) /\ SubSeq(live'.kv, 1, N) = prompt
    BY <1>10, <1>11
  <2>4. N <= Len(live'.state)
    BY <1>3, <1>4, <2>2
  <2>5. QED
    BY <2>1, <2>2, <2>3, <2>4 DEF DecodeInv, N
<1>15. \A fault : Without(fault, live, checkpoints) => Without(fault, live', checkpoints')
  BY <1>1, <1>11 DEF Without
<1>16. RowsInv'
  BY <1>1, <1>2, <1>15 DEF RowsInv
<1>17. WeightsInv'
  BY <1>1, <1>2, <1>15 DEF WeightsInv
<1>18. QED
  BY <1>12, <1>13, <1>14, <1>16, <1>17 DEF IInv

\* The call returns, the cache as its captures left it.
LEMMA ReturnKeeps ==
    ASSUME IInv, Return
    PROVE  IInv'
<1>1. /\ phase = "decode" /\ phase' = "idle" /\ live' = live
      /\ checkpoints' = checkpoints /\ recency' = recency /\ root' = root /\ bytes' = bytes
      /\ reuse' = reuse /\ environment' = environment
      /\ weights' = weights /\ abandoned' = abandoned
  BY DEF Return, cacheVars, callVars, weightVars
<1>2. /\ CacheInv /\ CallInv /\ RowsInv /\ WeightsInv
  BY DEF IInv
<1>3. CacheInv' /\ CallInv'
  BY <1>1, <1>2 DEF CacheInv, CallInv
<1>4. PrefillInv' /\ DecodeInv' /\ ScalarInv' /\ AlignedInv' /\ ReusedInv'
  BY <1>1 DEF PrefillInv, DecodeInv, ScalarInv, AlignedInv, ReusedInv
<1>5. RowsInv' /\ WeightsInv'
  BY <1>1, <1>2 DEF RowsInv, WeightsInv
<1>6. QED
  BY <1>3, <1>4, <1>5 DEF IInv

\* A call that is left, or a reset: no checkpoint is kept.
LEMMA ClearedKeeps ==
    ASSUME IInv, ClearCheckpoints, phase' = "idle", live' \in {live, Fresh, Broken},
           reuse' = reuse, environment' = environment,
           weights' \in WeightStates, abandoned' \in BOOLEAN,
           ~abandoned' => ~abandoned /\ NothingHeld(weights')
    PROVE  IInv'
<1>1. checkpoints' = <<>> /\ recency' = <<>> /\ root' = Root /\ bytes' = 0
  BY DEF ClearCheckpoints
<1>2. CallInv /\ RowsInv /\ WeightsInv
  BY DEF IInv
<1>3. CacheInv'
  BY <1>1, EmptyCache DEF CacheInv
<1>4. CallInv'
  BY <1>2, DevicesAre DEF CallInv
<1>5. PrefillInv' /\ DecodeInv' /\ ScalarInv' /\ AlignedInv' /\ ReusedInv'
  BY DEF PrefillInv, DecodeInv, ScalarInv, AlignedInv, ReusedInv
<1>6. \A fault : Without(fault, live, checkpoints) => Without(fault, live', checkpoints')
  BY <1>1 DEF Without, Fresh, Broken
<1>7. RowsInv'
  BY <1>2, <1>6 DEF RowsInv
<1>8. WeightsInv'
  BY <1>2, <1>6 DEF WeightsInv
<1>9. QED
  BY <1>3, <1>4, <1>5, <1>7, <1>8 DEF IInv

\* Where a call may be left, with or without packed weights held.
LEMMA AbandonedIs ==
    ASSUME WeightsInv, NEW places \in SUBSET WeightStates, Abandoned(places)
    PROVE  /\ weights' \in WeightStates /\ abandoned' \in BOOLEAN
           /\ ~abandoned' => ~abandoned /\ NothingHeld(weights')
<1>1. weights \in WeightStates /\ abandoned \in BOOLEAN
  BY DEF WeightsInv
<1>2. weights' \in {weights} \union places /\ abandoned' = (abandoned \/ ~NothingHeld(weights'))
  BY DEF Abandoned
<1>3. QED
  BY <1>1, <1>2

\* The callback stops the call between two chunks.
LEMMA CancelKeeps ==
    ASSUME IInv, Cancel
    PROVE  IInv'
<1>1. /\ ClearCheckpoints /\ phase' = "idle" /\ live' \in {live, Broken}
      /\ Abandoned(LeftByCancel(weights, environment, Chunk))
      /\ reuse' = reuse /\ environment' = environment
  BY DEF Cancel, callVars
<1>2. WeightsInv /\ CallInv
  BY DEF IInv
<1>3. LeftByCancel(weights, environment, Chunk) \in SUBSET WeightStates
  BY <1>2, LeftIs DEF WeightsInv, CallInv
<1>4. /\ weights' \in WeightStates /\ abandoned' \in BOOLEAN
      /\ ~abandoned' => ~abandoned /\ NothingHeld(weights')
  BY <1>1, <1>2, <1>3, AbandonedIs
<1>5. QED
  BY <1>1, <1>4, ClearedKeeps

\* A throw on the way through the layers.
LEMMA FailKeeps ==
    ASSUME IInv, Fail
    PROVE  IInv'
<1>1. /\ ClearCheckpoints /\ phase' = "idle" /\ live' = Broken
      /\ Abandoned(LeftByFailure(weights, environment, Chunk))
      /\ reuse' = reuse /\ environment' = environment
  BY DEF Fail, callVars
<1>2. WeightsInv /\ CallInv
  BY DEF IInv
<1>3. LeftByFailure(weights, environment, Chunk) \in SUBSET WeightStates
  BY <1>2, LeftIs DEF WeightsInv, CallInv
<1>4. /\ weights' \in WeightStates /\ abandoned' \in BOOLEAN
      /\ ~abandoned' => ~abandoned /\ NothingHeld(weights')
  BY <1>1, <1>2, <1>3, AbandonedIs
<1>5. QED
  BY <1>1, <1>4, ClearedKeeps

\* A reset empties the cache.
LEMMA ResetKeeps ==
    ASSUME IInv, Reset
    PROVE  IInv'
<1>1. /\ ClearCheckpoints /\ phase' = "idle" /\ live' = Fresh
      /\ reuse' = reuse /\ environment' = environment /\ phase = "idle"
      /\ weights' = weights /\ abandoned' = abandoned
  BY DEF Reset, callVars, weightVars
<1>2. WeightsInv
  BY DEF IInv
<1>3. /\ weights' \in WeightStates /\ abandoned' \in BOOLEAN
      /\ ~abandoned' => ~abandoned /\ NothingHeld(weights')
  BY <1>1, <1>2 DEF WeightsInv
<1>4. QED
  BY <1>1, <1>3, ClearedKeeps

\* Steps of the environment alone.
LEMMA Stutters ==
    ASSUME IInv, UNCHANGED vars
    PROVE  IInv'
<1>1. /\ checkpoints' = checkpoints /\ recency' = recency /\ root' = root /\ bytes' = bytes
      /\ live' = live /\ phase' = phase /\ base' = base
      /\ prompt' = prompt /\ reused' = reused /\ reuse' = reuse /\ environment' = environment
      /\ weights' = weights /\ abandoned' = abandoned
  BY DEF vars, cacheVars, callVars, weightVars
<1>2. Left' = Left /\ Remainder' = Remainder
  BY <1>1 DEF Left, Remainder, Scheduler
<1>3. CacheInv' /\ CallInv' /\ PrefillInv' /\ DecodeInv'
  BY <1>1 DEF IInv, CacheInv, CallInv, PrefillInv, DecodeInv
<1>4. ScalarInv' /\ AlignedInv' /\ ReusedInv'
  BY <1>1, <1>2 DEF IInv, ScalarInv, AlignedInv, ReusedInv, RestorePoint
<1>5. RowsInv' /\ WeightsInv'
  BY <1>1, <1>2 DEF IInv, RowsInv, WeightsInv
<1>6. QED
  BY <1>3, <1>4, <1>5 DEF IInv

-----------------------------------------------------------------------------
\* The invariant is inductive.
LEMMA NextKeeps ==
    ASSUME IInv, [Next]_vars
    PROVE  IInv'
<1>1. CASE StartFresh
  BY <1>1, StartFreshKeeps
<1>2. CASE StartFromCheckpoint
  BY <1>2, StartFromCheckpointKeeps
<1>3. CASE RestoreFails
  BY <1>3, RestoreFailsKeeps
<1>4. CASE FullChunk
  BY <1>4, FullChunkKeeps
<1>5. CASE TailChunk
  BY <1>5, TailChunkKeeps
<1>6. CASE PrefillEnds
  BY <1>6, PrefillEndsKeeps
<1>7. CASE DecodeStep
  BY <1>7, DecodeStepKeeps
<1>8. CASE Return
  BY <1>8, ReturnKeeps
<1>9. CASE Cancel
  BY <1>9, CancelKeeps
<1>10. CASE Fail
  BY <1>10, FailKeeps
<1>11. CASE Reset
  BY <1>11, ResetKeeps
<1>12. CASE UNCHANGED vars
  BY <1>12, Stutters
<1>13. QED
  BY <1>1, <1>2, <1>3, <1>4, <1>5, <1>6, <1>7, <1>8, <1>9, <1>10, <1>11, <1>12 DEF Next

\* The cache, the call in progress, the schedule of its chunks and the packed
\* weights stay as IInv relates them (Qwen35RuntimeEngine::generate, its callback and
\* reset).
THEOREM SessionInvariant == Spec => []IInv
<1>1. Init => IInv
  BY InitIInv
<1>2. IInv /\ [Next]_vars => IInv'
  BY NextKeeps
<1>3. QED
  BY <1>1, <1>2, PTL DEF Spec

-----------------------------------------------------------------------------
\* What it means.

\* The radix tree finds the longest stored proper prefix of every prompt
\* (longest_session_checkpoint over the index of every insertion and rebuild).
THEOREM IndexCorrect == Spec => []IndexFindsLongest
<1>1. IInv => IndexFindsLongest
  <2> SUFFICES ASSUME IInv, NEW p \in Prompts
               PROVE  LET found == Longest(root, p)
                      IN  /\ IF StoredPrefixes(p) = {} THEN found.checkpoint = 0
                             ELSE /\ found.checkpoint \in DOMAIN checkpoints
                                  /\ checkpoints[found.checkpoint].tokens
                                         = SubSeq(p, 1, Max(StoredPrefixes(p)))
                          /\ found.common =
                                 Max({0} \union {Shared(checkpoints[i].tokens, p) :
                                                    i \in DOMAIN checkpoints})
    BY DEF IndexFindsLongest
  <2> DEFINE names == PrefixesOf(checkpoints)
             found == Longest(root, p)
  <2>1. /\ checkpoints \in Seq(Entry) /\ Indexes(root, Token, names)
        /\ p \in Seq(Token)
    BY PromptIs DEF IInv, CacheInv, Cached, Coherent
  <2>2. /\ names \in Seq(Seq(Token) \ {<<>>}) /\ DOMAIN names = DOMAIN checkpoints
        /\ \A i \in DOMAIN checkpoints : names[i] = checkpoints[i].tokens
    BY <2>1, EntriesAre DEF PrefixesOf
  <2> HIDE DEF names
  <2>3. Finds(found, names, p)
    BY <2>1, <2>2, LongestIs
  <2> HIDE DEF found
  <2>4. StoredBefore(names, p) = StoredPrefixes(p)
    BY <2>2 DEF StoredBefore, StoredPrefixes, Stores
  <2>5. {Shared(names[i], p) : i \in DOMAIN names}
            = {Shared(checkpoints[i].tokens, p) : i \in DOMAIN checkpoints}
    BY <2>2
  <2>6. /\ IF StoredPrefixes(p) = {} THEN found.checkpoint = 0
           ELSE /\ found.checkpoint \in DOMAIN checkpoints
                /\ checkpoints[found.checkpoint].tokens = SubSeq(p, 1, Max(StoredPrefixes(p)))
    BY <2>2, <2>3, <2>4 DEF Finds
  <2>7. found.common = Max({0} \union {Shared(checkpoints[i].tokens, p) : i \in DOMAIN checkpoints})
    BY <2>3, <2>5 DEF Finds
  <2>8. QED
    BY <2>6, <2>7 DEF found
<1>2. QED
  BY <1>1, SessionInvariant, PTL

\* Every checkpoint has exactly the state and the rows of its tokens
\* (capture_session_checkpoint), none of which was processed one by one.
THEOREM CheckpointsCorrect == Spec => []CheckpointsComplete
<1>1. IInv => CheckpointsComplete
  <2> SUFFICES ASSUME IInv, NEW i \in DOMAIN checkpoints
               PROVE  LET c == checkpoints[i]
                      IN  c.saved.state = c.tokens /\ c.saved.kv = c.tokens /\ ~c.saved.scalar
    BY DEF CheckpointsComplete
  <2>1. checkpoints \in Seq(Entry) /\ i \in 1 .. Len(checkpoints)
    BY DEF IInv, CacheInv, Cached, Coherent
  <2>2. checkpoints[i] \in Entry
    BY <2>1, ElementOfSeq
  <2>3. QED
    BY <2>2 DEF Entry
<1>2. QED
  BY <1>1, SessionInvariant, PTL

\* A call decodes from the state and the rows of its prompt, from wherever it
\* resumed (generate, restore_session_checkpoint).
THEOREM ReplayCorrect == Spec => []ReplayEquivalent
<1>1. IInv => ReplayEquivalent
  BY DEF IInv, DecodeInv, ReplayEquivalent
<1>2. QED
  BY <1>1, SessionInvariant, PTL

\* What a call resumed from is the last of the checkpoints to go
\* (touch_session_checkpoint before evict_oldest_session_checkpoint).
THEOREM RestorePointCorrect == Spec => []RestorePointKept
<1>1. IInv => RestorePointKept
  BY DEF IInv, ReusedInv, RestorePoint, RestorePointKept, Stores
<1>2. QED
  BY <1>1, SessionInvariant, PTL

\* session_checkpoint_bytes_ counts the payload of the checkpoints, which are in
\* both limits, and last_used orders exactly them.
THEOREM PayloadCorrect == Spec => []PayloadCounted
<1>1. IInv => PayloadCounted
  BY DEF IInv, CacheInv, Cached, Coherent, BytesOf, PayloadCounted
<1>2. QED
  BY <1>1, SessionInvariant, PTL

\* A chunk is part of what is left and, if chunk lengths divide
\* kFullPrefillCapacity, stops at its multiples (prefill_layer_major).
THEOREM ChunksCorrect == Spec => []ChunksStopAtBoundaries
<1>1. IInv => ChunksStopAtBoundaries
  <2> SUFFICES ASSUME IInv, phase = "prefill", Left > 0
               PROVE  /\ Chunk \in 1 .. Left
                      /\ Full % environment.chunk = 0 => (base % Full) + Chunk <= Full
    BY DEF ChunksStopAtBoundaries
  <2> DEFINE e == environment.chunk
             n == Chunk
  <2>1. Prefilling
    BY PrefillingIs
  <2>2. /\ EnvironmentOK /\ Left \in Nat \ {0} /\ base \in Nat /\ Len(prompt) \in Nat
        /\ Left = Len(prompt) - base
    BY <2>1, BoundaryIs DEF Prefilling, Left
  <2>3. n \in 1 .. Left /\ n <= e /\ e \in Nat \ {0} /\ Full \in Nat \ {0}
    BY <2>2, ChunkIs DEF EnvironmentOK
  <2> HIDE DEF n, e
  <2>4. ASSUME Full % e = 0
        PROVE  (base % Full) + n <= Full
    <3>1. PICK k \in 0 .. base : e * k <= base /\ (base = e * k \/ Len(prompt) <= e * (k + 1))
      BY <2>4 DEF IInv, AlignedInv, Aligned, e
    <3>2. k \in Nat /\ e * (k + 1) = e * k + e /\ e * k \in Nat
      BY <2>2, <2>3, <3>1
    <3>3. (base % Full) + (e * (k + 1) - base) <= Full
      BY <2>2, <2>3, <2>4, <3>1, <3>2, WithinFull
    <3> DEFINE y == e * (k + 1)
               x == e * k
    <3>4. /\ y = x + e /\ x \in Nat /\ x <= base /\ (base = x \/ Len(prompt) <= y)
          /\ (base % Full) + (y - base) <= Full
      BY <3>1, <3>2, <3>3
    <3> HIDE DEF x, y
    <3>5. n <= y - base
      BY <2>2, <2>3, <3>4
    <3>6. base % Full \in Nat
      BY <2>2, <2>3
    <3> DEFINE z == base % Full
    <3>7. z \in Nat /\ z + (y - base) <= Full
      BY <3>4, <3>6
    <3> HIDE DEF z
    <3>8. z + n <= Full
      BY <2>2, <2>3, <3>4, <3>5, <3>7
    <3>9. QED
      BY <3>8 DEF z
  <2>5. QED
    BY <2>3, <2>4 DEF n, e
<1>2. QED
  BY <1>1, SessionInvariant, PTL

\* prefill_wide() takes every chunk the scheduler makes, but for the first of the
\* schedulers that leave the unaligned part in it.
THEOREM ServedCorrect == Spec => []ChunksServed
<1>1. IInv => ChunksServed
  <2> SUFFICES ASSUME IInv, phase = "prefill", Left > 0, ~(Remainder /\ base < Full)
               PROVE  Served(environment, Chunk)
    BY DEF ChunksServed
  <2>1. Prefilling
    BY PrefillingIs
  <2>2. EnvironmentOK /\ Left \in Nat \ {0} /\ base \in Nat
    BY <2>1, BoundaryIs DEF Prefilling
  <2>3. QED
    BY <2>2, ChunkServedIs
<1>2. QED
  BY <1>1, SessionInvariant, PTL

\* No attention layer takes rows the wide layer before it did not leave
\* (prepare_prefill_batch), with whole chunks of kFullPrefillCapacity tokens.
THEOREM RowsCorrect == Spec => []RowsHandedOver
<1>1. IInv => RowsHandedOver
  BY DEF IInv, RowsInv, Without, RowsHandedOver
<1>2. QED
  BY <1>1, SessionInvariant, PTL

\* Every layer multiplies its own packed weights unless an earlier call was left
\* while a layer held some (ensure_m23_repacked, release_m23_repacked).
THEOREM WeightsCorrect == Spec => []OwnWeights
<1>1. IInv => OwnWeights
  BY DEF IInv, WeightsInv, Without, OwnWeights
<1>2. QED
  BY <1>1, SessionInvariant, PTL
=============================================================================
