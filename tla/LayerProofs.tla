----------------------------- MODULE LayerProofs -----------------------------
(***************************************************************************)
(* For any number of blocks, capacity, tile and formats: the programs of   *)
(* prefill-v2's layers compute the reference's quantities for every token  *)
(* of a tile, whichever kernels are picked, and leave rows, convolution    *)
(* history and GDN state of the layer as the reference has them.           *)
(***************************************************************************)
EXTENDS TopologyBlock, FiniteSetTheorems, SequenceTheorems, TLAPS

\* A nonempty set of naturals has a least element.
LEMMA LeastExists ==
    ASSUME NEW S \in SUBSET Nat, S # {}
    PROVE  \E x \in S : \A y \in S : x <= y
<1> DEFINE R == OpToRel(<, Nat)
<1> HIDE DEF R
<1>1. IsWellFoundedOn(R, Nat)
      BY NatLessThanWellFounded DEF R
<1>2. PICK x \in S : \A y \in S : <<y, x>> \notin R
      BY <1>1, WFMin
<1>3. \A y \in S : ~(y < x)
      BY <1>2 DEF OpToRel, R
<1> QED BY <1>3

\* What holds at the beginning and goes on from one turn to the next holds at
\* every turn.
LEMMA EachTurn ==
    ASSUME NEW k \in Nat, NEW T \in SUBSET Nat, 0 \in T,
           \A n \in 1 .. k : n - 1 \in T => n \in T
    PROVE  0 .. k \subseteq T
<1> SUFFICES ASSUME (0 .. k) \ T # {} PROVE FALSE
  OBVIOUS
<1>1. PICK x \in (0 .. k) \ T : \A y \in (0 .. k) \ T : x <= y
  <2>1. (0 .. k) \ T \in SUBSET Nat
    OBVIOUS
  <2>2. QED
    BY <2>1, LeastExists
<1>2. x \in 1 .. k /\ x - 1 \in 0 .. k
  BY <1>1
<1>3. QED
  BY <1>1, <1>2

-----------------------------------------------------------------------------
(* The rows of the split-K kernels.                                        *)

\* Integer division by a positive number.
LEMMA Division ==
    ASSUME NEW n \in Nat, NEW d \in Nat \ {0}
    PROVE  /\ n \div d \in Nat
           /\ (n \div d) * d <= n
           /\ n < (n \div d) * d + d
  BY Z3

\* A larger multiplier gives a product larger by at least one step.
LEMMA ProductStep ==
    ASSUME NEW i \in Nat, NEW j \in Nat, NEW c \in Nat, i < j
    PROVE  i * c + c <= j * c
  BY Z3

\* A multiplier no smaller gives a product no smaller.
LEMMA ProductMonotone ==
    ASSUME NEW i \in Nat, NEW j \in Nat, NEW c \in Nat, i <= j
    PROVE  /\ i * c <= j * c
           /\ c * i <= c * j
  BY Z3

\* The chunks together are long enough, and no chunk is empty for want of rows.
LEMMA ChunkCovers ==
    ASSUME NEW length \in Nat, NEW splits \in Nat \ {0}
    PROVE  /\ Chunk(length, splits) \in Nat
           /\ length <= Chunk(length, splits) * splits
           /\ length > 0 => Chunk(length, splits) > 0
<1>1. length + splits - 1 \in Nat
  OBVIOUS
<1>2. /\ Chunk(length, splits) \in Nat
      /\ length + splits - 1 < Chunk(length, splits) * splits + splits
  BY <1>1, Division DEF Chunk
<1>3. Chunk(length, splits) * splits \in Nat
  BY <1>2
<1>4. length <= Chunk(length, splits) * splits
  BY <1>2, <1>3
<1>5. ASSUME length > 0, Chunk(length, splits) = 0
      PROVE  FALSE
  BY <1>4, <1>5
<1> QED
  BY <1>2, <1>4, <1>5

\* A longer length never has shorter chunks.
LEMMA ChunkMonotone ==
    ASSUME NEW shorter \in Nat, NEW longer \in Nat, NEW splits \in Nat \ {0},
           shorter <= longer
    PROVE  Chunk(shorter, splits) <= Chunk(longer, splits)
<1> DEFINE c == Chunk(shorter, splits)
           d == Chunk(longer, splits)
<1>1. c \in Nat /\ d \in Nat
  BY ChunkCovers
<1>2. c * splits <= shorter + splits - 1
  BY Division DEF Chunk
<1>3. longer + splits - 1 < d * splits + splits
  BY Division DEF Chunk
<1>4. ASSUME d < c
      PROVE  FALSE
  <2>1. d * splits + splits <= c * splits
    BY <1>1, <1>4, ProductStep
  <2>2. c * splits \in Nat /\ d * splits \in Nat
    BY <1>1
  <2> QED
    BY <1>2, <1>3, <2>1, <2>2
<1> QED
  BY <1>1, <1>4

\* Every row a query attends to is in the chunk of one work group ...
\* stage 1 of the suffix kernel launches exactly splits of them.
THEOREM EveryRowRead ==
    ASSUME NEW length \in Nat, NEW splits \in Nat \ {0}, NEW r \in 0 .. length - 1
    PROVE  \E s \in 0 .. splits - 1 : r \in SplitRows(length, splits, s)
<1> DEFINE c == Chunk(length, splits)
           s == r \div c
<1>1. c \in Nat \ {0} /\ length <= c * splits /\ r \in Nat
  BY ChunkCovers
<1> HIDE DEF c
<1>2. s \in Nat /\ s * c <= r /\ r < s * c + c
  BY <1>1, Division
<1> HIDE DEF s
<1>3. s < splits
  <2>1. SUFFICES ASSUME splits <= s
                 PROVE  FALSE
    BY <1>2
  <2>2. splits * c <= s * c
    BY <2>1, <1>1, <1>2, ProductMonotone
  <2>3. splits * c = c * splits /\ splits * c \in Nat /\ s * c \in Nat
    BY <1>1, <1>2
  <2> QED
    BY <1>1, <1>2, <2>2, <2>3
<1>4. s * c \in Nat
  BY <1>1, <1>2
<1>5. r < Smaller(s * c + c, length)
  BY <1>1, <1>2, <1>4 DEF Smaller
<1>6. r \in SplitRows(length, splits, s)
  BY <1>2, <1>5 DEF SplitRows, c
<1> QED
  BY <1>2, <1>3, <1>6

\* ... and of one only, so that the merge adds no row twice.
THEOREM NoRowReadTwice ==
    ASSUME NEW length \in Nat, NEW splits \in Nat \ {0},
           NEW s \in 0 .. splits - 1, NEW t \in 0 .. splits - 1, s # t
    PROVE  SplitRows(length, splits, s) \cap SplitRows(length, splits, t) = {}
<1> DEFINE c == Chunk(length, splits)
<1>1. c \in Nat
  BY ChunkCovers
<1>2. ASSUME NEW i \in Nat, NEW j \in Nat, i < j, NEW r \in 0 .. length - 1,
             r < Smaller(i * c + c, length), j * c <= r
      PROVE  FALSE
  <2>1. i * c + c <= j * c
    BY <1>1, <1>2, ProductStep
  <2>2. i * c \in Nat /\ j * c \in Nat
    BY <1>1, <1>2
  <2> HIDE DEF c
  <2> QED
    BY <1>1, <1>2, <2>1, <2>2 DEF Smaller
<1>3. CASE s < t
  BY <1>2, <1>3 DEF SplitRows
<1>4. CASE t < s
  BY <1>2, <1>4 DEF SplitRows
<1> QED
  BY <1>3, <1>4

\* A query of a block of the fragment kernel attends to the rows it would
\* attend to alone: the block's loop reaches all of them and the mask leaves no
\* other.
THEOREM BlockServesQuery ==
    ASSUME NEW first \in Nat, NEW last \in Nat, NEW length \in Nat,
           first <= length, length <= last,
           NEW splits \in Nat \ {0}, NEW s \in 0 .. splits - 1
    PROVE  FragmentRows(first, last, length, splits, s) = SplitRows(length, splits, s)
<1> DEFINE f == Chunk(first, splits)
           c == Chunk(length, splits)
           l == Chunk(last, splits)
<1>1. f \in Nat /\ c \in Nat /\ l \in Nat
  BY ChunkCovers
<1>2. f <= c /\ c <= l
  BY ChunkMonotone
<1>3. s * f <= s * c /\ s * c <= s * l
  BY <1>1, <1>2, ProductMonotone
<1>4. s * f \in Nat /\ s * c \in Nat /\ s * l \in Nat
  BY <1>1
<1>5. ASSUME NEW r \in SplitRows(length, splits, s)
      PROVE  r \in BlockRows(first, last, splits, s)
  <2>1. r \in 0 .. length - 1 /\ s * c <= r /\ r < Smaller(s * c + c, length)
    BY DEF SplitRows
  <2> HIDE DEF f, c, l
  <2>2. r \in 0 .. last - 1 /\ s * f <= r /\ r < Smaller(s * l + l, last)
    BY <1>1, <1>2, <1>3, <1>4, <2>1 DEF Smaller
  <2> QED
    BY <2>2 DEF BlockRows, f, l
<1> QED
  BY <1>5 DEF FragmentRows

\* How many rows an interval has.
LEMMA IntervalSize ==
    ASSUME NEW a \in Nat, NEW b \in Nat, a <= b
    PROVE  Cardinality(a .. b - 1) = b - a
<1>1. a \in Int /\ b - 1 \in Int
  OBVIOUS
<1>2. Cardinality(a .. b - 1) = IF a > b - 1 THEN 0 ELSE (b - 1) - a + 1
  BY <1>1, FS_Interval, Zenon
<1>3. CASE a = b
  BY <1>2, <1>3
<1>4. CASE a < b
  BY <1>2, <1>4
<1> QED BY <1>3, <1>4

\* The rows of an interval come out as they are.
LEMMA AscendingIs ==
    ASSUME NEW a \in Nat, NEW b \in Nat, a <= b
    PROVE  Ascending(a .. b - 1) = [i \in 1 .. b - a |-> a + i - 1]
<1>1. Cardinality(a .. b - 1) = b - a
  BY IntervalSize
<1>2. \A r \in a .. b - 1 : Cardinality({q \in a .. b - 1 : q < r}) = r - a
  <2> TAKE r \in a .. b - 1
  <2>1. {q \in a .. b - 1 : q < r} = a .. r - 1
    OBVIOUS
  <2>2. Cardinality(a .. r - 1) = r - a
    BY IntervalSize
  <2> QED BY <2>1, <2>2
<1>3. \A i \in 1 .. b - a :
          (CHOOSE r \in a .. b - 1 : Cardinality({q \in a .. b - 1 : q < r}) = i - 1) = a + i - 1
  <2> TAKE i \in 1 .. b - a
  <2>1. a + i - 1 \in a .. b - 1
    OBVIOUS
  <2>2. \A r \in a .. b - 1 :
            Cardinality({q \in a .. b - 1 : q < r}) = i - 1 <=> r = a + i - 1
    BY <1>2
  <2> QED BY <2>1, <2>2
<1> QED BY <1>1, <1>3 DEF Ascending

\* Where the rows before work group s end.
Cut(length, splits, s) == Smaller(s * Chunk(length, splits), length)

\* A work group takes the rows between two cuts.
LEMMA CutsAre ==
    ASSUME NEW length \in Nat, NEW splits \in Nat \ {0}
    PROVE  /\ \A s \in Nat : Cut(length, splits, s) \in 0 .. length
           /\ \A s \in Nat : Cut(length, splits, s) <= Cut(length, splits, s + 1)
           /\ \A s \in Nat : SplitRows(length, splits, s) =
                  Cut(length, splits, s) .. Cut(length, splits, s + 1) - 1
           /\ Cut(length, splits, 0) = 0
           /\ Cut(length, splits, splits) = length
<1> DEFINE c == Chunk(length, splits)
<1>1. c \in Nat /\ length <= c * splits
  BY ChunkCovers
<1>2. SplitRows(length, splits, 0) = SplitRows(length, splits, 0)
  OBVIOUS
<1>3. ASSUME NEW s \in Nat
      PROVE  /\ Cut(length, splits, s) \in 0 .. length
             /\ Cut(length, splits, s) <= Cut(length, splits, s + 1)
             /\ SplitRows(length, splits, s) =
                    Cut(length, splits, s) .. Cut(length, splits, s + 1) - 1
  <2>1. s * c \in Nat /\ (s + 1) * c = s * c + c
    BY <1>1
  <2> DEFINE p == s * c
  <2>2. /\ Cut(length, splits, s) = Smaller(p, length)
        /\ Cut(length, splits, s + 1) = Smaller(p + c, length)
        /\ SplitRows(length, splits, s) =
               {r \in 0 .. length - 1 : p <= r /\ r < Smaller(p + c, length)}
    BY <2>1 DEF Cut, SplitRows
  <2>3. p \in Nat
    BY <2>1
  <2> HIDE DEF p, c
  <2>4. {r \in 0 .. length - 1 : p <= r /\ r < Smaller(p + c, length)}
            = Smaller(p, length) .. Smaller(p + c, length) - 1
    BY <1>1, <2>3 DEF Smaller
  <2>5. Smaller(p, length) \in 0 .. length /\ Smaller(p, length) <= Smaller(p + c, length)
    BY <1>1, <2>3 DEF Smaller
  <2> QED BY <2>2, <2>4, <2>5
<1>4. Cut(length, splits, 0) = 0
  <2>1. 0 * c = 0
    BY <1>1
  <2> QED BY <2>1 DEF Cut, Smaller
<1>5. Cut(length, splits, splits) = length
  <2>1. splits * c = c * splits /\ splits * c \in Nat
    BY <1>1
  <2> QED BY <1>1, <2>1 DEF Cut, Smaller
<1> QED BY <1>3, <1>4, <1>5

\* One piece of the rows more.
LEMMA RowsGrow ==
    ASSUME NEW a \in Nat, NEW b \in Nat, a <= b
    PROVE  [j \in 1 .. a |-> j - 1] \o [i \in 1 .. b - a |-> a + i - 1] = [j \in 1 .. b |-> j - 1]
<1> DEFINE f == [j \in 1 .. a |-> j - 1]
           g == [i \in 1 .. b - a |-> a + i - 1]
           r == [j \in 1 .. b |-> j - 1]
<1>1. f \in Seq(Nat) /\ Len(f) = a
  OBVIOUS
<1>2. g \in Seq(Nat) /\ Len(g) = b - a
  OBVIOUS
<1>3. r \in Seq(Nat) /\ Len(r) = b
  OBVIOUS
<1>4. /\ f \o g \in Seq(Nat) /\ Len(f \o g) = a + (b - a)
      /\ \A i \in 1 .. a + (b - a) : (f \o g)[i] = IF i <= a THEN f[i] ELSE g[i - a]
  BY <1>1, <1>2, ConcatProperties
<1>5. \A i \in 1 .. b : (f \o g)[i] = r[i]
  BY <1>4
<1> DEFINE h == f \o g
<1> HIDE DEF f, g, r
<1>6. h = r
  <2>1. h \in Seq(Nat) /\ Len(h) = b /\ \A i \in 1 .. b : h[i] = r[i]
    BY <1>4, <1>5
  <2> HIDE DEF h
  <2> QED BY <1>3, <2>1, SeqEqual
<1> QED BY <1>6 DEF f, g, r

\* The pieces of all work groups together are the rows up to the query's own,
\* in order.
LEMMA PiecesAreRows ==
    ASSUME NEW length \in Nat, NEW splits \in Nat \ {0}
    PROVE  FlattenSeq([s \in 1 .. splits |-> Ascending(SplitRows(length, splits, s - 1))])
               = [i \in 1 .. length |-> i - 1]
<1> DEFINE cut(s) == Cut(length, splits, s)
           piece == [s \in 1 .. splits |-> Ascending(SplitRows(length, splits, s - 1))]
           upTo == [s \in 1 .. splits |-> [j \in 1 .. cut(s) |-> j - 1]]
           Flat(f) == f = [i \in 1 .. Len(piece) |-> IF i = 1 THEN piece[i] ELSE f[i - 1] \o piece[i]]
<1>1. Len(piece) = splits
  OBVIOUS
<1>2. \A s \in 1 .. splits :
          /\ cut(s - 1) \in Nat /\ cut(s) \in Nat /\ cut(s - 1) <= cut(s)
          /\ piece[s] = [i \in 1 .. cut(s) - cut(s - 1) |-> cut(s - 1) + i - 1]
  <2> TAKE s \in 1 .. splits
  <2>1. s - 1 \in Nat /\ s \in Nat /\ (s - 1) + 1 = s
    OBVIOUS
  <2>2. /\ cut(s - 1) \in Nat /\ cut(s) \in Nat /\ cut(s - 1) <= cut(s)
        /\ SplitRows(length, splits, s - 1) = cut(s - 1) .. cut(s) - 1
    BY <2>1, CutsAre
  <2>3. Ascending(cut(s - 1) .. cut(s) - 1)
            = [i \in 1 .. cut(s) - cut(s - 1) |-> cut(s - 1) + i - 1]
    BY <2>2, AscendingIs
  <2> QED BY <2>2, <2>3
<1>3. cut(0) = 0 /\ cut(splits) = length
  BY CutsAre
<1> HIDE DEF piece, cut
<1>4. \A i \in 1 .. splits : upTo[i] = IF i = 1 THEN piece[i] ELSE upTo[i - 1] \o piece[i]
  <2> TAKE i \in 1 .. splits
  <2>1. CASE i = 1
    <3>1. piece[1] = [j \in 1 .. cut(1) - cut(0) |-> cut(0) + j - 1]
      BY <1>2, <2>1
    <3>2. piece[1] = [j \in 1 .. cut(1) |-> j - 1]
      BY <1>2, <1>3, <2>1, <3>1
    <3> QED BY <2>1, <3>2
  <2>2. CASE i # 1
    <3>1. i - 1 \in 1 .. splits /\ upTo[i - 1] = [j \in 1 .. cut(i - 1) |-> j - 1]
      BY <2>2
    <3>2. [j \in 1 .. cut(i - 1) |-> j - 1]
              \o [j \in 1 .. cut(i) - cut(i - 1) |-> cut(i - 1) + j - 1]
              = [j \in 1 .. cut(i) |-> j - 1]
      BY <1>2, RowsGrow
    <3>3. upTo[i - 1] \o piece[i] = upTo[i]
      BY <1>2, <3>1, <3>2
    <3> QED BY <2>2, <3>3
  <2> QED BY <2>1, <2>2
<1>5. Flat(upTo)
  BY <1>1, <1>4
<1> DEFINE flatten == CHOOSE f : Flat(f)
<1>6. Flat(flatten)
  BY <1>5
<1>7. FlattenSeq(piece) = flatten[splits]
  BY <1>1 DEF FlattenSeq
<1> HIDE DEF flatten
<1> DEFINE T == {i \in Nat : i \in 1 .. splits => flatten[i] = upTo[i]}
<1>8. 0 .. splits \subseteq T
  <2>1. 0 \in T
    OBVIOUS
  <2>2. \A i \in 1 .. splits : i - 1 \in T => i \in T
    <3> TAKE i \in 1 .. splits
    <3> HAVE i - 1 \in T
    <3> HIDE DEF upTo
    <3>1. flatten[i] = IF i = 1 THEN piece[i] ELSE flatten[i - 1] \o piece[i]
      BY <1>1, <1>6
    <3>2. i # 1 => i - 1 \in 1 .. splits
      OBVIOUS
    <3>3. flatten[i] = upTo[i]
      BY <1>4, <3>1, <3>2
    <3> QED BY <3>3
  <2>3. T \in SUBSET Nat
    OBVIOUS
  <2> HIDE DEF T
  <2> QED BY <2>1, <2>2, <2>3, EachTurn
<1>9. splits \in T
  BY <1>8
<1>10. flatten[splits] = [j \in 1 .. length |-> j - 1]
  BY <1>3, <1>9
<1> QED BY <1>7, <1>10 DEF piece

\* Whichever kernel picks up the query, with however many splits.
LEMMA RowsInOrder ==
    ASSUME NEW kind, NEW base \in Nat, NEW n \in Nat, NEW t \in 1 .. n,
           NEW splits \in Nat \ {0}
    PROVE  RowsRead(kind, base, n, t, splits) = [i \in 1 .. base + t |-> i - 1]
<1> DEFINE length == base + t
           block == (t - 1) \div Fragment
           first == base + block * Fragment + 1
           last == base + Smaller(n, (block + 1) * Fragment)
<1>0. Fragment \in Nat \ {0} /\ t - 1 \in Nat /\ length \in Nat
  BY LaunchesAssumption
<1>1. /\ block \in Nat /\ block * Fragment <= t - 1
      /\ t - 1 < block * Fragment + Fragment
  BY <1>0, Division
<1> HIDE DEF block
<1>2. block * Fragment \in Nat /\ (block + 1) * Fragment = block * Fragment + Fragment
  BY <1>0, <1>1
<1> DEFINE start == block * Fragment
<1>3. first \in Nat /\ last \in Nat /\ first <= length /\ length <= last
  <2>1. start \in Nat /\ start <= t - 1 /\ t - 1 < start + Fragment
    BY <1>1, <1>2
  <2> HIDE DEF start
  <2>2. first = base + start + 1 /\ last = base + Smaller(n, start + Fragment)
    BY <1>2 DEF start
  <2> QED BY <1>0, <2>1, <2>2 DEF Smaller
<1> HIDE DEF first, last
<1>4. \A s \in 1 .. splits :
          FragmentRows(first, last, length, splits, s - 1) = SplitRows(length, splits, s - 1)
  BY <1>0, <1>3, BlockServesQuery
<1>5. RowsRead(kind, base, n, t, splits)
          = FlattenSeq([s \in 1 .. splits |-> Ascending(SplitRows(length, splits, s - 1))])
  <2>1. RowsRead(kind, base, n, t, splits)
            = FlattenSeq([s \in 1 .. splits |-> Ascending(
                  IF kind = "fragment" THEN FragmentRows(first, last, length, splits, s - 1)
                                       ELSE SplitRows(length, splits, s - 1))])
    BY DEF RowsRead, first, last, block
  <2>2. [s \in 1 .. splits |-> Ascending(
            IF kind = "fragment" THEN FragmentRows(first, last, length, splits, s - 1)
                                 ELSE SplitRows(length, splits, s - 1))]
            = [s \in 1 .. splits |-> Ascending(SplitRows(length, splits, s - 1))]
    <3> HIDE DEF length
    <3> QED BY <1>4
  <2> QED BY <2>1, <2>2
<1> QED BY <1>0, <1>5, PiecesAreRows

-----------------------------------------------------------------------------
(* The formulas of the reference.                                          *)

\* The quantities a layer computes, and their operands, written out.
LEMMA FormulaShared ==
    ASSUME NEW l
    PROVE  /\ Formula(l)["residual"] = <<"input", "projected">>
           /\ Formula(l)["postNormalized"] = <<"residual">>
           /\ Formula(l)["ffnGate"] = <<"postNormalized">>
           /\ Formula(l)["ffnUp"] = <<"postNormalized">>
           /\ Formula(l)["ffnActivation"] = <<"ffnGate", "ffnUp">>
           /\ Formula(l)["ffnDown"] = <<"ffnActivation">>
           /\ Formula(l)["output"] = <<"residual", "ffnDown">>
BY DEF Formula, FeedForward, Recurrent, Full

LEMMA FormulaRecurrent ==
    ASSUME NEW l, ~IsFullAttention(l)
    PROVE  /\ Formula(l)["normalized"] = <<"input">>
           /\ Formula(l)["qkv"] = <<"normalized">>
           /\ Formula(l)["past"] = <<"past", "qkv">>
           /\ Formula(l)["rawQuery"] = <<"past", "qkv">>
           /\ Formula(l)["rawKey"] = <<"past", "qkv">>
           /\ Formula(l)["value"] = <<"past", "qkv">>
           /\ Formula(l)["query"] = <<"rawQuery">>
           /\ Formula(l)["key"] = <<"rawKey">>
           /\ Formula(l)["gate"] = <<"normalized">>
           /\ Formula(l)["rawBeta"] = <<"normalized">>
           /\ Formula(l)["rawAlpha"] = <<"normalized">>
           /\ Formula(l)["beta"] = <<"rawBeta">>
           /\ Formula(l)["decay"] = <<"rawAlpha">>
           /\ Formula(l)["state"] = <<"state", "key", "value", "beta", "decay">>
           /\ Formula(l)["gdnRawOutput"] = <<"state", "query", "key", "value", "beta", "decay">>
           /\ Formula(l)["gatedOutput"] = <<"gdnRawOutput", "gate">>
           /\ Formula(l)["projected"] = <<"gatedOutput">>
BY DEF Formula, FeedForward, Recurrent, Full

LEMMA FormulaFull ==
    ASSUME NEW l, IsFullAttention(l)
    PROVE  /\ Formula(l)["normalized"] = <<"input">>
           /\ Formula(l)["attnQfull"] = <<"normalized">>
           /\ Formula(l)["attnQRope"] = <<"attnQfull">>
           /\ Formula(l)["gate"] = <<"attnQfull">>
           /\ Formula(l)["attnK"] = <<"normalized">>
           /\ Formula(l)["attnV"] = <<"normalized">>
           /\ Formula(l)["row"] = <<"attnK", "attnV">>
           /\ Formula(l)["attnGatedOutput"] = <<"attnQRope", "gate">>
           /\ Formula(l)["projected"] = <<"attnGatedOutput">>
BY DEF Formula, FeedForward, Recurrent, Full

\* The names of operands.
Names ==
    {"input", "residual", "postNormalized", "ffnGate", "ffnUp", "ffnActivation", "ffnDown",
     "output", "normalized", "qkv", "past", "rawQuery", "rawKey", "value", "query", "key",
     "gate", "rawBeta", "rawAlpha", "beta", "decay", "state", "gdnRawOutput", "gatedOutput",
     "projected", "attnQfull", "attnQRope", "attnK", "attnV", "row", "attnGatedOutput"}

-----------------------------------------------------------------------------
(* A computation on the reference's operands gives the reference's value.  *)

History == Seq(Token) \ {<<>>}

\* A prefix of a sequence.
LEMMA PrefixIs ==
    ASSUME NEW S, NEW s \in Seq(S), NEW n \in 0 .. Len(s)
    PROVE  /\ SubSeq(s, 1, n) \in Seq(S) /\ Len(SubSeq(s, 1, n)) = n
           /\ \A i \in 1 .. n : SubSeq(s, 1, n)[i] = s[i]
<1>1. 1 \in Int /\ n \in Int /\ \A i \in 1 .. n : s[i] \in S
  OBVIOUS
<1>2. /\ SubSeq(s, 1, n) \in Seq(S)
      /\ Len(SubSeq(s, 1, n)) = IF 1 <= n THEN n - 1 + 1 ELSE 0
      /\ \A i \in 1 .. n - 1 + 1 : SubSeq(s, 1, n)[i] = s[1 + i - 1]
  BY <1>1, SubSeqProperties
<1> QED BY <1>2

\* The last token of a history and those before it.
LEMMA HistoryIs ==
    ASSUME NEW h \in History
    PROVE  /\ h \in Seq(Token) /\ Len(h) \in Nat /\ Len(h) > 0
           /\ Last(h) \in Token /\ Front(h) \in Seq(Token)
           /\ Append(Front(h), Last(h)) = h
           /\ <<Last(h)>> \in History /\ Last(<<Last(h)>>) = Last(h)
<1>1. h \in Seq(Token) /\ Len(h) \in Nat /\ Len(h) > 0
  BY EmptySeq DEF History
<1>2. Last(h) \in Token /\ Last(h) = h[Len(h)]
  BY <1>1 DEF Last
<1>3. /\ Front(h) \in Seq(Token) /\ Len(Front(h)) = Len(h) - 1
      /\ \A i \in 1 .. Len(h) - 1 : Front(h)[i] = h[i]
  <2> DEFINE n == Len(h) - 1
  <2>1. n \in 0 .. Len(h) /\ Front(h) = SubSeq(h, 1, n)
    BY <1>1 DEF Front
  <2> HIDE DEF n
  <2>2. /\ SubSeq(h, 1, n) \in Seq(Token) /\ Len(SubSeq(h, 1, n)) = n
        /\ \A i \in 1 .. n : SubSeq(h, 1, n)[i] = h[i]
    BY <1>1, <2>1, PrefixIs
  <2> QED BY <2>1, <2>2 DEF n
<1>4. Append(Front(h), Last(h)) = h
  <2>1. /\ Append(Front(h), Last(h)) \in Seq(Token)
        /\ Len(Append(Front(h), Last(h))) = Len(h)
        /\ \A i \in 1 .. Len(h) : Append(Front(h), Last(h))[i] = h[i]
    BY <1>1, <1>2, <1>3, AppendProperties
  <2> QED BY <1>1, <2>1, SeqEqual
<1>5. <<Last(h)>> \in History /\ Last(<<Last(h)>>) = Last(h)
  BY <1>2 DEF History, Last
<1> QED BY <1>1, <1>2, <1>3, <1>4, <1>5

\* The history of a named quantity is one.
LEMMA NamedOf ==
    ASSUME NEW what, NEW l, NEW h \in History
    PROVE  Named(what, l, h).of \in Seq(Token)
BY HistoryIs DEF Named, Value, Embedding, History

\* Rows of the cache are read by the attention only.
LEMMA OperandsAre ==
    ASSUME NEW what, NEW l, NEW h \in History,
           Formula(l)[what] \in Seq(Names)
    PROVE  /\ Operands(what, l, h) \in Seq({Named(x, l, h) : x \in Names}
                                           \cup {Value("row", l, SubSeq(h, 1, i)) : i \in 1 .. Len(h)})
           /\ \A i \in DOMAIN Formula(l)[what] :
                  /\ i \in DOMAIN Operands(what, l, h)
                  /\ Operands(what, l, h)[i] = Named(Formula(l)[what][i], l, h)
           /\ what # "attnGatedOutput" =>
                  Operands(what, l, h) = NamedAll(Formula(l)[what], l, h)
<1> DEFINE ins == Formula(l)[what]
           S == {Named(x, l, h) : x \in Names}
                    \cup {Value("row", l, SubSeq(h, 1, i)) : i \in 1 .. Len(h)}
           all == NamedAll(ins, l, h)
           rows == IF what = "attnGatedOutput" THEN RowsOf(l, h) ELSE <<>>
<1>1. /\ all \in Seq(S) /\ Len(all) = Len(ins)
      /\ \A i \in 1 .. Len(ins) : all[i] = Named(ins[i], l, h)
  <2> HIDE DEF ins
  <2> QED BY DEF NamedAll, ins
<1>2. rows \in Seq(S)
  BY HistoryIs DEF RowsOf
<1>3. Operands(what, l, h) = all \o rows
  BY DEF Operands
<1>4. what # "attnGatedOutput" => rows = <<>>
  OBVIOUS
<1> HIDE DEF all, rows, S
<1>5. /\ all \o rows \in Seq(S) /\ Len(all \o rows) = Len(all) + Len(rows)
      /\ \A i \in 1 .. Len(all) : (all \o rows)[i] = all[i]
  <2>1. Len(all) \in Nat /\ Len(rows) \in Nat /\ all \in Seq(S)
    BY <1>1, <1>2
  <2>2. \A i \in 1 .. Len(all) + Len(rows) :
            (all \o rows)[i] = IF i <= Len(all) THEN all[i] ELSE rows[i - Len(all)]
    BY <1>2, <2>1, ConcatProperties
  <2>3. all \o rows \in Seq(S) /\ Len(all \o rows) = Len(all) + Len(rows)
    BY <1>2, <2>1, ConcatProperties
  <2> QED BY <2>1, <2>2, <2>3
<1>6. what # "attnGatedOutput" => all \o rows = all
  BY <1>1, <1>4, ConcatEmptySeq
<1>7. Len(rows) \in Nat /\ Len(ins) \in Nat /\ DOMAIN ins = 1 .. Len(ins)
      /\ DOMAIN (all \o rows) = 1 .. Len(all \o rows)
  BY <1>2, <1>5
<1> QED BY <1>1, <1>3, <1>5, <1>6, <1>7 DEF S, all

\* All operands have histories.
LEMMA OperandsOf ==
    ASSUME NEW what, NEW l, NEW h \in History, Formula(l)[what] \in Seq(Names),
           NEW j \in DOMAIN Operands(what, l, h)
    PROVE  Operands(what, l, h)[j].of \in Seq(Token)
<1>1. Operands(what, l, h)[j] \in {Named(x, l, h) : x \in Names}
          \cup {Value("row", l, SubSeq(h, 1, i)) : i \in 1 .. Len(h)}
  <2> DEFINE S == {Named(x, l, h) : x \in Names}
                      \cup {Value("row", l, SubSeq(h, 1, i)) : i \in 1 .. Len(h)}
  <2>1. Operands(what, l, h) \in Seq(S)
    BY OperandsAre
  <2> HIDE DEF S
  <2>2. Operands(what, l, h)[j] \in S
    BY <2>1
  <2> QED BY <2>2 DEF S
<1>2. \A i \in 1 .. Len(h) : SubSeq(h, 1, i) \in Seq(Token)
  <2> TAKE i \in 1 .. Len(h)
  <2>1. h \in Seq(Token) /\ Len(h) \in Nat
    BY HistoryIs
  <2>2. i \in 0 .. Len(h)
    BY <2>1
  <2> QED BY <2>1, <2>2, PrefixIs
<1> QED BY <1>1, <1>2, NamedOf DEF Value

\* The histories a result may have are histories.
LEMMA HistoriesAre ==
    ASSUME NEW ops, 1 \in DOMAIN ops, \A j \in DOMAIN ops : ops[j].of \in Seq(Token)
    PROVE  /\ Histories(ops) \subseteq History
           /\ \A j \in DOMAIN ops : ops[j].of # <<>> => ops[j].of \in Histories(ops)
           /\ \A j \in DOMAIN ops : ops[j].of # <<>> =>
                  Append(ops[1].of, Last(ops[j].of)) \in Histories(ops)
<1> DEFINE ofs == {ops[i].of : i \in DOMAIN ops} \ {<<>>}
<1>1. ofs \subseteq History
  BY DEF History
<1>2. \A h \in ofs : Append(ops[1].of, Last(h)) \in History
  <2> TAKE h \in ofs
  <2>1. Last(h) \in Token
    BY <1>1, HistoryIs
  <2> QED BY <2>1, AppendProperties, EmptySeq DEF History
<1>3. Histories(ops) = ofs \cup {Append(ops[1].of, Last(h)) : h \in ofs}
  BY DEF Histories
<1> QED BY <1>1, <1>2, <1>3

\* A history that explains the operands and is the only one is taken.
LEMMA OnlyFit ==
    ASSUME NEW what, NEW l, NEW h \in History, NEW ops,
           {g \in Histories(ops) : Operands(what, l, g) = ops} = {h}
    PROVE  Compute(what, l, ops) = Made(what, l, h)
<1>1. (CHOOSE x \in {h} : \A g \in {h} : Len(g) <= Len(x)) = h
  BY HistoryIs
<1> QED BY <1>1 DEF Compute, MadeFrom

\* An operand that has the whole history in its name tells it.
LEMMA ComputeAnchored ==
    ASSUME NEW what, NEW l \in Layers, NEW h \in History,
           Formula(l)[what] \in Seq(Names),
           NEW i \in DOMAIN Formula(l)[what], NEW x, x = Formula(l)[what][i],
           x \notin {"past", "state"},
           l # 0 \/ x \notin OneToken \cup {"input"}
    PROVE  Compute(what, l, Operands(what, l, h)) = Made(what, l, h)
<1> DEFINE ops == Operands(what, l, h)
           fits == {g \in Histories(ops) : Operands(what, l, g) = ops}
<1>1. \A g \in History : Named(x, l, g).of = g
  BY DEF Named, Value
<1>2. \A g \in History :
          i \in DOMAIN Operands(what, l, g) /\ Operands(what, l, g)[i].of = g
  <2> TAKE g \in History
  <2>1. \A j \in DOMAIN Formula(l)[what] :
            /\ j \in DOMAIN Operands(what, l, g)
            /\ Operands(what, l, g)[j] = Named(Formula(l)[what][j], l, g)
    BY OperandsAre, ZenonT(40)
  <2> QED BY <1>1, <2>1
<1>3. 1 \in DOMAIN ops
  <2>1. 1 \in DOMAIN Formula(l)[what]
    <3> DEFINE f == Formula(l)[what]
    <3>1. f \in Seq(Names) /\ i \in 1 .. Len(f) /\ Len(f) \in Nat /\ DOMAIN f = 1 .. Len(f)
      OBVIOUS
    <3> HIDE DEF f
    <3>2. 1 \in DOMAIN f
      BY <3>1
    <3> QED BY <3>2 DEF f
  <2> QED BY <2>1, OperandsAre
<1>4. \A j \in DOMAIN ops : ops[j].of \in Seq(Token)
  BY OperandsOf
<1>5. i \in DOMAIN ops /\ ops[i].of = h
  BY <1>2
<1> HIDE DEF ops
<1>6. h \in Histories(ops) /\ Histories(ops) \subseteq History
  BY <1>3, <1>4, <1>5, HistoriesAre DEF History
<1>7. h \in fits
  BY <1>6 DEF ops
<1>8. \A g \in fits : g = h
  BY <1>2, <1>5, <1>6
<1>9. fits = {h}
  BY <1>7, <1>8
<1> QED BY <1>9, OnlyFit DEF ops

\* The operands of what layer 0 computes of one token tell the token.
LEMMA ComputeOneToken ==
    ASSUME NEW what \in OneToken, NEW h \in History, ~IsFullAttention(0)
    PROVE  Compute(what, 0, Operands(what, 0, h)) = Made(what, 0, h)
<1> DEFINE x == Last(h)
           a == <<x>>
           b == Append(<<x>>, x)
           in == Formula(0)[what][1]
           ops == Operands(what, 0, h)
           fits == {g \in Histories(ops) : Operands(what, 0, g) = ops}
<1>1. Formula(0)[what] = <<in>> /\ in \in OneToken \cup {"input"} /\ what # "attnGatedOutput"
  BY FormulaRecurrent DEF OneToken
<1> HIDE DEF in
<1>2. x \in Token /\ a \in History /\ Last(a) = x
  BY HistoryIs
<1>3. b \in History /\ Last(b) = x /\ Len(b) = 2 /\ Len(a) = 1
  BY <1>2 DEF History, Last
<1>4. \A g \in History : Named(in, 0, g).of = <<Last(g)>>
  BY <1>1 DEF Named, Embedding, Value, OneToken
<1>5. \A g, k \in History : Last(g) = Last(k) => Named(in, 0, g) = Named(in, 0, k)
  BY <1>1 DEF Named, OneToken
<1>6. \A g \in History : Operands(what, 0, g) = <<Named(in, 0, g)>>
  <2> TAKE g \in History
  <2>1. <<in>> \in Seq(Names)
    BY <1>1 DEF OneToken, Names
  <2>2. Operands(what, 0, g) = NamedAll(<<in>>, 0, g)
    BY <1>1, <2>1, OperandsAre
  <2>3. NamedAll(<<in>>, 0, g) = <<Named(in, 0, g)>>
    BY DEF NamedAll
  <2> QED BY <2>2, <2>3
<1>7. ops = <<Named(in, 0, h)>> /\ ops[1].of = a /\ DOMAIN ops = {1}
  BY <1>4, <1>6
<1>8. Histories(ops) \subseteq {a, b} /\ a \in Histories(ops)
  <2>1. {ops[i].of : i \in DOMAIN ops} \ {<<>>} = {a}
    BY <1>2, <1>7 DEF History
  <2>2. Histories(ops) = {a} \cup {Append(a, Last(g)) : g \in {a}}
    BY <1>7, <2>1 DEF Histories
  <2> QED BY <1>2, <2>2
<1>9. a \in fits /\ fits \subseteq {a, b}
  BY <1>2, <1>5, <1>6, <1>8
<1> HIDE DEF fits, a, b
<1>10. (CHOOSE y \in fits : \A g \in fits : Len(g) <= Len(y)) \in {a, b}
  <2>1. \E y \in fits : \A g \in fits : Len(g) <= Len(y)
    <3>1. CASE b \in fits
      BY <1>3, <1>9, <3>1, SMTT(30)
    <3>2. CASE b \notin fits
      BY <1>3, <1>9, <3>2
    <3> QED BY <3>1, <3>2
  <2> QED BY <1>9, <2>1
<1>11. Made(what, 0, a) = Made(what, 0, h) /\ Made(what, 0, b) = Made(what, 0, h)
  BY <1>2, <1>3 DEF Made
<1>12. Compute(what, 0, ops) = MadeFrom(what, 0, fits)
  BY DEF Compute, fits
<1>13. MadeFrom(what, 0, fits) = Made(what, 0, h)
  BY <1>9, <1>10, <1>11 DEF MadeFrom
<1> QED BY <1>12, <1>13

\* In layer 0 the convolution's operands tell the history between them.
LEMMA ComputeTaps ==
    ASSUME NEW what \in {"past", "rawQuery", "rawKey", "value"}, NEW h \in History,
           ~IsFullAttention(0)
    PROVE  Compute(what, 0, Operands(what, 0, h)) = Made(what, 0, h)
<1> DEFINE ops == Operands(what, 0, h)
           fits == {g \in Histories(ops) : Operands(what, 0, g) = ops}
<1>1. Formula(0)[what] = <<"past", "qkv">>
  BY FormulaRecurrent
<1>2. \A g \in History :
          Operands(what, 0, g) = <<Value("past", 0, Front(g)), Value("qkv", 0, <<Last(g)>>)>>
  <2> TAKE g \in History
  <2>1. <<"past", "qkv">> \in Seq(Names)
    BY DEF Names
  <2>2. Operands(what, 0, g) = NamedAll(<<"past", "qkv">>, 0, g)
    BY <1>1, <2>1, OperandsAre
  <2>3. NamedAll(<<"past", "qkv">>, 0, g) = <<Named("past", 0, g), Named("qkv", 0, g)>>
    BY DEF NamedAll
  <2>4. Named("past", 0, g) = Value("past", 0, Front(g))
    BY DEF Named, OneToken
  <2>5. Named("qkv", 0, g) = Value("qkv", 0, <<Last(g)>>)
    BY DEF Named, OneToken
  <2> QED BY <2>2, <2>3, <2>4, <2>5
<1>3. DOMAIN ops = {1, 2} /\ ops[1].of = Front(h) /\ ops[2].of = <<Last(h)>>
  BY <1>2 DEF Value
<1>4. Front(h) \in Seq(Token) /\ <<Last(h)>> \in History
  BY HistoryIs
<1>5. h \in Histories(ops) /\ Histories(ops) \subseteq History
  <2>1. \A j \in DOMAIN ops : ops[j].of \in Seq(Token)
    BY <1>3, <1>4 DEF History
  <2>2. Append(ops[1].of, Last(ops[2].of)) \in Histories(ops) /\ Histories(ops) \subseteq History
    <3> HIDE DEF ops
    <3> QED BY <1>3, <1>4, <2>1, HistoriesAre DEF History
  <2>3. Append(ops[1].of, Last(ops[2].of)) = h
    BY <1>3, HistoryIs
  <2> QED BY <2>2, <2>3
<1>6. \A g \in fits : g = h
  <2> TAKE g \in fits
  <2>1. g \in History
    BY <1>5
  <2>2. <<Value("past", 0, Front(g)), Value("qkv", 0, <<Last(g)>>)>>
            = <<Value("past", 0, Front(h)), Value("qkv", 0, <<Last(h)>>)>>
    BY <1>2, <2>1
  <2>3. Value("past", 0, Front(g)) = Value("past", 0, Front(h))
        /\ Value("qkv", 0, <<Last(g)>>) = Value("qkv", 0, <<Last(h)>>)
    BY <2>2
  <2>4. Front(g) = Front(h) /\ Last(g) = Last(h)
    BY <2>3 DEF Value
  <2> QED BY <2>1, <2>4, HistoryIs
<1>7. fits = {h}
  BY <1>5, <1>6
<1> QED BY <1>7, OnlyFit

\* The operands of every quantity are names.
LEMMA FormulaNames ==
    ASSUME NEW l, NEW what \in DOMAIN Formula(l)
    PROVE  Formula(l)[what] \in Seq(Names)
<1>1. CASE what \in DOMAIN FeedForward
  <2>1. what \in {"residual", "postNormalized", "ffnGate", "ffnUp", "ffnActivation",
                  "ffnDown", "output"}
    BY <1>1 DEF FeedForward
  <2>2. /\ <<"input", "projected">> \in Seq(Names) /\ <<"residual">> \in Seq(Names)
        /\ <<"postNormalized">> \in Seq(Names) /\ <<"ffnGate", "ffnUp">> \in Seq(Names)
        /\ <<"ffnActivation">> \in Seq(Names) /\ <<"residual", "ffnDown">> \in Seq(Names)
    BY DEF Names
  <2> QED BY <2>1, <2>2, FormulaShared
<1>2. CASE ~IsFullAttention(l) /\ what \in DOMAIN Recurrent
  <2>1. /\ <<"input">> \in Seq(Names) /\ <<"normalized">> \in Seq(Names)
        /\ <<"past", "qkv">> \in Seq(Names) /\ <<"rawQuery">> \in Seq(Names)
        /\ <<"rawKey">> \in Seq(Names) /\ <<"rawBeta">> \in Seq(Names)
        /\ <<"rawAlpha">> \in Seq(Names)
    BY DEF Names
  <2>2. /\ <<"state", "key", "value", "beta", "decay">> \in Seq(Names)
        /\ <<"state", "query", "key", "value", "beta", "decay">> \in Seq(Names)
        /\ <<"gdnRawOutput", "gate">> \in Seq(Names) /\ <<"gatedOutput">> \in Seq(Names)
    BY DEF Names
  <2>3. CASE what \in {"normalized", "qkv", "past", "rawQuery", "rawKey", "value", "query", "key"}
    BY <1>2, <2>1, <2>3, FormulaRecurrent
  <2>4. CASE what \in {"gate", "rawBeta", "rawAlpha", "beta", "decay"}
    BY <1>2, <2>1, <2>4, FormulaRecurrent
  <2>5. CASE what \in {"state", "gdnRawOutput", "gatedOutput", "projected"}
    BY <1>2, <2>2, <2>5, FormulaRecurrent
  <2> QED BY <1>2, <2>3, <2>4, <2>5 DEF Recurrent
<1>3. CASE IsFullAttention(l) /\ what \in DOMAIN Full
  <2>1. what \in {"normalized", "attnQfull", "attnQRope", "gate", "attnK", "attnV", "row",
                  "attnGatedOutput", "projected"}
    BY <1>3 DEF Full
  <2>2. /\ <<"input">> \in Seq(Names) /\ <<"normalized">> \in Seq(Names)
        /\ <<"attnQfull">> \in Seq(Names) /\ <<"attnK", "attnV">> \in Seq(Names)
        /\ <<"attnQRope", "gate">> \in Seq(Names) /\ <<"attnGatedOutput">> \in Seq(Names)
    BY DEF Names
  <2> QED BY <1>3, <2>1, <2>2, FormulaFull
<1>4. \/ what \in DOMAIN FeedForward
      \/ ~IsFullAttention(l) /\ what \in DOMAIN Recurrent
      \/ IsFullAttention(l) /\ what \in DOMAIN Full
  BY DEF Formula
<1> QED BY <1>1, <1>2, <1>3, <1>4

\* Which operand tells the history.
Anchor(what) ==
    IF what \in {"residual", "past", "rawQuery", "rawKey", "value", "state", "gdnRawOutput"}
    THEN 2 ELSE 1

\* A kernel given the reference's operands makes the reference's quantity,
\* whatever other history its operands might be read to have.
LEMMA ComputeIs ==
    ASSUME NEW l \in Layers, NEW h \in History, ~IsFullAttention(0),
           NEW what \in DOMAIN Formula(l)
    PROVE  Compute(what, l, Operands(what, l, h)) = Made(what, l, h)
<1> DEFINE F == Formula(l)[what]
           x == F[Anchor(what)]
           Tells == /\ Anchor(what) \in DOMAIN F
                    /\ x \notin {"past", "state"}
                    /\ l # 0 \/ x \notin OneToken \cup {"input"}
<1>1. ASSUME Tells
      PROVE  Compute(what, l, Operands(what, l, h)) = Made(what, l, h)
  BY <1>1, ComputeAnchored, FormulaNames
<1>2. CASE what \in DOMAIN FeedForward
  <2>1. what \in {"residual", "postNormalized", "ffnGate", "ffnUp", "ffnActivation",
                  "ffnDown", "output"}
    BY <1>2 DEF FeedForward
  <2>2. Tells
    BY <2>1, FormulaShared DEF Anchor, OneToken
  <2> QED BY <1>1, <2>2
<1>3. CASE IsFullAttention(l) /\ what \in DOMAIN Full
  <2>1. what \in {"normalized", "attnQfull", "attnQRope", "gate", "attnK", "attnV", "row",
                  "attnGatedOutput", "projected"}
    BY <1>3 DEF Full
  <2>2. l # 0
    BY <1>3
  <2>3. Tells
    BY <1>3, <2>1, <2>2, FormulaFull DEF Anchor
  <2> QED BY <1>1, <2>3
<1>4. CASE ~IsFullAttention(l) /\ what \in DOMAIN Recurrent
  <2>1. \/ what \in OneToken
        \/ what \in {"past", "rawQuery", "rawKey", "value"}
        \/ what \in {"query", "key", "state", "gdnRawOutput", "gatedOutput", "projected"}
    BY <1>4 DEF Recurrent, OneToken
  <2>2. CASE l = 0 /\ what \in OneToken
    BY <2>2, ComputeOneToken
  <2>3. CASE l = 0 /\ what \in {"past", "rawQuery", "rawKey", "value"}
    BY <2>3, ComputeTaps
  <2>4. CASE l # 0 /\ what \in OneToken
    <3>1. Tells
      BY <1>4, <2>4, FormulaRecurrent DEF Anchor, OneToken
    <3> QED BY <1>1, <3>1
  <2>5. CASE l # 0 /\ what \in {"past", "rawQuery", "rawKey", "value"}
    <3>1. Tells
      BY <1>4, <2>5, FormulaRecurrent DEF Anchor
    <3> QED BY <1>1, <3>1
  <2>6. CASE what \in {"query", "key", "state", "gdnRawOutput", "gatedOutput", "projected"}
    <3>1. Tells
      BY <1>4, <2>6, FormulaRecurrent DEF Anchor, OneToken
    <3> QED BY <1>1, <3>1
  <2> QED BY <2>1, <2>2, <2>3, <2>4, <2>5, <2>6
<1>5. \/ what \in DOMAIN FeedForward
      \/ ~IsFullAttention(l) /\ what \in DOMAIN Recurrent
      \/ IsFullAttention(l) /\ what \in DOMAIN Full
  BY DEF Formula
<1> QED BY <1>2, <1>3, <1>4, <1>5

-----------------------------------------------------------------------------
(* What a launch does to the memory.                                       *)

\* A job: layer j.l runs a program over the last j.n tokens of the sequence j.s,
\* behind the j.base tokens it has seen.
IsJob(j) ==
    /\ j.l \in Layers /\ ~IsFullAttention(0)
    /\ j.n \in 1 .. Tile /\ j.base \in Nat
    /\ j.s \in Seq(Token) /\ Len(j.s) = j.base + j.n

\* The history of token t of the tile.
Upto(j, t) == SubSeq(j.s, 1, j.base + t)

LEMMA UptoIs ==
    ASSUME NEW j, IsJob(j)
    PROVE  /\ \A t \in 0 .. j.n : Upto(j, t) \in Seq(Token) /\ Len(Upto(j, t)) = j.base + t
           /\ \A t \in 1 .. j.n :
                  /\ Upto(j, t) \in History
                  /\ Front(Upto(j, t)) = Upto(j, t - 1)
                  /\ Last(Upto(j, t)) = j.s[j.base + t]
           /\ Upto(j, j.n) = j.s
<1> DEFINE s == j.s
           base == j.base
           n == j.n
<1>0. s \in Seq(Token) /\ base \in Nat /\ n \in Nat /\ Len(s) = base + n
  BY DEF IsJob
<1> HIDE DEF s, base, n
<1>1. ASSUME NEW t \in 0 .. n
      PROVE  /\ SubSeq(s, 1, base + t) \in Seq(Token)
             /\ Len(SubSeq(s, 1, base + t)) = base + t
             /\ \A i \in 1 .. base + t : SubSeq(s, 1, base + t)[i] = s[i]
  <2>1. base + t \in 0 .. Len(s)
    BY <1>0
  <2> QED BY <1>0, <2>1, PrefixIs
<1>2. ASSUME NEW t \in 1 .. n
      PROVE  /\ SubSeq(s, 1, base + t) \in History
             /\ Front(SubSeq(s, 1, base + t)) = SubSeq(s, 1, base + (t - 1))
             /\ Last(SubSeq(s, 1, base + t)) = s[base + t]
  <2> DEFINE h == SubSeq(s, 1, base + t)
             g == SubSeq(s, 1, base + (t - 1))
  <2>1. t \in 0 .. n /\ t - 1 \in 0 .. n
    BY <1>0
  <2>2. /\ h \in Seq(Token) /\ Len(h) = base + t
        /\ \A i \in 1 .. base + t : h[i] = s[i]
    BY <1>1, <2>1
  <2>3. /\ g \in Seq(Token) /\ Len(g) = base + (t - 1)
        /\ \A i \in 1 .. base + (t - 1) : g[i] = s[i]
    BY <1>1, <2>1
  <2> HIDE DEF h, g
  <2>4. h # <<>>
    BY <1>0, <2>2
  <2>5. h \in History
    BY <2>2, <2>4 DEF History
  <2>6. Last(h) = s[base + t]
    BY <1>0, <2>2 DEF Last
  <2>7. Front(h) = g
    <3> DEFINE f == SubSeq(h, 1, base + (t - 1))
    <3>1. base + (t - 1) \in 0 .. Len(h)
      BY <1>0, <2>2
    <3>2. /\ f \in Seq(Token) /\ Len(f) = base + (t - 1)
          /\ \A i \in 1 .. base + (t - 1) : f[i] = h[i]
      BY <2>2, <3>1, PrefixIs
    <3>3. Front(h) = f
      <4>1. Len(h) - 1 = base + (t - 1)
        BY <1>0, <2>2
      <4> QED BY <4>1 DEF Front
    <3> HIDE DEF f
    <3>4. \A i \in 1 .. base + (t - 1) : f[i] = g[i]
      BY <1>0, <2>2, <2>3, <3>2
    <3>5. f = g
      BY <2>3, <3>2, <3>4, SeqEqual
    <3> QED BY <3>3, <3>5
  <2> QED BY <2>5, <2>6, <2>7 DEF h, g
<1>3. SubSeq(s, 1, base + n) = s
  BY <1>0, SubSeqFull
<1> QED BY <1>1, <1>2, <1>3 DEF s, base, n, Upto

\* The named quantity, but for the states, is what a kernel makes.
LEMMA MadeNamed ==
    ASSUME NEW what, NEW l, NEW h, what \notin {"input", "past", "state"}
    PROVE  Made(what, l, h) = Named(what, l, h)
BY DEF Made, Named

\* The tokens of the tile in a buffer are the reference's for a quantity.
Holds(m, j, buffer, what) ==
    \A t \in 1 .. j.n : m.ws[buffer][t] = Named(what, j.l, Upto(j, t))

IsMemory(m) ==
    /\ DOMAIN m = {"ws", "affine", "kv", "past", "state", "prefill", "decode"}
    /\ DOMAIN m.ws = Buffers

\* After a launch all buffers but `outs` hold what they held.
Keeps(x, m, j, outs) ==
    /\ IsMemory(x)
    /\ \A b \in Buffers \ outs : \A what : Holds(m, j, b, what) => Holds(x, j, b, what)

\* What is not in the workspace is as it was.
SameStates(x, m) == x.kv = m.kv /\ x.past = m.past /\ x.state = m.state
SameRecords(x, m) == x.prefill = m.prefill /\ x.decode = m.decode

\* The beginning of a buffer is replaced.
Over(cells, old, n) == cells \o SubSeq(old, n + 1, Tile)

Put(m, n, out, cells) == [m EXCEPT !.ws[out] = Over(cells, @, n)]

IsTile(cells, n) == cells = [t \in 1 .. n |-> cells[t]]

LEMMA Overwritten ==
    ASSUME NEW n \in Nat, NEW old, NEW cells, IsTile(cells, n)
    PROVE  \A t \in 1 .. n : Over(cells, old, n)[t] = cells[t]
<1> DEFINE rest == SubSeq(old, n + 1, Tile)
           S == {cells[t] : t \in 1 .. n} \cup {old[i] : i \in n + 1 .. Tile}
<1>1. cells \in Seq(S) /\ Len(cells) = n
  <2>1. \A t \in 1 .. n : cells[t] \in S
    OBVIOUS
  <2> HIDE DEF S
  <2>2. cells \in [1 .. n -> S]
    BY <2>1 DEF IsTile
  <2> QED BY <2>2
<1>2. rest \in Seq(S)
  <2>1. \A i \in n + 1 .. Tile : old[i] \in S
    OBVIOUS
  <2>2. n + 1 \in Int /\ Tile \in Int
    BY LaunchesAssumption
  <2> HIDE DEF S
  <2> QED BY <2>1, <2>2, SubSeqProperties
<1> HIDE DEF S, rest
<1>3. \A t \in 1 .. Len(cells) : (cells \o rest)[t] = cells[t]
  BY <1>1, <1>2
<1> QED BY <1>1, <1>3 DEF rest, Over

\* The beginning of a buffer is overwritten.
LEMMA PutIs ==
    ASSUME NEW j, IsJob(j), NEW m, IsMemory(m), NEW out \in Buffers,
           NEW cells, IsTile(cells, j.n),
           NEW x, x = Put(m, j.n, out, cells)
    PROVE  /\ Keeps(x, m, j, {out})
           /\ SameStates(x, m) /\ SameRecords(x, m) /\ x.affine = m.affine
           /\ \A t \in 1 .. j.n : x.ws[out][t] = cells[t]
<1> DEFINE n == j.n
           new == Over(cells, m.ws[out], n)
<1>1. n \in Nat
  BY DEF IsJob
<1>2. \A t \in 1 .. n : new[t] = cells[t]
  <2>1. IsTile(cells, n)
    OBVIOUS
  <2> HIDE DEF n
  <2> QED BY <1>1, <2>1, Overwritten
<1>3. x = [m EXCEPT !.ws = [m.ws EXCEPT ![out] = new]]
  BY DEF Put
<1> HIDE DEF new, n
<1>4. /\ DOMAIN x = DOMAIN m /\ DOMAIN x.ws = Buffers
      /\ x.ws[out] = new
      /\ \A b \in Buffers \ {out} : x.ws[b] = m.ws[b]
      /\ x.affine = m.affine /\ x.kv = m.kv /\ x.past = m.past /\ x.state = m.state
      /\ x.prefill = m.prefill /\ x.decode = m.decode
  BY <1>3 DEF IsMemory
<1>5. Keeps(x, m, j, {out})
  BY <1>4 DEF Keeps, IsMemory, Holds
<1> QED BY <1>2, <1>4, <1>5 DEF SameStates, SameRecords, n

\* A buffer is filled with a quantity of the reference.
LEMMA PutHolds ==
    ASSUME NEW j, IsJob(j), NEW m, IsMemory(m), NEW out \in Buffers, NEW what,
           NEW cells, IsTile(cells, j.n),
           \A t \in 1 .. j.n : cells[t] = Named(what, j.l, Upto(j, t)),
           NEW x, x = Put(m, j.n, out, cells)
    PROVE  /\ Keeps(x, m, j, {out}) /\ Holds(x, j, out, what)
           /\ SameStates(x, m) /\ SameRecords(x, m) /\ x.affine = m.affine
<1>1. /\ Keeps(x, m, j, {out})
      /\ SameStates(x, m) /\ SameRecords(x, m) /\ x.affine = m.affine
      /\ \A t \in 1 .. j.n : x.ws[out][t] = cells[t]
  BY PutIs
<1> QED BY <1>1 DEF Holds


-----------------------------------------------------------------------------
(* The launches one by one.  A launch that is given the reference's        *)
(* operands for the tokens of a tile leaves the reference's quantity for   *)
(* each, and nothing else is disturbed.                                    *)

Fills(x, m, j, out, what) ==
    /\ Keeps(x, m, j, {out}) /\ Holds(x, j, out, what)
    /\ SameStates(x, m) /\ SameRecords(x, m)

\* What a kernel makes of a tile.
AreCells(cells, j, what) ==
    /\ IsTile(cells, j.n)
    /\ \A t \in 1 .. j.n : cells[t] = Named(what, j.l, Upto(j, t))

LEMMA PutFills ==
    ASSUME NEW j, IsJob(j), NEW m, IsMemory(m), NEW out \in Buffers, NEW what,
           NEW cells, AreCells(cells, j, what)
    PROVE  /\ Fills(Put(m, j.n, out, cells), m, j, out, what)
           /\ Put(m, j.n, out, cells).affine = m.affine
<1> DEFINE x == Put(m, j.n, out, cells)
<1>1. /\ IsTile(cells, j.n) /\ x = Put(m, j.n, out, cells)
      /\ \A t \in 1 .. j.n : cells[t] = Named(what, j.l, Upto(j, t))
  BY DEF AreCells
<1> HIDE DEF x
<1>2. /\ Keeps(x, m, j, {out}) /\ Holds(x, j, out, what)
      /\ SameStates(x, m) /\ SameRecords(x, m) /\ x.affine = m.affine
  BY <1>1, PutHolds
<1> QED BY <1>1, <1>2 DEF Fills

LEMMA Computed ==
    ASSUME NEW l
    PROVE  /\ {"residual", "postNormalized", "ffnGate", "ffnUp", "ffnActivation", "ffnDown",
               "output", "normalized", "gate", "projected"} \subseteq DOMAIN Formula(l)
           /\ ~IsFullAttention(l) =>
                  {"qkv", "past", "rawQuery", "rawKey", "value", "query", "key", "rawBeta",
                   "rawAlpha", "beta", "decay", "state", "gdnRawOutput", "gatedOutput"}
                      \subseteq DOMAIN Formula(l)
           /\ IsFullAttention(l) =>
                  {"attnQfull", "attnQRope", "attnK", "attnV", "row", "attnGatedOutput"}
                      \subseteq DOMAIN Formula(l)
           /\ "input" \notin DOMAIN Formula(l)
BY DEF Formula, FeedForward, Recurrent, Full

LEMMA BufferNames ==
    {"ping", "pong", "mmqQ8", "q8", "residual", "postNormalized", "ffnGate", "ffnUp",
     "ffnActivation", "ffnDown", "normalized", "qkv", "value", "query", "key", "gate",
     "rawBeta", "rawAlpha", "beta", "decay", "gdnRawOutput", "gatedOutput", "projected",
     "attnQfull", "attnQRope", "attnK", "attnV", "attnGatedOutput"} \subseteq Buffers
BY DEF Buffers, FeedForward, Recurrent, Full

\* For every token of the tile.
LEMMA Makes ==
    ASSUME NEW j, IsJob(j), NEW t \in 1 .. j.n,
           NEW what \in DOMAIN Formula(j.l), what \notin {"past", "state"},
           NEW operands, operands = Operands(what, j.l, Upto(j, t))
    PROVE  Compute(what, j.l, operands) = Named(what, j.l, Upto(j, t))
<1> DEFINE h == Upto(j, t)
<1>1. h \in History /\ j.l \in Layers /\ ~IsFullAttention(0)
  BY UptoIs DEF IsJob
<1> HIDE DEF h
<1>2. Compute(what, j.l, Operands(what, j.l, h)) = Made(what, j.l, h)
  BY <1>1, ComputeIs
<1>3. Made(what, j.l, h) = Named(what, j.l, h)
  BY Computed, MadeNamed
<1> QED BY <1>2, <1>3 DEF h

LEMMA MakesOne ==
    ASSUME NEW j, IsJob(j), NEW t \in 1 .. j.n,
           NEW what \in DOMAIN Formula(j.l), what \notin {"past", "state", "attnGatedOutput"},
           NEW a, Formula(j.l)[what] = <<a>>,
           NEW v, v = Named(a, j.l, Upto(j, t))
    PROVE  Compute(what, j.l, <<v>>) = Named(what, j.l, Upto(j, t))
<1> DEFINE h == Upto(j, t)
<1>1. h \in History /\ Formula(j.l)[what] \in Seq(Names)
  BY UptoIs, FormulaNames
<1> HIDE DEF h
<1>2. Operands(what, j.l, h) = NamedAll(<<a>>, j.l, h)
  <2>1. what # "attnGatedOutput"
    OBVIOUS
  <2>2. Operands(what, j.l, h) = NamedAll(Formula(j.l)[what], j.l, h)
    BY <1>1, <2>1, OperandsAre
  <2> QED BY <2>2
<1>3. NamedAll(<<a>>, j.l, h) = <<v>>
  BY DEF NamedAll, h
<1>4. <<v>> = Operands(what, j.l, Upto(j, t))
  BY <1>2, <1>3 DEF h
<1> QED BY <1>4, Makes

LEMMA MakesTwo ==
    ASSUME NEW j, IsJob(j), NEW t \in 1 .. j.n,
           NEW what \in DOMAIN Formula(j.l), what \notin {"past", "state", "attnGatedOutput"},
           NEW a, NEW b, Formula(j.l)[what] = <<a, b>>,
           NEW v, v = Named(a, j.l, Upto(j, t)), NEW w, w = Named(b, j.l, Upto(j, t))
    PROVE  Compute(what, j.l, <<v, w>>) = Named(what, j.l, Upto(j, t))
<1> DEFINE h == Upto(j, t)
<1>1. h \in History /\ Formula(j.l)[what] \in Seq(Names)
  BY UptoIs, FormulaNames
<1> HIDE DEF h
<1>2. Operands(what, j.l, h) = NamedAll(<<a, b>>, j.l, h)
  <2>1. what # "attnGatedOutput"
    OBVIOUS
  <2>2. Operands(what, j.l, h) = NamedAll(Formula(j.l)[what], j.l, h)
    BY <1>1, <2>1, OperandsAre
  <2> QED BY <2>2
<1>3. NamedAll(<<a, b>>, j.l, h) = <<v, w>>
  BY DEF NamedAll, h
<1>4. <<v, w>> = Operands(what, j.l, Upto(j, t))
  BY <1>2, <1>3 DEF h
<1> QED BY <1>4, Makes

LEMMA ExecApply ==
    ASSUME NEW m, NEW n, NEW l, NEW what, NEW ins, NEW out
    PROVE  Exec(m, n, l, Apply(what, ins, out))
               = Put(m, n, out, [t \in 1 .. n |-> Compute(what, l, Read(m, ins, t))])
BY DEF Exec, Apply, Store, Put, Over

LEMMA ExecGdnChunk ==
    ASSUME NEW m, NEW n, NEW l, NEW x, x = Exec(m, n, l, GdnChunk)
    PROVE  x = Exec_GdnChunk(m, n, l)
BY DEF Exec, GdnChunk

\* A kernel does the same wherever it is told the same position, and attends to
\* the same rows whichever of the split-K kernels it is.

LEMMA SplitPlaced ==
    ASSUME NEW m, NEW n, NEW l, NEW p, m.decode = p
    PROVE  Exec(m, n, l, QSplit("host", p)) = Exec(m, n, l, QSplit("decode", 0))
<1>1. BaseOf(m, QSplit("host", p)) = BaseOf(m, QSplit("decode", 0))
  BY DEF BaseOf, QSplit
<1>2. /\ Exec(m, n, l, QSplit("host", p)) = Exec_QSplit(m, n, l, QSplit("host", p))
      /\ Exec(m, n, l, QSplit("decode", 0)) = Exec_QSplit(m, n, l, QSplit("decode", 0))
  BY DEF Exec, QSplit
<1> DEFINE turned(base) ==
               Put(m, n, "attnQRope", [t \in 1 .. n |->
                   Rotated(Compute("attnQRope", l, Read(m, <<"attnQfull">>, t)), base + t - 1)])
           both(base) ==
               Put(turned(base), n, "gate", [t \in 1 .. n |->
                   Compute("gate", l, Read(m, <<"attnQfull">>, t))])
<1>3. /\ Exec_QSplit(m, n, l, QSplit("host", p)) = both(BaseOf(m, QSplit("host", p)))
      /\ Exec_QSplit(m, n, l, QSplit("decode", 0)) = both(BaseOf(m, QSplit("decode", 0)))
  BY DEF Exec_QSplit, Store, Put, Over
<1> HIDE DEF both
<1> QED BY <1>1, <1>2, <1>3

LEMMA StorePlaced ==
    ASSUME NEW m, NEW n, NEW l, NEW p, m.decode = p
    PROVE  Exec(m, n, l, StoreKv("host", p)) = Exec(m, n, l, StoreKv("decode", 0))
<1>1. BaseOf(m, StoreKv("host", p)) = BaseOf(m, StoreKv("decode", 0))
  BY DEF BaseOf, StoreKv
<1>2. /\ Exec(m, n, l, StoreKv("host", p)) = Exec_StoreKv(m, n, l, StoreKv("host", p))
      /\ Exec(m, n, l, StoreKv("decode", 0)) = Exec_StoreKv(m, n, l, StoreKv("decode", 0))
  BY DEF Exec, StoreKv
<1> QED BY <1>1, <1>2 DEF Exec_StoreKv

LEMMA AttendPlaced ==
    ASSUME NEW m, NEW n \in Nat, NEW l, NEW p \in Nat, m.decode = p
    PROVE  Exec(m, n, l, Attend("suffix", "host", p)) = Exec(m, n, l, Attend("dynamic", "decode", 0))
<1> DEFINE host == Attend("suffix", "host", p)
           device == Attend("dynamic", "decode", 0)
           rows(kind, t) == RowsRead(kind, p, n, t, SplitsOf(kind, p + t))
           cell(kind, t) ==
               IF p + t > Capacity THEN Wrong
               ELSE Compute("attnGatedOutput", l,
                            Read(m, <<"attnQRope", "gate">>, t)
                            \o [i \in DOMAIN rows(kind, t) |-> m.kv[rows(kind, t)[i] + 1]])
<1>1. /\ BaseOf(m, host) = p /\ BaseOf(m, device) = p
      /\ host.kind = "suffix" /\ device.kind = "dynamic"
  BY DEF BaseOf, Attend
<1>2. /\ Exec(m, n, l, host) = Exec_Attend(m, n, l, host)
      /\ Exec(m, n, l, device) = Exec_Attend(m, n, l, device)
  BY DEF Exec, Attend
<1> HIDE DEF host, device
<1>3. /\ Exec(m, n, l, host) = Put(m, n, "attnGatedOutput", [t \in 1 .. n |-> cell("suffix", t)])
      /\ Exec(m, n, l, device) = Put(m, n, "attnGatedOutput", [t \in 1 .. n |-> cell("dynamic", t)])
  BY <1>1, <1>2 DEF Exec_Attend, Store, Put, Over
<1>4. \A kind \in {"suffix", "dynamic"}, length \in Nat : SplitsOf(kind, length) \in Nat \ {0}
  BY LaunchesAssumption DEF SplitsOf, SplitsForLength
<1>5. ASSUME NEW t \in 1 .. n
      PROVE  rows("suffix", t) = rows("dynamic", t)
  <2>1. /\ SplitsOf("suffix", p + t) \in Nat \ {0} /\ SplitsOf("dynamic", p + t) \in Nat \ {0}
    BY <1>4
  <2>2. RowsRead("suffix", p, n, t, SplitsOf("suffix", p + t)) = [i \in 1 .. p + t |-> i - 1]
    BY <2>1, RowsInOrder, SMTT(30)
  <2>3. RowsRead("dynamic", p, n, t, SplitsOf("dynamic", p + t)) = [i \in 1 .. p + t |-> i - 1]
    BY <2>1, RowsInOrder, SMTT(30)
  <2> QED BY <2>2, <2>3
<1> HIDE DEF rows
<1>6. [t \in 1 .. n |-> cell("suffix", t)] = [t \in 1 .. n |-> cell("dynamic", t)]
  BY <1>5
<1> QED BY <1>3, <1>6 DEF host, device

LEMMA ApplyOne ==
    ASSUME NEW j, IsJob(j), NEW m, IsMemory(m), NEW in, NEW out \in Buffers,
           NEW what \in DOMAIN Formula(j.l), what \notin {"past", "state", "attnGatedOutput"},
           NEW a, Formula(j.l)[what] = <<a>>, Holds(m, j, in, a),
           NEW x, x = Exec(m, j.n, j.l, Apply(what, <<in>>, out))
    PROVE  Fills(x, m, j, out, what) /\ x.affine = m.affine
<1> DEFINE cells == [t \in 1 .. j.n |-> Compute(what, j.l, Read(m, <<in>>, t))]
<1>1. x = Put(m, j.n, out, cells)
  BY ExecApply
<1>2. \A t \in 1 .. j.n : cells[t] = Named(what, j.l, Upto(j, t))
  <2> TAKE t \in 1 .. j.n
  <2>1. Read(m, <<in>>, t) = <<m.ws[in][t]>>
    BY DEF Read
  <2>2. m.ws[in][t] = Named(a, j.l, Upto(j, t))
    BY DEF Holds
  <2>3. Compute(what, j.l, <<m.ws[in][t]>>) = Named(what, j.l, Upto(j, t))
    BY <2>2, MakesOne
  <2> QED BY <2>1, <2>3
<1>3. AreCells(cells, j, what)
  BY <1>2 DEF AreCells, IsTile
<1> HIDE DEF cells
<1> QED BY <1>1, <1>3, PutFills

LEMMA ApplyTwo ==
    ASSUME NEW j, IsJob(j), NEW m, IsMemory(m), NEW in, NEW by, NEW out \in Buffers,
           NEW what \in DOMAIN Formula(j.l), what \notin {"past", "state", "attnGatedOutput"},
           NEW a, NEW b, Formula(j.l)[what] = <<a, b>>, Holds(m, j, in, a), Holds(m, j, by, b),
           NEW x, x = Exec(m, j.n, j.l, Apply(what, <<in, by>>, out))
    PROVE  Fills(x, m, j, out, what) /\ x.affine = m.affine
<1> DEFINE cells == [t \in 1 .. j.n |-> Compute(what, j.l, Read(m, <<in, by>>, t))]
<1>1. x = Put(m, j.n, out, cells)
  BY ExecApply
<1>2. \A t \in 1 .. j.n : cells[t] = Named(what, j.l, Upto(j, t))
  <2> TAKE t \in 1 .. j.n
  <2>1. Read(m, <<in, by>>, t) = <<m.ws[in][t], m.ws[by][t]>>
    BY DEF Read
  <2>2. /\ m.ws[in][t] = Named(a, j.l, Upto(j, t))
        /\ m.ws[by][t] = Named(b, j.l, Upto(j, t))
    BY DEF Holds
  <2>3. Compute(what, j.l, <<m.ws[in][t], m.ws[by][t]>>) = Named(what, j.l, Upto(j, t))
    BY <2>2, MakesTwo
  <2> QED BY <2>1, <2>3
<1>3. AreCells(cells, j, what)
  BY <1>2 DEF AreCells, IsTile
<1> HIDE DEF cells
<1> QED BY <1>1, <1>3, PutFills

\* The Q8_1 copy the projections read.
LEMMA QuantizeDoes ==
    ASSUME NEW j, IsJob(j), NEW m, IsMemory(m), NEW launch, launch.kernel = "quantize",
           NEW a, Holds(m, j, launch.in, a),
           NEW x, x = Exec(m, j.n, j.l, launch)
    PROVE  Fills(x, m, j, "mmqQ8", a) /\ x.affine = launch.affine
<1> DEFINE cells == [t \in 1 .. j.n |-> m.ws[launch.in][t]]
           y == Put(m, j.n, "mmqQ8", cells)
<1>1. x = [y EXCEPT !.affine = launch.affine]
  BY DEF Exec, Store, Put, Over
<1>2. \A t \in 1 .. j.n : cells[t] = Named(a, j.l, Upto(j, t))
  BY DEF Holds
<1>3. AreCells(cells, j, a)
  BY <1>2 DEF AreCells, IsTile
<1> HIDE DEF cells
<1>4. y = Put(m, j.n, "mmqQ8", cells) /\ "mmqQ8" \in Buffers
  BY BufferNames
<1> HIDE DEF y
<1>5. Fills(y, m, j, "mmqQ8", a)
  BY <1>3, <1>4, PutFills
<1>6. /\ DOMAIN x = DOMAIN y /\ x.ws = y.ws /\ x.affine = launch.affine
      /\ x.kv = y.kv /\ x.past = y.past /\ x.state = y.state
      /\ x.prefill = y.prefill /\ x.decode = y.decode
  BY <1>1, <1>5 DEF Fills, Keeps, IsMemory
<1> QED BY <1>5, <1>6 DEF Fills, Keeps, IsMemory, Holds, SameStates, SameRecords

\* A projection reads the copy in the layout its matrix asks for.
LEMMA ProjectDoes ==
    ASSUME NEW j, IsJob(j), NEW m, IsMemory(m),
           NEW what \in DOMAIN Formula(j.l), what \notin {"past", "state", "attnGatedOutput"},
           what \in Buffers, NEW launch, launch.kernel = "project", launch.what = what,
           m.affine = ~launch.q6,
           NEW a, Formula(j.l)[what] = <<a>>, Holds(m, j, "mmqQ8", a),
           NEW x, x = Exec(m, j.n, j.l, launch)
    PROVE  Fills(x, m, j, what, what) /\ x.affine = m.affine
<1> DEFINE cells == [t \in 1 .. j.n |-> IF m.affine = ~launch.q6
                         THEN Compute(launch.what, j.l, <<m.ws["mmqQ8"][t]>>) ELSE Wrong]
<1>1. x = Put(m, j.n, what, cells)
  BY DEF Exec, Exec_Project, LayoutFits, Store, Put, Over
<1>2. \A t \in 1 .. j.n : cells[t] = Named(what, j.l, Upto(j, t))
  <2> TAKE t \in 1 .. j.n
  <2>1. m.ws["mmqQ8"][t] = Named(a, j.l, Upto(j, t))
    BY DEF Holds
  <2>2. Compute(what, j.l, <<m.ws["mmqQ8"][t]>>) = Named(what, j.l, Upto(j, t))
    BY <2>1, MakesOne
  <2> QED BY <2>2
<1>3. AreCells(cells, j, what)
  BY <1>2 DEF AreCells, IsTile
<1> HIDE DEF cells
<1> QED BY <1>1, <1>3, PutFills

\* The layouts and matrices that do not depend on the model file.
Affine(in) == Quantize(in, TRUE)
Plain(in) == Quantize(in, FALSE)
Native(what) == Project(what, FALSE)

LEMMA LayoutDoes ==
    ASSUME NEW j, IsJob(j), NEW m, IsMemory(m), NEW in, NEW a, Holds(m, j, in, a)
    PROVE  /\ Fills(Exec(m, j.n, j.l, Affine(in)), m, j, "mmqQ8", a)
           /\ Exec(m, j.n, j.l, Affine(in)).affine = TRUE
           /\ Fills(Exec(m, j.n, j.l, Plain(in)), m, j, "mmqQ8", a)
           /\ Exec(m, j.n, j.l, Plain(in)).affine = FALSE
           /\ \A q6 : /\ Fills(Exec(m, j.n, j.l, Quantize(in, ~q6)), m, j, "mmqQ8", a)
                      /\ Exec(m, j.n, j.l, Quantize(in, ~q6)).affine = ~q6
<1>1. ASSUME NEW launch, launch.kernel = "quantize", launch.in = in
      PROVE  /\ Fills(Exec(m, j.n, j.l, launch), m, j, "mmqQ8", a)
             /\ Exec(m, j.n, j.l, launch).affine = launch.affine
  BY <1>1, QuantizeDoes
<1>2. /\ Affine(in).kernel = "quantize" /\ Affine(in).in = in /\ Affine(in).affine = TRUE
      /\ Plain(in).kernel = "quantize" /\ Plain(in).in = in /\ Plain(in).affine = FALSE
  BY DEF Affine, Plain, Quantize
<1>3. ASSUME NEW q6
      PROVE  /\ Fills(Exec(m, j.n, j.l, Quantize(in, ~q6)), m, j, "mmqQ8", a)
             /\ Exec(m, j.n, j.l, Quantize(in, ~q6)).affine = ~q6
  <2> DEFINE launch == Quantize(in, ~q6)
  <2>1. launch.kernel = "quantize" /\ launch.in = in /\ launch.affine = ~q6
    BY DEF Quantize
  <2> HIDE DEF launch
  <2>2. /\ Fills(Exec(m, j.n, j.l, launch), m, j, "mmqQ8", a)
        /\ Exec(m, j.n, j.l, launch).affine = ~q6
    BY <1>1, <2>1
  <2> QED BY <2>2 DEF launch
<1> QED BY <1>1, <1>2, <1>3

LEMMA MatrixDoes ==
    ASSUME NEW j, IsJob(j), NEW m, IsMemory(m),
           NEW what \in DOMAIN Formula(j.l), what \notin {"past", "state", "attnGatedOutput"},
           what \in Buffers, NEW a, Formula(j.l)[what] = <<a>>, Holds(m, j, "mmqQ8", a)
    PROVE  /\ m.affine = TRUE =>
                  /\ Fills(Exec(m, j.n, j.l, Native(what)), m, j, what, what)
                  /\ Exec(m, j.n, j.l, Native(what)).affine = TRUE
           /\ \A q6 : m.affine = ~q6 =>
                  /\ Fills(Exec(m, j.n, j.l, Project(what, q6)), m, j, what, what)
                  /\ Exec(m, j.n, j.l, Project(what, q6)).affine = ~q6
<1>1. ASSUME NEW launch, launch.kernel = "project", launch.what = what,
             m.affine = ~launch.q6
      PROVE  /\ Fills(Exec(m, j.n, j.l, launch), m, j, what, what)
             /\ Exec(m, j.n, j.l, launch).affine = m.affine
  BY <1>1, ProjectDoes
<1>2. Native(what).kernel = "project" /\ Native(what).what = what /\ Native(what).q6 = FALSE
  BY DEF Native, Project
<1>3. ASSUME NEW q6, m.affine = ~q6
      PROVE  /\ Fills(Exec(m, j.n, j.l, Project(what, q6)), m, j, what, what)
             /\ Exec(m, j.n, j.l, Project(what, q6)).affine = ~q6
  <2> DEFINE launch == Project(what, q6)
  <2>1. launch.kernel = "project" /\ launch.what = what /\ launch.q6 = q6
    BY DEF Project
  <2> HIDE DEF launch
  <2>2. m.affine = ~launch.q6
    BY <1>3, <2>1
  <2>3. /\ Fills(Exec(m, j.n, j.l, launch), m, j, what, what)
        /\ Exec(m, j.n, j.l, launch).affine = m.affine
    BY <1>1, <2>1, <2>2
  <2> QED BY <1>3, <2>3 DEF launch
<1> QED BY <1>1, <1>2, <1>3

\* One launch after another.
LEMMA KeepsAfter ==
    ASSUME NEW j, NEW m, NEW x, NEW y, NEW outs, NEW more,
           Keeps(x, m, j, outs), Keeps(y, x, j, more)
    PROVE  Keeps(y, m, j, outs \cup more)
BY DEF Keeps

LEMMA KeepsMore ==
    ASSUME NEW j, NEW m, NEW x, NEW outs, NEW all, Keeps(x, m, j, outs), outs \subseteq all
    PROVE  Keeps(x, m, j, all)
BY DEF Keeps

LEMMA AddNormDoes ==
    ASSUME NEW j, IsJob(j), NEW m, IsMemory(m), NEW in,
           Holds(m, j, in, "input"), Holds(m, j, "projected", "projected"),
           NEW x, x = Exec(m, j.n, j.l, AddNorm(in))
    PROVE  /\ Keeps(x, m, j, {"residual", "postNormalized", "q8"})
           /\ Holds(x, j, "residual", "residual")
           /\ Holds(x, j, "postNormalized", "postNormalized")
           /\ Holds(x, j, "q8", "postNormalized")
           /\ SameStates(x, m) /\ SameRecords(x, m)
<1> DEFINE n == j.n
           l == j.l
           launch == AddNorm(in)
           rs == [t \in 1 .. n |->
                     Compute("residual", l, <<m.ws[launch.in][t], m.ws["projected"][t]>>)]
           r == Put(m, n, "residual", rs)
           ps == [t \in 1 .. n |-> Compute("postNormalized", l, <<r.ws["residual"][t]>>)]
           p == Put(r, n, "postNormalized", ps)
           qs == [t \in 1 .. n |-> p.ws["postNormalized"][t]]
<1>1. x = Put(p, n, "q8", qs)
  <2>1. x = Exec_AddNorm(m, n, l, launch)
    BY DEF Exec, AddNorm
  <2> HIDE DEF launch, n, l
  <2> QED BY <2>1 DEF Exec_AddNorm, Store, Put, Over
<1>2. /\ "residual" \in Buffers /\ "postNormalized" \in Buffers /\ "q8" \in Buffers
      /\ "residual" \in DOMAIN Formula(j.l) /\ "postNormalized" \in DOMAIN Formula(j.l)
      /\ Formula(j.l)["residual"] = <<"input", "projected">>
      /\ Formula(j.l)["postNormalized"] = <<"residual">>
  BY BufferNames, Computed, FormulaShared
<1>3. launch.in = in
  BY DEF AddNorm
<1> HIDE DEF launch
<1>4. Fills(r, m, j, "residual", "residual")
  <2>1. \A t \in 1 .. j.n : rs[t] = Named("residual", j.l, Upto(j, t))
    <3> TAKE t \in 1 .. j.n
    <3>1. /\ m.ws[in][t] = Named("input", j.l, Upto(j, t))
          /\ m.ws["projected"][t] = Named("projected", j.l, Upto(j, t))
      BY DEF Holds
    <3>2. Compute("residual", j.l, <<m.ws[in][t], m.ws["projected"][t]>>)
              = Named("residual", j.l, Upto(j, t))
      BY <1>2, <3>1, MakesTwo
    <3> QED BY <1>3, <3>2
  <2>2. AreCells(rs, j, "residual")
    BY <2>1 DEF AreCells, IsTile
  <2> HIDE DEF rs
  <2> QED BY <1>2, <2>2, PutFills
<1> HIDE DEF r
<1>5. IsMemory(r)
  BY <1>4 DEF Fills, Keeps
<1>6. Fills(p, r, j, "postNormalized", "postNormalized")
  <2>1. \A t \in 1 .. j.n : ps[t] = Named("postNormalized", j.l, Upto(j, t))
    <3> TAKE t \in 1 .. j.n
    <3>1. r.ws["residual"][t] = Named("residual", j.l, Upto(j, t))
      BY <1>4 DEF Fills, Holds
    <3>2. Compute("postNormalized", j.l, <<r.ws["residual"][t]>>)
              = Named("postNormalized", j.l, Upto(j, t))
      BY <1>2, <3>1, MakesOne
    <3> QED BY <3>2
  <2>2. AreCells(ps, j, "postNormalized")
    BY <2>1 DEF AreCells, IsTile
  <2> HIDE DEF ps
  <2> QED BY <1>2, <1>5, <2>2, PutFills
<1> HIDE DEF p
<1>7. IsMemory(p)
  BY <1>6 DEF Fills, Keeps
<1>8. Fills(x, p, j, "q8", "postNormalized")
  <2>1. \A t \in 1 .. j.n : qs[t] = Named("postNormalized", j.l, Upto(j, t))
    BY <1>6 DEF Fills, Holds
  <2>2. AreCells(qs, j, "postNormalized")
    BY <2>1 DEF AreCells, IsTile
  <2> HIDE DEF qs
  <2> QED BY <1>1, <1>2, <1>7, <2>2, PutFills
<1> QED BY <1>2, <1>4, <1>6, <1>8 DEF Fills, Keeps, SameStates, SameRecords

\* The parameters of one token in one kernel.
LEMMA BetaDecayDoes ==
    ASSUME NEW j, IsJob(j), j.n = 1, ~IsFullAttention(j.l), NEW m, IsMemory(m),
           Holds(m, j, "normalized", "normalized"),
           NEW x, x = Exec(m, j.n, j.l, BetaDecay)
    PROVE  /\ Keeps(x, m, j, {"beta", "decay"})
           /\ Holds(x, j, "beta", "beta") /\ Holds(x, j, "decay", "decay")
           /\ SameStates(x, m) /\ SameRecords(x, m)
<1> DEFINE v == m.ws["normalized"][1]
           bs == [t \in 1 .. 1 |-> Compute("beta", j.l, <<Compute("rawBeta", j.l, <<v>>)>>)]
           ds == [t \in 1 .. 1 |-> Compute("decay", j.l, <<Compute("rawAlpha", j.l, <<v>>)>>)]
           b == Put(m, 1, "beta", bs)
<1>1. x = Put(b, 1, "decay", ds)
  <2>1. x = Exec_BetaDecay(m, j.n, j.l)
    BY DEF Exec, BetaDecay
  <2> QED BY <2>1 DEF Exec_BetaDecay, Store, Put, Over
<1>2. /\ "beta" \in Buffers /\ "decay" \in Buffers
      /\ {"rawBeta", "rawAlpha", "beta", "decay"} \subseteq DOMAIN Formula(j.l)
      /\ Formula(j.l)["rawBeta"] = <<"normalized">> /\ Formula(j.l)["beta"] = <<"rawBeta">>
      /\ Formula(j.l)["rawAlpha"] = <<"normalized">> /\ Formula(j.l)["decay"] = <<"rawAlpha">>
  BY BufferNames, Computed, FormulaRecurrent
<1>3. /\ bs[1] = Named("beta", j.l, Upto(j, 1))
      /\ ds[1] = Named("decay", j.l, Upto(j, 1))
  <2>1. v = Named("normalized", j.l, Upto(j, 1)) /\ 1 \in 1 .. j.n
    BY DEF Holds
  <2> HIDE DEF v
  <2>2. /\ Compute("rawBeta", j.l, <<v>>) = Named("rawBeta", j.l, Upto(j, 1))
        /\ Compute("rawAlpha", j.l, <<v>>) = Named("rawAlpha", j.l, Upto(j, 1))
    BY <1>2, <2>1, MakesOne
  <2>3. /\ Compute("beta", j.l, <<Compute("rawBeta", j.l, <<v>>)>>) = Named("beta", j.l, Upto(j, 1))
        /\ Compute("decay", j.l, <<Compute("rawAlpha", j.l, <<v>>)>>) = Named("decay", j.l, Upto(j, 1))
    BY <1>2, <2>1, <2>2, MakesOne
  <2> QED BY <2>3
<1>4. IsTile(bs, j.n) /\ IsTile(ds, j.n)
  BY DEF IsTile
<1> HIDE DEF bs, ds
<1>5. b = Put(m, j.n, "beta", bs)
  OBVIOUS
<1> HIDE DEF b
<1>6. \A t \in 1 .. j.n : t = 1
  OBVIOUS
<1>7. AreCells(bs, j, "beta") /\ AreCells(ds, j, "decay")
  BY <1>3, <1>4, <1>6 DEF AreCells
<1>8. Fills(b, m, j, "beta", "beta")
  BY <1>2, <1>5, <1>7, PutFills
<1>9. Fills(x, b, j, "decay", "decay")
  <2>1. IsMemory(b) /\ x = Put(b, j.n, "decay", ds)
    BY <1>1, <1>8 DEF Fills, Keeps
  <2> QED BY <1>2, <1>7, <2>1, PutFills
<1> QED BY <1>2, <1>8, <1>9 DEF Fills, Keeps, SameStates, SameRecords

LEMMA GateUpSwigluDoes ==
    ASSUME NEW j, IsJob(j), j.n = 1, NEW m, IsMemory(m), Holds(m, j, "q8", "postNormalized"),
           NEW x, x = Exec(m, j.n, j.l, GateUpSwiglu)
    PROVE  Fills(x, m, j, "ffnActivation", "ffnActivation")
<1> DEFINE v == m.ws["q8"][1]
           as == [t \in 1 .. 1 |-> Compute("ffnActivation", j.l,
                     <<Compute("ffnGate", j.l, <<v>>), Compute("ffnUp", j.l, <<v>>)>>)]
<1>1. x = Put(m, 1, "ffnActivation", as)
  <2>1. x = Exec_GateUpSwiglu(m, j.n, j.l)
    BY DEF Exec, GateUpSwiglu
  <2> QED BY <2>1 DEF Exec_GateUpSwiglu, Store, Put, Over
<1>2. /\ "ffnActivation" \in Buffers
      /\ {"ffnGate", "ffnUp", "ffnActivation"} \subseteq DOMAIN Formula(j.l)
      /\ Formula(j.l)["ffnGate"] = <<"postNormalized">>
      /\ Formula(j.l)["ffnUp"] = <<"postNormalized">>
      /\ Formula(j.l)["ffnActivation"] = <<"ffnGate", "ffnUp">>
  BY BufferNames, Computed, FormulaShared
<1>3. as[1] = Named("ffnActivation", j.l, Upto(j, 1))
  <2>1. v = Named("postNormalized", j.l, Upto(j, 1)) /\ 1 \in 1 .. j.n
    BY DEF Holds
  <2> HIDE DEF v
  <2>2. /\ Compute("ffnGate", j.l, <<v>>) = Named("ffnGate", j.l, Upto(j, 1))
        /\ Compute("ffnUp", j.l, <<v>>) = Named("ffnUp", j.l, Upto(j, 1))
    BY <1>2, <2>1, MakesOne
  <2>3. Compute("ffnActivation", j.l, <<Compute("ffnGate", j.l, <<v>>), Compute("ffnUp", j.l, <<v>>)>>)
            = Named("ffnActivation", j.l, Upto(j, 1))
    BY <1>2, <2>1, <2>2, MakesTwo
  <2> QED BY <2>3
<1>4. IsTile(as, j.n)
  BY DEF IsTile
<1> HIDE DEF as
<1>5. AreCells(as, j, "ffnActivation")
  <2>1. \A t \in 1 .. j.n : t = 1
    OBVIOUS
  <2> QED BY <1>3, <1>4, <2>1 DEF AreCells
<1>6. x = Put(m, j.n, "ffnActivation", as) /\ "ffnActivation" \in Buffers
  BY <1>1, <1>2
<1>7. Fills(Put(m, j.n, "ffnActivation", as), m, j, "ffnActivation", "ffnActivation")
  BY <1>5, <1>6, PutFills
<1> QED BY <1>6, <1>7

-----------------------------------------------------------------------------
(* Convolution and scan walk the tile with a state.                        *)

\* The state a token finds is the one the token before it left.
LEMMA StateNamed ==
    ASSUME NEW j, IsJob(j), NEW t \in 1 .. j.n, NEW what \in {"past", "state"}
    PROVE  /\ Named(what, j.l, Upto(j, t)) = Value(what, j.l, Upto(j, t - 1))
           /\ Made(what, j.l, Upto(j, t)) = Value(what, j.l, Upto(j, t))
BY UptoIs DEF Named, Made, OneToken

\* Two sequences of states that begin alike and go on alike are the same.
LEMMA SameWalk ==
    ASSUME NEW n \in Nat, NEW f, NEW g, f[0] = g[0],
           \A t \in 1 .. n : f[t - 1] = g[t - 1] => f[t] = g[t]
    PROVE  \A t \in 0 .. n : f[t] = g[t]
<1> DEFINE T == {t \in Nat : f[t] = g[t]}
<1>1. 0 \in T /\ T \in SUBSET Nat /\ \A t \in 1 .. n : t - 1 \in T => t \in T
  OBVIOUS
<1> HIDE DEF T
<1>2. 0 .. n \subseteq T
  BY <1>1, EachTurn
<1> QED BY <1>2 DEF T

\* The operands of a scan step.
LEMMA OneAndFour ==
    ASSUME NEW a, NEW b, NEW c, NEW d, NEW e
    PROVE  <<a>> \o <<b, c, d, e>> = <<a, b, c, d, e>>
<1> DEFINE S == {a, b, c, d, e}
<1>1. <<a>> \in Seq(S) /\ <<b, c, d, e>> \in Seq(S) /\ <<a, b, c, d, e>> \in Seq(S)
  OBVIOUS
<1> HIDE DEF S
<1>2. /\ Len(<<a>> \o <<b, c, d, e>>) = 5 /\ <<a>> \o <<b, c, d, e>> \in Seq(S)
      /\ \A i \in 1 .. 5 : (<<a>> \o <<b, c, d, e>>)[i]
                               = IF i <= 1 THEN <<a>>[i] ELSE <<b, c, d, e>>[i - 1]
  BY <1>1, ConcatProperties
<1>3. \A i \in 1 .. 5 : (<<a>> \o <<b, c, d, e>>)[i] = <<a, b, c, d, e>>[i]
  BY <1>2
<1> QED BY <1>1, <1>2, <1>3, SeqEqual

LEMMA TwoAndFour ==
    ASSUME NEW a, NEW b, NEW c, NEW d, NEW e, NEW f
    PROVE  <<a, b>> \o <<c, d, e, f>> = <<a, b, c, d, e, f>>
<1> DEFINE S == {a, b, c, d, e, f}
<1>1. <<a, b>> \in Seq(S) /\ <<c, d, e, f>> \in Seq(S) /\ <<a, b, c, d, e, f>> \in Seq(S)
  OBVIOUS
<1> HIDE DEF S
<1>2. /\ Len(<<a, b>> \o <<c, d, e, f>>) = 6 /\ <<a, b>> \o <<c, d, e, f>> \in Seq(S)
      /\ \A i \in 1 .. 6 : (<<a, b>> \o <<c, d, e, f>>)[i]
                               = IF i <= 2 THEN <<a, b>>[i] ELSE <<c, d, e, f>>[i - 2]
  BY <1>1, ConcatProperties
<1>3. \A i \in 1 .. 6 : (<<a, b>> \o <<c, d, e, f>>)[i] = <<a, b, c, d, e, f>>[i]
  BY <1>2
<1> QED BY <1>1, <1>2, <1>3, SeqEqual

LEMMA TapsAre ==
    ASSUME NEW j, IsJob(j), ~IsFullAttention(j.l), NEW t \in 1 .. j.n,
           NEW what \in {"past", "rawQuery", "rawKey", "value"},
           NEW v, v = Value("past", j.l, Upto(j, t - 1)),
           NEW w, w = Named("qkv", j.l, Upto(j, t))
    PROVE  Compute(what, j.l, <<v, w>>) = Made(what, j.l, Upto(j, t))
<1> DEFINE h == Upto(j, t)
<1>1. /\ h \in History /\ j.l \in Layers /\ ~IsFullAttention(0)
      /\ what \in DOMAIN Formula(j.l) /\ what # "attnGatedOutput"
      /\ Formula(j.l)[what] = <<"past", "qkv">>
  BY UptoIs, Computed, FormulaRecurrent, SMTT(30) DEF IsJob
<1>2. v = Named("past", j.l, h) /\ w = Named("qkv", j.l, h)
  BY StateNamed
<1> HIDE DEF h
<1>3. Operands(what, j.l, h) = NamedAll(Formula(j.l)[what], j.l, h)
  BY <1>1, FormulaNames, OperandsAre
<1>4. NamedAll(<<"past", "qkv">>, j.l, h) = <<v, w>>
  BY <1>2 DEF NamedAll
<1>5. <<v, w>> = Operands(what, j.l, h)
  BY <1>1, <1>3, <1>4
<1> QED BY <1>1, <1>5, ComputeIs DEF h

LEMMA ScanIs ==
    ASSUME NEW j, IsJob(j), ~IsFullAttention(j.l), NEW t \in 1 .. j.n,
           NEW v, v = Value("state", j.l, Upto(j, t - 1)),
           NEW q, q = Named("query", j.l, Upto(j, t)),
           NEW a, a = Named("key", j.l, Upto(j, t)),
           NEW b, b = Named("value", j.l, Upto(j, t)),
           NEW c, c = Named("beta", j.l, Upto(j, t)),
           NEW d, d = Named("decay", j.l, Upto(j, t))
    PROVE  /\ Compute("state", j.l, <<v>> \o <<a, b, c, d>>)
                  = Value("state", j.l, Upto(j, t))
           /\ Compute("gdnRawOutput", j.l, <<v, q>> \o <<a, b, c, d>>)
                  = Named("gdnRawOutput", j.l, Upto(j, t))
<1> DEFINE h == Upto(j, t)
<1>1. /\ h \in History /\ j.l \in Layers /\ ~IsFullAttention(0)
      /\ "state" \in DOMAIN Formula(j.l) /\ "gdnRawOutput" \in DOMAIN Formula(j.l)
      /\ Formula(j.l)["state"] = <<"state", "key", "value", "beta", "decay">>
      /\ Formula(j.l)["gdnRawOutput"] = <<"state", "query", "key", "value", "beta", "decay">>
  BY UptoIs, Computed, FormulaRecurrent DEF IsJob
<1>2. v = Named("state", j.l, h) /\ Made("state", j.l, h) = Value("state", j.l, h)
  BY StateNamed
<1>3. /\ q = Named("query", j.l, h) /\ a = Named("key", j.l, h) /\ b = Named("value", j.l, h)
      /\ c = Named("beta", j.l, h) /\ d = Named("decay", j.l, h)
  OBVIOUS
<1> HIDE DEF h
<1>4. /\ Operands("state", j.l, h) = NamedAll(Formula(j.l)["state"], j.l, h)
      /\ Operands("gdnRawOutput", j.l, h) = NamedAll(Formula(j.l)["gdnRawOutput"], j.l, h)
  BY <1>1, FormulaNames, OperandsAre
<1>5. /\ NamedAll(<<"state", "key", "value", "beta", "decay">>, j.l, h) = <<v, a, b, c, d>>
      /\ NamedAll(<<"state", "query", "key", "value", "beta", "decay">>, j.l, h)
             = <<v, q, a, b, c, d>>
  BY <1>2, <1>3 DEF NamedAll
<1>6. /\ <<v>> \o <<a, b, c, d>> = Operands("state", j.l, h)
      /\ <<v, q>> \o <<a, b, c, d>> = Operands("gdnRawOutput", j.l, h)
  BY <1>1, <1>4, <1>5, OneAndFour, TwoAndFour
<1>7. /\ Compute("state", j.l, <<v>> \o <<a, b, c, d>>) = Value("state", j.l, h)
      /\ Compute("gdnRawOutput", j.l, <<v, q>> \o <<a, b, c, d>>)
             = Made("gdnRawOutput", j.l, h)
  BY <1>1, <1>2, <1>6, ComputeIs
<1> QED BY <1>7, MadeNamed DEF h

\* A ring position skips the same inputs as the length of the sequence, and
\* names the same slots.
RingFits(base, length) ==
    /\ base \in Nat /\ length \in Nat
    /\ \/ base = length
       \/ base >= Kernel - 1 /\ length >= Kernel - 1 /\ base % Kernel = length % Kernel

\* The convolution is launched at such a position.
Positioned(m, j, c) ==
    c = Conv(c.source, c.base) /\ RingFits(BaseOf(m, c), j.base)

LEMMA TapsFound ==
    ASSUME NEW base, NEW length, RingFits(base, length)
    PROVE  /\ base % Kernel = length % Kernel
           /\ \A t \in Nat \ {0} : TapsFit(base, length, t)
<1>1. base \in Nat /\ length \in Nat /\ base % Kernel = length % Kernel
  BY DEF RingFits
<1> SUFFICES ASSUME NEW t \in Nat \ {0}, NEW lag \in 1 .. Kernel - 1
             PROVE  base + t - 1 < lag <=> length + t - 1 < lag
  BY <1>1 DEF TapsFit
<1>2. Kernel \in Nat
  BY LaunchesAssumption
<1>3. CASE base = length
  BY <1>3
<1>4. CASE base >= Kernel - 1 /\ length >= Kernel - 1
  BY <1>1, <1>2, <1>4
<1> QED BY <1>3, <1>4 DEF RingFits

LEMMA ConvDoes ==
    ASSUME NEW j, IsJob(j), ~IsFullAttention(j.l), NEW m, IsMemory(m),
           Holds(m, j, "qkv", "qkv"), m.past = Value("past", j.l, Upto(j, 0)),
           NEW launch, Positioned(m, j, launch),
           NEW x, x = Exec(m, j.n, j.l, launch)
    PROVE  /\ Keeps(x, m, j, {"query", "key", "value"})
           /\ Holds(x, j, "query", "rawQuery") /\ Holds(x, j, "key", "rawKey")
           /\ Holds(x, j, "value", "value")
           /\ x.past = Value("past", j.l, j.s)
           /\ x.kv = m.kv /\ x.state = m.state /\ SameRecords(x, m) /\ x.affine = m.affine
<1> DEFINE n == j.n
           l == j.l
           Solves(f) == f = [t \in 0 .. n |-> IF t = 0 THEN m.past
                                ELSE Compute("past", l, <<f[t - 1], m.ws["qkv"][t]>>)]
           past == CHOOSE f : Solves(f)
           base == BaseOf(m, launch)
           length == Len(m.past.of)
           split(what) == [t \in 1 .. n |->
               IF TapsFit(base, length, t)
               THEN Compute(what, l, <<past[t - 1], m.ws["qkv"][t]>>) ELSE Wrong]
           qs == [t \in 1 .. n |-> split("rawQuery")[t]]
           ks == [t \in 1 .. n |-> split("rawKey")[t]]
           vs == [t \in 1 .. n |-> split("value")[t]]
           q == Put(m, n, "query", qs)
           k == Put(q, n, "key", ks)
           v == Put(k, n, "value", vs)
           walk == [t \in 0 .. n |-> Value("past", l, Upto(j, t))]
<1>0. base % Kernel = length % Kernel /\ \A t \in 1 .. n : TapsFit(base, length, t)
  <2>1. length = j.base
    <3>1. m.past.of = Upto(j, 0) /\ Len(Upto(j, 0)) = j.base
      BY UptoIs DEF Value, IsJob
    <3> QED BY <3>1
  <2>2. RingFits(base, j.base) /\ \A t \in 1 .. n : t \in Nat \ {0}
    BY DEF Positioned, IsJob
  <2> HIDE DEF base, length
  <2> QED BY <2>1, <2>2, TapsFound
<1>1. x = [v EXCEPT !.past = past[n]]
  <2>1. x = Exec_Conv(m, n, l, launch)
    BY DEF Exec, Conv, Positioned
  <2>2. x = [v EXCEPT !.past = IF base % Kernel = length % Kernel THEN past[n] ELSE Wrong]
    <3> HIDE DEF n, l
    <3> QED BY <2>1 DEF Exec_Conv, Store, Put, Over
  <2> HIDE DEF v, past, base, length
  <2> QED BY <1>0, <2>2
<1> HIDE DEF base, length
<1>2. n \in Nat /\ n > 0
  BY DEF IsJob
<1>3. \A t \in 1 .. n : m.ws["qkv"][t] = Named("qkv", l, Upto(j, t))
  BY DEF Holds
<1>4. \A t \in 1 .. n : Compute("past", l, <<walk[t - 1], m.ws["qkv"][t]>>) = walk[t]
  <2> TAKE t \in 1 .. n
  <2>1. walk[t - 1] = Value("past", l, Upto(j, t - 1)) /\ walk[t] = Value("past", l, Upto(j, t))
    BY <1>2
  <2> HIDE DEF walk
  <2>2. Compute("past", j.l, <<walk[t - 1], m.ws["qkv"][t]>>) = Made("past", j.l, Upto(j, t))
    BY <1>3, <2>1, TapsAre
  <2> QED BY <2>1, <2>2, StateNamed
<1>5. Solves(walk)
  <2>1. walk[0] = m.past
    BY <1>2
  <2> QED BY <1>2, <1>4, <2>1, SMTT(30)
<1>6. Solves(past)
  <2> HIDE DEF Solves, walk
  <2> QED BY <1>5
<1> HIDE DEF past
<1>7. \A t \in 0 .. n : past[t] = Value("past", l, Upto(j, t))
  <2>1. past[0] = walk[0]
    BY <1>2, <1>6
  <2>2. \A t \in 1 .. n : past[t] = Compute("past", l, <<past[t - 1], m.ws["qkv"][t]>>)
    BY <1>2, <1>6
  <2> HIDE DEF walk, n
  <2>3. \A t \in 1 .. n : past[t - 1] = walk[t - 1] => past[t] = walk[t]
    BY <1>4, <2>2
  <2>4. \A t \in 0 .. n : past[t] = walk[t]
    BY <1>2, <2>1, <2>3, SameWalk
  <2> QED BY <2>4 DEF walk
<1> HIDE DEF walk, Solves
<1>8. ASSUME NEW what \in {"rawQuery", "rawKey", "value"}
      PROVE  AreCells([t \in 1 .. n |-> split(what)[t]], j, what)
  <2>1. ASSUME NEW t \in 1 .. n
        PROVE  split(what)[t] = Named(what, l, Upto(j, t))
    <3>1. t - 1 \in 0 .. n
      BY <1>2
    <3>2. past[t - 1] = Value("past", j.l, Upto(j, t - 1))
      BY <1>7, <3>1
    <3>3. Compute(what, j.l, <<past[t - 1], m.ws["qkv"][t]>>) = Made(what, j.l, Upto(j, t))
      BY <1>3, <3>2, TapsAre
    <3>4. split(what)[t] = Compute(what, j.l, <<past[t - 1], m.ws["qkv"][t]>>)
      BY <1>0
    <3> QED BY <3>3, <3>4, MadeNamed
  <2> QED BY <2>1 DEF AreCells, IsTile
<1>9. AreCells(qs, j, "rawQuery") /\ AreCells(ks, j, "rawKey") /\ AreCells(vs, j, "value")
  BY <1>8
<1> HIDE DEF qs, ks, vs
<1>10. "query" \in Buffers /\ "key" \in Buffers /\ "value" \in Buffers
  BY BufferNames
<1>11. Fills(q, m, j, "query", "rawQuery") /\ q.affine = m.affine
  BY <1>9, <1>10, PutFills
<1>12. IsMemory(q) /\ k = Put(q, j.n, "key", ks)
  BY <1>11 DEF Fills, Keeps
<1> HIDE DEF q
<1>13. Fills(k, q, j, "key", "rawKey") /\ k.affine = q.affine
  BY <1>9, <1>10, <1>12, PutFills
<1>14. IsMemory(k) /\ v = Put(k, j.n, "value", vs)
  BY <1>13 DEF Fills, Keeps
<1> HIDE DEF k
<1>15. Fills(v, k, j, "value", "value") /\ v.affine = k.affine
  BY <1>9, <1>10, <1>14, PutFills
<1> HIDE DEF v
<1>16. /\ DOMAIN x = DOMAIN v /\ x.ws = v.ws /\ x.affine = v.affine /\ x.kv = v.kv
       /\ x.past = past[n] /\ x.state = v.state
       /\ x.prefill = v.prefill /\ x.decode = v.decode
  BY <1>1, <1>15 DEF Fills, Keeps, IsMemory
<1>17. past[n] = Value("past", j.l, j.s)
  BY <1>2, <1>7, UptoIs
<1>18. /\ Keeps(v, m, j, {"query", "key", "value"})
       /\ Holds(v, j, "query", "rawQuery") /\ Holds(v, j, "key", "rawKey")
       /\ Holds(v, j, "value", "value")
       /\ SameStates(v, m) /\ SameRecords(v, m) /\ v.affine = m.affine
  BY <1>10, <1>11, <1>13, <1>15 DEF Fills, Keeps, SameStates, SameRecords
<1> QED BY <1>16, <1>17, <1>18 DEF Keeps, IsMemory, Holds, SameStates, SameRecords

LEMMA GdnChunkDoes ==
    ASSUME NEW j, IsJob(j), ~IsFullAttention(j.l), NEW m, IsMemory(m),
           Holds(m, j, "query", "query"), Holds(m, j, "key", "key"),
           Holds(m, j, "value", "value"), Holds(m, j, "beta", "beta"),
           Holds(m, j, "decay", "decay"), m.state = Value("state", j.l, Upto(j, 0)),
           NEW x, x = Exec_GdnChunk(m, j.n, j.l)
    PROVE  /\ Keeps(x, m, j, {"gdnRawOutput"})
           /\ Holds(x, j, "gdnRawOutput", "gdnRawOutput")
           /\ x.state = Value("state", j.l, j.s)
           /\ x.kv = m.kv /\ x.past = m.past /\ SameRecords(x, m) /\ x.affine = m.affine
<1> DEFINE n == j.n
           l == j.l
           ins(t) == Read(m, <<"key", "value", "beta", "decay">>, t)
           after(v, t) == Compute("state", l, <<v>> \o ins(t))
           Solves(f) == f = [t \in 0 .. n |-> IF t = 0 THEN m.state ELSE after(f[t - 1], t)]
           state == CHOOSE f : Solves(f)
           os == [t \in 1 .. n |->
                     Compute("gdnRawOutput", l, <<state[t - 1], m.ws["query"][t]>> \o ins(t))]
           o == Put(m, n, "gdnRawOutput", os)
           walk == [t \in 0 .. n |-> Value("state", l, Upto(j, t))]
<1>1. x = [o EXCEPT !.state = state[n]]
  <2> HIDE DEF n, l
  <2>1. x = Exec_GdnChunk(m, n, l)
    BY DEF n, l
  <2> QED BY <2>1 DEF Exec_GdnChunk, Store, Put, Over
<1>2. n \in Nat /\ n > 0
  BY DEF IsJob
<1>3. ASSUME NEW t \in 1 .. n, NEW v, v = Value("state", l, Upto(j, t - 1))
      PROVE  /\ after(v, t) = Value("state", l, Upto(j, t))
             /\ Compute("gdnRawOutput", l, <<v, m.ws["query"][t]>> \o ins(t))
                    = Named("gdnRawOutput", l, Upto(j, t))
  <2>1. ins(t) = <<m.ws["key"][t], m.ws["value"][t], m.ws["beta"][t], m.ws["decay"][t]>>
    BY DEF Read
  <2>2. /\ m.ws["query"][t] = Named("query", l, Upto(j, t))
        /\ m.ws["key"][t] = Named("key", l, Upto(j, t))
        /\ m.ws["value"][t] = Named("value", l, Upto(j, t))
        /\ m.ws["beta"][t] = Named("beta", l, Upto(j, t))
        /\ m.ws["decay"][t] = Named("decay", l, Upto(j, t))
    BY DEF Holds
  <2> HIDE DEF ins
  <2> QED BY <1>3, <2>1, <2>2, ScanIs
<1> HIDE DEF ins, after
<1>4. \A t \in 1 .. n : after(walk[t - 1], t) = walk[t]
  <2> TAKE t \in 1 .. n
  <2>1. walk[t - 1] = Value("state", l, Upto(j, t - 1)) /\ walk[t] = Value("state", l, Upto(j, t))
    BY <1>2
  <2> HIDE DEF walk
  <2> QED BY <1>3, <2>1
<1>5. Solves(walk)
  <2>1. walk[0] = m.state /\ walk = [t \in 0 .. n |-> walk[t]]
    BY <1>2
  <2> HIDE DEF walk, n
  <2>2. ASSUME NEW t \in 0 .. n
        PROVE  walk[t] = IF t = 0 THEN m.state ELSE after(walk[t - 1], t)
    <3>1. t = 0 \/ t \in 1 .. n
      BY <1>2
    <3> QED BY <1>4, <2>1, <3>1
  <2>3. [t \in 0 .. n |-> walk[t]]
            = [t \in 0 .. n |-> IF t = 0 THEN m.state ELSE after(walk[t - 1], t)]
    BY <2>2
  <2> QED BY <2>1, <2>3
<1>6. Solves(state)
  <2> HIDE DEF Solves, walk
  <2> QED BY <1>5
<1> HIDE DEF state
<1>7. \A t \in 0 .. n : state[t] = Value("state", l, Upto(j, t))
  <2>1. state[0] = walk[0]
    BY <1>2, <1>6
  <2>2. \A t \in 1 .. n : state[t] = after(state[t - 1], t)
    BY <1>2, <1>6
  <2> HIDE DEF walk, n
  <2>3. \A t \in 1 .. n : state[t - 1] = walk[t - 1] => state[t] = walk[t]
    BY <1>4, <2>2
  <2>4. \A t \in 0 .. n : state[t] = walk[t]
    BY <1>2, <2>1, <2>3, SameWalk
  <2> QED BY <2>4 DEF walk
<1> HIDE DEF walk, Solves
<1>8. AreCells(os, j, "gdnRawOutput")
  <2>1. ASSUME NEW t \in 1 .. n
        PROVE  os[t] = Named("gdnRawOutput", l, Upto(j, t))
    <3>1. t - 1 \in 0 .. n
      BY <1>2
    <3>2. state[t - 1] = Value("state", l, Upto(j, t - 1))
      BY <1>7, <3>1
    <3> QED BY <1>3, <3>2
  <2> QED BY <2>1 DEF AreCells, IsTile
<1> HIDE DEF os
<1>9. "gdnRawOutput" \in Buffers
  BY BufferNames
<1>10. Fills(o, m, j, "gdnRawOutput", "gdnRawOutput") /\ o.affine = m.affine
  BY <1>8, <1>9, PutFills
<1> HIDE DEF o
<1>11. /\ DOMAIN x = DOMAIN o /\ x.ws = o.ws /\ x.affine = o.affine /\ x.kv = o.kv
       /\ x.state = state[n] /\ x.past = o.past
       /\ x.prefill = o.prefill /\ x.decode = o.decode
  BY <1>1, <1>10 DEF Fills, Keeps, IsMemory
<1>12. state[n] = Value("state", j.l, j.s)
  BY <1>2, <1>7, UptoIs
<1> QED BY <1>10, <1>11, <1>12 DEF Fills, Keeps, IsMemory, Holds, SameStates, SameRecords

LEMMA RecurrentCoreDoes ==
    ASSUME NEW j, IsJob(j), j.n = 1, ~IsFullAttention(j.l), NEW m, IsMemory(m),
           Holds(m, j, "query", "query"), Holds(m, j, "key", "key"),
           Holds(m, j, "value", "value"), Holds(m, j, "beta", "beta"),
           Holds(m, j, "decay", "decay"), Holds(m, j, "gate", "gate"),
           m.state = Value("state", j.l, Upto(j, 0)),
           NEW x, x = Exec(m, j.n, j.l, RecurrentCore)
    PROVE  /\ Keeps(x, m, j, {"gatedOutput"})
           /\ Holds(x, j, "gatedOutput", "gatedOutput")
           /\ x.state = Value("state", j.l, j.s)
           /\ x.kv = m.kv /\ x.past = m.past /\ SameRecords(x, m)
<1> DEFINE l == j.l
           c == Exec_GdnChunk(m, 1, l)
           y == [m EXCEPT !.state = c.state]
           v == Compute("gatedOutput", l, <<c.ws["gdnRawOutput"][1], m.ws["gate"][1]>>)
           gs == [t \in 1 .. 1 |-> v]
<1>1. x = Put(y, 1, "gatedOutput", gs)
  <2>1. x = Exec_RecurrentCore(m, l)
    BY DEF Exec, RecurrentCore
  <2> HIDE DEF l
  <2> QED BY <2>1 DEF Exec_RecurrentCore, Store, Put, Over
<1>2. /\ c.state = Value("state", j.l, j.s)
      /\ c.ws["gdnRawOutput"][1] = Named("gdnRawOutput", j.l, Upto(j, 1))
  <2>1. c = Exec_GdnChunk(m, j.n, j.l) /\ 1 \in 1 .. j.n
    OBVIOUS
  <2> HIDE DEF c
  <2>2. /\ Holds(c, j, "gdnRawOutput", "gdnRawOutput")
        /\ c.state = Value("state", j.l, j.s)
    BY <2>1, GdnChunkDoes
  <2> QED BY <2>1, <2>2 DEF Holds
<1> HIDE DEF c
<1>3. v = Named("gatedOutput", j.l, Upto(j, 1))
  <2>1. /\ m.ws["gate"][1] = Named("gate", j.l, Upto(j, 1)) /\ 1 \in 1 .. j.n
        /\ "gatedOutput" \in DOMAIN Formula(j.l)
        /\ Formula(j.l)["gatedOutput"] = <<"gdnRawOutput", "gate">>
    BY Computed, FormulaRecurrent DEF Holds
  <2> QED BY <1>2, <2>1, MakesTwo
<1> HIDE DEF v
<1>4. AreCells(gs, j, "gatedOutput")
  <2>1. IsTile(gs, j.n)
    BY DEF IsTile
  <2>2. \A t \in 1 .. j.n : t = 1
    OBVIOUS
  <2> QED BY <1>3, <2>1, <2>2 DEF AreCells
<1> HIDE DEF gs
<1>5. /\ IsMemory(y) /\ Keeps(y, m, j, {}) /\ SameRecords(y, m)
      /\ y.state = c.state /\ y.kv = m.kv /\ y.past = m.past
  BY DEF IsMemory, Keeps, Holds, SameRecords
<1> HIDE DEF y
<1>6. x = Put(y, j.n, "gatedOutput", gs) /\ "gatedOutput" \in Buffers
  BY <1>1, BufferNames
<1>7. Fills(Put(y, j.n, "gatedOutput", gs), y, j, "gatedOutput", "gatedOutput")
  BY <1>4, <1>5, <1>6, PutFills
<1>8. Fills(x, y, j, "gatedOutput", "gatedOutput")
  BY <1>6, <1>7
<1> QED BY <1>2, <1>5, <1>8 DEF Fills, Keeps, SameStates, SameRecords

-----------------------------------------------------------------------------
(* The launches that take a position.                                      *)

\* The position a launch takes is the one of the tile.
Knows(m, j, source, base) ==
    /\ source \in {"host", "prefill", "decode"}
    /\ source = "host" => base = j.base
    /\ source = "prefill" => m.prefill = j.base
    /\ source = "decode" => m.decode = j.base

LEMMA BaseKnown ==
    ASSUME NEW j, NEW m, NEW launch, Knows(m, j, launch.source, launch.base)
    PROVE  BaseOf(m, launch) = j.base
BY DEF Knows, BaseOf

LEMMA QSplitDoes ==
    ASSUME NEW j, IsJob(j), IsFullAttention(j.l), NEW m, IsMemory(m),
           NEW source, NEW base, Knows(m, j, source, base), Holds(m, j, "attnQfull", "attnQfull"),
           NEW x, x = Exec(m, j.n, j.l, QSplit(source, base))
    PROVE  /\ Keeps(x, m, j, {"attnQRope", "gate"})
           /\ Holds(x, j, "attnQRope", "attnQRope") /\ Holds(x, j, "gate", "gate")
           /\ SameStates(x, m) /\ SameRecords(x, m)
<1> DEFINE n == j.n
           l == j.l
           launch == QSplit(source, base)
           at == BaseOf(m, launch)
           qs == [t \in 1 .. n |->
                     Rotated(Compute("attnQRope", l, Read(m, <<"attnQfull">>, t)), at + t - 1)]
           q == Put(m, n, "attnQRope", qs)
           gs == [t \in 1 .. n |-> Compute("gate", l, Read(m, <<"attnQfull">>, t))]
<1>1. x = Put(q, n, "gate", gs)
  <2>1. x = Exec_QSplit(m, n, l, launch)
    BY DEF Exec, QSplit
  <2> HIDE DEF n, l, launch
  <2> QED BY <2>1 DEF Exec_QSplit, Store, Put, Over
<1>2. at = j.base
  <2>1. launch.source = source /\ launch.base = base
    BY DEF QSplit
  <2> HIDE DEF launch
  <2> QED BY <2>1, BaseKnown
<1> HIDE DEF at
<1>3. /\ "attnQRope" \in Buffers /\ "gate" \in Buffers
      /\ "attnQRope" \in DOMAIN Formula(j.l) /\ "gate" \in DOMAIN Formula(j.l)
      /\ Formula(j.l)["attnQRope"] = <<"attnQfull">> /\ Formula(j.l)["gate"] = <<"attnQfull">>
      /\ j.base \in Nat /\ n \in Nat
  BY BufferNames, Computed, FormulaFull DEF IsJob
<1>4. ASSUME NEW t \in 1 .. n
      PROVE  /\ qs[t] = Named("attnQRope", j.l, Upto(j, t))
             /\ gs[t] = Named("gate", j.l, Upto(j, t))
  <2>1. Read(m, <<"attnQfull">>, t) = <<m.ws["attnQfull"][t]>>
    BY DEF Read
  <2>2. m.ws["attnQfull"][t] = Named("attnQfull", j.l, Upto(j, t))
    BY DEF Holds
  <2>3. /\ Compute("attnQRope", j.l, <<m.ws["attnQfull"][t]>>)
               = Named("attnQRope", j.l, Upto(j, t))
        /\ Compute("gate", j.l, <<m.ws["attnQfull"][t]>>) = Named("gate", j.l, Upto(j, t))
    BY <1>3, <2>2, MakesOne
  <2>4. Named("attnQRope", j.l, Upto(j, t)).of = Upto(j, t)
    BY DEF Named, Value, OneToken
  <2>5. Len(Upto(j, t)) = j.base + t
    BY UptoIs, <1>3
  <2>6. at + t - 1 + 1 = j.base + t
    BY <1>2, <1>3
  <2>7. Rotated(Named("attnQRope", j.l, Upto(j, t)), at + t - 1)
            = Named("attnQRope", j.l, Upto(j, t))
    BY <2>4, <2>5, <2>6 DEF Rotated
  <2> QED BY <2>1, <2>3, <2>7
<1>5. AreCells(qs, j, "attnQRope") /\ AreCells(gs, j, "gate")
  BY <1>4 DEF AreCells, IsTile
<1> HIDE DEF qs, gs
<1>6. Fills(q, m, j, "attnQRope", "attnQRope")
  BY <1>3, <1>5, PutFills
<1> HIDE DEF q
<1>7. IsMemory(q)
  BY <1>6 DEF Fills, Keeps
<1>8. Fills(x, q, j, "gate", "gate")
  BY <1>1, <1>3, <1>5, <1>7, PutFills
<1> QED BY <1>3, <1>6, <1>8 DEF Fills, Keeps, SameStates, SameRecords

\* The first rows of a cache are the reference's for the tokens of s.
RowsAre(rows, l, s, n) == \A i \in 1 .. n : rows[i] = Value("row", l, SubSeq(s, 1, i))

\* Three pieces of a cache put together.
Replaced(old, new, base, n) ==
    SubSeq(old, 1, base) \o new \o SubSeq(old, base + n + 1, Capacity)

LEMMA RowsReplaced ==
    ASSUME NEW base \in Nat, NEW n \in Nat, base + n <= Capacity,
           NEW old, NEW new, IsTile(new, n),
           NEW rows, rows = Replaced(old, new, base, n)
    PROVE  /\ Len(rows) = Capacity
           /\ \A i \in 1 .. base : rows[i] = old[i]
           /\ \A t \in 1 .. n : rows[base + t] = new[t]
<1> DEFINE first == SubSeq(old, 1, base)
           last == SubSeq(old, base + n + 1, Capacity)
           S == {new[t] : t \in 1 .. n} \cup {old[i] : i \in 1 .. Capacity}
<1>0. Capacity \in Nat
  BY QuantitiesAssumption
<1>1. new \in Seq(S) /\ Len(new) = n
  <2>1. \A t \in 1 .. n : new[t] \in S
    OBVIOUS
  <2> HIDE DEF S
  <2>2. new \in [1 .. n -> S]
    BY <2>1 DEF IsTile
  <2> QED BY <2>2
<1>2. /\ first \in Seq(S) /\ Len(first) = base
      /\ \A i \in 1 .. base : first[i] = old[i]
  <2>1. \A i \in 1 .. base : old[i] \in S
    BY <1>0
  <2>2. 1 \in Int /\ base \in Int
    OBVIOUS
  <2> HIDE DEF S
  <2>3. /\ first \in Seq(S)
        /\ Len(first) = IF 1 <= base THEN base - 1 + 1 ELSE 0
        /\ \A i \in 1 .. base - 1 + 1 : first[i] = old[1 + i - 1]
    BY <2>1, <2>2, SubSeqProperties
  <2> HIDE DEF first
  <2> QED BY <2>3
<1>3. last \in Seq(S) /\ Len(last) = Capacity - (base + n)
  <2>1. \A i \in base + n + 1 .. Capacity : old[i] \in S
    BY <1>0
  <2>2. base + n + 1 \in Int /\ Capacity \in Int
    BY <1>0
  <2> HIDE DEF S
  <2>3. /\ last \in Seq(S)
        /\ Len(last) = IF base + n + 1 <= Capacity THEN Capacity - (base + n + 1) + 1 ELSE 0
    BY <2>1, <2>2, SubSeqProperties
  <2> HIDE DEF last
  <2> QED BY <1>0, <2>3
<1> HIDE DEF first, last, S
<1> DEFINE both == first \o new
<1>4. /\ both \in Seq(S) /\ Len(both) = base + n
      /\ \A i \in 1 .. base + n : both[i] = IF i <= base THEN first[i] ELSE new[i - base]
  BY <1>1, <1>2, ConcatProperties
<1>5. rows = both \o last
  BY DEF first, last, Replaced
<1> HIDE DEF both
<1>6. /\ Len(rows) = Len(both) + Len(last)
      /\ \A i \in 1 .. Len(both) + Len(last) :
             rows[i] = IF i <= Len(both) THEN both[i] ELSE last[i - Len(both)]
  <2>1. both \in Seq(S) /\ last \in Seq(S)
    BY <1>3, <1>4
  <2> QED BY <1>5, <2>1, ConcatProperties
<1>7. Len(both) + Len(last) = Capacity
  BY <1>0, <1>3, <1>4
<1>8. /\ Len(rows) = Capacity
      /\ \A i \in 1 .. Capacity :
             i <= base + n => rows[i] = IF i <= base THEN first[i] ELSE new[i - base]
  <2>1. Len(rows) = Capacity
    BY <1>6, <1>7
  <2>2. ASSUME NEW i \in 1 .. Capacity, i <= base + n
        PROVE  rows[i] = IF i <= base THEN first[i] ELSE new[i - base]
    <3>1. i \in 1 .. base + n /\ i <= Len(both)
      BY <1>0, <1>4, <2>2
    <3>2. rows[i] = both[i]
      BY <1>6, <1>7, <3>1
    <3> QED BY <1>4, <3>1, <3>2
  <2> QED BY <2>1, <2>2
<1>9. \A i \in 1 .. base : rows[i] = old[i]
  BY <1>0, <1>2, <1>8
<1>10. ASSUME NEW t \in 1 .. n
       PROVE  rows[base + t] = new[t]
  <2>1. base + t \in 1 .. Capacity /\ base + t <= base + n /\ ~(base + t <= base)
        /\ (base + t) - base = t
    BY <1>0
  <2> QED BY <1>8, <2>1
<1> QED BY <1>8, <1>9, <1>10

LEMMA StoreKvDoes ==
    ASSUME NEW j, IsJob(j), IsFullAttention(j.l), j.base + j.n <= Capacity,
           NEW m, IsMemory(m), NEW source, NEW base, Knows(m, j, source, base),
           Holds(m, j, "attnK", "attnK"), Holds(m, j, "attnV", "attnV"),
           RowsAre(m.kv, j.l, j.s, j.base),
           NEW x, x = Exec(m, j.n, j.l, StoreKv(source, base))
    PROVE  /\ Keeps(x, m, j, {})
           /\ RowsAre(x.kv, j.l, j.s, j.base + j.n) /\ Len(x.kv) = Capacity
           /\ x.past = m.past /\ x.state = m.state /\ SameRecords(x, m)
<1> DEFINE n == j.n
           l == j.l
           launch == StoreKv(source, base)
           at == BaseOf(m, launch)
           row(t) == Rotated(Compute("row", l, Read(m, <<"attnK", "attnV">>, t)), at + t - 1)
           new == [t \in 1 .. n |-> row(t)]
           rows == Replaced(m.kv, new, at, n)
<1>1. x = [m EXCEPT !.kv = rows]
  <2>1. x = Exec_StoreKv(m, n, l, launch)
    BY DEF Exec, StoreKv
  <2> HIDE DEF n, l, launch
  <2> QED BY <2>1 DEF Exec_StoreKv, Replaced
<1>2. at = j.base
  <2>1. launch.source = source /\ launch.base = base
    BY DEF StoreKv
  <2> HIDE DEF launch
  <2> QED BY <2>1, BaseKnown
<1> HIDE DEF at
<1>3. /\ "row" \in DOMAIN Formula(j.l) /\ Formula(j.l)["row"] = <<"attnK", "attnV">>
      /\ j.base \in Nat /\ n \in Nat
  BY Computed, FormulaFull DEF IsJob
<1>4. ASSUME NEW t \in 1 .. n
      PROVE  new[t] = Value("row", j.l, Upto(j, t))
  <2>1. Read(m, <<"attnK", "attnV">>, t) = <<m.ws["attnK"][t], m.ws["attnV"][t]>>
    BY DEF Read
  <2>2. /\ m.ws["attnK"][t] = Named("attnK", j.l, Upto(j, t))
        /\ m.ws["attnV"][t] = Named("attnV", j.l, Upto(j, t))
    BY DEF Holds
  <2>3. Compute("row", j.l, <<m.ws["attnK"][t], m.ws["attnV"][t]>>)
            = Named("row", j.l, Upto(j, t))
    BY <1>3, <2>2, MakesTwo
  <2>4. /\ Named("row", j.l, Upto(j, t)) = Value("row", j.l, Upto(j, t))
        /\ Value("row", j.l, Upto(j, t)).of = Upto(j, t)
    BY DEF Named, Value, OneToken
  <2>5. Len(Upto(j, t)) = j.base + t
    BY UptoIs, <1>3
  <2>6. at + t - 1 + 1 = j.base + t
    BY <1>2, <1>3
  <2>7. Rotated(Value("row", j.l, Upto(j, t)), at + t - 1) = Value("row", j.l, Upto(j, t))
    BY <2>4, <2>5, <2>6 DEF Rotated
  <2> QED BY <2>1, <2>3, <2>4, <2>7
<1>5. IsTile(new, n)
  BY DEF IsTile
<1> HIDE DEF new, n
<1>6. /\ Len(rows) = Capacity
      /\ \A i \in 1 .. j.base : rows[i] = m.kv[i]
      /\ \A t \in 1 .. n : rows[j.base + t] = new[t]
  <2>1. j.base + n <= Capacity /\ at \in Nat /\ at + n <= Capacity
    BY <1>2, <1>3 DEF n
  <2>2. rows = Replaced(m.kv, new, at, n)
    OBVIOUS
  <2> HIDE DEF rows
  <2>3. /\ Len(rows) = Capacity
        /\ \A i \in 1 .. at : rows[i] = m.kv[i]
        /\ \A t \in 1 .. n : rows[at + t] = new[t]
    BY <1>3, <1>5, <2>1, <2>2, RowsReplaced
  <2> QED BY <1>2, <2>3
<1> HIDE DEF rows
<1>7. RowsAre(rows, j.l, j.s, j.base + n)
  <2> SUFFICES ASSUME NEW i \in 1 .. j.base + n
               PROVE  rows[i] = Value("row", j.l, SubSeq(j.s, 1, i))
    BY DEF RowsAre
  <2>1. CASE i <= j.base
    BY <1>3, <1>6, <2>1 DEF RowsAre
  <2>2. CASE ~(i <= j.base)
    <3>1. i - j.base \in 1 .. n /\ j.base + (i - j.base) = i
      BY <1>3, <2>2
    <3>2. rows[j.base + (i - j.base)] = Value("row", j.l, Upto(j, i - j.base))
      BY <1>4, <1>6, <3>1 DEF n
    <3> QED BY <3>1, <3>2 DEF Upto
  <2> QED BY <2>1, <2>2
<1>8. /\ IsMemory(x) /\ x.ws = m.ws /\ x.kv = rows /\ x.past = m.past /\ x.state = m.state
      /\ SameRecords(x, m)
  BY <1>1 DEF IsMemory, SameRecords
<1> QED BY <1>6, <1>7, <1>8 DEF Keeps, Holds, n

\* A prefix of a prefix.
LEMMA PrefixPrefix ==
    ASSUME NEW s \in Seq(Token), NEW n \in 0 .. Len(s), NEW i \in 0 .. n
    PROVE  SubSeq(SubSeq(s, 1, n), 1, i) = SubSeq(s, 1, i)
<1> DEFINE p == SubSeq(s, 1, n)
<1>1. /\ p \in Seq(Token) /\ Len(p) = n
      /\ \A k \in 1 .. n : p[k] = s[k]
  BY PrefixIs
<1>2. i \in 0 .. Len(s) /\ i \in 0 .. Len(p)
  BY <1>1
<1> HIDE DEF p
<1>3. /\ SubSeq(p, 1, i) \in Seq(Token) /\ Len(SubSeq(p, 1, i)) = i
      /\ \A k \in 1 .. i : SubSeq(p, 1, i)[k] = p[k]
  BY <1>1, <1>2, PrefixIs
<1>4. /\ SubSeq(s, 1, i) \in Seq(Token) /\ Len(SubSeq(s, 1, i)) = i
      /\ \A k \in 1 .. i : SubSeq(s, 1, i)[k] = s[k]
  BY <1>2, PrefixIs
<1>5. \A k \in 1 .. i : SubSeq(p, 1, i)[k] = SubSeq(s, 1, i)[k]
  BY <1>1, <1>2, <1>3, <1>4
<1>6. SubSeq(p, 1, i) = SubSeq(s, 1, i)
  BY <1>3, <1>4, <1>5, SeqEqual
<1> QED BY <1>6 DEF p

\* What the attention of a token reads from the cache are the rows of all
\* tokens up to its own, each once and in order, whichever kernel picks it up.
Found(rows, read) == [i \in DOMAIN read |-> rows[read[i] + 1]]

LEMMA RowsAttended ==
    ASSUME NEW j, IsJob(j), NEW rows, RowsAre(rows, j.l, j.s, j.base + j.n),
           NEW t \in 1 .. j.n, NEW kind, NEW splits \in Nat \ {0},
           NEW read, read = RowsRead(kind, j.base, j.n, t, splits)
    PROVE  Found(rows, read) = RowsOf(j.l, Upto(j, t))
<1> DEFINE h == Upto(j, t)
           k == j.base + t
<1>1. j.base \in Nat /\ j.n \in Nat /\ k \in Nat /\ k \in 0 .. Len(j.s) /\ j.s \in Seq(Token)
  BY DEF IsJob
<1>2. read = [i \in 1 .. k |-> i - 1]
  <2>1. RowsRead(kind, j.base, j.n, t, splits) = [i \in 1 .. j.base + t |-> i - 1]
    BY <1>1, RowsInOrder, SMTT(30)
  <2> QED BY <2>1
<1>3. Len(h) = k
  BY UptoIs, <1>1
<1>4. ASSUME NEW i \in 1 .. k
      PROVE  rows[read[i] + 1] = Value("row", j.l, SubSeq(h, 1, i))
  <2>1. read[i] + 1 = i /\ i \in 1 .. j.base + j.n
    BY <1>1, <1>2
  <2>2. rows[i] = Value("row", j.l, SubSeq(j.s, 1, i))
    BY <2>1 DEF RowsAre
  <2>3. SubSeq(h, 1, i) = SubSeq(j.s, 1, i)
    <3>1. i \in 0 .. k
      BY <1>1
    <3> HIDE DEF k
    <3>2. SubSeq(SubSeq(j.s, 1, k), 1, i) = SubSeq(j.s, 1, i)
      BY <1>1, <3>1, PrefixPrefix
    <3> QED BY <3>2 DEF Upto, k
  <2> QED BY <2>1, <2>2, <2>3
<1>5. DOMAIN read = 1 .. k
  BY <1>2
<1> HIDE DEF h, k
<1>6. [i \in DOMAIN read |-> rows[read[i] + 1]]
          = [i \in 1 .. Len(h) |-> Value("row", j.l, SubSeq(h, 1, i))]
  BY <1>3, <1>4, <1>5
<1> QED BY <1>6 DEF RowsOf, Found, h

LEMMA AttendDoes ==
    ASSUME NEW j, IsJob(j), IsFullAttention(j.l), j.base + j.n <= Capacity,
           NEW m, IsMemory(m), NEW source, NEW base, Knows(m, j, source, base),
           NEW kind \in {"tiled", "suffix", "fragment", "dynamic"},
           Holds(m, j, "attnQRope", "attnQRope"), Holds(m, j, "gate", "gate"),
           RowsAre(m.kv, j.l, j.s, j.base + j.n),
           NEW x, x = Exec(m, j.n, j.l, Attend(kind, source, base))
    PROVE  Fills(x, m, j, "attnGatedOutput", "attnGatedOutput")
<1> DEFINE n == j.n
           l == j.l
           launch == Attend(kind, source, base)
           at == BaseOf(m, launch)
           read(t) == RowsRead(launch.kind, at, n, t, SplitsOf(launch.kind, at + t))
           found(t) == Found(m.kv, read(t))
           cell(t) == IF at + t > Capacity THEN Wrong
                      ELSE Compute("attnGatedOutput", l,
                                   Read(m, <<"attnQRope", "gate">>, t) \o found(t))
           cells == [t \in 1 .. n |-> cell(t)]
<1>1. x = Put(m, n, "attnGatedOutput", cells)
  <2>1. x = Exec_Attend(m, n, l, launch)
    BY DEF Exec, Attend
  <2> HIDE DEF n, l, launch
  <2> QED BY <2>1 DEF Exec_Attend, Store, Put, Over, Found
<1>2. at = j.base /\ launch.kind = kind
  <2>1. launch.source = source /\ launch.base = base /\ launch.kind = kind
    BY DEF Attend
  <2> HIDE DEF launch
  <2> QED BY <2>1, BaseKnown
<1> HIDE DEF at, launch
<1>3. /\ "attnGatedOutput" \in DOMAIN Formula(j.l)
      /\ Formula(j.l)["attnGatedOutput"] = <<"attnQRope", "gate">>
      /\ "attnGatedOutput" \in Buffers
      /\ j.base \in Nat /\ n \in Nat
  BY BufferNames, Computed, FormulaFull DEF IsJob
<1>4. \A length \in Nat : SplitsOf(kind, length) \in Nat \ {0}
  BY LaunchesAssumption DEF SplitsOf, SplitsForLength
<1>5. ASSUME NEW t \in 1 .. n
      PROVE  cell(t) = Named("attnGatedOutput", j.l, Upto(j, t))
  <2>1. ~(at + t > Capacity) /\ at + t \in Nat
    BY <1>2, <1>3, QuantitiesAssumption
  <2>2. SplitsOf(kind, at + t) \in Nat \ {0}
    BY <1>4, <2>1
  <2>3. found(t) = RowsOf(j.l, Upto(j, t))
    <3>1. read(t) = RowsRead(kind, j.base, j.n, t, SplitsOf(kind, at + t))
      BY <1>2
    <3> HIDE DEF read
    <3> QED BY <2>2, <3>1, RowsAttended
  <2> HIDE DEF found
  <2>4. Read(m, <<"attnQRope", "gate">>, t) = NamedAll(<<"attnQRope", "gate">>, j.l, Upto(j, t))
    <3>1. Read(m, <<"attnQRope", "gate">>, t) = <<m.ws["attnQRope"][t], m.ws["gate"][t]>>
      BY DEF Read
    <3>2. NamedAll(<<"attnQRope", "gate">>, j.l, Upto(j, t))
              = <<Named("attnQRope", j.l, Upto(j, t)), Named("gate", j.l, Upto(j, t))>>
      BY DEF NamedAll
    <3>3. /\ m.ws["attnQRope"][t] = Named("attnQRope", j.l, Upto(j, t))
          /\ m.ws["gate"][t] = Named("gate", j.l, Upto(j, t))
      BY DEF Holds
    <3> QED BY <3>1, <3>2, <3>3
  <2>5. Read(m, <<"attnQRope", "gate">>, t) \o found(t)
            = Operands("attnGatedOutput", j.l, Upto(j, t))
    BY <1>3, <2>3, <2>4 DEF Operands
  <2>6. Compute("attnGatedOutput", j.l, Read(m, <<"attnQRope", "gate">>, t) \o found(t))
            = Named("attnGatedOutput", j.l, Upto(j, t))
    BY <1>3, <2>5, Makes
  <2> QED BY <2>1, <2>6
<1> HIDE DEF cell
<1>6. AreCells(cells, j, "attnGatedOutput")
  BY <1>5 DEF AreCells, IsTile
<1> HIDE DEF cells
<1>7. Fills(Put(m, j.n, "attnGatedOutput", cells), m, j, "attnGatedOutput", "attnGatedOutput")
  BY <1>3, <1>6, PutFills
<1> QED BY <1>1, <1>7

-----------------------------------------------------------------------------
(* Programs.                                                               *)

IsProgram(p) == Len(p) \in Nat /\ p = [i \in 1 .. Len(p) |-> p[i]]

\* The memories between the launches.
Walks(g, m, n, l, p, k) ==
    g = [i \in 0 .. k |-> IF i = 0 THEN m ELSE Exec(g[i - 1], n, l, p[i])]

LEMMA WalkExists ==
    ASSUME NEW m, NEW n, NEW l, NEW p, NEW k \in Nat
    PROVE  \E g : Walks(g, m, n, l, p, k)
<1> DEFINE T == {i \in Nat : \E g : Walks(g, m, n, l, p, i)}
<1>1. 0 \in T
  <2> DEFINE g == [i \in 0 .. 0 |-> m]
  <2>1. Walks(g, m, n, l, p, 0)
    BY DEF Walks
  <2> QED BY <2>1
<1>2. ASSUME NEW i \in 1 .. k, i - 1 \in T
      PROVE  i \in T
  <2>1. PICK g : Walks(g, m, n, l, p, i - 1)
    BY <1>2
  <2> DEFINE h == [c \in 0 .. i |-> IF c = i THEN Exec(g[i - 1], n, l, p[i]) ELSE g[c]]
  <2>2. g[0] = m /\ \A c \in 1 .. i - 1 : g[c] = Exec(g[c - 1], n, l, p[c])
    BY <2>1 DEF Walks
  <2>3. ASSUME NEW c \in 0 .. i
        PROVE  h[c] = IF c = 0 THEN m ELSE Exec(h[c - 1], n, l, p[c])
    <3>1. CASE c = 0
      BY <2>2, <3>1
    <3>2. CASE c = i
      <4>1. h[c] = Exec(g[i - 1], n, l, p[i]) /\ c # 0 /\ h[c - 1] = g[i - 1]
        BY <3>2
      <4> QED BY <3>2, <4>1
    <3>3. CASE c # 0 /\ c # i
      <4>1. c \in 1 .. i - 1 /\ h[c] = g[c] /\ h[c - 1] = g[c - 1]
        BY <3>3
      <4> QED BY <2>2, <3>3, <4>1
    <3> QED BY <3>1, <3>2, <3>3
  <2>4. h = [c \in 0 .. i |-> h[c]]
    OBVIOUS
  <2> HIDE DEF h
  <2>5. [c \in 0 .. i |-> h[c]]
            = [c \in 0 .. i |-> IF c = 0 THEN m ELSE Exec(h[c - 1], n, l, p[c])]
    BY <2>3
  <2>6. Walks(h, m, n, l, p, i)
    BY <2>4, <2>5 DEF Walks
  <2> QED BY <2>6
<1> HIDE DEF T
<1>3. 0 .. k \subseteq T
  <2>1. T \in SUBSET Nat
    BY DEF T
  <2> QED BY <1>1, <1>2, <2>1, EachTurn
<1> QED BY <1>3 DEF T

\* A program runs launch by launch.
LEMMA RunIs ==
    ASSUME NEW m, NEW n, NEW l, NEW p, Len(p) \in Nat
    PROVE  \E g : /\ g[0] = m
                  /\ \A i \in 1 .. Len(p) : g[i] = Exec(g[i - 1], n, l, p[i])
                  /\ Run(m, n, l, p) = g[Len(p)]
<1> DEFINE g == CHOOSE f : Walks(f, m, n, l, p, Len(p))
<1>1. Walks(g, m, n, l, p, Len(p))
  BY WalkExists
<1>2. Run(m, n, l, p) = g[Len(p)]
  BY DEF Run, Walks
<1> HIDE DEF g
<1>3. g[0] = m /\ \A i \in 1 .. Len(p) : g[i] = Exec(g[i - 1], n, l, p[i])
  BY <1>1 DEF Walks
<1> QED BY <1>2, <1>3

\* ... in the only way.
LEMMA RunReaches ==
    ASSUME NEW m, NEW n, NEW l, NEW p, Len(p) \in Nat, NEW g, g[0] = m,
           \A i \in 1 .. Len(p) : g[i] = Exec(g[i - 1], n, l, p[i])
    PROVE  Run(m, n, l, p) = g[Len(p)]
<1>1. PICK f : /\ f[0] = m
               /\ \A i \in 1 .. Len(p) : f[i] = Exec(f[i - 1], n, l, p[i])
               /\ Run(m, n, l, p) = f[Len(p)]
  BY RunIs
<1> DEFINE k == Len(p)
<1>2. k \in Nat /\ f[0] = g[0] /\ \A i \in 1 .. k : f[i - 1] = g[i - 1] => f[i] = g[i]
  BY <1>1
<1> HIDE DEF k
<1>3. \A i \in 0 .. k : f[i] = g[i]
  BY <1>2, SameWalk
<1> QED BY <1>1, <1>2, <1>3 DEF k

\* One program after another.
LEMMA RunThen ==
    ASSUME NEW m, NEW n, NEW l, NEW p, IsProgram(p), NEW q, IsProgram(q)
    PROVE  /\ IsProgram(p \o q)
           /\ Run(m, n, l, p \o q) = Run(Run(m, n, l, p), n, l, q)
<1> DEFINE S == {p[i] : i \in 1 .. Len(p)} \cup {q[i] : i \in 1 .. Len(q)}
           r == p \o q
<1>1. p \in Seq(S) /\ q \in Seq(S)
  <2>1. \A i \in 1 .. Len(p) : p[i] \in S
    OBVIOUS
  <2>2. \A i \in 1 .. Len(q) : q[i] \in S
    OBVIOUS
  <2> HIDE DEF S
  <2>3. p \in [1 .. Len(p) -> S] /\ q \in [1 .. Len(q) -> S] /\ Len(p) \in Nat /\ Len(q) \in Nat
    BY <2>1, <2>2 DEF IsProgram
  <2> QED BY <2>3
<1> HIDE DEF S
<1>2. /\ r \in Seq(S) /\ Len(r) = Len(p) + Len(q)
      /\ \A i \in 1 .. Len(p) + Len(q) : r[i] = IF i <= Len(p) THEN p[i] ELSE q[i - Len(p)]
  BY <1>1, ConcatProperties
<1> HIDE DEF r
<1>3. Len(p) \in Nat /\ Len(q) \in Nat /\ Len(r) \in Nat
  BY <1>1, <1>2
<1>4. IsProgram(r)
  BY <1>2, <1>3 DEF IsProgram
<1>5. PICK g : /\ g[0] = m
               /\ \A i \in 1 .. Len(r) : g[i] = Exec(g[i - 1], n, l, r[i])
               /\ Run(m, n, l, r) = g[Len(r)]
  BY <1>3, RunIs, SMTT(30)
<1>6. Run(m, n, l, p) = g[Len(p)]
  <2>1. \A i \in 1 .. Len(p) : g[i] = Exec(g[i - 1], n, l, p[i])
    BY <1>2, <1>3, <1>5
  <2> QED BY <1>3, <1>5, <2>1, RunReaches
<1>7. Run(g[Len(p)], n, l, q) = g[Len(r)]
  <2> DEFINE h == [i \in 0 .. Len(q) |-> g[Len(p) + i]]
  <2>1. h[0] = g[Len(p)] /\ h[Len(q)] = g[Len(r)]
    BY <1>2, <1>3
  <2>2. ASSUME NEW i \in 1 .. Len(q)
        PROVE  h[i] = Exec(h[i - 1], n, l, q[i])
    <3>1. /\ h[i] = g[Len(p) + i] /\ h[i - 1] = g[Len(p) + i - 1]
          /\ Len(p) + i \in 1 .. Len(r) /\ ~(Len(p) + i <= Len(p)) /\ Len(p) + i - Len(p) = i
      BY <1>2, <1>3
    <3>2. r[Len(p) + i] = q[i]
      BY <1>2, <3>1
    <3> HIDE DEF h
    <3> QED BY <1>5, <3>1, <3>2
  <2> HIDE DEF h
  <2>3. Run(g[Len(p)], n, l, q) = h[Len(q)]
    BY <1>3, <2>1, <2>2, RunReaches
  <2> QED BY <2>1, <2>3
<1> QED BY <1>4, <1>5, <1>6, <1>7 DEF r

-----------------------------------------------------------------------------
(* The feed-forward half.                                                  *)

LEMMA RunTwo ==
    ASSUME NEW m, NEW n, NEW l, NEW a, NEW b
    PROVE  /\ IsProgram(<<a, b>>)
           /\ Run(m, n, l, <<a, b>>) = Exec(Exec(m, n, l, a), n, l, b)
<1> DEFINE p == <<a, b>>
<1>1. Len(p) = 2 /\ p[1] = a /\ p[2] = b
  OBVIOUS
<1>2. IsProgram(p)
  BY DEF IsProgram
<1>3. Len(p) \in Nat
  BY <1>1
<1> HIDE DEF p
<1>4. PICK g : /\ g[0] = m
               /\ \A i \in 1 .. Len(p) : g[i] = Exec(g[i - 1], n, l, p[i])
               /\ Run(m, n, l, p) = g[Len(p)]
  BY <1>3, RunIs
<1>5. g[1] = Exec(g[0], n, l, p[1]) /\ g[2] = Exec(g[1], n, l, p[2])
  BY <1>1, <1>4
<1> QED BY <1>1, <1>2, <1>4, <1>5 DEF p

LEMMA RunThree ==
    ASSUME NEW m, NEW n, NEW l, NEW a, NEW b, NEW c
    PROVE  /\ IsProgram(<<a, b, c>>)
           /\ Run(m, n, l, <<a, b, c>>) = Exec(Exec(Exec(m, n, l, a), n, l, b), n, l, c)
<1> DEFINE p == <<a, b, c>>
<1>1. Len(p) = 3 /\ p[1] = a /\ p[2] = b /\ p[3] = c
  OBVIOUS
<1>2. IsProgram(p)
  BY DEF IsProgram
<1>3. Len(p) \in Nat
  BY <1>1
<1> HIDE DEF p
<1>4. PICK g : /\ g[0] = m
               /\ \A i \in 1 .. Len(p) : g[i] = Exec(g[i - 1], n, l, p[i])
               /\ Run(m, n, l, p) = g[Len(p)]
  BY <1>3, RunIs
<1>5. /\ g[1] = Exec(g[0], n, l, p[1]) /\ g[2] = Exec(g[1], n, l, p[2])
      /\ g[3] = Exec(g[2], n, l, p[3])
  BY <1>1, <1>4
<1> QED BY <1>1, <1>2, <1>4, <1>5 DEF p

LEMMA RunFive ==
    ASSUME NEW m, NEW n, NEW l, NEW a, NEW b, NEW c, NEW d, NEW e
    PROVE  /\ IsProgram(<<a, b, c, d, e>>)
           /\ Run(m, n, l, <<a, b, c, d, e>>)
                  = Exec(Exec(Exec(Exec(Exec(m, n, l, a), n, l, b), n, l, c), n, l, d), n, l, e)
<1> DEFINE p == <<a, b, c, d, e>>
<1>1. Len(p) = 5 /\ p[1] = a /\ p[2] = b /\ p[3] = c /\ p[4] = d /\ p[5] = e
  OBVIOUS
<1>2. IsProgram(p)
  BY DEF IsProgram
<1>3. Len(p) \in Nat
  BY <1>1
<1> HIDE DEF p
<1>4. PICK g : /\ g[0] = m
               /\ \A i \in 1 .. Len(p) : g[i] = Exec(g[i - 1], n, l, p[i])
               /\ Run(m, n, l, p) = g[Len(p)]
  BY <1>3, RunIs
<1>5. /\ g[1] = Exec(g[0], n, l, p[1]) /\ g[2] = Exec(g[1], n, l, p[2])
      /\ g[3] = Exec(g[2], n, l, p[3]) /\ g[4] = Exec(g[3], n, l, p[4])
      /\ g[5] = Exec(g[4], n, l, p[5])
  BY <1>1, <1>4
<1> QED BY <1>1, <1>2, <1>4, <1>5 DEF p

LEMMA RunOne ==
    ASSUME NEW m, NEW n, NEW l, NEW a
    PROVE  /\ IsProgram(<<a>>) /\ Run(m, n, l, <<a>>) = Exec(m, n, l, a)
           /\ IsProgram(<<>>) /\ Run(m, n, l, <<>>) = m
<1> DEFINE p == <<a>>
           none == <<>>
<1>1. Len(p) = 1 /\ p[1] = a /\ Len(none) = 0
  OBVIOUS
<1>2. IsProgram(p) /\ IsProgram(none)
  BY DEF IsProgram
<1> HIDE DEF p, none
<1>3. PICK g : /\ g[0] = m
               /\ \A i \in 1 .. Len(p) : g[i] = Exec(g[i - 1], n, l, p[i])
               /\ Run(m, n, l, p) = g[Len(p)]
  BY <1>1, RunIs
<1>4. PICK f : /\ f[0] = m
               /\ \A i \in 1 .. Len(none) : f[i] = Exec(f[i - 1], n, l, none[i])
               /\ Run(m, n, l, none) = f[Len(none)]
  BY <1>1, RunIs
<1>5. g[1] = Exec(g[0], n, l, p[1])
  BY <1>1, <1>3
<1> QED BY <1>1, <1>2, <1>3, <1>4, <1>5 DEF p, none

\* Nothing but the workspace is written.
Stays(x, m) == SameStates(x, m) /\ SameRecords(x, m)

LEMMA FillsIs ==
    ASSUME NEW x, NEW m, NEW j, NEW out, NEW what, Fills(x, m, j, out, what)
    PROVE  /\ IsMemory(x) /\ Holds(x, j, out, what) /\ Stays(x, m)
           /\ \A b \in Buffers \ {out} : \A w : Holds(m, j, b, w) => Holds(x, j, b, w)
BY DEF Fills, Keeps, Stays

LEMMA DownAndResidualDoes ==
    ASSUME NEW j, IsJob(j), NEW m, IsMemory(m), NEW formats \in FormatRecord,
           NEW out \in Buffers, Holds(m, j, "residual", "residual"),
           Holds(m, j, "ffnActivation", "ffnActivation"),
           NEW x, x = Run(m, j.n, j.l, DownAndResidual(out, formats))
    PROVE  /\ IsMemory(x) /\ Holds(x, j, out, "output") /\ Stays(x, m)
           /\ IsProgram(DownAndResidual(out, formats))
<1> DEFINE a == Exec(m, j.n, j.l, Quantize("ffnActivation", ~formats.down))
           b == Exec(a, j.n, j.l, Project("ffnDown", formats.down))
<1>1. /\ x = Exec(b, j.n, j.l, Apply("output", <<"residual", "ffnDown">>, out))
      /\ IsProgram(DownAndResidual(out, formats))
  BY RunThree DEF DownAndResidual
<1>2. Fills(a, m, j, "mmqQ8", "ffnActivation") /\ a.affine = ~formats.down
  BY LayoutDoes
<1> HIDE DEF a
<1>3. /\ "ffnDown" \in DOMAIN Formula(j.l) /\ "output" \in DOMAIN Formula(j.l)
      /\ Formula(j.l)["ffnDown"] = <<"ffnActivation">>
      /\ Formula(j.l)["output"] = <<"residual", "ffnDown">>
      /\ "ffnDown" \in Buffers /\ "residual" \in Buffers
  BY Computed, FormulaShared, BufferNames
<1>4. Fills(b, a, j, "ffnDown", "ffnDown")
  <2>1. IsMemory(a) /\ Holds(a, j, "mmqQ8", "ffnActivation")
    BY <1>2, FillsIs
  <2> QED BY <1>2, <1>3, <2>1, MatrixDoes
<1> HIDE DEF b
<1>5. Fills(x, b, j, out, "output")
  <2>1. Holds(a, j, "residual", "residual")
    BY <1>2, <1>3, FillsIs
  <2>2. IsMemory(b) /\ Holds(b, j, "residual", "residual") /\ Holds(b, j, "ffnDown", "ffnDown")
    BY <1>3, <1>4, <2>1, FillsIs
  <2> QED BY <1>1, <1>3, <2>2, ApplyTwo
<1>6. Stays(x, m)
  BY <1>2, <1>4, <1>5, FillsIs DEF Stays, SameStates, SameRecords
<1> QED BY <1>1, <1>5, <1>6, FillsIs

LEMMA StepFeedForwardDoes ==
    ASSUME NEW j, IsJob(j), j.n = 1, NEW m, IsMemory(m), NEW formats \in FormatRecord,
           NEW in, NEW out \in Buffers, Holds(m, j, in, "input"),
           Holds(m, j, "projected", "projected"),
           NEW x, x = Run(m, j.n, j.l, StepFeedForward(in, out, formats))
    PROVE  /\ IsMemory(x) /\ Holds(x, j, out, "output") /\ Stays(x, m)
           /\ IsProgram(StepFeedForward(in, out, formats))
<1> DEFINE p == <<AddNorm(in), GateUpSwiglu>>
           a == Exec(m, j.n, j.l, AddNorm(in))
           b == Exec(a, j.n, j.l, GateUpSwiglu)
           q == DownAndResidual(out, formats)
<1>1. IsProgram(p) /\ Run(m, j.n, j.l, p) = b
  BY RunTwo
<1>2. StepFeedForward(in, out, formats) = p \o q
  BY DEF StepFeedForward
<1> HIDE DEF p
<1>3. /\ Keeps(a, m, j, {"residual", "postNormalized", "q8"})
      /\ Holds(a, j, "residual", "residual") /\ Holds(a, j, "q8", "postNormalized")
      /\ SameStates(a, m) /\ SameRecords(a, m)
  BY AddNormDoes
<1>4. IsMemory(a)
  BY <1>3 DEF Keeps
<1> HIDE DEF a
<1>5. Fills(b, a, j, "ffnActivation", "ffnActivation")
  BY <1>3, <1>4, GateUpSwigluDoes
<1> HIDE DEF b
<1>6. /\ IsMemory(b) /\ Holds(b, j, "residual", "residual")
      /\ Holds(b, j, "ffnActivation", "ffnActivation")
  BY <1>3, <1>5, BufferNames, FillsIs
<1> DEFINE y == Run(b, j.n, j.l, q)
<1>7. y = Run(b, j.n, j.l, DownAndResidual(out, formats))
  OBVIOUS
<1> HIDE DEF y, q
<1>8. /\ IsMemory(y) /\ Holds(y, j, out, "output") /\ Stays(y, b)
      /\ IsProgram(DownAndResidual(out, formats))
  BY <1>6, <1>7, DownAndResidualDoes
<1>9. IsProgram(p \o q) /\ Run(m, j.n, j.l, p \o q) = y
  BY <1>1, <1>8, RunThen DEF q, y
<1>10. Stays(y, m)
  BY <1>3, <1>5, <1>8, FillsIs DEF Stays, SameStates, SameRecords
<1> QED BY <1>2, <1>8, <1>9, <1>10

LEMMA TileFeedForwardDoes ==
    ASSUME NEW j, IsJob(j), NEW m, IsMemory(m), NEW formats \in FormatRecord,
           NEW in, NEW out \in Buffers, Holds(m, j, in, "input"),
           Holds(m, j, "projected", "projected"),
           NEW x, x = Run(m, j.n, j.l, TileFeedForward(in, out, formats))
    PROVE  /\ IsMemory(x) /\ Holds(x, j, out, "output") /\ Stays(x, m)
           /\ IsProgram(TileFeedForward(in, out, formats))
<1> DEFINE p == <<AddNorm(in), Affine("postNormalized"), Native("ffnGate"),
                  Native("ffnUp"),
                  Apply("ffnActivation", <<"ffnGate", "ffnUp">>, "ffnActivation")>>
           a == Exec(m, j.n, j.l, AddNorm(in))
           b == Exec(a, j.n, j.l, Affine("postNormalized"))
           c == Exec(b, j.n, j.l, Native("ffnGate"))
           d == Exec(c, j.n, j.l, Native("ffnUp"))
           e == Exec(d, j.n, j.l, Apply("ffnActivation", <<"ffnGate", "ffnUp">>, "ffnActivation"))
           q == DownAndResidual(out, formats)
<1>1. IsProgram(p) /\ Run(m, j.n, j.l, p) = e
  BY RunFive
<1>2. TileFeedForward(in, out, formats) = p \o q
  BY DEF TileFeedForward, Affine, Native
<1> HIDE DEF p
<1>3. /\ Keeps(a, m, j, {"residual", "postNormalized", "q8"})
      /\ Holds(a, j, "residual", "residual")
      /\ Holds(a, j, "postNormalized", "postNormalized")
      /\ SameStates(a, m) /\ SameRecords(a, m)
  BY AddNormDoes
<1>4. IsMemory(a) /\ Stays(a, m)
  BY <1>3 DEF Keeps, Stays
<1> HIDE DEF a
<1>5. Fills(b, a, j, "mmqQ8", "postNormalized") /\ b.affine = TRUE
  BY <1>3, <1>4, LayoutDoes
<1> HIDE DEF b
<1>6. /\ "residual" \in Buffers /\ "mmqQ8" \in Buffers /\ "ffnGate" \in Buffers
      /\ "ffnUp" \in Buffers /\ "ffnActivation" \in Buffers
      /\ {"ffnGate", "ffnUp", "ffnActivation"} \subseteq DOMAIN Formula(j.l)
      /\ Formula(j.l)["ffnGate"] = <<"postNormalized">>
      /\ Formula(j.l)["ffnUp"] = <<"postNormalized">>
      /\ Formula(j.l)["ffnActivation"] = <<"ffnGate", "ffnUp">>
  BY BufferNames, Computed, FormulaShared
<1>7. /\ IsMemory(b) /\ Holds(b, j, "residual", "residual") /\ Stays(b, a)
      /\ Holds(b, j, "mmqQ8", "postNormalized") /\ b.affine = TRUE
  BY <1>3, <1>5, <1>6, FillsIs
<1>8. Fills(c, b, j, "ffnGate", "ffnGate") /\ c.affine = TRUE
  BY <1>6, <1>7, MatrixDoes
<1> HIDE DEF c
<1>9. /\ IsMemory(c) /\ Holds(c, j, "residual", "residual") /\ Stays(c, b)
      /\ Holds(c, j, "mmqQ8", "postNormalized") /\ c.affine = TRUE
      /\ Holds(c, j, "ffnGate", "ffnGate")
  BY <1>6, <1>7, <1>8, FillsIs
<1>10. Fills(d, c, j, "ffnUp", "ffnUp")
  BY <1>6, <1>9, MatrixDoes
<1> HIDE DEF d
<1>11. /\ IsMemory(d) /\ Holds(d, j, "residual", "residual") /\ Stays(d, c)
       /\ Holds(d, j, "ffnGate", "ffnGate") /\ Holds(d, j, "ffnUp", "ffnUp")
  BY <1>6, <1>9, <1>10, FillsIs
<1>12. Fills(e, d, j, "ffnActivation", "ffnActivation")
  BY <1>6, <1>11, ApplyTwo
<1> HIDE DEF e
<1>13. /\ IsMemory(e) /\ Holds(e, j, "residual", "residual") /\ Stays(e, d)
       /\ Holds(e, j, "ffnActivation", "ffnActivation")
  BY <1>6, <1>11, <1>12, FillsIs
<1> DEFINE y == Run(e, j.n, j.l, q)
<1>14. y = Run(e, j.n, j.l, DownAndResidual(out, formats))
  OBVIOUS
<1> HIDE DEF y, q
<1>15. /\ IsMemory(y) /\ Holds(y, j, out, "output") /\ Stays(y, e)
       /\ IsProgram(DownAndResidual(out, formats))
  BY <1>13, <1>14, DownAndResidualDoes
<1>16. IsProgram(p \o q) /\ Run(m, j.n, j.l, p \o q) = y
  BY <1>1, <1>15, RunThen DEF q, y
<1>17. Stays(y, m)
  BY <1>4, <1>7, <1>9, <1>11, <1>13, <1>15 DEF Stays, SameStates, SameRecords
<1> QED BY <1>2, <1>15, <1>16, <1>17

-----------------------------------------------------------------------------
(* The attention layer.                                                    *)

\* The hidden states a layer reads stay until its residual.
Streams == {"ping", "pong"}

LEMMA QkvProjectionsDo ==
    ASSUME NEW j, IsJob(j), IsFullAttention(j.l), NEW m, IsMemory(m),
           NEW formats \in FormatRecord, NEW in \in Streams, Holds(m, j, in, "input"),
           Holds(m, j, "normalized", "normalized"),
           NEW x, x = Run(m, j.n, j.l, QkvProjections(formats))
    PROVE  /\ IsMemory(x) /\ Holds(x, j, in, "input") /\ Stays(x, m)
           /\ Holds(x, j, "attnQfull", "attnQfull") /\ Holds(x, j, "attnK", "attnK")
           /\ Holds(x, j, "attnV", "attnV")
           /\ IsProgram(QkvProjections(formats))
<1> DEFINE p == <<Affine("normalized"), Native("attnQfull"),
                  Native("attnK")>>
           q == IF formats.v THEN <<Plain("normalized")>> ELSE <<>>
           r == <<Project("attnV", formats.v)>>
           a == Exec(m, j.n, j.l, Affine("normalized"))
           b == Exec(a, j.n, j.l, Native("attnQfull"))
           c == Exec(b, j.n, j.l, Native("attnK"))
           d == Run(c, j.n, j.l, q)
           e == Exec(d, j.n, j.l, Project("attnV", formats.v))
<1>1. /\ IsProgram(p) /\ Run(m, j.n, j.l, p) = c
      /\ IsProgram(r) /\ Run(d, j.n, j.l, r) = e
  BY RunThree, RunOne
<1>2. IsProgram(q) /\ d = IF formats.v THEN Exec(c, j.n, j.l, Plain("normalized")) ELSE c
  <2> HIDE DEF c
  <2> QED BY RunOne
<1>3. QkvProjections(formats) = (p \o q) \o r
  BY DEF QkvProjections, Affine, Plain, Native
<1> HIDE DEF p, q, r
<1>4. /\ IsProgram(p \o q) /\ IsProgram((p \o q) \o r)
      /\ Run(m, j.n, j.l, (p \o q) \o r) = e
  <2>1. IsProgram(p \o q) /\ Run(m, j.n, j.l, p \o q) = d
    BY <1>1, <1>2, RunThen
  <2> HIDE DEF d, e
  <2> QED BY <1>1, <2>1, RunThen
<1> HIDE DEF e, d
<1>5. /\ {"attnQfull", "attnK", "attnV", "mmqQ8", "normalized", in} \subseteq Buffers
      /\ {"attnQfull", "attnK", "attnV"} \subseteq DOMAIN Formula(j.l)
      /\ Formula(j.l)["attnQfull"] = <<"normalized">>
      /\ Formula(j.l)["attnK"] = <<"normalized">> /\ Formula(j.l)["attnV"] = <<"normalized">>
  BY BufferNames, Computed, FormulaFull DEF Streams
<1>6. Fills(a, m, j, "mmqQ8", "normalized") /\ a.affine = TRUE
  BY LayoutDoes
<1> HIDE DEF a
<1>7. /\ IsMemory(a) /\ Holds(a, j, "mmqQ8", "normalized") /\ a.affine = TRUE /\ Stays(a, m)
      /\ Holds(a, j, in, "input") /\ Holds(a, j, "normalized", "normalized")
  BY <1>5, <1>6, FillsIs DEF Streams
<1>8. Fills(b, a, j, "attnQfull", "attnQfull") /\ b.affine = TRUE
  BY <1>5, <1>7, MatrixDoes
<1> HIDE DEF b
<1>9. /\ IsMemory(b) /\ Holds(b, j, "mmqQ8", "normalized") /\ b.affine = TRUE /\ Stays(b, a)
      /\ Holds(b, j, in, "input") /\ Holds(b, j, "normalized", "normalized")
      /\ Holds(b, j, "attnQfull", "attnQfull")
  BY <1>5, <1>7, <1>8, FillsIs DEF Streams
<1>10. Fills(c, b, j, "attnK", "attnK") /\ c.affine = TRUE
  BY <1>5, <1>9, MatrixDoes
<1> HIDE DEF c
<1>11. /\ IsMemory(c) /\ Holds(c, j, "mmqQ8", "normalized") /\ c.affine = TRUE /\ Stays(c, b)
       /\ Holds(c, j, in, "input") /\ Holds(c, j, "normalized", "normalized")
       /\ Holds(c, j, "attnQfull", "attnQfull") /\ Holds(c, j, "attnK", "attnK")
  BY <1>5, <1>9, <1>10, FillsIs DEF Streams
<1>12. /\ IsMemory(d) /\ Holds(d, j, "mmqQ8", "normalized") /\ d.affine = ~formats.v /\ Stays(d, c)
       /\ Holds(d, j, in, "input")
       /\ Holds(d, j, "attnQfull", "attnQfull") /\ Holds(d, j, "attnK", "attnK")
  <2>1. CASE formats.v = FALSE
    <3>1. d = c
      BY <1>2, <2>1
    <3> QED BY <1>11, <2>1, <3>1 DEF Stays, SameStates, SameRecords
  <2>2. CASE formats.v = TRUE
    <3>1. d = Exec(c, j.n, j.l, Plain("normalized"))
      BY <1>2, <2>2
    <3>2. Fills(d, c, j, "mmqQ8", "normalized") /\ d.affine = FALSE
      BY <1>11, <3>1, LayoutDoes
    <3> QED BY <1>5, <1>11, <2>2, <3>2, FillsIs, ZenonT(40) DEF Streams
  <2> QED BY <2>1, <2>2 DEF FormatRecord
<1>13. Fills(e, d, j, "attnV", "attnV")
  <2>1. e = Exec(d, j.n, j.l, Project("attnV", formats.v))
    BY DEF e
  <2> QED BY <1>5, <1>12, <2>1, MatrixDoes
<1>14. Stays(e, m)
  BY <1>7, <1>9, <1>11, <1>12, <1>13, FillsIs DEF Stays, SameStates, SameRecords
<1>15. /\ IsMemory(e) /\ Holds(e, j, in, "input")
       /\ Holds(e, j, "attnQfull", "attnQfull") /\ Holds(e, j, "attnK", "attnK")
       /\ Holds(e, j, "attnV", "attnV")
  BY <1>5, <1>12, <1>13, FillsIs DEF Streams
<1> QED BY <1>3, <1>4, <1>14, <1>15

\* Split and rotate, store, attend.
AttentionLaunches(source, base, attend) == <<QSplit(source, base), StoreKv(source, base), attend>>

\* One of the four attention kernels, given the position of the tile.
Attends(attend, m, j) ==
    \E kind \in {"tiled", "suffix", "fragment", "dynamic"} : \E source, base :
        Knows(m, j, source, base) /\ attend = Attend(kind, source, base)

LEMMA AttentionLaunchesDo ==
    ASSUME NEW j, IsJob(j), IsFullAttention(j.l), j.base + j.n <= Capacity,
           NEW m, IsMemory(m), NEW source, NEW base, Knows(m, j, source, base),
           NEW attend, Attends(attend, m, j), NEW in \in Streams, Holds(m, j, in, "input"),
           Holds(m, j, "attnQfull", "attnQfull"), Holds(m, j, "attnK", "attnK"),
           Holds(m, j, "attnV", "attnV"), RowsAre(m.kv, j.l, j.s, j.base),
           NEW x, x = Run(m, j.n, j.l, AttentionLaunches(source, base, attend))
    PROVE  /\ IsMemory(x) /\ Holds(x, j, in, "input")
           /\ Holds(x, j, "attnGatedOutput", "attnGatedOutput")
           /\ RowsAre(x.kv, j.l, j.s, j.base + j.n) /\ Len(x.kv) = Capacity
           /\ x.past = m.past /\ x.state = m.state /\ SameRecords(x, m)
           /\ IsProgram(AttentionLaunches(source, base, attend))
<1> DEFINE a == Exec(m, j.n, j.l, QSplit(source, base))
           b == Exec(a, j.n, j.l, StoreKv(source, base))
<1>1. x = Exec(b, j.n, j.l, attend) /\ IsProgram(AttentionLaunches(source, base, attend))
  BY RunThree DEF AttentionLaunches
<1>2. /\ {"attnQfull", "attnK", "attnV", "attnQRope", "gate", "attnGatedOutput"} \subseteq Buffers
      /\ in \in Buffers /\ in \notin {"attnQRope", "gate", "attnGatedOutput"}
  BY BufferNames DEF Streams
<1>3. /\ Keeps(a, m, j, {"attnQRope", "gate"})
      /\ Holds(a, j, "attnQRope", "attnQRope") /\ Holds(a, j, "gate", "gate")
      /\ SameStates(a, m) /\ SameRecords(a, m)
  BY QSplitDoes
<1> HIDE DEF a
<1>4. /\ IsMemory(a) /\ Holds(a, j, in, "input")
      /\ Holds(a, j, "attnK", "attnK") /\ Holds(a, j, "attnV", "attnV")
      /\ RowsAre(a.kv, j.l, j.s, j.base) /\ Knows(a, j, source, base)
  BY <1>2, <1>3 DEF Keeps, SameStates, SameRecords, Knows
<1>5. /\ Keeps(b, a, j, {}) /\ RowsAre(b.kv, j.l, j.s, j.base + j.n) /\ Len(b.kv) = Capacity
      /\ b.past = a.past /\ b.state = a.state /\ SameRecords(b, a)
  BY <1>4, StoreKvDoes
<1> HIDE DEF b
<1>6. /\ IsMemory(b) /\ Holds(b, j, in, "input")
      /\ Holds(b, j, "attnQRope", "attnQRope") /\ Holds(b, j, "gate", "gate")
  BY <1>2, <1>3, <1>4, <1>5 DEF Keeps
<1>7. PICK kind \in {"tiled", "suffix", "fragment", "dynamic"} : \E from, at :
          Knows(m, j, from, at) /\ attend = Attend(kind, from, at)
  BY DEF Attends
<1>71. PICK from, at : Knows(m, j, from, at) /\ attend = Attend(kind, from, at)
  BY <1>7
<1>8. Knows(b, j, from, at)
  BY <1>3, <1>5, <1>71 DEF Knows, SameRecords
<1>9. Fills(x, b, j, "attnGatedOutput", "attnGatedOutput")
  <2>1. x = Exec(b, j.n, j.l, Attend(kind, from, at))
    BY <1>1, <1>71
  <2> QED BY <1>5, <1>6, <1>8, <2>1, AttendDoes
<1>10. /\ IsMemory(x) /\ Holds(x, j, in, "input")
       /\ Holds(x, j, "attnGatedOutput", "attnGatedOutput") /\ Stays(x, b)
  BY <1>2, <1>6, <1>9, FillsIs
<1> QED BY <1>1, <1>3, <1>5, <1>10 DEF Stays, SameStates, SameRecords

LEMMA OutputProjectionDoes ==
    ASSUME NEW j, IsJob(j), IsFullAttention(j.l), NEW m, IsMemory(m),
           NEW in \in Streams, Holds(m, j, in, "input"),
           Holds(m, j, "attnGatedOutput", "attnGatedOutput"),
           NEW x, x = Run(m, j.n, j.l, OutputProjection)
    PROVE  /\ IsMemory(x) /\ Holds(x, j, in, "input") /\ Holds(x, j, "projected", "projected")
           /\ Stays(x, m) /\ IsProgram(OutputProjection)
<1> DEFINE a == Exec(m, j.n, j.l, Affine("attnGatedOutput"))
<1>1. x = Exec(a, j.n, j.l, Native("projected")) /\ IsProgram(OutputProjection)
  <2>1. OutputProjection = <<Affine("attnGatedOutput"), Native("projected")>>
    BY DEF OutputProjection, Affine, Native
  <2> QED BY <2>1, RunTwo
<1>2. /\ "projected" \in Buffers /\ in \in Buffers /\ in \notin {"projected", "mmqQ8"}
      /\ "projected" \in DOMAIN Formula(j.l)
      /\ Formula(j.l)["projected"] = <<"attnGatedOutput">>
  BY BufferNames, Computed, FormulaFull DEF Streams
<1>3. Fills(a, m, j, "mmqQ8", "attnGatedOutput") /\ a.affine = TRUE
  BY LayoutDoes
<1> HIDE DEF a
<1>4. /\ IsMemory(a) /\ Holds(a, j, "mmqQ8", "attnGatedOutput") /\ Holds(a, j, in, "input")
      /\ Stays(a, m)
  BY <1>2, <1>3, FillsIs
<1>5. Fills(x, a, j, "projected", "projected")
  BY <1>1, <1>2, <1>3, <1>4, MatrixDoes
<1>6. /\ IsMemory(x) /\ Holds(x, j, in, "input") /\ Holds(x, j, "projected", "projected")
      /\ Stays(x, a)
  BY <1>2, <1>4, <1>5, FillsIs
<1> QED BY <1>1, <1>4, <1>6 DEF Stays, SameStates, SameRecords

\* From the hidden states to the projected attention.
AttentionHalf(in, formats, source, base, attend) ==
    <<Apply("normalized", <<in>>, "normalized")>> \o QkvProjections(formats)
    \o AttentionLaunches(source, base, attend) \o OutputProjection

LEMMA AttentionHalfDoes ==
    ASSUME NEW j, IsJob(j), IsFullAttention(j.l), j.base + j.n <= Capacity,
           NEW m, IsMemory(m), NEW formats \in FormatRecord,
           NEW source, NEW base, Knows(m, j, source, base),
           NEW attend, Attends(attend, m, j), NEW in \in Streams, Holds(m, j, in, "input"),
           RowsAre(m.kv, j.l, j.s, j.base),
           NEW x, x = Run(m, j.n, j.l, AttentionHalf(in, formats, source, base, attend))
    PROVE  /\ IsMemory(x) /\ Holds(x, j, in, "input") /\ Holds(x, j, "projected", "projected")
           /\ RowsAre(x.kv, j.l, j.s, j.base + j.n) /\ Len(x.kv) = Capacity
           /\ x.past = m.past /\ x.state = m.state /\ SameRecords(x, m)
           /\ IsProgram(AttentionHalf(in, formats, source, base, attend))
<1> DEFINE n == j.n
           l == j.l
           p == <<Apply("normalized", <<in>>, "normalized")>>
           q == QkvProjections(formats)
           r == AttentionLaunches(source, base, attend)
           o == OutputProjection
           a == Exec(m, n, l, Apply("normalized", <<in>>, "normalized"))
           b == Run(a, n, l, q)
           c == Run(b, n, l, r)
           d == Run(c, n, l, o)
<1>1. IsProgram(p) /\ Run(m, n, l, p) = a
  BY RunOne
<1>2. AttentionHalf(in, formats, source, base, attend) = ((p \o q) \o r) \o o
  BY DEF AttentionHalf
<1> HIDE DEF p
<1>3. Fills(a, m, j, "normalized", "normalized")
  BY Computed, FormulaFull, BufferNames, ApplyOne
<1> HIDE DEF a
<1>4. /\ IsMemory(a) /\ Holds(a, j, in, "input") /\ Holds(a, j, "normalized", "normalized")
      /\ Stays(a, m)
  BY <1>3, BufferNames, FillsIs DEF Streams
<1>5. /\ IsMemory(b) /\ Holds(b, j, in, "input") /\ Stays(b, a)
      /\ Holds(b, j, "attnQfull", "attnQfull") /\ Holds(b, j, "attnK", "attnK")
      /\ Holds(b, j, "attnV", "attnV") /\ IsProgram(q)
  BY <1>4, QkvProjectionsDo
<1> HIDE DEF b, q
<1>6. /\ RowsAre(b.kv, j.l, j.s, j.base) /\ Knows(b, j, source, base) /\ Attends(attend, b, j)
  BY <1>4, <1>5 DEF Stays, SameStates, SameRecords, Knows, Attends
<1>7. /\ IsMemory(c) /\ Holds(c, j, in, "input")
      /\ Holds(c, j, "attnGatedOutput", "attnGatedOutput")
      /\ RowsAre(c.kv, j.l, j.s, j.base + j.n) /\ Len(c.kv) = Capacity
      /\ c.past = b.past /\ c.state = b.state /\ SameRecords(c, b) /\ IsProgram(r)
  BY <1>5, <1>6, AttentionLaunchesDo
<1> HIDE DEF c, r
<1>8. /\ IsMemory(d) /\ Holds(d, j, in, "input") /\ Holds(d, j, "projected", "projected")
      /\ Stays(d, c) /\ IsProgram(o)
  BY <1>7, OutputProjectionDoes
<1> HIDE DEF d, o, n, l
<1>9. IsProgram(p \o q) /\ Run(m, n, l, p \o q) = b
  BY <1>1, <1>5, RunThen DEF b
<1>10. IsProgram((p \o q) \o r) /\ Run(m, n, l, (p \o q) \o r) = c
  BY <1>7, <1>9, RunThen DEF c
<1>11. IsProgram(((p \o q) \o r) \o o) /\ Run(m, n, l, ((p \o q) \o r) \o o) = d
  BY <1>8, <1>10, RunThen DEF d
<1>12. x = d
  BY <1>2, <1>11 DEF n, l
<1> QED
  BY <1>2, <1>4, <1>5, <1>7, <1>8, <1>11, <1>12 DEF Stays, SameStates, SameRecords

\* Told its position by the decode record or by the host, the half does the same.
LEMMA HalfPlaced ==
    ASSUME NEW j, IsJob(j), IsFullAttention(j.l), j.base + j.n <= Capacity,
           NEW m, IsMemory(m), NEW formats \in FormatRecord, m.decode = j.base,
           NEW in \in Streams, Holds(m, j, in, "input"), RowsAre(m.kv, j.l, j.s, j.base),
           NEW host, host = Attend("suffix", "host", j.base),
           NEW device, device = Attend("dynamic", "decode", 0)
    PROVE  /\ Run(m, j.n, j.l, AttentionHalf(in, formats, "host", j.base, host))
                  = Run(m, j.n, j.l, AttentionHalf(in, formats, "decode", 0, device))
           /\ IsProgram(AttentionHalf(in, formats, "host", j.base, host))
           /\ IsProgram(AttentionHalf(in, formats, "decode", 0, device))
<1> DEFINE n == j.n
           l == j.l
           p == <<Apply("normalized", <<in>>, "normalized")>>
           q == QkvProjections(formats)
           r == AttentionLaunches("host", j.base, host)
           s == AttentionLaunches("decode", 0, device)
           o == OutputProjection
           a == Exec(m, n, l, Apply("normalized", <<in>>, "normalized"))
           b == Run(a, n, l, q)
           c == Exec(b, n, l, QSplit("decode", 0))
           d == Exec(c, n, l, StoreKv("decode", 0))
           e == Exec(d, n, l, device)
<1>1. IsProgram(p) /\ Run(m, n, l, p) = a
  BY RunOne
<1>2. /\ AttentionHalf(in, formats, "host", j.base, host) = ((p \o q) \o r) \o o
      /\ AttentionHalf(in, formats, "decode", 0, device) = ((p \o q) \o s) \o o
  BY DEF AttentionHalf
<1>3. IsProgram(o)
  <2>1. OutputProjection = <<Affine("attnGatedOutput"), Native("projected")>>
    BY DEF OutputProjection, Affine, Native
  <2> QED BY <2>1, RunTwo
<1> HIDE DEF p, o
<1>4. Fills(a, m, j, "normalized", "normalized")
  BY Computed, FormulaFull, BufferNames, ApplyOne
<1> HIDE DEF a
<1>5. /\ IsMemory(a) /\ Holds(a, j, in, "input") /\ Holds(a, j, "normalized", "normalized")
      /\ Stays(a, m)
  BY <1>4, BufferNames, FillsIs DEF Streams
<1>6. /\ IsMemory(b) /\ Holds(b, j, in, "input") /\ Stays(b, a)
      /\ Holds(b, j, "attnQfull", "attnQfull") /\ Holds(b, j, "attnK", "attnK")
      /\ Holds(b, j, "attnV", "attnV") /\ IsProgram(q)
  BY <1>5, QkvProjectionsDo
<1> HIDE DEF b, q
<1>7. b.decode = j.base /\ Knows(b, j, "decode", 0) /\ RowsAre(b.kv, j.l, j.s, j.base)
  BY <1>5, <1>6 DEF Stays, SameStates, SameRecords, Knows
<1>8. /\ Keeps(c, b, j, {"attnQRope", "gate"}) /\ SameStates(c, b) /\ SameRecords(c, b)
  BY <1>6, <1>7, QSplitDoes
<1>9. c = Exec(b, n, l, QSplit("host", j.base))
  BY <1>7, SplitPlaced
<1> HIDE DEF c
<1>10. /\ IsMemory(c) /\ Holds(c, j, "attnK", "attnK") /\ Holds(c, j, "attnV", "attnV")
       /\ RowsAre(c.kv, j.l, j.s, j.base) /\ Knows(c, j, "decode", 0) /\ c.decode = j.base
  BY <1>6, <1>7, <1>8, BufferNames DEF Keeps, SameStates, SameRecords, Knows
<1>11. SameRecords(d, c)
  BY <1>10, StoreKvDoes
<1>12. d = Exec(c, n, l, StoreKv("host", j.base))
  BY <1>10, StorePlaced
<1> HIDE DEF d
<1>13. d.decode = j.base /\ n \in Nat /\ j.base \in Nat
  BY <1>10, <1>11 DEF SameRecords, IsJob
<1>14. e = Exec(d, n, l, host)
  BY <1>13, AttendPlaced
<1> HIDE DEF e
<1>15. Run(b, n, l, r) = e /\ Run(b, n, l, s) = e /\ IsProgram(r) /\ IsProgram(s)
  <2>1. /\ Run(b, n, l, r)
               = Exec(Exec(Exec(b, n, l, QSplit("host", j.base)), n, l, StoreKv("host", j.base)),
                      n, l, host)
        /\ IsProgram(r)
    BY RunThree DEF AttentionLaunches
  <2>2. /\ Run(b, n, l, s)
               = Exec(Exec(Exec(b, n, l, QSplit("decode", 0)), n, l, StoreKv("decode", 0)),
                      n, l, device)
        /\ IsProgram(s)
    BY RunThree DEF AttentionLaunches
  <2> QED BY <1>9, <1>12, <1>14, <2>1, <2>2 DEF c, d, e
<1> HIDE DEF n, l, r, s
<1>16. IsProgram(p \o q) /\ Run(m, n, l, p \o q) = b
  BY <1>1, <1>6, RunThen DEF b
<1>17. /\ IsProgram((p \o q) \o r) /\ Run(m, n, l, (p \o q) \o r) = e
       /\ IsProgram((p \o q) \o s) /\ Run(m, n, l, (p \o q) \o s) = e
  BY <1>15, <1>16, RunThen
<1>18. /\ IsProgram(((p \o q) \o r) \o o)
       /\ Run(m, n, l, ((p \o q) \o r) \o o) = Run(e, n, l, o)
       /\ IsProgram(((p \o q) \o s) \o o)
       /\ Run(m, n, l, ((p \o q) \o s) \o o) = Run(e, n, l, o)
  BY <1>3, <1>17, RunThen
<1> QED BY <1>2, <1>18 DEF n, l

\* The kernel forward() picks is given the position of the tile.
LEMMA TileAttends ==
    ASSUME NEW j, NEW m, NEW source \in {"host", "prefill"}, NEW base,
           Knows(m, j, source, base), source = "prefill" => base = 0, j.base \in Nat,
           NEW n \in Nat, NEW opted
    PROVE  Attends(TileAttention(source, base, n, opted), m, j)
<1>1. CASE source = "host"
  <2>1. Knows(m, j, "host", base)
    BY <1>1
  <2>2. TileAttention(source, base, n, opted)
            \in {Attend("fragment", "host", base), Attend("suffix", "host", base),
                 Attend("tiled", "host", base)}
    BY <1>1 DEF TileAttention
  <2> QED BY <2>1, <2>2 DEF Attends
<1>2. CASE source = "prefill"
  <2>1. Knows(m, j, "prefill", base)
    BY <1>2
  <2>2. TileAttention(source, base, n, opted) = Attend("suffix", "prefill", base)
    BY <1>2 DEF TileAttention
  <2> QED BY <2>1, <2>2 DEF Attends
<1> QED BY <1>1, <1>2

\* What a full-attention layer does to its memory.
Attended(x, m, j, out) ==
    /\ IsMemory(x) /\ Holds(x, j, out, "output")
    /\ RowsAre(x.kv, j.l, j.s, j.base + j.n) /\ Len(x.kv) = Capacity
    /\ x.past = m.past /\ x.state = m.state /\ SameRecords(x, m)

\* PrefillV2AttentionLayer::forward().
LEMMA AttentionForwardDoes ==
    ASSUME NEW j, IsJob(j), IsFullAttention(j.l), j.base + j.n <= Capacity,
           NEW m, IsMemory(m), NEW formats \in FormatRecord,
           NEW source \in {"host", "prefill"}, NEW base, Knows(m, j, source, base),
           source = "prefill" => base = 0, NEW n \in Nat, NEW opted,
           NEW in \in Streams, NEW out \in Buffers, Holds(m, j, in, "input"),
           RowsAre(m.kv, j.l, j.s, j.base),
           NEW x, x = Run(m, j.n, j.l, AttentionForward(in, out, source, base, n, formats, opted))
    PROVE  Attended(x, m, j, out)
<1> DEFINE attend == TileAttention(source, base, n, opted)
           p == AttentionHalf(in, formats, source, base, attend)
           q == TileFeedForward(in, out, formats)
           a == Run(m, j.n, j.l, p)
           b == Run(a, j.n, j.l, q)
<1>1. AttentionForward(in, out, source, base, n, formats, opted) = p \o q
  BY DEF AttentionForward, AttentionHalf, AttentionLaunches
<1>2. Attends(attend, m, j)
  BY TileAttends DEF IsJob
<1> HIDE DEF attend
<1>3. /\ IsMemory(a) /\ Holds(a, j, in, "input") /\ Holds(a, j, "projected", "projected")
      /\ RowsAre(a.kv, j.l, j.s, j.base + j.n) /\ Len(a.kv) = Capacity
      /\ a.past = m.past /\ a.state = m.state /\ SameRecords(a, m) /\ IsProgram(p)
  BY <1>2, AttentionHalfDoes
<1> HIDE DEF a, p
<1>4. IsMemory(b) /\ Holds(b, j, out, "output") /\ Stays(b, a) /\ IsProgram(q)
  BY <1>3, TileFeedForwardDoes
<1> HIDE DEF b, q
<1>5. x = b
  BY <1>1, <1>3, <1>4, RunThen DEF a, b
<1> QED BY <1>3, <1>4, <1>5 DEF Attended, Stays, SameStates, SameRecords

\* PrefillV2AttentionLayer::decode() with a device state.
LEMMA AttentionDecodeDoes ==
    ASSUME NEW j, IsJob(j), IsFullAttention(j.l), j.n = 1, j.base + j.n <= Capacity,
           NEW m, IsMemory(m), NEW formats \in FormatRecord,
           NEW base, Knows(m, j, "decode", base),
           NEW in \in Streams, NEW out \in Buffers, Holds(m, j, in, "input"),
           RowsAre(m.kv, j.l, j.s, j.base),
           NEW x, x = Run(m, j.n, j.l, AttentionDecode(in, out, "decode", base, formats))
    PROVE  Attended(x, m, j, out)
<1> DEFINE attend == Attend("dynamic", "decode", base)
           p == AttentionHalf(in, formats, "decode", base, attend)
           q == StepFeedForward(in, out, formats)
           a == Run(m, j.n, j.l, p)
           b == Run(a, j.n, j.l, q)
<1>1. AttentionDecode(in, out, "decode", base, formats) = p \o q
  BY DEF AttentionDecode, AttentionHalf, AttentionLaunches
<1>2. Attends(attend, m, j)
  BY DEF Attends
<1> HIDE DEF attend
<1>3. /\ IsMemory(a) /\ Holds(a, j, in, "input") /\ Holds(a, j, "projected", "projected")
      /\ RowsAre(a.kv, j.l, j.s, j.base + j.n) /\ Len(a.kv) = Capacity
      /\ a.past = m.past /\ a.state = m.state /\ SameRecords(a, m) /\ IsProgram(p)
  BY <1>2, AttentionHalfDoes
<1> HIDE DEF a, p
<1>4. IsMemory(b) /\ Holds(b, j, out, "output") /\ Stays(b, a) /\ IsProgram(q)
  BY <1>3, StepFeedForwardDoes
<1> HIDE DEF b, q
<1>5. x = b
  <2>1. Run(m, j.n, j.l, p \o q) = Run(Run(m, j.n, j.l, p), j.n, j.l, q)
    BY <1>3, <1>4, RunThen
  <2> QED BY <1>1, <2>1 DEF a, b
<1> QED BY <1>3, <1>4, <1>5 DEF Attended, Stays, SameStates, SameRecords

-----------------------------------------------------------------------------
(* The recurrent layer.                                                    *)

\* The projections leave the stream, the parameters and the states alone.
LEMMA QkvAndGateDo ==
    ASSUME NEW j, IsJob(j), ~IsFullAttention(j.l), NEW m, IsMemory(m),
           NEW formats \in FormatRecord, NEW in \in Streams, Holds(m, j, in, "input"),
           Holds(m, j, "normalized", "normalized"), Holds(m, j, "beta", "beta"),
           Holds(m, j, "decay", "decay"),
           NEW x, x = Run(m, j.n, j.l, QkvAndGate(formats))
    PROVE  /\ IsMemory(x) /\ Holds(x, j, in, "input") /\ Stays(x, m)
           /\ Holds(x, j, "beta", "beta") /\ Holds(x, j, "decay", "decay")
           /\ Holds(x, j, "qkv", "qkv") /\ Holds(x, j, "gate", "gate")
           /\ IsProgram(QkvAndGate(formats))
<1> DEFINE p == <<Quantize("normalized", ~formats.qkv), Project("qkv", formats.qkv)>>
           q == IF formats.qkv THEN <<Affine("normalized")>> ELSE <<>>
           r == <<Native("gate")>>
           a == Exec(m, j.n, j.l, Quantize("normalized", ~formats.qkv))
           b == Exec(a, j.n, j.l, Project("qkv", formats.qkv))
           c == Run(b, j.n, j.l, q)
           d == Exec(c, j.n, j.l, Native("gate"))
<1>1. /\ IsProgram(p) /\ Run(m, j.n, j.l, p) = b
      /\ IsProgram(r) /\ Run(c, j.n, j.l, r) = d
  BY RunTwo, RunOne
<1>2. IsProgram(q) /\ c = IF formats.qkv THEN Exec(b, j.n, j.l, Affine("normalized")) ELSE b
  <2> HIDE DEF b
  <2> QED BY RunOne
<1>3. QkvAndGate(formats) = (p \o q) \o r
  BY DEF QkvAndGate, Affine, Native
<1> HIDE DEF p, q, r
<1>4. /\ IsProgram(p \o q) /\ IsProgram((p \o q) \o r)
      /\ Run(m, j.n, j.l, (p \o q) \o r) = d
  <2>1. IsProgram(p \o q) /\ Run(m, j.n, j.l, p \o q) = c
    BY <1>1, <1>2, RunThen
  <2> HIDE DEF c, d
  <2> QED BY <1>1, <2>1, RunThen
<1>5. /\ {"qkv", "gate", "mmqQ8", "normalized", "beta", "decay", in} \subseteq Buffers
      /\ {"qkv", "gate"} \subseteq DOMAIN Formula(j.l)
      /\ Formula(j.l)["qkv"] = <<"normalized">> /\ Formula(j.l)["gate"] = <<"normalized">>
  BY BufferNames, Computed, FormulaRecurrent DEF Streams
<1>6. Fills(a, m, j, "mmqQ8", "normalized") /\ a.affine = ~formats.qkv
  BY LayoutDoes
<1> HIDE DEF d, c, a
<1>7. /\ IsMemory(a) /\ Holds(a, j, "mmqQ8", "normalized") /\ Stays(a, m)
      /\ Holds(a, j, in, "input") /\ Holds(a, j, "normalized", "normalized")
      /\ Holds(a, j, "beta", "beta") /\ Holds(a, j, "decay", "decay")
  BY <1>5, <1>6, FillsIs DEF Streams
<1> HIDE DEF b
<1>8. Fills(b, a, j, "qkv", "qkv") /\ b.affine = ~formats.qkv
  <2>1. b = Exec(a, j.n, j.l, Project("qkv", formats.qkv))
    BY DEF b
  <2>2. /\ "qkv" \in Buffers /\ "qkv" \in DOMAIN Formula(j.l)
        /\ Formula(j.l)["qkv"] = <<"normalized">>
        /\ IsMemory(a) /\ Holds(a, j, "mmqQ8", "normalized")
    BY <1>5, <1>7
  <2>3. \A q6 : a.affine = ~q6 =>
            /\ Fills(Exec(a, j.n, j.l, Project("qkv", q6)), a, j, "qkv", "qkv")
            /\ Exec(a, j.n, j.l, Project("qkv", q6)).affine = ~q6
    BY <2>2, MatrixDoes
  <2> QED BY <1>6, <2>1, <2>3
<1>9. /\ IsMemory(b) /\ Holds(b, j, "mmqQ8", "normalized") /\ Stays(b, a)
      /\ Holds(b, j, in, "input") /\ Holds(b, j, "normalized", "normalized")
      /\ Holds(b, j, "beta", "beta") /\ Holds(b, j, "decay", "decay")
      /\ Holds(b, j, "qkv", "qkv")
  BY <1>5, <1>7, <1>8, FillsIs DEF Streams
<1>10. /\ IsMemory(c) /\ Holds(c, j, "mmqQ8", "normalized") /\ c.affine = TRUE /\ Stays(c, b)
       /\ Holds(c, j, in, "input") /\ Holds(c, j, "qkv", "qkv")
       /\ Holds(c, j, "beta", "beta") /\ Holds(c, j, "decay", "decay")
  <2>1. CASE formats.qkv = FALSE
    <3>1. c = b
      BY <1>2, <2>1
    <3> QED BY <1>8, <1>9, <2>1, <3>1 DEF Stays, SameStates, SameRecords
  <2>2. CASE formats.qkv = TRUE
    <3>1. c = Exec(b, j.n, j.l, Affine("normalized"))
      BY <1>2, <2>2
    <3>2. Fills(c, b, j, "mmqQ8", "normalized") /\ c.affine = TRUE
      BY <1>9, <3>1, LayoutDoes
    <3> QED BY <1>5, <1>9, <3>2, FillsIs DEF Streams
  <2> QED BY <2>1, <2>2 DEF FormatRecord
<1>11. Fills(d, c, j, "gate", "gate")
  <2>1. d = Exec(c, j.n, j.l, Native("gate"))
    BY DEF d
  <2> QED BY <1>5, <1>10, <2>1, MatrixDoes
<1>12. Stays(d, m)
  BY <1>7, <1>9, <1>10, <1>11, FillsIs DEF Stays, SameStates, SameRecords
<1>13. /\ IsMemory(d) /\ Holds(d, j, in, "input")
       /\ Holds(d, j, "beta", "beta") /\ Holds(d, j, "decay", "decay")
       /\ Holds(d, j, "qkv", "qkv") /\ Holds(d, j, "gate", "gate")
  BY <1>5, <1>10, <1>11, FillsIs DEF Streams
<1> QED BY <1>3, <1>4, <1>12, <1>13

\* Convolution and head norms: the queries and keys are normalised in place.
Walk(launch) == <<launch>> \o NormalizeHeads

LEMMA WalkDoes ==
    ASSUME NEW j, IsJob(j), ~IsFullAttention(j.l), NEW m, IsMemory(m),
           NEW in \in Streams, Holds(m, j, in, "input"), Holds(m, j, "beta", "beta"),
           Holds(m, j, "decay", "decay"), Holds(m, j, "qkv", "qkv"), Holds(m, j, "gate", "gate"),
           m.past = Value("past", j.l, Upto(j, 0)),
           NEW launch, Positioned(m, j, launch),
           NEW x, x = Run(m, j.n, j.l, Walk(launch))
    PROVE  /\ IsMemory(x) /\ Holds(x, j, in, "input") /\ Holds(x, j, "gate", "gate")
           /\ Holds(x, j, "beta", "beta") /\ Holds(x, j, "decay", "decay")
           /\ Holds(x, j, "query", "query") /\ Holds(x, j, "key", "key")
           /\ Holds(x, j, "value", "value")
           /\ x.past = Value("past", j.l, j.s)
           /\ x.kv = m.kv /\ x.state = m.state /\ SameRecords(x, m)
           /\ IsProgram(Walk(launch))
<1> DEFINE a == Exec(m, j.n, j.l, launch)
           b == Exec(a, j.n, j.l, Apply("query", <<"query">>, "query"))
           c == Exec(b, j.n, j.l, Apply("key", <<"key">>, "key"))
<1>1. /\ IsProgram(<<launch>>) /\ Run(m, j.n, j.l, <<launch>>) = a
      /\ IsProgram(NormalizeHeads) /\ Run(a, j.n, j.l, NormalizeHeads) = c
  <2>1. IsProgram(<<launch>>) /\ Run(m, j.n, j.l, <<launch>>) = a
    BY RunOne
  <2> HIDE DEF a
  <2> QED BY <2>1, RunTwo DEF NormalizeHeads
<1>2. x = c /\ IsProgram(Walk(launch))
  <2> HIDE DEF a, c
  <2>1. /\ IsProgram(<<launch>> \o NormalizeHeads)
        /\ Run(m, j.n, j.l, <<launch>> \o NormalizeHeads)
               = Run(Run(m, j.n, j.l, <<launch>>), j.n, j.l, NormalizeHeads)
    BY <1>1, RunThen
  <2> QED BY <1>1, <2>1 DEF Walk
<1>3. /\ {"query", "key", "value", "beta", "decay", "gate", in} \subseteq Buffers
      /\ {"query", "key"} \subseteq DOMAIN Formula(j.l)
      /\ Formula(j.l)["query"] = <<"rawQuery">> /\ Formula(j.l)["key"] = <<"rawKey">>
  BY BufferNames, Computed, FormulaRecurrent DEF Streams
<1>4. /\ Keeps(a, m, j, {"query", "key", "value"})
      /\ Holds(a, j, "query", "rawQuery") /\ Holds(a, j, "key", "rawKey")
      /\ Holds(a, j, "value", "value")
      /\ a.past = Value("past", j.l, j.s)
      /\ a.kv = m.kv /\ a.state = m.state /\ SameRecords(a, m)
  BY ConvDoes
<1> HIDE DEF a
<1>5. /\ IsMemory(a) /\ Holds(a, j, in, "input") /\ Holds(a, j, "gate", "gate")
      /\ Holds(a, j, "beta", "beta") /\ Holds(a, j, "decay", "decay")
  BY <1>3, <1>4 DEF Keeps, Streams
<1>6. Fills(b, a, j, "query", "query")
  BY <1>3, <1>4, <1>5, ApplyOne
<1> HIDE DEF b
<1>7. /\ IsMemory(b) /\ Holds(b, j, in, "input") /\ Holds(b, j, "gate", "gate")
      /\ Holds(b, j, "beta", "beta") /\ Holds(b, j, "decay", "decay")
      /\ Holds(b, j, "query", "query") /\ Holds(b, j, "key", "rawKey")
      /\ Holds(b, j, "value", "value") /\ Stays(b, a)
  BY <1>3, <1>4, <1>5, <1>6, FillsIs DEF Streams
<1>8. Fills(c, b, j, "key", "key")
  BY <1>3, <1>7, ApplyOne
<1> HIDE DEF c
<1>9. /\ IsMemory(c) /\ Holds(c, j, in, "input") /\ Holds(c, j, "gate", "gate")
      /\ Holds(c, j, "beta", "beta") /\ Holds(c, j, "decay", "decay")
      /\ Holds(c, j, "query", "query") /\ Holds(c, j, "key", "key")
      /\ Holds(c, j, "value", "value") /\ Stays(c, b)
  BY <1>3, <1>7, <1>8, FillsIs DEF Streams
<1> QED BY <1>2, <1>4, <1>7, <1>9 DEF Stays, SameStates, SameRecords

\* What a recurrent layer does to its memory, up to its feed-forward half.
Scanned(x, m, j, in) ==
    /\ IsMemory(x) /\ Holds(x, j, in, "input")
    /\ x.past = Value("past", j.l, j.s) /\ x.state = Value("state", j.l, j.s)
    /\ x.kv = m.kv /\ SameRecords(x, m)

\* The scan over a tile, its gate and its matrix.
Scan == <<GdnChunk, Apply("gatedOutput", <<"gdnRawOutput", "gate">>, "gatedOutput")>>

LEMMA ScanDoes ==
    ASSUME NEW j, IsJob(j), ~IsFullAttention(j.l), NEW m, IsMemory(m),
           NEW in \in Streams, Holds(m, j, in, "input"), Holds(m, j, "gate", "gate"),
           Holds(m, j, "beta", "beta"), Holds(m, j, "decay", "decay"),
           Holds(m, j, "query", "query"), Holds(m, j, "key", "key"),
           Holds(m, j, "value", "value"), m.past = Value("past", j.l, j.s),
           m.state = Value("state", j.l, Upto(j, 0)),
           NEW x, x = Run(m, j.n, j.l, Scan)
    PROVE  /\ Scanned(x, m, j, in) /\ Holds(x, j, "gatedOutput", "gatedOutput")
           /\ IsProgram(Scan)
<1> DEFINE a == Exec(m, j.n, j.l, GdnChunk)
           b == Exec(a, j.n, j.l, Apply("gatedOutput", <<"gdnRawOutput", "gate">>, "gatedOutput"))
<1>1. x = b /\ IsProgram(Scan)
  BY RunTwo DEF Scan
<1>2. a = Exec_GdnChunk(m, j.n, j.l)
  BY ExecGdnChunk
<1>3. /\ {"gate", "gdnRawOutput", "gatedOutput", in} \subseteq Buffers
      /\ "gatedOutput" \in DOMAIN Formula(j.l)
      /\ Formula(j.l)["gatedOutput"] = <<"gdnRawOutput", "gate">>
  BY BufferNames, Computed, FormulaRecurrent DEF Streams
<1> HIDE DEF a
<1>4. /\ Keeps(a, m, j, {"gdnRawOutput"})
      /\ Holds(a, j, "gdnRawOutput", "gdnRawOutput")
      /\ a.state = Value("state", j.l, j.s)
      /\ a.kv = m.kv /\ a.past = m.past /\ SameRecords(a, m)
  BY <1>2, GdnChunkDoes
<1>5. IsMemory(a) /\ Holds(a, j, in, "input") /\ Holds(a, j, "gate", "gate")
  BY <1>3, <1>4 DEF Keeps, Streams
<1>6. Fills(b, a, j, "gatedOutput", "gatedOutput")
  BY <1>3, <1>4, <1>5, ApplyTwo
<1> HIDE DEF b
<1>7. /\ IsMemory(b) /\ Holds(b, j, in, "input") /\ Stays(b, a)
      /\ Holds(b, j, "gatedOutput", "gatedOutput")
  BY <1>3, <1>5, <1>6, FillsIs DEF Streams
<1> QED BY <1>1, <1>4, <1>7 DEF Scanned, Stays, SameStates, SameRecords

LEMMA CoreDoes ==
    ASSUME NEW j, IsJob(j), j.n = 1, ~IsFullAttention(j.l), NEW m, IsMemory(m),
           NEW in \in Streams, Holds(m, j, in, "input"), Holds(m, j, "gate", "gate"),
           Holds(m, j, "beta", "beta"), Holds(m, j, "decay", "decay"),
           Holds(m, j, "query", "query"), Holds(m, j, "key", "key"),
           Holds(m, j, "value", "value"), m.past = Value("past", j.l, j.s),
           m.state = Value("state", j.l, Upto(j, 0)),
           NEW x, x = Run(m, j.n, j.l, <<RecurrentCore>>)
    PROVE  /\ Scanned(x, m, j, in) /\ Holds(x, j, "gatedOutput", "gatedOutput")
           /\ IsProgram(<<RecurrentCore>>)
<1>1. x = Exec(m, j.n, j.l, RecurrentCore) /\ IsProgram(<<RecurrentCore>>)
  BY RunOne
<1>2. /\ Keeps(x, m, j, {"gatedOutput"})
      /\ Holds(x, j, "gatedOutput", "gatedOutput")
      /\ x.state = Value("state", j.l, j.s)
      /\ x.kv = m.kv /\ x.past = m.past /\ SameRecords(x, m)
  BY <1>1, RecurrentCoreDoes
<1>3. IsMemory(x) /\ Holds(x, j, in, "input")
  BY <1>2, BufferNames DEF Keeps, Streams
<1> QED BY <1>1, <1>2, <1>3 DEF Scanned

LEMMA SsmOutDoes ==
    ASSUME NEW j, IsJob(j), ~IsFullAttention(j.l), NEW m, IsMemory(m),
           NEW in \in Streams, Holds(m, j, in, "input"),
           Holds(m, j, "gatedOutput", "gatedOutput"),
           NEW x, x = Run(m, j.n, j.l, SsmOut)
    PROVE  /\ IsMemory(x) /\ Holds(x, j, in, "input") /\ Holds(x, j, "projected", "projected")
           /\ Stays(x, m) /\ IsProgram(SsmOut)
<1> DEFINE a == Exec(m, j.n, j.l, Affine("gatedOutput"))
<1>1. x = Exec(a, j.n, j.l, Native("projected")) /\ IsProgram(SsmOut)
  <2>1. SsmOut = <<Affine("gatedOutput"), Native("projected")>>
    BY DEF SsmOut, Affine, Native
  <2> QED BY <2>1, RunTwo
<1>2. /\ "projected" \in Buffers /\ in \in Buffers /\ in \notin {"projected", "mmqQ8"}
      /\ "projected" \in DOMAIN Formula(j.l)
      /\ Formula(j.l)["projected"] = <<"gatedOutput">>
  BY BufferNames, Computed, FormulaRecurrent DEF Streams
<1>3. Fills(a, m, j, "mmqQ8", "gatedOutput") /\ a.affine = TRUE
  BY LayoutDoes
<1> HIDE DEF a
<1>4. /\ IsMemory(a) /\ Holds(a, j, "mmqQ8", "gatedOutput") /\ Holds(a, j, in, "input")
      /\ Stays(a, m)
  BY <1>2, <1>3, FillsIs
<1>5. Fills(x, a, j, "projected", "projected")
  BY <1>1, <1>2, <1>3, <1>4, MatrixDoes
<1>6. /\ IsMemory(x) /\ Holds(x, j, in, "input") /\ Holds(x, j, "projected", "projected")
      /\ Stays(x, a)
  BY <1>2, <1>4, <1>5, FillsIs
<1> QED BY <1>1, <1>4, <1>6 DEF Stays, SameStates, SameRecords

\* The parameters of the scan, for a tile and for one token.
TileParameters(in) ==
    <<Apply("normalized", <<in>>, "normalized"),
      Apply("rawBeta", <<"normalized">>, "rawBeta"),
      Apply("rawAlpha", <<"normalized">>, "rawAlpha"),
      Apply("beta", <<"rawBeta">>, "beta"),
      Apply("decay", <<"rawAlpha">>, "decay")>>

StepParameters(in) == <<Apply("normalized", <<in>>, "normalized"), BetaDecay>>

Prepared(x, m, j, in) ==
    /\ IsMemory(x) /\ Holds(x, j, in, "input") /\ Holds(x, j, "normalized", "normalized")
    /\ Holds(x, j, "beta", "beta") /\ Holds(x, j, "decay", "decay") /\ Stays(x, m)

LEMMA TileParametersDo ==
    ASSUME NEW j, IsJob(j), ~IsFullAttention(j.l), NEW m, IsMemory(m),
           NEW in \in Streams, Holds(m, j, in, "input"),
           NEW x, x = Run(m, j.n, j.l, TileParameters(in))
    PROVE  Prepared(x, m, j, in) /\ IsProgram(TileParameters(in))
<1> DEFINE a == Exec(m, j.n, j.l, Apply("normalized", <<in>>, "normalized"))
           b == Exec(a, j.n, j.l, Apply("rawBeta", <<"normalized">>, "rawBeta"))
           c == Exec(b, j.n, j.l, Apply("rawAlpha", <<"normalized">>, "rawAlpha"))
           d == Exec(c, j.n, j.l, Apply("beta", <<"rawBeta">>, "beta"))
           e == Exec(d, j.n, j.l, Apply("decay", <<"rawAlpha">>, "decay"))
<1>1. x = e /\ IsProgram(TileParameters(in))
  BY RunFive DEF TileParameters
<1>2. /\ {"normalized", "rawBeta", "rawAlpha", "beta", "decay", in} \subseteq Buffers
      /\ {"normalized", "rawBeta", "rawAlpha", "beta", "decay"} \subseteq DOMAIN Formula(j.l)
      /\ Formula(j.l)["normalized"] = <<"input">>
      /\ Formula(j.l)["rawBeta"] = <<"normalized">> /\ Formula(j.l)["beta"] = <<"rawBeta">>
      /\ Formula(j.l)["rawAlpha"] = <<"normalized">> /\ Formula(j.l)["decay"] = <<"rawAlpha">>
  BY BufferNames, Computed, FormulaRecurrent DEF Streams
<1>3. Fills(a, m, j, "normalized", "normalized")
  BY <1>2, ApplyOne
<1> HIDE DEF a
<1>4. /\ IsMemory(a) /\ Holds(a, j, in, "input") /\ Holds(a, j, "normalized", "normalized")
      /\ Stays(a, m)
  BY <1>2, <1>3, FillsIs DEF Streams
<1>5. Fills(b, a, j, "rawBeta", "rawBeta")
  BY <1>2, <1>4, ApplyOne
<1> HIDE DEF b
<1>6. /\ IsMemory(b) /\ Holds(b, j, in, "input") /\ Holds(b, j, "normalized", "normalized")
      /\ Holds(b, j, "rawBeta", "rawBeta") /\ Stays(b, a)
  BY <1>2, <1>4, <1>5, FillsIs DEF Streams
<1>7. Fills(c, b, j, "rawAlpha", "rawAlpha")
  BY <1>2, <1>6, ApplyOne
<1> HIDE DEF c
<1>8. /\ IsMemory(c) /\ Holds(c, j, in, "input") /\ Holds(c, j, "normalized", "normalized")
      /\ Holds(c, j, "rawBeta", "rawBeta") /\ Holds(c, j, "rawAlpha", "rawAlpha")
      /\ Stays(c, b)
  BY <1>2, <1>6, <1>7, FillsIs DEF Streams
<1>9. Fills(d, c, j, "beta", "beta")
  BY <1>2, <1>8, ApplyOne
<1> HIDE DEF d
<1>10. /\ IsMemory(d) /\ Holds(d, j, in, "input") /\ Holds(d, j, "normalized", "normalized")
       /\ Holds(d, j, "beta", "beta") /\ Holds(d, j, "rawAlpha", "rawAlpha")
       /\ Stays(d, c)
  BY <1>2, <1>8, <1>9, FillsIs DEF Streams
<1>11. Fills(e, d, j, "decay", "decay")
  BY <1>2, <1>10, ApplyOne
<1> HIDE DEF e
<1>12. /\ IsMemory(e) /\ Holds(e, j, in, "input") /\ Holds(e, j, "normalized", "normalized")
       /\ Holds(e, j, "beta", "beta") /\ Holds(e, j, "decay", "decay") /\ Stays(e, d)
  BY <1>2, <1>10, <1>11, FillsIs DEF Streams
<1>13. Stays(e, m)
  BY <1>4, <1>6, <1>8, <1>10, <1>12 DEF Stays, SameStates, SameRecords
<1> QED BY <1>1, <1>12, <1>13 DEF Prepared

LEMMA StepParametersDo ==
    ASSUME NEW j, IsJob(j), j.n = 1, ~IsFullAttention(j.l), NEW m, IsMemory(m),
           NEW in \in Streams, Holds(m, j, in, "input"),
           NEW x, x = Run(m, j.n, j.l, StepParameters(in))
    PROVE  Prepared(x, m, j, in) /\ IsProgram(StepParameters(in))
<1> DEFINE a == Exec(m, j.n, j.l, Apply("normalized", <<in>>, "normalized"))
           b == Exec(a, j.n, j.l, BetaDecay)
<1>1. x = b /\ IsProgram(StepParameters(in))
  BY RunTwo DEF StepParameters
<1>2. /\ {"normalized", "beta", "decay", in} \subseteq Buffers
      /\ "normalized" \in DOMAIN Formula(j.l)
      /\ Formula(j.l)["normalized"] = <<"input">>
  BY BufferNames, Computed, FormulaRecurrent DEF Streams
<1>3. Fills(a, m, j, "normalized", "normalized")
  BY <1>2, ApplyOne
<1> HIDE DEF a
<1>4. /\ IsMemory(a) /\ Holds(a, j, in, "input") /\ Holds(a, j, "normalized", "normalized")
      /\ Stays(a, m)
  BY <1>2, <1>3, FillsIs DEF Streams
<1>5. /\ Keeps(b, a, j, {"beta", "decay"})
      /\ Holds(b, j, "beta", "beta") /\ Holds(b, j, "decay", "decay")
      /\ SameStates(b, a) /\ SameRecords(b, a)
  BY <1>4, BetaDecayDoes
<1> HIDE DEF b
<1>6. IsMemory(b) /\ Holds(b, j, in, "input") /\ Holds(b, j, "normalized", "normalized")
  BY <1>2, <1>4, <1>5 DEF Keeps, Streams
<1> QED BY <1>1, <1>4, <1>5, <1>6 DEF Prepared, Stays, SameStates, SameRecords

\* From the parameters to the projected output of the scan.
RecurrentHalf(head, formats, launch, scan) ==
    head \o QkvAndGate(formats) \o <<launch>> \o NormalizeHeads \o scan \o SsmOut

LEMMA RunWalk ==
    ASSUME NEW m, NEW n, NEW l, NEW p, IsProgram(p), NEW launch
    PROVE  /\ IsProgram(p \o <<launch>> \o NormalizeHeads)
           /\ Run(m, n, l, p \o <<launch>> \o NormalizeHeads)
                  = Run(Run(m, n, l, p), n, l, Walk(launch))
<1> DEFINE q == <<launch>>
           r == NormalizeHeads
           a == Run(m, n, l, p)
<1>1. IsProgram(q) /\ IsProgram(r)
  BY RunOne, RunTwo DEF NormalizeHeads
<1>2. Walk(launch) = q \o r
  BY DEF Walk
<1> HIDE DEF q, r
<1>3. IsProgram(p \o q) /\ Run(m, n, l, p \o q) = Run(a, n, l, q)
  BY <1>1, RunThen
<1>4. /\ IsProgram((p \o q) \o r)
      /\ Run(m, n, l, (p \o q) \o r) = Run(Run(m, n, l, p \o q), n, l, r)
  BY <1>1, <1>3, RunThen
<1>5. Run(a, n, l, q \o r) = Run(Run(a, n, l, q), n, l, r)
  <2> HIDE DEF a
  <2> QED BY <1>1, RunThen
<1> QED BY <1>2, <1>3, <1>4, <1>5 DEF q, r

LEMMA RecurrentHalfDoes ==
    ASSUME NEW j, IsJob(j), ~IsFullAttention(j.l), NEW m, IsMemory(m),
           NEW formats \in FormatRecord, NEW in \in Streams,
           NEW head, IsProgram(head), Prepared(Run(m, j.n, j.l, head), m, j, in),
           NEW scan, scan = Scan \/ (j.n = 1 /\ scan = <<RecurrentCore>>),
           m.past = Value("past", j.l, Upto(j, 0)), m.state = Value("state", j.l, Upto(j, 0)),
           NEW launch, Positioned(m, j, launch),
           NEW x, x = Run(m, j.n, j.l, RecurrentHalf(head, formats, launch, scan))
    PROVE  /\ Scanned(x, m, j, in) /\ Holds(x, j, "projected", "projected")
           /\ IsProgram(RecurrentHalf(head, formats, launch, scan))
<1> DEFINE n == j.n
           l == j.l
           q == QkvAndGate(formats)
           o == SsmOut
           a == Run(m, n, l, head)
           b == Run(a, n, l, q)
           c == Run(b, n, l, Walk(launch))
           d == Run(c, n, l, scan)
           e == Run(d, n, l, o)
<1>1. RecurrentHalf(head, formats, launch, scan)
          = (((head \o q) \o <<launch>> \o NormalizeHeads) \o scan) \o o
  BY DEF RecurrentHalf
<1>2. /\ IsMemory(a) /\ Holds(a, j, in, "input") /\ Holds(a, j, "normalized", "normalized")
      /\ Holds(a, j, "beta", "beta") /\ Holds(a, j, "decay", "decay") /\ Stays(a, m)
  BY DEF Prepared
<1> HIDE DEF a
<1>3. /\ IsMemory(b) /\ Holds(b, j, in, "input") /\ Stays(b, a)
      /\ Holds(b, j, "beta", "beta") /\ Holds(b, j, "decay", "decay")
      /\ Holds(b, j, "qkv", "qkv") /\ Holds(b, j, "gate", "gate") /\ IsProgram(q)
  BY <1>2, QkvAndGateDo
<1> HIDE DEF b, q
<1>4. b.past = Value("past", j.l, Upto(j, 0)) /\ b.state = Value("state", j.l, Upto(j, 0))
  BY <1>2, <1>3 DEF Stays, SameStates
<1>5. /\ IsMemory(c) /\ Holds(c, j, in, "input") /\ Holds(c, j, "gate", "gate")
      /\ Holds(c, j, "beta", "beta") /\ Holds(c, j, "decay", "decay")
      /\ Holds(c, j, "query", "query") /\ Holds(c, j, "key", "key")
      /\ Holds(c, j, "value", "value") /\ c.past = Value("past", j.l, j.s)
      /\ c.kv = b.kv /\ c.state = b.state /\ SameRecords(c, b)
  <2>1. SameRecords(b, m)
    BY <1>2, <1>3 DEF Stays, SameRecords
  <2>2. Positioned(b, j, launch)
    BY <2>1 DEF Positioned, BaseOf, SameRecords
  <2> QED BY <1>3, <1>4, <2>2, WalkDoes
<1> HIDE DEF c
<1>6. /\ Scanned(d, c, j, in) /\ Holds(d, j, "gatedOutput", "gatedOutput")
      /\ IsProgram(scan)
  <2>1. c.state = Value("state", j.l, Upto(j, 0))
    BY <1>4, <1>5
  <2>2. CASE scan = Scan
    <3>1. d = Run(c, j.n, j.l, Scan)
      BY <2>2
    <3> HIDE DEF d
    <3> QED BY <1>5, <2>1, <2>2, <3>1, ScanDoes
  <2>3. CASE j.n = 1 /\ scan = <<RecurrentCore>>
    <3>1. d = Run(c, j.n, j.l, <<RecurrentCore>>) /\ j.n = 1
      BY <2>3
    <3> HIDE DEF d
    <3>2. /\ Scanned(d, c, j, in) /\ Holds(d, j, "gatedOutput", "gatedOutput")
          /\ IsProgram(<<RecurrentCore>>)
      BY <1>5, <2>1, <3>1, CoreDoes
    <3> QED BY <2>3, <3>2
  <2> QED BY <2>2, <2>3
<1> HIDE DEF d
<1>7. /\ IsMemory(e) /\ Holds(e, j, in, "input") /\ Holds(e, j, "projected", "projected")
      /\ Stays(e, d) /\ IsProgram(o)
  BY <1>6, SsmOutDoes DEF Scanned
<1> HIDE DEF e, o, n, l
<1>8. IsProgram(head \o q) /\ Run(m, n, l, head \o q) = b
  BY <1>3, RunThen DEF a, b
<1> DEFINE r == (head \o q) \o <<launch>> \o NormalizeHeads
<1>9. IsProgram(r) /\ Run(m, n, l, r) = c
  <2>1. /\ IsProgram((head \o q) \o <<launch>> \o NormalizeHeads)
        /\ Run(m, n, l, (head \o q) \o <<launch>> \o NormalizeHeads)
               = Run(Run(m, n, l, head \o q), n, l, Walk(launch))
    BY <1>8, RunWalk
  <2> QED BY <1>8, <2>1 DEF c
<1> HIDE DEF r
<1>10. IsProgram(r \o scan) /\ Run(m, n, l, r \o scan) = d
  BY <1>6, <1>9, RunThen DEF d
<1>11. IsProgram((r \o scan) \o o) /\ Run(m, n, l, (r \o scan) \o o) = e
  BY <1>7, <1>10, RunThen DEF e
<1>12. RecurrentHalf(head, formats, launch, scan) = (r \o scan) \o o
  BY <1>1 DEF r
<1>13. x = e
  BY <1>11, <1>12 DEF n, l
<1> QED
  BY <1>2, <1>3, <1>5, <1>6, <1>7, <1>11, <1>12, <1>13
     DEF Scanned, Stays, SameStates, SameRecords

\* What a recurrent layer does to its memory.
Recurred(x, m, j, out) ==
    /\ IsMemory(x) /\ Holds(x, j, out, "output")
    /\ x.past = Value("past", j.l, j.s) /\ x.state = Value("state", j.l, j.s)
    /\ x.kv = m.kv /\ SameRecords(x, m)

\* PrefillV2RecurrentLayer::forward().
LEMMA RecurrentForwardDoes ==
    ASSUME NEW j, IsJob(j), ~IsFullAttention(j.l), NEW m, IsMemory(m),
           NEW formats \in FormatRecord, NEW in \in Streams, NEW out \in Buffers,
           Holds(m, j, in, "input"),
           m.past = Value("past", j.l, Upto(j, 0)), m.state = Value("state", j.l, Upto(j, 0)),
           NEW source, NEW ring, Positioned(m, j, Conv(source, ring)),
           NEW x, x = Run(m, j.n, j.l, RecurrentForward(in, out, source, ring, formats))
    PROVE  Recurred(x, m, j, out)
<1> DEFINE head == TileParameters(in)
           p == RecurrentHalf(head, formats, Conv(source, ring), Scan)
           q == TileFeedForward(in, out, formats)
           a == Run(m, j.n, j.l, p)
           b == Run(a, j.n, j.l, q)
<1>1. RecurrentForward(in, out, source, ring, formats) = p \o q
  BY DEF RecurrentForward, RecurrentHalf, TileParameters, Scan
<1>2. IsProgram(head) /\ Prepared(Run(m, j.n, j.l, head), m, j, in)
  BY TileParametersDo
<1> HIDE DEF head
<1>3. Scanned(a, m, j, in) /\ Holds(a, j, "projected", "projected") /\ IsProgram(p)
  BY <1>2, RecurrentHalfDoes
<1> HIDE DEF a, p
<1>4. IsMemory(b) /\ Holds(b, j, out, "output") /\ Stays(b, a) /\ IsProgram(q)
  BY <1>3, TileFeedForwardDoes DEF Scanned
<1> HIDE DEF b, q
<1>5. x = b
  <2>1. Run(m, j.n, j.l, p \o q) = Run(Run(m, j.n, j.l, p), j.n, j.l, q)
    BY <1>3, <1>4, RunThen
  <2> QED BY <1>1, <2>1 DEF a, b
<1> QED BY <1>3, <1>4, <1>5 DEF Recurred, Scanned, Stays, SameStates, SameRecords

\* PrefillV2RecurrentLayer::decode().
LEMMA RecurrentDecodeDoes ==
    ASSUME NEW j, IsJob(j), ~IsFullAttention(j.l), j.n = 1, NEW m, IsMemory(m),
           NEW formats \in FormatRecord, NEW in \in Streams, NEW out \in Buffers,
           Holds(m, j, in, "input"),
           m.past = Value("past", j.l, Upto(j, 0)), m.state = Value("state", j.l, Upto(j, 0)),
           NEW source, NEW ring, Positioned(m, j, Conv(source, ring)),
           NEW x, x = Run(m, j.n, j.l, RecurrentDecode(in, out, source, ring, formats))
    PROVE  Recurred(x, m, j, out)
<1> DEFINE head == StepParameters(in)
           p == RecurrentHalf(head, formats, Conv(source, ring), <<RecurrentCore>>)
           q == StepFeedForward(in, out, formats)
           a == Run(m, j.n, j.l, p)
           b == Run(a, j.n, j.l, q)
<1>1. RecurrentDecode(in, out, source, ring, formats) = p \o q
  BY DEF RecurrentDecode, RecurrentHalf, StepParameters
<1>2. IsProgram(head) /\ Prepared(Run(m, j.n, j.l, head), m, j, in)
  BY StepParametersDo
<1> HIDE DEF head
<1>3. Scanned(a, m, j, in) /\ Holds(a, j, "projected", "projected") /\ IsProgram(p)
  BY <1>2, RecurrentHalfDoes
<1> HIDE DEF a, p
<1>4. IsMemory(b) /\ Holds(b, j, out, "output") /\ Stays(b, a) /\ IsProgram(q)
  BY <1>3, StepFeedForwardDoes DEF Scanned
<1> HIDE DEF b, q
<1>5. x = b
  <2>1. Run(m, j.n, j.l, p \o q) = Run(Run(m, j.n, j.l, p), j.n, j.l, q)
    BY <1>3, <1>4, RunThen
  <2> QED BY <1>1, <2>1 DEF a, b
<1> QED BY <1>3, <1>4, <1>5 DEF Recurred, Scanned, Stays, SameStates, SameRecords

-----------------------------------------------------------------------------
(* The layers one after another.                                           *)

\* A tile: the history it ends at, what was there before it and its size.
IsGiven(g) ==
    /\ g.s \in Seq(Token) /\ g.n \in 1 .. Tile /\ g.base \in Nat
    /\ Len(g.s) = g.base + g.n /\ g.base + g.n <= Capacity

\* The tile as layer k meets it.
Given(g, k) == [s |-> g.s, base |-> g.base, n |-> g.n, l |-> k]

\* How the call tells the attention layers where the tile begins.
Told(call, g) ==
    /\ call.formats \in FormatRecord /\ call.count = g.n
    /\ \/ /\ call.kind = "forward" /\ call.source = "host" /\ call.base = g.base
          /\ RingFits(call.ring, g.base)
       \/ call.kind = "forward" /\ call.source = "prefill" /\ call.base = 0
       \/ call.kind = "decode" /\ call.source = "decode" /\ g.n = 1

\* Layers read and write the two buffers in turn.
StreamOf(k) == IF k % 2 = 0 THEN "ping" ELSE "pong"

IsDevice(d) ==
    /\ DOMAIN d = {"ws", "affine", "kv", "past", "state", "prefill", "decode"}
    /\ DOMAIN d.ws = Buffers /\ DOMAIN d.kv = 0 .. Blocks - 1
    /\ DOMAIN d.past = RecurrentLayers /\ DOMAIN d.state = RecurrentLayers

\* How many tokens layer l has been given when layer k comes next.
Got(g, l, k) == IF l < k THEN g.base + g.n ELSE g.base

CachesAre(d, g, k) ==
    \A b \in 0 .. Blocks - 1 :
        Len(d.kv[b]) = Capacity /\ RowsAre(d.kv[b], b * 4 + 3, g.s, Got(g, b * 4 + 3, k))

StatesAre(d, g, k) ==
    \A l \in RecurrentLayers :
        /\ d.past[l] = Value("past", l, SubSeq(g.s, 1, Got(g, l, k)))
        /\ d.state[l] = Value("state", l, SubSeq(g.s, 1, Got(g, l, k)))

\* The layers before k have run on the tile, those from k on have not.
Reached(d, g, k) ==
    /\ IsDevice(d) /\ d.prefill = g.base /\ d.decode = g.base
    /\ Holds(d, Given(g, k), StreamOf(k), "input")
    /\ CachesAre(d, g, k) /\ StatesAre(d, g, k)

LEMMA LayersAre ==
    ASSUME LayersPerBlock = 4
    PROVE  /\ Layers = 0 .. Blocks * 4 - 1 /\ Blocks \in Nat \ {0}
           /\ \A l : IsFullAttention(l) <=> l % 4 = 3
           /\ \A l : l \in RecurrentLayers <=> l \in Layers /\ l % 4 # 3
           /\ \A l \in Layers : l \div 4 \in 0 .. Blocks - 1 /\ l \in Nat
           /\ ~IsFullAttention(0)
<1>1. /\ Layers = 0 .. Blocks * 4 - 1 /\ Blocks \in Nat \ {0}
  BY QuantitiesAssumption DEF Layers
<1>2. \A l : IsFullAttention(l) <=> l % 4 = 3
  BY DEF IsFullAttention
<1>3. ~IsFullAttention(0)
  BY <1>2
<1>4. \A l \in Layers : l \div 4 \in 0 .. Blocks - 1 /\ l \in Nat
  BY <1>1
<1> QED BY <1>1, <1>2, <1>3, <1>4 DEF RecurrentLayers

LEMMA GivenIs ==
    ASSUME LayersPerBlock = 4, NEW g, IsGiven(g), NEW k \in Layers
    PROVE  /\ IsJob(Given(g, k)) /\ Given(g, k).l = k /\ Given(g, k).n = g.n
           /\ Given(g, k).s = g.s /\ Given(g, k).base = g.base
BY LayersAre DEF Given, IsGiven, IsJob

\* The output of a layer is the input of the next.
LEMMA HandedOn ==
    ASSUME LayersPerBlock = 4, NEW g, IsGiven(g), NEW k \in Layers, NEW m, NEW d, d.ws = m.ws,
           NEW b, Holds(m, Given(g, k), b, "output")
    PROVE  Holds(d, Given(g, k + 1), b, "input")
<1>1. /\ Given(g, k).n = g.n /\ Given(g, k).l = k
      /\ Given(g, k + 1).n = g.n /\ Given(g, k + 1).l = k + 1
      /\ \A t : Upto(Given(g, k), t) = Upto(Given(g, k + 1), t)
  BY DEF Given, Upto
<1>2. k + 1 # 0 /\ (k + 1) - 1 = k
  BY LayersAre
<1>3. \A h : Named("output", k, h) = Named("input", k + 1, h)
  <2>1. "output" # "input" /\ "output" \notin OneToken /\ "output" \notin {"past", "state"}
    BY DEF OneToken
  <2>2. \A h : Named("output", k, h) = Value("output", k, h)
    BY <2>1 DEF Named
  <2>3. \A h : Named("input", k + 1, h) = Value("output", k, h)
    <3> DEFINE i == k + 1
    <3>1. i # 0 /\ i - 1 = k
      BY <1>2
    <3> HIDE DEF i
    <3>2. \A h : Named("input", i, h) = Value("output", k, h)
      BY <3>1 DEF Named
    <3> QED BY <3>2 DEF i
  <2> QED BY <2>2, <2>3
<1> QED BY <1>1, <1>3 DEF Holds

LEMMA UpdatedIs ==
    ASSUME LayersPerBlock = 4, NEW d, IsDevice(d), NEW k \in Layers, NEW m, IsMemory(m),
           NEW x, x = Updated(d, k, m)
    PROVE  /\ IsDevice(x) /\ x.ws = m.ws /\ x.prefill = d.prefill /\ x.decode = d.decode
           /\ x.kv = [d.kv EXCEPT ![k \div 4] = m.kv]
           /\ IF k \in RecurrentLayers
              THEN /\ x.past = [d.past EXCEPT ![k] = m.past]
                   /\ x.state = [d.state EXCEPT ![k] = m.state]
              ELSE x.past = d.past /\ x.state = d.state
<1>1. k \div LayersPerBlock \in 0 .. Blocks - 1 /\ k \div LayersPerBlock = k \div 4
  BY LayersAre
<1> DEFINE past == IF k \in RecurrentLayers THEN [d.past EXCEPT ![k] = m.past] ELSE d.past
           state == IF k \in RecurrentLayers THEN [d.state EXCEPT ![k] = m.state] ELSE d.state
<1>2. /\ DOMAIN x = DOMAIN d /\ x.ws = m.ws /\ x.prefill = d.prefill /\ x.decode = d.decode
      /\ x.kv = [d.kv EXCEPT ![k \div LayersPerBlock] = m.kv]
      /\ x.past = past /\ x.state = state
  BY DEF Updated, IsDevice
<1>3. IsDevice(x)
  BY <1>1, <1>2 DEF IsDevice, IsMemory
<1> QED BY <1>1, <1>2, <1>3

LEMMA MemoryIs ==
    ASSUME LayersPerBlock = 4, NEW d, IsDevice(d), NEW k \in Layers,
           NEW m, m = MemoryOf(d, k)
    PROVE  /\ IsMemory(m) /\ m.ws = d.ws /\ m.kv = d.kv[k \div 4]
           /\ m.prefill = d.prefill /\ m.decode = d.decode
           /\ k \in RecurrentLayers => m.past = d.past[k] /\ m.state = d.state[k]
BY DEF MemoryOf, IsMemory, IsDevice

\* A full-attention layer.
LEMMA AttentionReaches ==
    ASSUME LayersPerBlock = 4, NEW g, IsGiven(g), NEW k \in Layers, IsFullAttention(k),
           NEW d, Reached(d, g, k), NEW call, Told(call, g),
           NEW x, x = RunLayer(d, g.n, k, AttentionProgram(call, StreamOf(k), StreamOf(k + 1)))
    PROVE  Reached(x, g, k + 1)
<1> DEFINE j == Given(g, k)
           m == MemoryOf(d, k)
           in == StreamOf(k)
           out == StreamOf(k + 1)
           y == Run(m, j.n, j.l, AttentionProgram(call, in, out))
<1>1. /\ IsJob(j) /\ j.l = k /\ j.n = g.n /\ j.s = g.s /\ j.base = g.base
      /\ j.base + j.n <= Capacity /\ IsFullAttention(j.l)
  BY GivenIs DEF IsGiven
<1>2. x = Updated(d, k, y)
  BY <1>1 DEF RunLayer
<1>3. in \in Streams /\ out \in Buffers
  BY BufferNames DEF StreamOf, Streams
<1>4. /\ IsMemory(m) /\ m.ws = d.ws /\ m.kv = d.kv[k \div 4]
      /\ m.prefill = g.base /\ m.decode = g.base
  BY MemoryIs DEF Reached
<1> HIDE DEF m
<1>5. Holds(m, j, in, "input")
  BY <1>4 DEF Reached, Holds
<1>6. /\ k \div 4 \in 0 .. Blocks - 1 /\ (k \div 4) * 4 + 3 = k /\ k \notin RecurrentLayers
      /\ k \in Nat
  BY LayersAre
<1>7. RowsAre(m.kv, j.l, j.s, j.base)
  <2>1. RowsAre(d.kv[k \div 4], (k \div 4) * 4 + 3, g.s, Got(g, (k \div 4) * 4 + 3, k))
    BY <1>6 DEF Reached, CachesAre
  <2>2. Got(g, k, k) = g.base
    BY <1>6 DEF Got
  <2> QED BY <1>1, <1>4, <1>6, <2>1, <2>2
<1> HIDE DEF j, in, out
<1>8. Attended(y, m, j, out)
  <2>1. CASE call.kind = "forward"
    <3>1. /\ call.source \in {"host", "prefill"} /\ Knows(m, j, call.source, call.base)
          /\ call.source = "prefill" => call.base = 0
          /\ call.formats \in FormatRecord /\ call.count \in Nat
      BY <1>1, <1>4, <2>1 DEF Told, Knows, IsJob
    <3>2. y = Run(m, j.n, j.l, AttentionForward(in, out, call.source, call.base, call.count,
                                                call.formats, call.opted))
      BY <2>1 DEF AttentionProgram
    <3> HIDE DEF y
    <3> QED BY <1>1, <1>3, <1>4, <1>5, <1>7, <3>1, <3>2, AttentionForwardDoes
  <2>2. CASE call.kind = "decode"
    <3>1. /\ Knows(m, j, "decode", call.base) /\ call.source = "decode"
          /\ call.formats \in FormatRecord /\ j.n = 1
      BY <1>1, <1>4, <2>2 DEF Told, Knows
    <3>2. y = Run(m, j.n, j.l, AttentionDecode(in, out, "decode", call.base, call.formats))
      BY <2>2, <3>1 DEF AttentionProgram
    <3> HIDE DEF y
    <3> QED BY <1>1, <1>3, <1>4, <1>5, <1>7, <3>1, <3>2, AttentionDecodeDoes
  <2> QED BY <2>1, <2>2 DEF Told
<1> HIDE DEF y
<1>9. /\ IsMemory(y) /\ Holds(y, j, out, "output")
      /\ RowsAre(y.kv, k, g.s, g.base + g.n) /\ Len(y.kv) = Capacity
  BY <1>1, <1>8 DEF Attended
<1>10. IsDevice(d)
  BY DEF Reached
<1>11. /\ IsDevice(x) /\ x.ws = y.ws /\ x.prefill = d.prefill /\ x.decode = d.decode
       /\ x.kv = [d.kv EXCEPT ![k \div 4] = y.kv]
       /\ x.past = d.past /\ x.state = d.state
  <2>1. /\ IsDevice(x) /\ x.ws = y.ws /\ x.prefill = d.prefill /\ x.decode = d.decode
        /\ x.kv = [d.kv EXCEPT ![k \div 4] = y.kv]
        /\ IF k \in RecurrentLayers
           THEN /\ x.past = [d.past EXCEPT ![k] = y.past]
                /\ x.state = [d.state EXCEPT ![k] = y.state]
           ELSE x.past = d.past /\ x.state = d.state
    BY <1>2, <1>9, <1>10, UpdatedIs
  <2> QED BY <1>6, <2>1
<1>12. Holds(x, Given(g, k + 1), out, "input")
  BY <1>9, <1>11, HandedOn DEF j
<1>13. CachesAre(x, g, k + 1)
  <2> SUFFICES ASSUME NEW b \in 0 .. Blocks - 1
               PROVE  /\ Len(x.kv[b]) = Capacity
                      /\ RowsAre(x.kv[b], b * 4 + 3, g.s, Got(g, b * 4 + 3, k + 1))
    BY DEF CachesAre
  <2>1. CASE b = k \div 4
    <3>1. x.kv[b] = y.kv
      BY <1>10, <1>11, <2>1 DEF IsDevice
    <3>2. b * 4 + 3 = k /\ Got(g, k, k + 1) = g.base + g.n
      BY <1>6, <2>1 DEF Got
    <3> QED BY <1>9, <3>1, <3>2
  <2>2. CASE b # k \div 4
    <3>1. x.kv[b] = d.kv[b]
      BY <1>10, <1>11, <2>2 DEF IsDevice
    <3>2. Got(g, b * 4 + 3, k + 1) = Got(g, b * 4 + 3, k)
      BY <1>6, <2>2 DEF Got
    <3> QED BY <3>1, <3>2 DEF Reached, CachesAre
  <2> QED BY <2>1, <2>2
<1>14. StatesAre(x, g, k + 1)
  <2> SUFFICES ASSUME NEW l \in RecurrentLayers
               PROVE  /\ x.past[l] = Value("past", l, SubSeq(g.s, 1, Got(g, l, k + 1)))
                      /\ x.state[l] = Value("state", l, SubSeq(g.s, 1, Got(g, l, k + 1)))
    BY DEF StatesAre
  <2>1. l # k /\ l \in Nat
    BY <1>6, LayersAre
  <2>2. Got(g, l, k + 1) = Got(g, l, k)
    BY <1>6, <2>1 DEF Got
  <2> QED BY <1>11, <2>2 DEF Reached, StatesAre
<1> QED BY <1>11, <1>12, <1>13, <1>14 DEF Reached, out

\* A recurrent layer.
LEMMA RecurrentReaches ==
    ASSUME LayersPerBlock = 4, NEW g, IsGiven(g), NEW k \in Layers, ~IsFullAttention(k),
           NEW d, Reached(d, g, k), NEW call, Told(call, g),
           NEW x, x = RunLayer(d, g.n, k, RecurrentProgram(call, StreamOf(k), StreamOf(k + 1)))
    PROVE  Reached(x, g, k + 1)
<1> DEFINE j == Given(g, k)
           m == MemoryOf(d, k)
           in == StreamOf(k)
           out == StreamOf(k + 1)
           y == Run(m, j.n, j.l, RecurrentProgram(call, in, out))
<1>1. /\ IsJob(j) /\ j.l = k /\ j.n = g.n /\ j.s = g.s /\ j.base = g.base
      /\ ~IsFullAttention(j.l)
  BY GivenIs
<1>2. x = Updated(d, k, y)
  BY <1>1 DEF RunLayer
<1>3. in \in Streams /\ out \in Buffers
  BY BufferNames DEF StreamOf, Streams
<1>4. k \div 4 \in 0 .. Blocks - 1 /\ k \in RecurrentLayers /\ k \in Nat
  BY LayersAre
<1>5. /\ IsMemory(m) /\ m.ws = d.ws /\ m.kv = d.kv[k \div 4]
      /\ m.past = d.past[k] /\ m.state = d.state[k]
      /\ m.prefill = g.base /\ m.decode = g.base
  BY <1>4, MemoryIs DEF Reached
<1> HIDE DEF m
<1>6. Holds(m, j, in, "input")
  BY <1>5 DEF Reached, Holds
<1>7. m.past = Value("past", j.l, Upto(j, 0)) /\ m.state = Value("state", j.l, Upto(j, 0))
  <2>1. Got(g, k, k) = g.base /\ g.base + 0 = g.base
    BY <1>4 DEF Got, IsGiven
  <2> QED BY <1>1, <1>4, <1>5, <2>1 DEF Reached, StatesAre, Upto
<1>7a. Positioned(m, j, Conv(call.source, call.ring))
  <2> DEFINE c == Conv(call.source, call.ring)
  <2>1. c = Conv(c.source, c.base) /\ c.source = call.source /\ c.base = call.ring
    BY DEF Conv
  <2>2. g.base \in Nat /\ RingFits(g.base, g.base)
    BY DEF IsGiven, RingFits
  <2> HIDE DEF c
  <2>3. RingFits(BaseOf(m, c), g.base)
    BY <1>5, <2>1, <2>2 DEF BaseOf, Told
  <2> QED BY <1>1, <2>1, <2>3 DEF Positioned, c
<1> HIDE DEF j, in, out
<1>8. Recurred(y, m, j, out)
  <2>0. call.formats \in FormatRecord
    BY DEF Told
  <2>1. CASE call.kind = "forward"
    <3>1. y = Run(m, j.n, j.l,
                  RecurrentForward(in, out, call.source, call.ring, call.formats))
      BY <2>1 DEF RecurrentProgram
    <3> HIDE DEF y
    <3> QED BY <1>7a, <1>1, <1>3, <1>5, <1>6, <1>7, <2>0, <3>1, RecurrentForwardDoes
  <2>2. CASE call.kind = "decode"
    <3>1. y = Run(m, j.n, j.l,
                  RecurrentDecode(in, out, call.source, call.ring, call.formats))
      BY <2>2 DEF RecurrentProgram
    <3>2. j.n = 1
      BY <1>1, <2>2 DEF Told
    <3> HIDE DEF y
    <3> QED BY <1>7a, <1>1, <1>3, <1>5, <1>6, <1>7, <2>0, <3>1, <3>2, RecurrentDecodeDoes
  <2> QED BY <2>1, <2>2 DEF Told
<1> HIDE DEF y
<1>9. /\ IsMemory(y) /\ Holds(y, j, out, "output")
      /\ y.past = Value("past", k, g.s) /\ y.state = Value("state", k, g.s)
      /\ y.kv = d.kv[k \div 4]
  BY <1>1, <1>5, <1>8 DEF Recurred
<1>10. IsDevice(d)
  BY DEF Reached
<1>11. /\ IsDevice(x) /\ x.ws = y.ws /\ x.prefill = d.prefill /\ x.decode = d.decode
       /\ x.kv = [d.kv EXCEPT ![k \div 4] = y.kv]
       /\ x.past = [d.past EXCEPT ![k] = y.past]
       /\ x.state = [d.state EXCEPT ![k] = y.state]
  BY <1>2, <1>4, <1>9, <1>10, UpdatedIs
<1>12. Holds(x, Given(g, k + 1), out, "input")
  BY <1>9, <1>11, HandedOn DEF j
<1>13. CachesAre(x, g, k + 1)
  <2> SUFFICES ASSUME NEW b \in 0 .. Blocks - 1
               PROVE  /\ Len(x.kv[b]) = Capacity
                      /\ RowsAre(x.kv[b], b * 4 + 3, g.s, Got(g, b * 4 + 3, k + 1))
    BY DEF CachesAre
  <2>1. x.kv[b] = d.kv[b]
    BY <1>9, <1>10, <1>11 DEF IsDevice
  <2>2. k # b * 4 + 3
    BY LayersAre
  <2>3. Got(g, b * 4 + 3, k + 1) = Got(g, b * 4 + 3, k)
    BY <1>4, <2>2 DEF Got
  <2> QED BY <2>1, <2>3 DEF Reached, CachesAre
<1>14. StatesAre(x, g, k + 1)
  <2> SUFFICES ASSUME NEW l \in RecurrentLayers
               PROVE  /\ x.past[l] = Value("past", l, SubSeq(g.s, 1, Got(g, l, k + 1)))
                      /\ x.state[l] = Value("state", l, SubSeq(g.s, 1, Got(g, l, k + 1)))
    BY DEF StatesAre
  <2>1. CASE l = k
    <3>1. Got(g, k, k + 1) = g.base + g.n
      BY <1>4 DEF Got
    <3>2. SubSeq(g.s, 1, g.base + g.n) = g.s
      BY SubSeqFull DEF IsGiven
    <3>3. x.past[l] = y.past /\ x.state[l] = y.state
      BY <1>10, <1>11, <2>1 DEF IsDevice
    <3> QED BY <1>9, <2>1, <3>1, <3>2, <3>3
  <2>2. CASE l # k
    <3>1. l \in Nat
      BY LayersAre
    <3>2. Got(g, l, k + 1) = Got(g, l, k)
      BY <1>4, <2>2, <3>1 DEF Got
    <3>3. x.past[l] = d.past[l] /\ x.state[l] = d.state[l]
      BY <1>10, <1>11, <2>2 DEF IsDevice
    <3> QED BY <3>2, <3>3 DEF Reached, StatesAre
  <2> QED BY <2>1, <2>2
<1> QED BY <1>11, <1>12, <1>13, <1>14 DEF Reached, out

-----------------------------------------------------------------------------
(* The blocks.                                                             *)

\* Layer k of the model is layer k - 4b of its block b.
LEMMA PlaceOf ==
    ASSUME LayersPerBlock = 4, NEW b \in 0 .. Blocks - 1, NEW i \in 0 .. 3
    PROVE  /\ b * LayersPerBlock + i \in Layers
           /\ b * LayersPerBlock + i = b * 4 + i
           /\ IsFullAttention(b * LayersPerBlock + i) <=> i = 3
           /\ InOut(i)[1] = StreamOf(b * LayersPerBlock + i)
           /\ InOut(i)[2] = StreamOf(b * LayersPerBlock + i + 1)
<1> DEFINE k == b * 4 + i
<1>1. b * LayersPerBlock + i = k /\ Blocks \in Nat
  BY QuantitiesAssumption
<1>2. k \in 0 .. Blocks * 4 - 1 /\ k % 4 = i /\ (k % 2) = (i % 2) /\ ((k + 1) % 2) = 1 - (i % 2)
  BY QuantitiesAssumption
<1>3. k \in Layers /\ (IsFullAttention(k) <=> i = 3)
  BY <1>2, LayersAre
<1> HIDE DEF k
<1>4. InOut(i)[1] = StreamOf(k) /\ InOut(i)[2] = StreamOf(k + 1)
  <2>1. i % 2 = 0 \/ i % 2 = 1
    OBVIOUS
  <2> QED BY <1>2, <2>1 DEF InOut, StreamOf
<1> QED BY <1>1, <1>3, <1>4 DEF k

LEMMA LayerReaches ==
    ASSUME LayersPerBlock = 4, NEW g, IsGiven(g), NEW b \in 0 .. Blocks - 1, NEW i \in 0 .. 3,
           NEW d, Reached(d, g, b * 4 + i), NEW call, Told(call, g),
           NEW x, x = RunLayer(d, call.count, b * LayersPerBlock + i, ProgramOf(call, i))
    PROVE  Reached(x, g, b * 4 + i + 1)
<1> DEFINE k == b * 4 + i
<1>1. /\ k \in Layers /\ b * LayersPerBlock + i = k /\ (IsFullAttention(k) <=> i = 3)
      /\ InOut(i)[1] = StreamOf(k) /\ InOut(i)[2] = StreamOf(k + 1)
  BY PlaceOf
<1>2. call.count = g.n /\ Reached(d, g, k)
  BY DEF Told
<1> HIDE DEF k
<1>3. CASE i = 3
  <2>1. x = RunLayer(d, g.n, k, AttentionProgram(call, StreamOf(k), StreamOf(k + 1)))
    BY <1>1, <1>2, <1>3 DEF ProgramOf
  <2>2. IsFullAttention(k)
    BY <1>1, <1>3
  <2>3. Reached(x, g, k + 1)
    BY <1>1, <1>2, <2>1, <2>2, AttentionReaches
  <2> QED BY <2>3 DEF k
<1>4. CASE i # 3
  <2>1. x = RunLayer(d, g.n, k, RecurrentProgram(call, StreamOf(k), StreamOf(k + 1)))
    BY <1>1, <1>2, <1>4 DEF ProgramOf
  <2>2. ~IsFullAttention(k)
    BY <1>1, <1>4
  <2>3. Reached(x, g, k + 1)
    BY <1>1, <1>2, <2>1, <2>2, RecurrentReaches
  <2> QED BY <2>3 DEF k
<1> QED BY <1>3, <1>4

\* The devices between the layers of a block.
LayerWalks(f, d, b, call, k) ==
    f = [i \in 0 .. k |->
            IF i = 0 THEN d
            ELSE RunLayer(f[i - 1], call.count, b * LayersPerBlock + i - 1, ProgramOf(call, i - 1))]

LEMMA LayerWalkExists ==
    ASSUME NEW d, NEW b, NEW call, NEW k \in Nat
    PROVE  \E f : LayerWalks(f, d, b, call, k)
<1> DEFINE Next(x, i) ==
               RunLayer(x, call.count, b * LayersPerBlock + i - 1, ProgramOf(call, i - 1))
           T == {i \in Nat : \E f : LayerWalks(f, d, b, call, i)}
<1>1. 0 \in T
  <2> DEFINE f == [i \in 0 .. 0 |-> d]
  <2>1. LayerWalks(f, d, b, call, 0)
    BY DEF LayerWalks
  <2> QED BY <2>1
<1>2. ASSUME NEW i \in 1 .. k, i - 1 \in T
      PROVE  i \in T
  <2>1. PICK f : LayerWalks(f, d, b, call, i - 1)
    BY <1>2
  <2> DEFINE h == [c \in 0 .. i |-> IF c = i THEN Next(f[i - 1], i) ELSE f[c]]
  <2>2. f[0] = d /\ \A c \in 1 .. i - 1 : f[c] = Next(f[c - 1], c)
    BY <2>1 DEF LayerWalks
  <2> HIDE DEF Next
  <2>3. ASSUME NEW c \in 0 .. i
        PROVE  h[c] = IF c = 0 THEN d ELSE Next(h[c - 1], c)
    <3>1. CASE c = 0
      BY <2>2, <3>1
    <3>2. CASE c = i
      <4>1. h[c] = Next(f[i - 1], i) /\ c # 0 /\ h[c - 1] = f[i - 1]
        BY <3>2
      <4> QED BY <3>2, <4>1
    <3>3. CASE c # 0 /\ c # i
      <4>1. c \in 1 .. i - 1 /\ h[c] = f[c] /\ h[c - 1] = f[c - 1]
        BY <3>3
      <4> QED BY <2>2, <3>3, <4>1
    <3> QED BY <3>1, <3>2, <3>3
  <2>4. h = [c \in 0 .. i |-> h[c]]
    OBVIOUS
  <2> HIDE DEF h
  <2>5. [c \in 0 .. i |-> h[c]] = [c \in 0 .. i |-> IF c = 0 THEN d ELSE Next(h[c - 1], c)]
    BY <2>3
  <2>6. LayerWalks(h, d, b, call, i)
    BY <2>4, <2>5 DEF LayerWalks, Next
  <2> QED BY <2>6
<1> HIDE DEF T
<1>3. 0 .. k \subseteq T
  <2>1. T \in SUBSET Nat
    BY DEF T
  <2> QED BY <1>1, <1>2, <2>1, EachTurn
<1> QED BY <1>3 DEF T

\* PrefillV2TopologyBlock::forward() and decode().
LEMMA BlockReaches ==
    ASSUME LayersPerBlock = 4, NEW g, IsGiven(g), NEW b \in 0 .. Blocks - 1,
           NEW d, Reached(d, g, b * 4), NEW call, Told(call, g),
           NEW x, x = RunBlock(d, b, call)
    PROVE  Reached(x, g, (b + 1) * 4)
<1> DEFINE f == CHOOSE h : LayerWalks(h, d, b, call, LayersPerBlock)
<1>1. LayerWalks(f, d, b, call, LayersPerBlock)
  BY LayerWalkExists
<1>2. x = f[LayersPerBlock]
  BY DEF RunBlock, LayerWalks
<1> HIDE DEF f
<1>3. f[0] = d /\ \A i \in 1 .. 4 :
          f[i] = RunLayer(f[i - 1], call.count, b * LayersPerBlock + i - 1, ProgramOf(call, i - 1))
  BY <1>1 DEF LayerWalks
<1>4. ASSUME NEW i \in 0 .. 3, Reached(f[i], g, b * 4 + i)
      PROVE  Reached(f[i + 1], g, b * 4 + i + 1)
  <2>1. /\ i + 1 \in 1 .. 4 /\ (i + 1) - 1 = i
        /\ b * LayersPerBlock + (i + 1) - 1 = b * LayersPerBlock + i
    BY QuantitiesAssumption
  <2>2. f[i + 1] = RunLayer(f[i], call.count, b * LayersPerBlock + i, ProgramOf(call, i))
    BY <1>3, <2>1
  <2> QED BY <1>4, <2>2, LayerReaches
<1>5. Reached(f[0], g, b * 4 + 0)
  BY <1>3
<1>6. Reached(f[1], g, b * 4 + 1)
  <2>1. 0 \in 0 .. 3 /\ 0 + 1 = 1 /\ b * 4 + 0 + 1 = b * 4 + 1
    OBVIOUS
  <2>2. Reached(f[0 + 1], g, b * 4 + 0 + 1)
    BY <1>4, <1>5, <2>1
  <2> QED BY <2>1, <2>2
<1>7. Reached(f[2], g, b * 4 + 2)
  <2>1. 1 \in 0 .. 3 /\ 1 + 1 = 2 /\ b * 4 + 1 + 1 = b * 4 + 2
    OBVIOUS
  <2>2. Reached(f[1 + 1], g, b * 4 + 1 + 1)
    BY <1>4, <1>6, <2>1
  <2> QED BY <2>1, <2>2
<1>8. Reached(f[3], g, b * 4 + 3)
  <2>1. 2 \in 0 .. 3 /\ 2 + 1 = 3 /\ b * 4 + 2 + 1 = b * 4 + 3
    OBVIOUS
  <2>2. Reached(f[2 + 1], g, b * 4 + 2 + 1)
    BY <1>4, <1>7, <2>1
  <2> QED BY <2>1, <2>2
<1>9. Reached(f[4], g, (b + 1) * 4)
  <2>1. 3 \in 0 .. 3 /\ 3 + 1 = 4 /\ b * 4 + 3 + 1 = (b + 1) * 4
    OBVIOUS
  <2>2. Reached(f[3 + 1], g, b * 4 + 3 + 1)
    BY <1>4, <1>8, <2>1
  <2> QED BY <2>1, <2>2
<1> QED BY <1>2, <1>9

\* The devices between the blocks.
BlockWalks(f, d, call, k) ==
    f = [b \in 0 .. k |-> IF b = 0 THEN d ELSE RunBlock(f[b - 1], b - 1, call)]

LEMMA BlockWalkExists ==
    ASSUME NEW d, NEW call, NEW k \in Nat
    PROVE  \E f : BlockWalks(f, d, call, k)
<1> DEFINE T == {i \in Nat : \E f : BlockWalks(f, d, call, i)}
<1>1. 0 \in T
  <2> DEFINE f == [i \in 0 .. 0 |-> d]
  <2>1. BlockWalks(f, d, call, 0)
    BY DEF BlockWalks
  <2> QED BY <2>1
<1>2. ASSUME NEW i \in 1 .. k, i - 1 \in T
      PROVE  i \in T
  <2>1. PICK f : BlockWalks(f, d, call, i - 1)
    BY <1>2
  <2> DEFINE h == [c \in 0 .. i |-> IF c = i THEN RunBlock(f[i - 1], i - 1, call) ELSE f[c]]
  <2>2. f[0] = d /\ \A c \in 1 .. i - 1 : f[c] = RunBlock(f[c - 1], c - 1, call)
    BY <2>1 DEF BlockWalks
  <2>3. ASSUME NEW c \in 0 .. i
        PROVE  h[c] = IF c = 0 THEN d ELSE RunBlock(h[c - 1], c - 1, call)
    <3>1. CASE c = 0
      BY <2>2, <3>1
    <3>2. CASE c = i
      <4>1. h[c] = RunBlock(f[i - 1], i - 1, call) /\ c # 0 /\ h[c - 1] = f[i - 1]
        BY <3>2
      <4> QED BY <3>2, <4>1
    <3>3. CASE c # 0 /\ c # i
      <4>1. c \in 1 .. i - 1 /\ h[c] = f[c] /\ h[c - 1] = f[c - 1]
        BY <3>3
      <4> QED BY <2>2, <3>3, <4>1
    <3> QED BY <3>1, <3>2, <3>3
  <2>4. h = [c \in 0 .. i |-> h[c]]
    OBVIOUS
  <2> HIDE DEF h
  <2>5. [c \in 0 .. i |-> h[c]]
            = [c \in 0 .. i |-> IF c = 0 THEN d ELSE RunBlock(h[c - 1], c - 1, call)]
    BY <2>3
  <2>6. BlockWalks(h, d, call, i)
    BY <2>4, <2>5 DEF BlockWalks
  <2> QED BY <2>6
<1> HIDE DEF T
<1>3. 0 .. k \subseteq T
  <2>1. T \in SUBSET Nat
    BY DEF T
  <2> QED BY <1>1, <1>2, <2>1, EachTurn
<1> QED BY <1>3 DEF T

\* All the layers of the model.
LEMMA BlocksReach ==
    ASSUME LayersPerBlock = 4, NEW g, IsGiven(g), NEW d, Reached(d, g, 0),
           NEW call, Told(call, g), NEW x, x = RunBlocks(d, call)
    PROVE  Reached(x, g, Blocks * 4)
<1> DEFINE f == CHOOSE h : BlockWalks(h, d, call, Blocks)
<1>0. Blocks \in Nat
  BY QuantitiesAssumption
<1>1. BlockWalks(f, d, call, Blocks)
  BY <1>0, BlockWalkExists
<1>2. x = f[Blocks]
  BY DEF RunBlocks, BlockWalks
<1> HIDE DEF f
<1>3. f[0] = d /\ \A b \in 1 .. Blocks : f[b] = RunBlock(f[b - 1], b - 1, call)
  BY <1>0, <1>1 DEF BlockWalks
<1> DEFINE T == {b \in Nat : Reached(f[b], g, b * 4)}
<1>4. 0 \in T
  BY <1>3
<1>5. ASSUME NEW b \in 1 .. Blocks, b - 1 \in T
      PROVE  b \in T
  <2>1. b - 1 \in 0 .. Blocks - 1 /\ (b - 1) + 1 = b /\ b \in Nat
    BY <1>0
  <2>2. f[b] = RunBlock(f[b - 1], b - 1, call) /\ Reached(f[b - 1], g, (b - 1) * 4)
    BY <1>3, <1>5
  <2>3. Reached(f[b], g, ((b - 1) + 1) * 4)
    BY <2>1, <2>2, BlockReaches
  <2> QED BY <2>1, <2>3
<1> HIDE DEF T
<1>6. 0 .. Blocks \subseteq T
  <2>1. T \in SUBSET Nat
    BY DEF T
  <2> QED BY <1>0, <1>4, <1>5, <2>1, EachTurn
<1> QED BY <1>0, <1>2, <1>6 DEF T
====
