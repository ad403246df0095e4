------------------------------ MODULE StepProofs ------------------------------
(***************************************************************************)
(* One token through the older engine, for any number of blocks, capacity, *)
(* formats and switches that fit together: from the input of a layer and   *)
(* what the layer has kept of the tokens before, its launches make the     *)
(* named quantities of the reference, whatever the other buffers hold.     *)
(*                                                                         *)
(* A launch is read as a rule: from the facts it needs (a buffer holds a   *)
(* quantity, a copy of it is there in some layout, the rows are there) it  *)
(* makes others, and alters no buffer but its own (Leads).  Rules compose  *)
(* (Then), so each stage of run() is a rule by the switches that select    *)
(* its kernels, the program of a layer is a rule, and run_prefix() hands   *)
(* the output of each to the next.                                         *)
(***************************************************************************)
EXTENDS Engines, LayerProofs

\* The topology of the model and the capacities the assumptions give.
LEMMA FourLayers == LayersPerBlock = 4 /\ Formats \subseteq FormatRecord /\ Capacity \in Nat
BY PrefillModelAssumption, QuantitiesAssumption

LEMMA CapacityNat == OlderCapacity \in Nat /\ OlderCapacity > 0
BY EnginesAssumption

-----------------------------------------------------------------------------
(* The quantities mean the same to both engines.                           *)
LEMMA SameQuantities ==
    /\ Older!Layers = Layers /\ Older!LastLayer = LastLayer
    /\ \A l : Older!IsFullAttention(l) <=> IsFullAttention(l)
    /\ \A what, l, of : Older!Value(what, l, of) = Value(what, l, of)
    /\ \A token : Older!Embedding(token) = Embedding(token)
    /\ Older!Wrong = Wrong
BY DEF Older!Layers, Layers, Older!LastLayer, LastLayer, Older!IsFullAttention, IsFullAttention,
       Older!Value, Value, Older!Embedding, Embedding, Older!Wrong, Wrong

LEMMA SameFormula == \A l : Older!Formula(l) = Formula(l)
BY DEF Older!Formula, Formula, Older!FeedForward, FeedForward, Older!Recurrent, Recurrent,
       Older!Full, Full, Older!IsFullAttention, IsFullAttention

LEMMA SameOperands == \A what, l, h : Older!Operands(what, l, h) = Operands(what, l, h)
<1>1. \A what, l, h : Older!Named(what, l, h) = Named(what, l, h)
  BY SameQuantities DEF Older!Named, Named, Older!OneToken, OneToken, Older!Last, Last,
     Older!Front, Front
<1>2. \A ins, l, h : Older!NamedAll(ins, l, h) = NamedAll(ins, l, h)
  BY <1>1 DEF Older!NamedAll, NamedAll
<1>3. \A l, h : Older!RowsOf(l, h) = RowsOf(l, h)
  BY SameQuantities DEF Older!RowsOf, RowsOf
<1> QED BY <1>2, <1>3, SameFormula DEF Older!Operands, Operands

LEMMA SameCompute == \A what, l, ops : Older!Compute(what, l, ops) = Compute(what, l, ops)
<1>1. \A ops : Older!Histories(ops) = Histories(ops)
  BY DEF Older!Histories, Histories, Older!Last, Last
<1>2. \A what, l, h : Older!Made(what, l, h) = Made(what, l, h)
  BY SameQuantities DEF Older!Made, Made, Older!OneToken, OneToken, Older!Last, Last
<1>3. \A what, l, fits : Older!MadeFrom(what, l, fits) = MadeFrom(what, l, fits)
  BY <1>2, SameQuantities DEF Older!MadeFrom, MadeFrom
<1> QED BY <1>1, <1>3, SameOperands DEF Older!Compute, Compute
-----------------------------------------------------------------------------
(* What a launch of the older engine does to the memory of a layer.        *)

Floats ==
    {"first", "second", "queryNorm", "keyNorm", "nextNormalized", "input",
     "residual", "postNormalized", "ffnGate", "ffnUp", "ffnActivation", "output",
     "normalized", "qkv", "past", "rawQuery", "rawKey", "value", "query", "key", "gate",
     "rawBeta", "rawAlpha", "beta", "decay", "state", "gdnRawOutput", "gatedOutput",
     "projected", "attnQfull", "attnQRope", "attnK", "attnV", "attnGatedOutput"}

Copies == {"q8", "q8_1", "mmq", "mx", "nextQ8"}

LEMMA OlderBuffers == Older!FloatBuffers = Floats /\ Older!CopyBuffers = Copies
<1>1. DOMAIN Older!FeedForward = {"residual", "postNormalized", "ffnGate", "ffnUp",
          "ffnActivation", "ffnDown", "output"}
  BY DEF Older!FeedForward
<1>2. DOMAIN Older!Recurrent = {"normalized", "qkv", "past", "rawQuery", "rawKey", "value",
          "query", "key", "gate", "rawBeta", "rawAlpha", "beta", "decay", "state",
          "gdnRawOutput", "gatedOutput", "projected"}
  BY DEF Older!Recurrent
<1>3. DOMAIN Older!Full = {"normalized", "attnQfull", "attnQRope", "gate", "attnK", "attnV",
          "row", "attnGatedOutput", "projected"}
  BY DEF Older!Full
<1>4. Older!FloatBuffers = Floats
  BY <1>1, <1>2, <1>3 DEF Older!FloatBuffers, Floats
<1> QED BY <1>4 DEF Older!CopyBuffers, Copies

\* The memory of a layer.
IsStore(m) ==
    /\ DOMAIN m = {"at", "copies", "rows"}
    /\ DOMAIN m.at = Floats /\ DOMAIN m.copies = Copies
    /\ DOMAIN m.rows = 1 .. OlderCapacity

AllBuffers == Floats \cup Copies \cup {"rows"}

\* x is m but for the buffers in D.
Alters(x, m, D) ==
    /\ IsStore(x)
    /\ \A b \in Floats \ D : x.at[b] = m.at[b]
    /\ \A c \in Copies \ D : x.copies[c] = m.copies[c]
    /\ "rows" \notin D => x.rows = m.rows

\* x is m with a value written to a float buffer.
Wrote(x, m, out, value) == Alters(x, m, {out}) /\ x.at[out] = value

LEMMA WriteIs ==
    ASSUME NEW m, IsStore(m), NEW out \in Floats, NEW value, NEW x,
           x = Older!Write(m, out, value)
    PROVE  Wrote(x, m, out, value)
BY DEF IsStore, Older!Write, Wrote, Alters

LEMMA ExecCopy ==
    ASSUME NEW m, NEW l, NEW in, NEW out
    PROVE  Older!Exec(m, l, Older!Copy(in, out)) = Older!Write(m, out, m.at[in])
BY DEF Older!Exec, Older!Copy

LEMMA ExecMake ==
    ASSUME NEW m, NEW l, NEW what, NEW ins, NEW out
    PROVE  Older!Exec(m, l, Older!Make(what, ins, out))
           = Older!Write(m, out, Compute(what, l, [i \in DOMAIN ins |-> m.at[ins[i]]]))
BY SameCompute DEF Older!Exec, Older!Make

LEMMA ExecQuantize ==
    ASSUME NEW m, NEW l, NEW in, NEW into, NEW layout
    PROVE  Older!Exec(m, l, Older!Quantize(in, into, layout))
           = [m EXCEPT !.copies =
                 [@ EXCEPT ![into] = [layout |-> layout, of |-> m.at[in]]]]
BY DEF Older!Exec, Older!Quantize

LEMMA ExecProject ==
    ASSUME NEW m, NEW l, NEW what, NEW from, NEW layout, NEW out, NEW value,
           m.copies[from] = [layout |-> layout, of |-> value]
    PROVE  Older!Exec(m, l, Older!Project(what, from, layout, out))
           = Older!Write(m, out, Compute(what, l, <<value>>))
BY SameCompute DEF Older!Exec, Older!Project, Older!Projected

LEMMA ExecTaps ==
    ASSUME NEW m, NEW l, NEW place, Len(m.at["past"].of) = place
    PROVE  Older!Exec(m, l, Older!Taps(place)) = Older!Write(m, "first", m.at["past"])
BY DEF Older!Exec, Older!Taps, Older!TapsAt

LEMMA ExecRotate ==
    ASSUME NEW m, NEW l, NEW in, NEW out, NEW place, Len(m.at[in].of) = place + 1
    PROVE  Older!Exec(m, l, Older!Rotate(in, out, place)) = Older!Write(m, out, m.at[in])
BY DEF Older!Exec, Older!Rotate, Older!Rotated

LEMMA ExecPlace ==
    ASSUME NEW m, NEW l, NEW place, Len(m.at["first"].of) = place + 1
    PROVE  Older!Exec(m, l, Older!Place(place))
           = [m EXCEPT !.rows[place + 1] = m.at["first"]]
BY DEF Older!Exec, Older!Place, Older!Rotated

LEMMA ExecAttend ==
    ASSUME NEW m, NEW l, NEW place
    PROVE  Older!Exec(m, l, Older!Attend(place))
           = Older!Write(m, "attnGatedOutput", Compute("attnGatedOutput", l,
                 <<m.at["attnQRope"], m.at["gate"]>> \o SubSeq(m.rows, 1, place + 1)))
BY SameCompute DEF Older!Exec, Older!Attend, Older!Attended

LEMMA ExecHandOver ==
    ASSUME NEW m, NEW l, NEW quantized
    PROVE  Older!Exec(m, l, Older!HandOver(quantized))
           = LET next == Compute("normalized", l + 1, <<m.at["output"]>>) IN
             [Older!Write(m, "nextNormalized", next) EXCEPT
                 !.copies = IF quantized
                            THEN [@ EXCEPT !["nextQ8"] = [layout |-> "q8_1", of |-> next]] ELSE @]
BY SameCompute DEF Older!Exec, Older!HandOver, Older!HandedOver
-----------------------------------------------------------------------------
(* Programs of the older engine.                                           *)

\* The memories between the launches.
StepWalks(g, m, l, p, k) ==
    g = [i \in 0 .. k |-> IF i = 0 THEN m ELSE Older!Exec(g[i - 1], l, p[i])]

LEMMA StepWalkExists ==
    ASSUME NEW m, NEW l, NEW p, NEW k \in Nat
    PROVE  \E g : StepWalks(g, m, l, p, k)
<1> DEFINE T == {i \in Nat : \E g : StepWalks(g, m, l, p, i)}
<1>1. 0 \in T
  <2> DEFINE g == [i \in 0 .. 0 |-> m]
  <2>1. StepWalks(g, m, l, p, 0)
    BY DEF StepWalks
  <2> QED BY <2>1
<1>2. ASSUME NEW i \in 1 .. k, i - 1 \in T
      PROVE  i \in T
  <2>1. PICK g : StepWalks(g, m, l, p, i - 1)
    BY <1>2
  <2> DEFINE h == [c \in 0 .. i |-> IF c = i THEN Older!Exec(g[i - 1], l, p[i]) ELSE g[c]]
  <2>2. g[0] = m /\ \A c \in 1 .. i - 1 : g[c] = Older!Exec(g[c - 1], l, p[c])
    BY <2>1 DEF StepWalks
  <2>3. ASSUME NEW c \in 0 .. i
        PROVE  h[c] = IF c = 0 THEN m ELSE Older!Exec(h[c - 1], l, p[c])
    <3>1. CASE c = 0
      BY <2>2, <3>1
    <3>2. CASE c = i
      <4>1. h[c] = Older!Exec(g[i - 1], l, p[i]) /\ c # 0 /\ h[c - 1] = g[i - 1]
        BY <3>2
      <4> QED BY <3>2, <4>1
    <3>3. CASE c # 0 /\ c # i
      <4>1. c \in 1 .. i - 1 /\ h[c] = g[c] /\ h[c - 1] = g[c - 1]
        BY <3>3
      <4> QED BY <2>2, <3>3, <4>1
    <3> QED BY <3>1, <3>2, <3>3
  <2>4. h = [c \in 0 .. i |-> h[c]]
    OBVIOUS
  <2> HIDE DEF h
  <2>5. [c \in 0 .. i |-> h[c]]
            = [c \in 0 .. i |-> IF c = 0 THEN m ELSE Older!Exec(h[c - 1], l, p[c])]
    BY <2>3
  <2>6. StepWalks(h, m, l, p, i)
    BY <2>4, <2>5 DEF StepWalks
  <2> QED BY <2>6
<1> HIDE DEF T
<1>3. 0 .. k \subseteq T
  <2>1. T \in SUBSET Nat
    BY DEF T
  <2> QED BY <1>1, <1>2, <2>1, EachTurn
<1> QED BY <1>3 DEF T

\* A program runs launch by launch.
LEMMA StepRunIs ==
    ASSUME NEW m, NEW l, NEW p, Len(p) \in Nat
    PROVE  \E g : /\ g[0] = m
                  /\ \A i \in 1 .. Len(p) : g[i] = Older!Exec(g[i - 1], l, p[i])
                  /\ Older!Run(m, l, p) = g[Len(p)]
<1> DEFINE g == CHOOSE f : StepWalks(f, m, l, p, Len(p))
<1>1. StepWalks(g, m, l, p, Len(p))
  BY StepWalkExists
<1>2. Older!Run(m, l, p) = g[Len(p)]
  BY DEF Older!Run, StepWalks
<1> HIDE DEF g
<1>3. g[0] = m /\ \A i \in 1 .. Len(p) : g[i] = Older!Exec(g[i - 1], l, p[i])
  BY <1>1 DEF StepWalks
<1> QED BY <1>2, <1>3

\* ... in the only way.
LEMMA StepRunReaches ==
    ASSUME NEW m, NEW l, NEW p, Len(p) \in Nat, NEW g, g[0] = m,
           \A i \in 1 .. Len(p) : g[i] = Older!Exec(g[i - 1], l, p[i])
    PROVE  Older!Run(m, l, p) = g[Len(p)]
<1>1. PICK f : /\ f[0] = m
               /\ \A i \in 1 .. Len(p) : f[i] = Older!Exec(f[i - 1], l, p[i])
               /\ Older!Run(m, l, p) = f[Len(p)]
  BY StepRunIs
<1> DEFINE k == Len(p)
<1>2. \A i \in 1 .. k : f[i - 1] = g[i - 1] => f[i] = g[i]
  BY <1>1
<1>4. k \in Nat
  OBVIOUS
<1>5. f[0] = g[0]
  BY <1>1
<1> HIDE DEF k
<1>3. \A i \in 0 .. k : f[i] = g[i]
  BY ONLY <1>2, <1>4, <1>5, SameWalk
<1> QED BY <1>1, <1>3, <1>4 DEF k

\* One program after another.
LEMMA StepRunThen ==
    ASSUME NEW m, NEW l, NEW p, IsProgram(p), NEW q, IsProgram(q)
    PROVE  /\ IsProgram(p \o q)
           /\ Older!Run(m, l, p \o q) = Older!Run(Older!Run(m, l, p), l, q)
<1> DEFINE S == {p[i] : i \in 1 .. Len(p)} \cup {q[i] : i \in 1 .. Len(q)}
           r == p \o q
<1>1. p \in Seq(S) /\ q \in Seq(S)
  <2>1. \A i \in 1 .. Len(p) : p[i] \in S
    OBVIOUS
  <2>2. \A i \in 1 .. Len(q) : q[i] \in S
    OBVIOUS
  <2> HIDE DEF S
  <2>3. p \in [1 .. Len(p) -> S] /\ q \in [1 .. Len(q) -> S] /\ Len(p) \in Nat /\ Len(q) \in Nat
    BY <2>1, <2>2 DEF IsProgram
  <2> QED BY <2>3
<1> HIDE DEF S
<1>2. /\ r \in Seq(S) /\ Len(r) = Len(p) + Len(q)
      /\ \A i \in 1 .. Len(p) + Len(q) : r[i] = IF i <= Len(p) THEN p[i] ELSE q[i - Len(p)]
  BY <1>1, ConcatProperties
<1> HIDE DEF r
<1>3. Len(p) \in Nat /\ Len(q) \in Nat /\ Len(r) \in Nat
  BY <1>1, <1>2
<1>4. IsProgram(r)
  BY <1>2, <1>3 DEF IsProgram
<1>5. PICK g : /\ g[0] = m
               /\ \A i \in 1 .. Len(r) : g[i] = Older!Exec(g[i - 1], l, r[i])
               /\ Older!Run(m, l, r) = g[Len(r)]
  BY <1>3, StepRunIs, SMTT(30)
<1>6. Older!Run(m, l, p) = g[Len(p)]
  <2>1. \A i \in 1 .. Len(p) : g[i] = Older!Exec(g[i - 1], l, p[i])
    BY <1>2, <1>3, <1>5
  <2> QED BY <1>3, <1>5, <2>1, StepRunReaches
<1>7. Older!Run(g[Len(p)], l, q) = g[Len(r)]
  <2> DEFINE h == [i \in 0 .. Len(q) |-> g[Len(p) + i]]
  <2>1. h[0] = g[Len(p)] /\ h[Len(q)] = g[Len(r)]
    BY <1>2, <1>3
  <2>2. ASSUME NEW i \in 1 .. Len(q)
        PROVE  h[i] = Older!Exec(h[i - 1], l, q[i])
    <3>1. /\ h[i] = g[Len(p) + i] /\ h[i - 1] = g[Len(p) + i - 1]
          /\ Len(p) + i \in 1 .. Len(r) /\ ~(Len(p) + i <= Len(p)) /\ Len(p) + i - Len(p) = i
      BY <1>2, <1>3
    <3>2. r[Len(p) + i] = q[i]
      BY <1>2, <3>1
    <3> HIDE DEF h
    <3> QED BY <1>5, <3>1, <3>2
  <2> HIDE DEF h
  <2>3. Older!Run(g[Len(p)], l, q) = h[Len(q)]
    BY <1>3, <2>1, <2>2, StepRunReaches
  <2> QED BY <2>1, <2>3
<1> QED BY <1>4, <1>5, <1>6, <1>7 DEF r

LEMMA StepRunOne ==
    ASSUME NEW m, NEW l, NEW a
    PROVE  /\ IsProgram(<<a>>) /\ Older!Run(m, l, <<a>>) = Older!Exec(m, l, a)
           /\ IsProgram(<<>>) /\ Older!Run(m, l, <<>>) = m
<1> DEFINE p == <<a>>
           none == <<>>
<1>1. Len(p) = 1 /\ p[1] = a /\ Len(none) = 0
  OBVIOUS
<1>2. IsProgram(p) /\ IsProgram(none)
  BY DEF IsProgram
<1> HIDE DEF p, none
<1>3. PICK g : /\ g[0] = m
               /\ \A i \in 1 .. Len(p) : g[i] = Older!Exec(g[i - 1], l, p[i])
               /\ Older!Run(m, l, p) = g[Len(p)]
  BY <1>1, StepRunIs
<1>4. PICK f : /\ f[0] = m
               /\ \A i \in 1 .. Len(none) : f[i] = Older!Exec(f[i - 1], l, none[i])
               /\ Older!Run(m, l, none) = f[Len(none)]
  BY <1>1, StepRunIs
<1>5. g[1] = Older!Exec(g[0], l, p[1])
  BY <1>1, <1>3
<1> QED BY <1>1, <1>2, <1>3, <1>4, <1>5 DEF p, none

LEMMA StepRunTwo ==
    ASSUME NEW m, NEW l, NEW a, NEW b
    PROVE  /\ IsProgram(<<a, b>>)
           /\ Older!Run(m, l, <<a, b>>) = Older!Exec(Older!Exec(m, l, a), l, b)
<1> DEFINE p == <<a, b>>
<1>1. Len(p) = 2 /\ p[1] = a /\ p[2] = b
  OBVIOUS
<1>2. IsProgram(p)
  BY DEF IsProgram
<1>3. Len(p) \in Nat
  BY <1>1
<1> HIDE DEF p
<1>4. PICK g : /\ g[0] = m
               /\ \A i \in 1 .. Len(p) : g[i] = Older!Exec(g[i - 1], l, p[i])
               /\ Older!Run(m, l, p) = g[Len(p)]
  BY <1>3, StepRunIs
<1>5. g[1] = Older!Exec(g[0], l, p[1]) /\ g[2] = Older!Exec(g[1], l, p[2])
  BY <1>1, <1>4
<1> QED BY <1>1, <1>2, <1>4, <1>5 DEF p

-----------------------------------------------------------------------------
(* What the launches of a layer may rely on, for the tokens h: a buffer     *)
(* has a quantity as its operands find it ("value"), as its computation     *)
(* leaves it ("next"), as the next layer's ("handed"), or a copy of it in   *)
(* some layout; the rows are there up to the last one, or all of them.      *)

In(buffer, what) == <<buffer, "value", what>>
LeftIn(buffer, what) == <<buffer, "next", what>>
As(buffer, layout, what) == <<buffer, layout, what>>

Layouts == {"q8k", "q8_1", "m23", "mxAffine", "mxPlain"}

Meant(l, h, f) ==
    IF f[2] = "next" THEN Made(f[3], l, h)
    ELSE IF f[2] = "handed" THEN Named(f[3], l + 1, h) ELSE Named(f[3], l, h)

Learned(m, l, h, f) ==
    /\ f[1] \in AllBuffers
    /\ IF f[1] \in Floats THEN m.at[f[1]] = Meant(l, h, f)
       ELSE IF f[1] \in Copies
       THEN m.copies[f[1]] = [layout |-> IF f[2] = "handed" THEN "q8_1" ELSE f[2],
                              of |-> Meant(l, h, f)]
       ELSE /\ m.rows = [i \in 1 .. OlderCapacity |-> m.rows[i]]
            /\ \A i \in 1 .. Len(h) :
                   f[2] = "next" \/ i < Len(h) => m.rows[i] = Value("row", l, SubSeq(h, 1, i))

\* Given the facts K, the program leaves the facts N, and every buffer outside
\* D alone.
Leads(p, l, h, K, D, N) ==
    /\ IsProgram(p)
    /\ \A m : IsStore(m) /\ (\A f \in K : Learned(m, l, h, f)) =>
           /\ Alters(Older!Run(m, l, p), m, D)
           /\ \A f \in N : Learned(Older!Run(m, l, p), l, h, f)

LEMMA NoOverlap ==
    /\ Floats \cap Copies = {} /\ "rows" \notin Floats /\ "rows" \notin Copies
BY DEF Floats, Copies

\* What is left alone still holds.
LEMMA StillHolds ==
    ASSUME NEW x, NEW m, NEW D, Alters(x, m, D), NEW l, NEW h,
           NEW f, Learned(m, l, h, f), f[1] \notin D
    PROVE  Learned(x, l, h, f)
BY NoOverlap DEF Alters, Learned, AllBuffers

\* One program after another.
LEMMA Then ==
    ASSUME NEW l, NEW h, NEW p, NEW K1, NEW D1, NEW N1, Leads(p, l, h, K1, D1, N1),
           NEW q, NEW K2, NEW D2, NEW N2, Leads(q, l, h, K2, D2, N2),
           NEW K, NEW D, NEW N, K1 \subseteq K, D1 \subseteq D, D2 \subseteq D,
           \A f \in K2 : f \in N1 \/ (f \in K /\ f[1] \notin D1),
           \A f \in N : \/ f \in N2
                        \/ f \in N1 /\ f[1] \notin D2
                        \/ f \in K /\ f[1] \notin D1 /\ f[1] \notin D2
    PROVE  Leads(p \o q, l, h, K, D, N)
<1>1. IsProgram(p) /\ IsProgram(q)
  BY DEF Leads
<1>2. IsProgram(p \o q) /\ \A m : Older!Run(m, l, p \o q) = Older!Run(Older!Run(m, l, p), l, q)
  BY <1>1, StepRunThen
<1>3. SUFFICES ASSUME NEW m, IsStore(m), \A f \in K : Learned(m, l, h, f)
               PROVE  /\ Alters(Older!Run(m, l, p \o q), m, D)
                      /\ \A f \in N : Learned(Older!Run(m, l, p \o q), l, h, f)
  BY <1>2 DEF Leads
<1> DEFINE y == Older!Run(m, l, p)
           x == Older!Run(y, l, q)
<1>4. Alters(y, m, D1) /\ \A f \in N1 : Learned(y, l, h, f)
  BY <1>3 DEF Leads
<1>5. \A f \in K2 : Learned(y, l, h, f)
  BY <1>3, <1>4, StillHolds
<1>6. IsStore(y)
  BY <1>4 DEF Alters
<1> HIDE DEF y
<1>7. Alters(x, y, D2) /\ \A f \in N2 : Learned(x, l, h, f)
  BY <1>5, <1>6 DEF Leads
<1> HIDE DEF x
<1>8. Alters(x, m, D)
  BY <1>4, <1>7 DEF Alters
<1>9. \A f \in N : Learned(x, l, h, f)
  BY <1>3, <1>4, <1>7, StillHolds
<1> QED BY <1>2, <1>8, <1>9 DEF x, y

\* More may be known before, less asked afterwards.
LEMMA LeadsLess ==
    ASSUME NEW l, NEW h, NEW p, NEW K1, NEW D1, NEW N1, Leads(p, l, h, K1, D1, N1),
           NEW K, NEW D, NEW N, K1 \subseteq K, D1 \subseteq D,
           \A f \in N : f \in N1 \/ (f \in K /\ f[1] \notin D1)
    PROVE  Leads(p, l, h, K, D, N)
<1>1. SUFFICES ASSUME NEW m, IsStore(m), \A f \in K : Learned(m, l, h, f)
               PROVE  /\ Alters(Older!Run(m, l, p), m, D)
                      /\ \A f \in N : Learned(Older!Run(m, l, p), l, h, f)
  BY DEF Leads
<1> DEFINE x == Older!Run(m, l, p)
<1>2. Alters(x, m, D1) /\ \A f \in N1 : Learned(x, l, h, f)
  BY <1>1 DEF Leads
<1> HIDE DEF x
<1>3. Alters(x, m, D)
  BY <1>2 DEF Alters
<1>4. \A f \in N : Learned(x, l, h, f)
  BY <1>1, <1>2, StillHolds
<1> QED BY <1>3, <1>4 DEF x

\* No launch.
LEMMA Nothing ==
    ASSUME NEW l, NEW h, NEW K
    PROVE  Leads(<<>>, l, h, K, {}, K)
<1>1. \A m : IsProgram(<<>>) /\ Older!Run(m, l, <<>>) = m
  BY StepRunOne
<1>2. \A m : IsStore(m) => Alters(m, m, {})
  BY DEF Alters
<1> DEFINE p == <<>>
<1> HIDE DEF p
<1>3. \A m : IsProgram(p) /\ Older!Run(m, l, p) = m
  BY <1>1 DEF p
<1>4. Leads(p, l, h, K, {}, K)
  BY <1>2, <1>3 DEF Leads
<1> QED BY <1>4 DEF p

\* Launches that may be left out when what they lead to is known.
LEMMA Optionally ==
    ASSUME NEW l, NEW h, NEW needed, NEW p, NEW K, NEW D, NEW N,
           needed => Leads(p, l, h, K, D, N), ~needed => N \subseteq K
    PROVE  Leads(Older!Optional(needed, p), l, h, K, D, N)
<1>1. CASE needed
  BY <1>1 DEF Older!Optional
<1>2. CASE ~needed
  <2>1. Older!Optional(needed, p) = <<>>
    BY <1>2 DEF Older!Optional
  <2> QED BY <1>2, <2>1, Nothing, LeadsLess
<1> QED BY <1>1, <1>2

\* A program and the launch before it.
LEMMA First ==
    ASSUME NEW a, NEW q, IsProgram(q), NEW r, IsProgram(r),
           Len(r) = Len(q) + 1, r[1] = a, \A i \in 1 .. Len(q) : r[i + 1] = q[i]
    PROVE  r = <<a>> \o q
<1> DEFINE p == <<a>>
           S == {a} \cup {q[i] : i \in 1 .. Len(q)}
<1>1. p \in Seq(S) /\ Len(p) = 1 /\ p[1] = a
  OBVIOUS
<1>2. q \in Seq(S) /\ Len(q) \in Nat /\ Len(r) \in Nat
  <2>1. \A i \in 1 .. Len(q) : q[i] \in S
    OBVIOUS
  <2> HIDE DEF S
  <2>2. q \in [1 .. Len(q) -> S] /\ Len(q) \in Nat
    BY <2>1 DEF IsProgram
  <2> QED BY <2>2 DEF IsProgram
<1> HIDE DEF p, S
<1>3. /\ p \o q \in Seq(S) /\ Len(p \o q) = Len(p) + Len(q)
      /\ \A i \in 1 .. Len(p) + Len(q) : (p \o q)[i] = IF i <= Len(p) THEN p[i] ELSE q[i - Len(p)]
  BY <1>1, <1>2, ConcatProperties
<1> DEFINE t == p \o q
<1>4. Len(t) = Len(r) /\ t \in Seq(S)
  BY <1>1, <1>3
<1>5. ASSUME NEW i \in 1 .. Len(r) PROVE r[i] = t[i]
  <2>1. CASE i = 1
    BY <1>1, <1>2, <1>3, <2>1
  <2>2. CASE i # 1
    <3>1. i - 1 \in 1 .. Len(q) /\ r[(i - 1) + 1] = q[i - 1] /\ (i - 1) + 1 = i
      BY <1>2, <2>2
    <3>2. t[i] = q[i - 1]
      BY <1>1, <1>2, <1>3, <2>2
    <3> QED BY <3>1, <3>2
  <2> QED BY <2>1, <2>2
<1> HIDE DEF t
<1>6. t = [i \in 1 .. Len(t) |-> t[i]]
  BY <1>4
<1>7. r = [i \in 1 .. Len(r) |-> r[i]]
  BY DEF IsProgram
<1> QED BY <1>4, <1>5, <1>6, <1>7 DEF t, p

LEMMA TwoTogether ==
    ASSUME NEW a, NEW b
    PROVE  <<a>> \o <<b>> = <<a, b>>
<1> DEFINE S == {a, b}
           p == <<a>>
           q == <<b>>
<1>1. p \in Seq(S) /\ q \in Seq(S) /\ Len(p) = 1 /\ Len(q) = 1 /\ p[1] = a /\ q[1] = b
      /\ <<a, b>> \in Seq(S)
  OBVIOUS
<1> HIDE DEF p, q, S
<1>2. /\ p \o q \in Seq(S) /\ Len(p \o q) = Len(p) + Len(q)
      /\ \A i \in 1 .. Len(p) + Len(q) : (p \o q)[i] = IF i <= Len(p) THEN p[i] ELSE q[i - Len(p)]
  BY <1>1, ConcatProperties
<1>3. Len(p \o q) = 2 /\ (p \o q)[1] = a /\ (p \o q)[2] = b
  BY <1>1, <1>2
<1> DEFINE r == <<a, b>>
<1>4. Len(r) = 2 /\ r[1] = a /\ r[2] = b /\ r \in Seq(S)
  BY <1>1
<1> HIDE DEF r
<1>5. p \o q = r
  BY <1>2, <1>3, <1>4, SeqEqual
<1> QED BY <1>5 DEF p, q, r

-----------------------------------------------------------------------------
(* What single launches lead to.                                           *)

LEMMA OneLeads ==
    ASSUME NEW l, NEW h, NEW a, NEW K, NEW D, NEW N,
           \A m : IsStore(m) /\ (\A f \in K : Learned(m, l, h, f)) =>
               /\ Alters(Older!Exec(m, l, a), m, D)
               /\ \A f \in N : Learned(Older!Exec(m, l, a), l, h, f)
    PROVE  Leads(<<a>>, l, h, K, D, N)
<1>1. IsProgram(<<a>>) /\ \A m : Older!Run(m, l, <<a>>) = Older!Exec(m, l, a)
  BY StepRunOne
<1> DEFINE p == <<a>>
<1> HIDE DEF p
<1>2. IsProgram(p) /\ \A m : Older!Run(m, l, p) = Older!Exec(m, l, a)
  BY <1>1 DEF p
<1>3. Leads(p, l, h, K, D, N)
  BY <1>2 DEF Leads
<1> QED BY <1>3 DEF p

\* A kernel whose operands are the reference's.
LEMMA MakeLeaves ==
    ASSUME NEW l \in Layers, NEW h \in History,
           NEW what \in DOMAIN Formula(l), what # "attnGatedOutput",
           NEW ins, DOMAIN ins = DOMAIN Formula(l)[what], NEW K,
           \A i \in DOMAIN ins : ins[i] \in Floats /\ In(ins[i], Formula(l)[what][i]) \in K,
           NEW out \in Floats
    PROVE  Leads(<<Older!Make(what, ins, out)>>, l, h, K, {out}, {LeftIn(out, what)})
<1> DEFINE a == Older!Make(what, ins, out)
<1>1. Operands(what, l, h) = NamedAll(Formula(l)[what], l, h)
  BY FormulaNames, OperandsAre
<1>2. Compute(what, l, Operands(what, l, h)) = Made(what, l, h)
  BY FourLayers, ComputeIs DEF IsFullAttention
<1>3. ASSUME NEW m, IsStore(m), \A f \in K : Learned(m, l, h, f)
      PROVE  /\ Alters(Older!Exec(m, l, a), m, {out})
             /\ \A f \in {LeftIn(out, what)} : Learned(Older!Exec(m, l, a), l, h, f)
  <2>1. ASSUME NEW i \in DOMAIN ins
        PROVE  m.at[ins[i]] = Named(Formula(l)[what][i], l, h)
    <3>1. Learned(m, l, h, In(ins[i], Formula(l)[what][i])) /\ ins[i] \in Floats
      BY <1>3
    <3> QED BY <3>1 DEF Learned, In, Meant
  <2>2. [i \in DOMAIN ins |-> m.at[ins[i]]] = NamedAll(Formula(l)[what], l, h)
    BY <2>1 DEF NamedAll
  <2>3. Older!Exec(m, l, a) = Older!Write(m, out, Made(what, l, h))
    BY <1>1, <1>2, <2>2, ExecMake
  <2> DEFINE x == Older!Exec(m, l, a)
  <2> HIDE DEF a, x
  <2>4. Wrote(x, m, out, Made(what, l, h))
    BY <1>3, <2>3, WriteIs DEF x
  <2>5. Alters(x, m, {out}) /\ x.at[out] = Made(what, l, h)
    BY <2>4 DEF Wrote
  <2>6. Learned(x, l, h, LeftIn(out, what))
    BY <2>5 DEF Learned, LeftIn, Meant, AllBuffers
  <2> QED BY <2>5, <2>6 DEF x
<1> HIDE DEF a
<1>4. Leads(<<a>>, l, h, K, {out}, {LeftIn(out, what)})
  BY <1>3, OneLeads
<1> QED BY <1>4 DEF a

\* Most quantities are found as they were left.
LEMMA FoundAsLeft ==
    ASSUME NEW l, NEW h, NEW p, NEW K, NEW D, NEW out \in Floats, NEW what,
           what \notin {"input", "past", "state"},
           Leads(p, l, h, K, D, {LeftIn(out, what)})
    PROVE  Leads(p, l, h, K, D, {In(out, what)})
<1>1. ASSUME NEW m, Learned(m, l, h, LeftIn(out, what)) PROVE Learned(m, l, h, In(out, what))
  <2>1. Meant(l, h, LeftIn(out, what)) = Meant(l, h, In(out, what))
    BY MadeNamed DEF Meant, LeftIn, In
  <2>2. /\ LeftIn(out, what)[1] = out /\ In(out, what)[1] = out
        /\ LeftIn(out, what)[2] = "next" /\ In(out, what)[2] = "value"
    BY DEF LeftIn, In
  <2> QED BY <1>1, <2>1, <2>2 DEF Learned
<1> QED BY <1>1 DEF Leads


\* A quantity computed from one other.
Reads(l, what, in) ==
    /\ what \in DOMAIN Formula(l) /\ Formula(l)[what] = <<in>>
    /\ what \notin {"input", "past", "state", "attnGatedOutput"}

LEMMA SharedReads ==
    ASSUME NEW l
    PROVE  /\ Reads(l, "postNormalized", "residual")
           /\ Reads(l, "ffnGate", "postNormalized") /\ Reads(l, "ffnUp", "postNormalized")
           /\ Reads(l, "ffnDown", "ffnActivation")
BY FormulaShared DEF Reads, Formula, FeedForward

LEMMA RecurrentReads ==
    ASSUME NEW l, ~IsFullAttention(l)
    PROVE  /\ Reads(l, "normalized", "input")
           /\ Reads(l, "qkv", "normalized") /\ Reads(l, "gate", "normalized")
           /\ Reads(l, "rawBeta", "normalized") /\ Reads(l, "rawAlpha", "normalized")
           /\ Reads(l, "beta", "rawBeta") /\ Reads(l, "decay", "rawAlpha")
           /\ Reads(l, "query", "rawQuery") /\ Reads(l, "key", "rawKey")
           /\ Reads(l, "projected", "gatedOutput")
BY FormulaRecurrent DEF Reads, Formula, Recurrent

LEMMA FullReads ==
    ASSUME NEW l, IsFullAttention(l)
    PROVE  /\ Reads(l, "normalized", "input")
           /\ Reads(l, "attnQfull", "normalized") /\ Reads(l, "attnQRope", "attnQfull")
           /\ Reads(l, "gate", "attnQfull")
           /\ Reads(l, "attnK", "normalized") /\ Reads(l, "attnV", "normalized")
           /\ Reads(l, "projected", "attnGatedOutput")
BY FormulaFull DEF Reads, Formula, Full

LEMMA MakeOneLeads ==
    ASSUME NEW l \in Layers, NEW h \in History, NEW what, NEW in, Reads(l, what, in),
           NEW from \in Floats, NEW out \in Floats
    PROVE  Leads(<<Older!Make(what, <<from>>, out)>>, l, h,
                 {In(from, in)}, {out}, {In(out, what)})
<1> DEFINE K == {In(from, in)}
           ins == <<from>>
<1>1. what \in DOMAIN Formula(l) /\ what # "attnGatedOutput" /\ Formula(l)[what] = <<in>>
  BY DEF Reads
<1>2. /\ DOMAIN ins = DOMAIN Formula(l)[what]
      /\ \A i \in DOMAIN ins : ins[i] \in Floats /\ In(ins[i], Formula(l)[what][i]) \in K
  BY <1>1
<1> HIDE DEF K, ins
<1>3. Leads(<<Older!Make(what, ins, out)>>, l, h, K, {out}, {LeftIn(out, what)})
  BY <1>1, <1>2, MakeLeaves
<1>4. what \notin {"input", "past", "state"}
  BY DEF Reads
<1> QED BY <1>3, <1>4, FoundAsLeft DEF K, ins

LEMMA QuantizeLeads ==
    ASSUME NEW l, NEW h, NEW from \in Floats, NEW what,
           NEW into \in Copies, NEW layout \in Layouts
    PROVE  Leads(<<Older!Quantize(from, into, layout)>>, l, h,
                 {In(from, what)}, {into}, {As(into, layout, what)})
<1> DEFINE a == Older!Quantize(from, into, layout)
           K == {In(from, what)}
           N == {As(into, layout, what)}
<1>1. ASSUME NEW m, IsStore(m), \A f \in K : Learned(m, l, h, f)
      PROVE  /\ Alters(Older!Exec(m, l, a), m, {into})
             /\ \A f \in N : Learned(Older!Exec(m, l, a), l, h, f)
  <2>1. m.at[from] = Named(what, l, h)
    <3>1. Learned(m, l, h, In(from, what))
      BY <1>1
    <3> QED BY <3>1 DEF Learned, In, Meant
  <2> DEFINE x == Older!Exec(m, l, a)
  <2>2. x = [m EXCEPT !.copies =
                 [@ EXCEPT ![into] = [layout |-> layout, of |-> Named(what, l, h)]]]
    BY <2>1, ExecQuantize
  <2> HIDE DEF x, a
  <2>3. Alters(x, m, {into})
    BY <1>1, <2>2, NoOverlap DEF IsStore, Alters
  <2>4. x.copies[into] = [layout |-> layout, of |-> Named(what, l, h)]
    BY <1>1, <2>2 DEF IsStore
  <2>5. layout \notin {"next", "handed"} /\ into \notin Floats /\ into \in AllBuffers
    BY NoOverlap DEF Layouts, AllBuffers
  <2>6. Learned(x, l, h, As(into, layout, what))
    BY <2>4, <2>5 DEF Learned, As, Meant
  <2> QED BY <2>3, <2>6 DEF x
<1> HIDE DEF a, K, N
<1>2. Leads(<<a>>, l, h, K, {into}, N)
  BY <1>1, OneLeads
<1> QED BY <1>2 DEF a, K, N

LEMMA ProjectLeads ==
    ASSUME NEW l \in Layers, NEW h \in History, NEW what, NEW in, Reads(l, what, in),
           NEW from \in Copies, NEW layout \in Layouts, NEW out \in Floats
    PROVE  Leads(<<Older!Project(what, from, layout, out)>>, l, h,
                 {As(from, layout, in)}, {out}, {In(out, what)})
<1> DEFINE a == Older!Project(what, from, layout, out)
           K == {As(from, layout, in)}
           N == {In(out, what)}
<1>1. what \in DOMAIN Formula(l) /\ what # "attnGatedOutput" /\ Formula(l)[what] = <<in>>
      /\ what \notin {"input", "past", "state"}
  BY DEF Reads
<1>2. NamedAll(Formula(l)[what], l, h) = <<Named(in, l, h)>>
  BY <1>1 DEF NamedAll
<1>3. Operands(what, l, h) = <<Named(in, l, h)>>
  BY <1>1, <1>2, FormulaNames, OperandsAre
<1>4. Compute(what, l, <<Named(in, l, h)>>) = Named(what, l, h)
  BY <1>1, <1>3, FourLayers, ComputeIs, MadeNamed DEF IsFullAttention
<1>5. ASSUME NEW m, IsStore(m), \A f \in K : Learned(m, l, h, f)
      PROVE  /\ Alters(Older!Exec(m, l, a), m, {out})
             /\ \A f \in N : Learned(Older!Exec(m, l, a), l, h, f)
  <2>1. m.copies[from] = [layout |-> layout, of |-> Named(in, l, h)]
    <3>1. Learned(m, l, h, As(from, layout, in))
      BY <1>5
    <3>2. layout \notin {"next", "handed"} /\ from \notin Floats
      BY NoOverlap DEF Layouts
    <3> QED BY <3>1, <3>2 DEF Learned, As, Meant
  <2> DEFINE x == Older!Exec(m, l, a)
  <2>2. x = Older!Write(m, out, Named(what, l, h))
    BY <1>4, <2>1, ExecProject
  <2> HIDE DEF x, a
  <2>3. Wrote(x, m, out, Named(what, l, h))
    BY <1>5, <2>2, WriteIs
  <2>4. Alters(x, m, {out}) /\ x.at[out] = Named(what, l, h)
    BY <2>3 DEF Wrote
  <2>5. Learned(x, l, h, In(out, what))
    BY <2>4 DEF Learned, In, Meant, AllBuffers
  <2> QED BY <2>4, <2>5 DEF x
<1> HIDE DEF a, K, N
<1>6. Leads(<<a>>, l, h, K, {out}, N)
  BY <1>5, OneLeads
<1> QED BY <1>6 DEF a, K, N

-----------------------------------------------------------------------------
(* Quantising, and the matrix kernels.                                     *)

\* Activations in the Q8_1 layout.
LEMMA Q8_1Leads ==
    ASSUME NEW l, NEW h, NEW in \in Floats
    PROVE  Leads(Older!Q8_1(in), l, h, {In(in, in)}, {"q8_1"}, {As("q8_1", "q8_1", in)})
<1>1. "q8_1" \in Copies /\ "q8_1" \in Layouts
  BY DEF Copies, Layouts
<1> QED BY <1>1, QuantizeLeads DEF Older!Q8_1

LEMMA WaveLeads ==
    ASSUME NEW l \in Layers, NEW h \in History, NEW what, NEW in, Reads(l, what, in),
           NEW out \in Floats
    PROVE  Leads(Older!Wave(what, out), l, h,
                 {As("q8_1", "q8_1", in)}, {out}, {In(out, what)})
<1>1. "q8_1" \in Copies /\ "q8_1" \in Layouts
  BY DEF Copies, Layouts
<1> QED BY <1>1, ProjectLeads DEF Older!Wave

\* Quantised into some buffer and multiplied.
LEMMA QuantizedLeads ==
    ASSUME NEW l \in Layers, NEW h \in History, NEW what, NEW in, Reads(l, what, in),
           NEW from \in Floats, NEW buffer \in Copies, NEW layout \in Layouts,
           NEW out \in Floats
    PROVE  Leads(<<Older!Quantize(from, buffer, layout)>>
                 \o <<Older!Project(what, buffer, layout, out)>>, l, h,
                 {In(from, in)}, {out, buffer}, {In(out, what), As(buffer, layout, in)})
<1> DEFINE p == <<Older!Quantize(from, buffer, layout)>>
           q == <<Older!Project(what, buffer, layout, out)>>
           f == As(buffer, layout, in)
           g == In(out, what)
           k == In(from, in)
<1>1. Leads(p, l, h, {k}, {buffer}, {f})
  BY QuantizeLeads
<1>2. Leads(q, l, h, {f}, {out}, {g})
  BY ProjectLeads
<1>3. f[1] \notin {out}
  BY NoOverlap DEF As
<1> HIDE DEF p, q, f, g, k
<1>4. Leads(p \o q, l, h, {k}, {out, buffer}, {g, f})
  BY <1>1, <1>2, <1>3, Then
<1> QED BY <1>4 DEF p, q, f, g, k

LEMMA RepackedLeads ==
    ASSUME NEW l \in Layers, NEW h \in History, NEW what, NEW in, Reads(l, what, in),
           NEW from \in Floats, NEW buffer \in Copies, NEW layout \in Layouts,
           NEW out \in Floats
    PROVE  Leads(Older!Repacked(what, from, buffer, layout, out), l, h,
                 {In(from, in)}, {out, buffer}, {In(out, what), As(buffer, layout, in)})
<1> DEFINE a == Older!Quantize(from, buffer, layout)
           b == Older!Project(what, buffer, layout, out)
<1>1. Older!Repacked(what, from, buffer, layout, out) = <<a>> \o <<b>>
  BY TwoTogether DEF Older!Repacked
<1> QED BY <1>1, QuantizedLeads

LEMMA PlainLeads ==
    ASSUME NEW l \in Layers, NEW h \in History, NEW what, NEW in, Reads(l, what, in),
           NEW from \in Floats, NEW out \in Floats, NEW done, NEW K,
           In(from, in) \in K, done => As("q8", "q8k", in) \in K
    PROVE  Leads(Older!Plain(what, from, out, done), l, h, K, {out, "q8"},
                 {In(out, what), As("q8", "q8k", in)})
<1> DEFINE a == <<Older!Quantize(from, "q8", "q8k")>>
           p == Older!Optional(~done, a)
           q == <<Older!Project(what, "q8", "q8k", out)>>
           f == As("q8", "q8k", in)
           g == In(out, what)
           k == In(from, in)
<1>0. "q8" \in Copies /\ "q8k" \in Layouts
  BY DEF Copies, Layouts
<1>1. Leads(a, l, h, {k}, {"q8"}, {f})
  BY <1>0, QuantizeLeads
<1>2. Leads(q, l, h, {f}, {out}, {g})
  BY <1>0, ProjectLeads
<1>3. f[1] \notin {out}
  BY <1>0, NoOverlap DEF As
<1>4. Older!Plain(what, from, out, done) = p \o q
  BY DEF Older!Plain
<1>5. k \in K /\ (done => f \in K)
  OBVIOUS
<1> HIDE DEF a, q, f, g, k
<1>6. Leads(a, l, h, K, {"q8"}, {f})
  BY <1>1, <1>5, LeadsLess
<1>7. ~(~done) => {f} \subseteq K
  BY <1>5
<1>8. Leads(p, l, h, K, {"q8"}, {f})
  BY <1>6, <1>7, Optionally
<1> HIDE DEF p
<1>9. Leads(p \o q, l, h, K, {out, "q8"}, {g, f})
  BY <1>2, <1>3, <1>8, Then
<1> QED BY <1>4, <1>9 DEF f, g

\* Facts by the buffers they are about.
LEMMA FactOf ==
    ASSUME NEW b, NEW layout, NEW what
    PROVE  In(b, what)[1] = b /\ As(b, layout, what)[1] = b /\ LeftIn(b, what)[1] = b
BY DEF In, As, LeftIn

GivenIf(condition, fact) == IF condition THEN {fact} ELSE {}

-----------------------------------------------------------------------------
(* The projections of a recurrent layer.                                   *)

Normalized == In("normalized", "normalized")
NormalizedCopy == As("q8_1", "q8_1", "normalized")

\* What the layer before has left of the normalised input.
Handed(s, c) == GivenIf(c.ready /\ Older!On(s, "FUSED_NORM_Q8"), NormalizedCopy)

LEMMA NormalizeLeads ==
    ASSUME NEW l \in Layers, NEW h \in History, NEW c
    PROVE  Leads(Older!Normalize(c), l, h,
                 {In("input", "input")} \cup GivenIf(c.ready, Normalized),
                 {"normalized"}, {Normalized})
<1> DEFINE p == <<Older!Make("normalized", <<"input">>, "normalized")>>
           K == {In("input", "input")} \cup GivenIf(c.ready, Normalized)
<1>1. Reads(l, "normalized", "input")
  BY RecurrentReads, FullReads
<1>2. Leads(p, l, h, {In("input", "input")}, {"normalized"}, {Normalized})
  BY <1>1, MakeOneLeads DEF Normalized, Floats
<1>3. c.ready => {Normalized} \subseteq K
  BY DEF GivenIf
<1>4. {In("input", "input")} \subseteq K
  OBVIOUS
<1> HIDE DEF p, K
<1>5. Leads(p, l, h, K, {"normalized"}, {Normalized})
  BY <1>2, <1>4, LeadsLess
<1>6. ~(~c.ready) => {Normalized} \subseteq K
  BY <1>3
<1>7. Leads(Older!Optional(~c.ready, p), l, h, K, {"normalized"}, {Normalized})
  BY <1>5, <1>6, Optionally
<1> QED BY <1>7 DEF Older!Normalize, p, K

\* The Q8_1 copy of a buffer if it is not there, and one product of it.
LEMMA CopyWaveLeads ==
    ASSUME NEW l \in Layers, NEW h \in History, NEW what, NEW in \in Floats,
           Reads(l, what, in), NEW out \in Floats, NEW needed, NEW K,
           In(in, in) \in K, ~needed => As("q8_1", "q8_1", in) \in K
    PROVE  Leads(Older!Optional(needed, Older!Q8_1(in)) \o Older!Wave(what, out), l, h,
                 K, {out, "q8_1"}, {In(out, what), As("q8_1", "q8_1", in)})
<1> DEFINE a == Older!Q8_1(in)
           p == Older!Optional(needed, a)
           q == Older!Wave(what, out)
           f == As("q8_1", "q8_1", in)
           g == In(out, what)
           k == In(in, in)
<1>1. Leads(a, l, h, {k}, {"q8_1"}, {f})
  BY Q8_1Leads
<1>2. Leads(q, l, h, {f}, {out}, {g})
  BY WaveLeads
<1>3. "q8_1" \in Copies
  BY DEF Copies
<1>4. f[1] \notin {out} /\ k \in K /\ (~needed => {f} \subseteq K)
  BY <1>3, NoOverlap, FactOf
<1> HIDE DEF a, q, f, g, k
<1>5. Leads(a, l, h, K, {"q8_1"}, {f})
  BY <1>1, <1>4, LeadsLess
<1>6. Leads(p, l, h, K, {"q8_1"}, {f})
  BY <1>4, <1>5, Optionally
<1> HIDE DEF p
<1>7. Leads(p \o q, l, h, K, {out, "q8_1"}, {g, f})
  BY <1>2, <1>4, <1>6, Then
<1> QED BY <1>7 DEF p, q, f, g, a

LEMMA NormalizedWaveLeads ==
    ASSUME NEW l \in Layers, NEW h \in History, NEW s, NEW c,
           NEW what \in Floats, Reads(l, what, "normalized")
    PROVE  Leads(Older!NormalizedQ8_1(s, c) \o Older!Wave(what, what), l, h,
                 {Normalized} \cup Handed(s, c), {what, "q8_1"},
                 {In(what, what), NormalizedCopy})
<1> DEFINE needed == ~c.ready \/ ~Older!On(s, "FUSED_NORM_Q8")
           K == {Normalized} \cup Handed(s, c)
<1>1. ~needed => NormalizedCopy \in K
  BY DEF Handed, GivenIf
<1>2. Older!NormalizedQ8_1(s, c) = Older!Optional(needed, Older!Q8_1("normalized"))
  BY DEF Older!NormalizedQ8_1
<1>3. Normalized \in K /\ "normalized" \in Floats
  BY DEF Floats
<1> HIDE DEF needed, K
<1>4. Leads(Older!Optional(needed, Older!Q8_1("normalized")) \o Older!Wave(what, what), l, h,
            K, {what, "q8_1"}, {In(what, what), As("q8_1", "q8_1", "normalized")})
  BY <1>1, <1>3, CopyWaveLeads DEF Normalized, NormalizedCopy
<1> QED BY <1>2, <1>4 DEF K, NormalizedCopy

\* Resident repacked matrices: one quantised buffer for both, requantised when
\* the second matrix has another layout.
LEMMA ResidentLeads ==
    ASSUME NEW l \in Layers, ~IsFullAttention(l), NEW h \in History, NEW s
    PROVE  Leads(Older!ResidentQkvGate(s), l, h, {Normalized}, {"qkv", "gate", "mmq"},
                 {In("qkv", "qkv"), In("gate", "gate")})
<1>0. /\ {"normalized", "qkv", "gate"} \subseteq Floats /\ "mmq" \in Copies
      /\ Reads(l, "qkv", "normalized") /\ Reads(l, "gate", "normalized")
  BY RecurrentReads DEF Floats, Copies
<1> DEFINE D == {"qkv", "gate", "mmq"}
           N == {In("qkv", "qkv"), In("gate", "gate")}
<1>1. CASE ~Older!Mx(s)
  <2> DEFINE p == Older!Repacked("qkv", "normalized", "mmq", "m23", "qkv")
             q == <<Older!Project("gate", "mmq", "m23", "gate")>>
             f == As("mmq", "m23", "normalized")
  <2>1. Older!ResidentQkvGate(s) = p \o q
    BY <1>1 DEF Older!ResidentQkvGate
  <2>2. Leads(p, l, h, {Normalized}, {"qkv", "mmq"}, {In("qkv", "qkv"), f})
    BY <1>0, RepackedLeads DEF Normalized, Layouts
  <2>3. Leads(q, l, h, {f}, {"gate"}, {In("gate", "gate")})
    BY <1>0, ProjectLeads DEF Layouts
  <2>4. In("qkv", "qkv")[1] \notin {"gate"}
    BY FactOf
  <2> HIDE DEF p, q, f
  <2>5. Leads(p \o q, l, h, {Normalized}, D, N)
    BY <2>2, <2>3, <2>4, Then
  <2> QED BY <2>1, <2>5
<1>2. CASE Older!Mx(s)
  <2> DEFINE first == IF Older!On(s, "M26C_QKV_M23") THEN "m23"
                      ELSE Older!MxLayout(Older!Q6(s, "qkv"))
             again == Older!On(s, "M26C_QKV_M23") \/ Older!Q6(s, "qkv")
             a == <<Older!Quantize("normalized", "mmq", "mxAffine")>>
             p == Older!Repacked("qkv", "normalized", "mmq", first, "qkv")
             q == Older!Optional(again, a)
             r == <<Older!Project("gate", "mmq", "mxAffine", "gate")>>
             e == As("mmq", first, "normalized")
             f == As("mmq", "mxAffine", "normalized")
             g == In("qkv", "qkv")
  <2>1. Older!ResidentQkvGate(s) = (p \o q) \o r
    BY <1>2 DEF Older!ResidentQkvGate
  <2>2. first \in Layouts /\ (~again => first = "mxAffine")
    BY DEF Older!MxLayout, Layouts
  <2> HIDE DEF first, again
  <2>3. Leads(p, l, h, {Normalized}, {"qkv", "mmq"}, {g, e})
    BY <1>0, <2>2, RepackedLeads DEF Normalized
  <2>4. Leads(a, l, h, {Normalized}, {"mmq"}, {f})
    BY <1>0, QuantizeLeads DEF Normalized, Layouts
  <2>5. Leads(r, l, h, {f}, {"gate"}, {In("gate", "gate")})
    BY <1>0, ProjectLeads DEF Layouts
  <2>6. ~again => {f} \subseteq {Normalized, e}
    BY <2>2
  <2>7. g[1] \notin {"mmq"} /\ g[1] \notin {"gate"} /\ Normalized[1] \notin {"qkv", "mmq"}
    BY FactOf DEF Normalized
  <2> HIDE DEF p, a, r, e, f, g
  <2>8. Leads(a, l, h, {Normalized, e}, {"mmq"}, {f})
    BY <2>4, LeadsLess
  <2>9. Leads(q, l, h, {Normalized, e}, {"mmq"}, {f})
    BY <2>6, <2>8, Optionally
  <2> HIDE DEF q
  <2>10. Leads(p \o q, l, h, {Normalized}, {"qkv", "mmq"}, {g, f})
    BY <2>3, <2>7, <2>9, Then
  <2>11. Leads((p \o q) \o r, l, h, {Normalized}, D, {g, In("gate", "gate")})
    BY <2>5, <2>7, <2>10, Then
  <2> QED BY <2>1, <2>11 DEF g
<1> QED BY <1>1, <1>2

\* The activations as the qkv projection leaves them for the gate's.
QkvCopy(s) == IF Older!QkvNative(s) THEN NormalizedCopy ELSE As("q8", "q8k", "normalized")

LEMMA QkvLeads ==
    ASSUME NEW l \in Layers, ~IsFullAttention(l), NEW h \in History, NEW s, NEW c
    PROVE  Leads(Older!QkvProjection(s, c), l, h, {Normalized} \cup Handed(s, c),
                 {"qkv", "q8", "q8_1"}, {In("qkv", "qkv"), QkvCopy(s)})
<1>0. {"qkv", "normalized"} \subseteq Floats /\ Reads(l, "qkv", "normalized")
  BY RecurrentReads DEF Floats
<1> DEFINE K == {Normalized} \cup Handed(s, c)
<1>1. CASE Older!QkvNative(s)
  <2>1. Leads(Older!NormalizedQ8_1(s, c) \o Older!Wave("qkv", "qkv"), l, h, K, {"qkv", "q8_1"},
              {In("qkv", "qkv"), NormalizedCopy})
    BY <1>0, NormalizedWaveLeads
  <2> DEFINE p == Older!NormalizedQ8_1(s, c) \o Older!Wave("qkv", "qkv")
  <2> HIDE DEF K, p
  <2>2. Leads(p, l, h, K, {"qkv", "q8", "q8_1"}, {In("qkv", "qkv"), NormalizedCopy})
    BY <2>1, LeadsLess DEF p
  <2> QED BY <1>1, <2>2 DEF Older!QkvProjection, QkvCopy, K, p
<1>2. CASE ~Older!QkvNative(s)
  <2>1. In("normalized", "normalized") \in K
    BY DEF Normalized
  <2> HIDE DEF K
  <2>2. FALSE => As("q8", "q8k", "normalized") \in K
    OBVIOUS
  <2>3. Leads(Older!Plain("qkv", "normalized", "qkv", FALSE), l, h, K, {"qkv", "q8"},
              {In("qkv", "qkv"), As("q8", "q8k", "normalized")})
    BY <1>0, <2>1, <2>2, PlainLeads
  <2> DEFINE p == Older!Plain("qkv", "normalized", "qkv", FALSE)
             f == As("q8", "q8k", "normalized")
  <2> HIDE DEF p, f
  <2>4. Leads(p, l, h, K, {"qkv", "q8", "q8_1"}, {In("qkv", "qkv"), f})
    BY <2>3, LeadsLess DEF p, f
  <2> QED BY <1>2, <2>4 DEF Older!QkvProjection, QkvCopy, K, p, f
<1> QED BY <1>1, <1>2

LEMMA GateLeads ==
    ASSUME NEW l \in Layers, ~IsFullAttention(l), NEW h \in History, NEW s,
           ~Older!GateCopyMissing(s)
    PROVE  Leads(Older!GateProjection(s), l, h, {Normalized, QkvCopy(s)},
                 {"gate", "q8", "q8_1"}, {In("gate", "gate")})
<1>0. {"gate", "normalized"} \subseteq Floats /\ Reads(l, "gate", "normalized")
  BY RecurrentReads DEF Floats
<1> DEFINE K == {Normalized, QkvCopy(s)}
           D == {"gate", "q8", "q8_1"}
<1>1. In("normalized", "normalized") \in K
  BY DEF Normalized
<1>2. ASSUME NEW p, NEW f, Leads(p, l, h, K, {"gate", "q8_1"}, {In("gate", "gate"), f})
      PROVE  Leads(p, l, h, K, D, {In("gate", "gate")})
  <2> HIDE DEF K
  <2> QED BY <1>2, LeadsLess
<1>3. ASSUME NEW p, NEW f, Leads(p, l, h, K, {"gate", "q8"}, {In("gate", "gate"), f})
      PROVE  Leads(p, l, h, K, D, {In("gate", "gate")})
  <2> HIDE DEF K
  <2> QED BY <1>3, LeadsLess
<1>4. CASE Older!GateNative(s)
  <2> DEFINE needed == ~Older!QkvNative(s)
  <2>1. ~needed => As("q8_1", "q8_1", "normalized") \in K
    BY DEF QkvCopy, NormalizedCopy
  <2> HIDE DEF K, needed
  <2>2. Leads(Older!Optional(needed, Older!Q8_1("normalized")) \o Older!Wave("gate", "gate"),
              l, h, K, {"gate", "q8_1"},
              {In("gate", "gate"), As("q8_1", "q8_1", "normalized")})
    BY <1>0, <1>1, <2>1, CopyWaveLeads
  <2>3. Older!GateProjection(s)
            = Older!Optional(needed, Older!Q8_1("normalized")) \o Older!Wave("gate", "gate")
    BY <1>4 DEF Older!GateProjection, needed
  <2> QED BY <1>2, <2>2, <2>3 DEF K
<1>5. CASE ~Older!GateNative(s) /\ Older!On(s, "Q4K_Q8_1_MMVQ_ATTN_GATE")
  <2> DEFINE needed == TRUE
  <2>1. ~needed => As("q8_1", "q8_1", "normalized") \in K
    OBVIOUS
  <2>2. Older!GateProjection(s)
            = Older!Optional(needed, Older!Q8_1("normalized")) \o Older!Wave("gate", "gate")
    BY <1>5 DEF Older!GateProjection, Older!Optional
  <2> HIDE DEF K, needed
  <2>3. Leads(Older!Optional(needed, Older!Q8_1("normalized")) \o Older!Wave("gate", "gate"),
              l, h, K, {"gate", "q8_1"},
              {In("gate", "gate"), As("q8_1", "q8_1", "normalized")})
    BY <1>0, <1>1, <2>1, CopyWaveLeads
  <2> QED BY <1>2, <2>2, <2>3 DEF K
<1>6. CASE ~Older!GateNative(s) /\ ~Older!On(s, "Q4K_Q8_1_MMVQ_ATTN_GATE")
  <2> DEFINE done == Older!On(s, "REUSE_PROJECTION_Q8")
  <2>1. done => As("q8", "q8k", "normalized") \in K
    BY <1>6 DEF Older!GateCopyMissing, QkvCopy
  <2>2. Older!GateProjection(s) = Older!Plain("gate", "normalized", "gate", done)
    BY <1>6 DEF Older!GateProjection
  <2> HIDE DEF K, done
  <2>3. Leads(Older!Plain("gate", "normalized", "gate", done), l, h, K, {"gate", "q8"},
              {In("gate", "gate"), As("q8", "q8k", "normalized")})
    BY <1>0, <1>1, <2>1, PlainLeads
  <2> QED BY <1>3, <2>2, <2>3 DEF K
<1> QED BY <1>4, <1>5, <1>6

LEMMA ProjectionsLead ==
    ASSUME NEW l \in Layers, ~IsFullAttention(l), NEW h \in History, NEW s,
           ~Older!GateCopyMissing(s), NEW c
    PROVE  Leads(Older!QkvAndGate(s, c), l, h, {Normalized} \cup Handed(s, c),
                 {"qkv", "gate"} \cup Copies, {In("qkv", "qkv"), In("gate", "gate")})
<1>0. /\ {"normalized", "qkv", "gate"} \subseteq Floats
      /\ {"q8", "q8_1", "mmq"} \subseteq Copies
      /\ Reads(l, "qkv", "normalized") /\ Reads(l, "gate", "normalized")
  BY RecurrentReads DEF Floats, Copies
<1> DEFINE K == {Normalized} \cup Handed(s, c)
           D == {"qkv", "gate"} \cup Copies
           f == In("qkv", "qkv")
           g == In("gate", "gate")
<1>1. /\ f[1] \notin {"gate"} /\ f[1] \notin {"gate", "q8", "q8_1"}
      /\ NormalizedCopy[1] \notin {"gate"}
      /\ Normalized[1] \notin {"qkv", "q8", "q8_1"}
  BY FactOf DEF NormalizedCopy, Normalized
<1>2. CASE Older!RecurrentResident(s)
  <2>1. Leads(Older!ResidentQkvGate(s), l, h, {Normalized}, {"qkv", "gate", "mmq"}, {f, g})
    BY ResidentLeads
  <2>2. Leads(Older!ResidentQkvGate(s), l, h, K, D, {f, g})
    BY <1>0, <2>1, LeadsLess
  <2> QED BY <1>2, <2>2 DEF Older!QkvAndGate
<1>3. CASE ~Older!RecurrentResident(s) /\ Older!QkvGateCombined(s)
  <2> DEFINE p == Older!NormalizedQ8_1(s, c) \o Older!Wave("qkv", "qkv")
             q == Older!Wave("gate", "gate")
  <2>1. Leads(p, l, h, K, {"qkv", "q8_1"}, {f, NormalizedCopy})
    BY <1>0, NormalizedWaveLeads
  <2>2. Leads(q, l, h, {NormalizedCopy}, {"gate"}, {g})
    BY <1>0, WaveLeads DEF NormalizedCopy
  <2>3. Older!QkvAndGate(s, c) = p \o q
    BY <1>3 DEF Older!QkvAndGate
  <2> HIDE DEF p, q, f, g, K
  <2>4. Leads(p \o q, l, h, K, D, {f, g})
    BY <1>0, <1>1, <2>1, <2>2, Then
  <2> QED BY <2>3, <2>4 DEF f, g, K
<1>4. CASE ~Older!RecurrentResident(s) /\ ~Older!QkvGateCombined(s)
  <2> DEFINE p == Older!QkvProjection(s, c)
             q == Older!GateProjection(s)
             e == QkvCopy(s)
  <2>1. Leads(p, l, h, K, {"qkv", "q8", "q8_1"}, {f, e})
    BY QkvLeads
  <2>2. Leads(q, l, h, {Normalized, e}, {"gate", "q8", "q8_1"}, {g})
    BY GateLeads
  <2>3. Older!QkvAndGate(s, c) = p \o q
    BY <1>4 DEF Older!QkvAndGate
  <2>4. Normalized \in K
    OBVIOUS
  <2> HIDE DEF p, q, e, f, g, K
  <2>5. Leads(p \o q, l, h, K, D, {f, g})
    BY <1>0, <1>1, <2>1, <2>2, <2>4, Then
  <2> QED BY <2>3, <2>5 DEF f, g, K
<1> QED BY <1>2, <1>3, <1>4

-----------------------------------------------------------------------------
(* Beta, decay and the convolution.                                        *)

\* Lists of launches, the first and the others.
LEMMA Three ==
    ASSUME NEW a, NEW b, NEW c
    PROVE  <<a, b, c>> = <<a>> \o <<b, c>>
<1> DEFINE q == <<b, c>>
           r == <<a, b, c>>
<1>1. IsProgram(q) /\ IsProgram(r)
  BY DEF IsProgram
<1>2. Len(r) = Len(q) + 1 /\ r[1] = a /\ \A i \in 1 .. Len(q) : r[i + 1] = q[i]
  OBVIOUS
<1> HIDE DEF q, r
<1>3. r = <<a>> \o q
  BY <1>1, <1>2, First
<1> QED BY <1>3 DEF q, r

LEMMA Four ==
    ASSUME NEW a, NEW b, NEW c, NEW d
    PROVE  <<a, b, c, d>> = <<a>> \o <<b, c, d>>
<1> DEFINE q == <<b, c, d>>
           r == <<a, b, c, d>>
<1>1. IsProgram(q) /\ IsProgram(r)
  BY DEF IsProgram
<1>2. Len(r) = Len(q) + 1 /\ r[1] = a /\ \A i \in 1 .. Len(q) : r[i + 1] = q[i]
  OBVIOUS
<1> HIDE DEF q, r
<1>3. r = <<a>> \o q
  BY <1>1, <1>2, First
<1> QED BY <1>3 DEF q, r

LEMMA Five ==
    ASSUME NEW a, NEW b, NEW c, NEW d, NEW e
    PROVE  <<a, b, c, d, e>> = <<a>> \o <<b, c, d, e>>
<1> DEFINE q == <<b, c, d, e>>
           r == <<a, b, c, d, e>>
<1>1. IsProgram(q) /\ IsProgram(r)
  BY DEF IsProgram
<1>2. Len(r) = Len(q) + 1 /\ r[1] = a /\ \A i \in 1 .. Len(q) : r[i + 1] = q[i]
  OBVIOUS
<1> HIDE DEF q, r
<1>3. r = <<a>> \o q
  BY <1>1, <1>2, First
<1> QED BY <1>3 DEF q, r

LEMMA Six ==
    ASSUME NEW a, NEW b, NEW c, NEW d, NEW e, NEW f
    PROVE  <<a, b, c, d, e, f>> = <<a>> \o <<b, c, d, e, f>>
<1> DEFINE q == <<b, c, d, e, f>>
           r == <<a, b, c, d, e, f>>
<1>1. IsProgram(q) /\ IsProgram(r)
  BY DEF IsProgram
<1>2. Len(r) = Len(q) + 1 /\ r[1] = a /\ \A i \in 1 .. Len(q) : r[i + 1] = q[i]
  OBVIOUS
<1> HIDE DEF q, r
<1>3. r = <<a>> \o q
  BY <1>1, <1>2, First
<1> QED BY <1>3 DEF q, r

LEMMA Seven ==
    ASSUME NEW a, NEW b, NEW c, NEW d, NEW e, NEW f, NEW g
    PROVE  <<a, b, c, d, e, f, g>> = <<a>> \o <<b, c, d, e, f, g>>
<1> DEFINE q == <<b, c, d, e, f, g>>
           r == <<a, b, c, d, e, f, g>>
<1>1. IsProgram(q) /\ IsProgram(r)
  BY DEF IsProgram
<1>2. Len(r) = Len(q) + 1 /\ r[1] = a /\ \A i \in 1 .. Len(q) : r[i + 1] = q[i]
  OBVIOUS
<1> HIDE DEF q, r
<1>3. r = <<a>> \o q
  BY <1>1, <1>2, First
<1> QED BY <1>3 DEF q, r

\* Kernels of two operands.
LEMMA MakeTwoLeaves ==
    ASSUME NEW l \in Layers, NEW h \in History, NEW what \in DOMAIN Formula(l),
           what # "attnGatedOutput", NEW in1, NEW in2, Formula(l)[what] = <<in1, in2>>,
           NEW from1 \in Floats, NEW from2 \in Floats, NEW out \in Floats
    PROVE  Leads(<<Older!Make(what, <<from1, from2>>, out)>>, l, h,
                 {In(from1, in1), In(from2, in2)}, {out}, {LeftIn(out, what)})
<1> DEFINE K == {In(from1, in1), In(from2, in2)}
           ins == <<from1, from2>>
<1>1. /\ DOMAIN ins = DOMAIN Formula(l)[what]
      /\ \A i \in DOMAIN ins : ins[i] \in Floats /\ In(ins[i], Formula(l)[what][i]) \in K
  OBVIOUS
<1> HIDE DEF K, ins
<1>2. Leads(<<Older!Make(what, ins, out)>>, l, h, K, {out}, {LeftIn(out, what)})
  BY <1>1, MakeLeaves
<1> QED BY <1>2 DEF K, ins

RawBeta == In("rawBeta", "rawBeta")
RawAlpha == In("rawAlpha", "rawAlpha")
Beta == In("beta", "beta")
Decay == In("decay", "decay")

\* The raw projections, when they are not kept in registers.
RawKept(s) == IF Older!On(s, "DUAL_BETA_ALPHA_PREPARE") THEN {} ELSE {RawBeta, RawAlpha}

LEMMA BetaDecayLeads ==
    ASSUME NEW l \in Layers, ~IsFullAttention(l), NEW h \in History, NEW s
    PROVE  Leads(Older!BetaDecay(s), l, h, {Normalized},
                 {"first", "second", "rawBeta", "rawAlpha", "beta", "decay"},
                 {Beta, Decay} \cup RawKept(s))
<1> DEFINE raw1 == IF Older!On(s, "DUAL_BETA_ALPHA_PREPARE") THEN "first" ELSE "rawBeta"
           raw2 == IF Older!On(s, "DUAL_BETA_ALPHA_PREPARE") THEN "second" ELSE "rawAlpha"
           D == {"first", "second", "rawBeta", "rawAlpha", "beta", "decay"}
           a == Older!Make("rawBeta", <<"normalized">>, raw1)
           b == Older!Make("rawAlpha", <<"normalized">>, raw2)
           c == Older!Make("beta", <<raw1>>, "beta")
           d == Older!Make("decay", <<raw2>>, "decay")
           f == In(raw1, "rawBeta")
           g == In(raw2, "rawAlpha")
<1>0. /\ "normalized" \in Floats /\ D \subseteq Floats /\ raw1 \in D /\ raw2 \in D
      /\ Reads(l, "rawBeta", "normalized") /\ Reads(l, "rawAlpha", "normalized")
      /\ Reads(l, "beta", "rawBeta") /\ Reads(l, "decay", "rawAlpha")
  BY RecurrentReads DEF Floats
<1>1. raw1 \in Floats /\ raw2 \in Floats /\ "beta" \in Floats /\ "decay" \in Floats
  BY <1>0
<1>2. /\ f[1] = raw1 /\ g[1] = raw2 /\ raw1 \notin {raw2, "beta", "decay"}
      /\ raw2 \notin {"beta", "decay"}
      /\ Beta[1] = "beta" /\ Normalized[1] \notin {raw1}
  BY FactOf DEF Beta, Normalized
<1>3. RawKept(s) \subseteq {f, g}
  BY DEF RawKept, RawBeta, RawAlpha
<1>4. Older!BetaDecay(s) = <<a, b, c, d>>
  BY DEF Older!BetaDecay
<1> HIDE DEF raw1, raw2
<1>5. /\ Leads(<<a>>, l, h, {Normalized}, {raw1}, {f})
      /\ Leads(<<b>>, l, h, {Normalized}, {raw2}, {g})
      /\ Leads(<<c>>, l, h, {f}, {"beta"}, {Beta})
      /\ Leads(<<d>>, l, h, {g}, {"decay"}, {Decay})
  BY <1>0, <1>1, MakeOneLeads DEF Normalized, Beta, Decay
<1>6. /\ <<a, b, c, d>> = <<a>> \o <<b, c, d>> /\ <<b, c, d>> = <<b>> \o <<c, d>>
      /\ <<c, d>> = <<c>> \o <<d>>
  <2>1. <<a, b, c, d>> = <<a>> \o <<b, c, d>>
    BY Four
  <2>2. <<b, c, d>> = <<b>> \o <<c, d>>
    BY Three
  <2>3. <<c, d>> = <<c>> \o <<d>>
    BY TwoTogether
  <2> QED BY <2>1, <2>2, <2>3
<1> HIDE DEF a, b, c, d, f, g
<1>7. Leads(<<c>> \o <<d>>, l, h, {f, g}, {"beta", "decay"}, {Beta, Decay, f, g})
  BY <1>2, <1>5, Then
<1> DEFINE cd == <<c>> \o <<d>>
<1> HIDE DEF cd
<1>8. Leads(<<b>> \o cd, l, h, {Normalized, f}, {raw2, "beta", "decay"}, {Beta, Decay, f, g})
  <2>1. Leads(cd, l, h, {f, g}, {"beta", "decay"}, {Beta, Decay, f, g})
    BY <1>7 DEF cd
  <2> QED BY <1>2, <1>5, <2>1, Then
<1> DEFINE bcd == <<b>> \o cd
<1> HIDE DEF bcd
<1>9. Leads(<<a>> \o bcd, l, h, {Normalized}, D, {Beta, Decay, f, g})
  <2>1. Leads(bcd, l, h, {Normalized, f}, {raw2, "beta", "decay"}, {Beta, Decay, f, g})
    BY <1>8 DEF bcd
  <2>2. {raw1} \subseteq D /\ {raw2, "beta", "decay"} \subseteq D
    BY <1>0
  <2> HIDE DEF D
  <2> QED BY <1>2, <1>5, <2>1, <2>2, Then
<1>10. Leads(<<a>> \o bcd, l, h, {Normalized}, D, {Beta, Decay} \cup RawKept(s))
  BY <1>3, <1>9, LeadsLess
<1> QED BY <1>4, <1>6, <1>10 DEF cd, bcd

Qkv == In("qkv", "qkv")
Gate == In("gate", "gate")
Past == In("past", "past")
State == In("state", "state")
RawQuery == In("rawQuery", "rawQuery")
RawKey == In("rawKey", "rawKey")
Query == In("query", "query")
Key == In("key", "key")
ValuePart == In("value", "value")
PastLeft == LeftIn("past", "past")
StateLeft == LeftIn("state", "state")

LEMMA RecurrentFacts ==
    /\ Qkv[1] = "qkv" /\ Gate[1] = "gate" /\ Past[1] = "past" /\ State[1] = "state"
    /\ RawQuery[1] = "rawQuery" /\ RawKey[1] = "rawKey" /\ Query[1] = "query"
    /\ Key[1] = "key" /\ ValuePart[1] = "value" /\ PastLeft[1] = "past"
    /\ StateLeft[1] = "state" /\ RawBeta[1] = "rawBeta" /\ RawAlpha[1] = "rawAlpha"
    /\ Beta[1] = "beta" /\ Decay[1] = "decay" /\ Normalized[1] = "normalized"
    /\ NormalizedCopy[1] = "q8_1"
BY FactOf DEF Qkv, Gate, Past, State, RawQuery, RawKey, Query, Key, ValuePart, PastLeft,
   StateLeft, RawBeta, RawAlpha, Beta, Decay, Normalized, NormalizedCopy

\* The call's position is that of the last token.
AtLast(c, h) == c.dynamic = FALSE /\ c.host = Len(h) - 1

\* What the older engine reads where the past of the token should be.
LEMMA TapsLead ==
    ASSUME NEW l, NEW h \in History, NEW place, place = Len(h) - 1
    PROVE  Leads(<<Older!Taps(place)>>, l, h, {Past}, {"first"}, {In("first", "past")})
<1> DEFINE a == Older!Taps(place)
           f == In("first", "past")
<1>0. "first" \in Floats /\ "past" \in Floats
  BY DEF Floats
<1>1. ASSUME NEW m, IsStore(m), \A k \in {Past} : Learned(m, l, h, k)
      PROVE  /\ Alters(Older!Exec(m, l, a), m, {"first"})
             /\ \A k \in {f} : Learned(Older!Exec(m, l, a), l, h, k)
  <2>1. m.at["past"] = Named("past", l, h)
    <3>1. Learned(m, l, h, Past)
      BY <1>1
    <3> QED BY <1>0, <3>1 DEF Learned, Past, In, Meant
  <2>2. Named("past", l, h) = Value("past", l, Front(h))
    BY DEF Named, OneToken
  <2>3. Len(m.at["past"].of) = place
    <3>1. (m.at["past"]).of = Front(h)
      BY <2>1, <2>2 DEF Value
    <3>2. Len(Front(h)) = Len(h) - 1
      <4> DEFINE g == Front(h)
                 t == Last(h)
      <4>1. g \in Seq(Token) /\ t \in Token /\ Append(g, t) = h
        BY HistoryIs
      <4> HIDE DEF g, t
      <4>2. Len(h) = Len(g) + 1 /\ Len(g) \in Nat
        BY <4>1
      <4> QED BY <4>2 DEF g
    <3> QED BY <3>1, <3>2
  <2> DEFINE x == Older!Exec(m, l, a)
  <2>4. x = Older!Write(m, "first", Named("past", l, h))
    BY <2>1, <2>3, ExecTaps
  <2> HIDE DEF x, a
  <2>5. Wrote(x, m, "first", Named("past", l, h))
    BY <1>0, <1>1, <2>4, WriteIs
  <2>6. Alters(x, m, {"first"}) /\ x.at["first"] = Named("past", l, h)
    BY <2>5 DEF Wrote
  <2>7. Learned(x, l, h, f)
    BY <1>0, <2>6 DEF Learned, In, Meant, AllBuffers
  <2> QED BY <2>6, <2>7 DEF x
<1> HIDE DEF a, f
<1>2. Leads(<<a>>, l, h, {Past}, {"first"}, {f})
  BY <1>1, OneLeads
<1> QED BY <1>2 DEF a, f

Convolved == {"first", "rawQuery", "rawKey", "value", "past", "query", "key"}

LEMMA ConvolutionLeads ==
    ASSUME NEW l \in Layers, ~IsFullAttention(l), NEW h \in History, NEW c, AtLast(c, h)
    PROVE  Leads(Older!Convolution(c), l, h, {Past, Qkv}, Convolved,
                 {ValuePart, PastLeft, Query, Key})
<1> DEFINE a1 == Older!Taps(Older!Where(c, TRUE))
           a2 == Older!Make("rawQuery", <<"first", "qkv">>, "rawQuery")
           a3 == Older!Make("rawKey", <<"first", "qkv">>, "rawKey")
           a4 == Older!Make("value", <<"first", "qkv">>, "value")
           a5 == Older!Make("past", <<"first", "qkv">>, "past")
           a6 == Older!Make("query", <<"rawQuery">>, "query")
           a7 == Older!Make("key", <<"rawKey">>, "key")
           f == In("first", "past")
<1>0. Convolved \cup {"qkv"} \subseteq Floats
  BY DEF Floats, Convolved
<1>1. Older!Where(c, TRUE) = Len(h) - 1
  BY DEF Older!Where, AtLast
<1>2. Leads(<<a1>>, l, h, {Past}, {"first"}, {f})
  BY <1>1, TapsLead
<1>3. /\ Formula(l)["rawQuery"] = <<"past", "qkv">> /\ Formula(l)["rawKey"] = <<"past", "qkv">>
      /\ Formula(l)["value"] = <<"past", "qkv">> /\ Formula(l)["past"] = <<"past", "qkv">>
      /\ {"rawQuery", "rawKey", "value", "past"} \subseteq DOMAIN Formula(l)
  BY FormulaRecurrent DEF Formula, Recurrent
<1>4. /\ "first" \in Floats /\ "qkv" \in Floats /\ "rawQuery" \in Floats /\ "rawKey" \in Floats
      /\ "value" \in Floats /\ "past" \in Floats /\ "query" \in Floats /\ "key" \in Floats
  BY <1>0 DEF Convolved
<1>5. Leads(<<a2>>, l, h, {f, Qkv}, {"rawQuery"}, {RawQuery})
  <2>1. Leads(<<a2>>, l, h, {f, Qkv}, {"rawQuery"}, {LeftIn("rawQuery", "rawQuery")})
    BY <1>3, <1>4, MakeTwoLeaves DEF Qkv
  <2> QED BY <1>4, <2>1, FoundAsLeft DEF RawQuery
<1>6. Leads(<<a3>>, l, h, {f, Qkv}, {"rawKey"}, {RawKey})
  <2>1. Leads(<<a3>>, l, h, {f, Qkv}, {"rawKey"}, {LeftIn("rawKey", "rawKey")})
    BY <1>3, <1>4, MakeTwoLeaves DEF Qkv
  <2> QED BY <1>4, <2>1, FoundAsLeft DEF RawKey
<1>7. Leads(<<a4>>, l, h, {f, Qkv}, {"value"}, {ValuePart})
  <2>1. Leads(<<a4>>, l, h, {f, Qkv}, {"value"}, {LeftIn("value", "value")})
    BY <1>3, <1>4, MakeTwoLeaves DEF Qkv
  <2> QED BY <1>4, <2>1, FoundAsLeft DEF ValuePart
<1>8. Leads(<<a5>>, l, h, {f, Qkv}, {"past"}, {PastLeft})
  BY <1>3, <1>4, MakeTwoLeaves DEF Qkv, PastLeft
<1>9. /\ Leads(<<a6>>, l, h, {RawQuery}, {"query"}, {Query})
      /\ Leads(<<a7>>, l, h, {RawKey}, {"key"}, {Key})
  BY <1>4, RecurrentReads, MakeOneLeads DEF RawQuery, RawKey, Query, Key
<1>10. Older!Convolution(c) = <<a1, a2, a3, a4, a5, a6, a7>>
  BY DEF Older!Convolution
<1>11. f[1] = "first"
  BY FactOf
<1> HIDE DEF a1, a2, a3, a4, a5, a6, a7, f
<1> DEFINE p6 == <<a6>> \o <<a7>>
           p5 == <<a5>> \o p6
           p4 == <<a4>> \o p5
           p3 == <<a3>> \o p4
           p2 == <<a2>> \o p3
           p1 == <<a1>> \o p2
<1>12. <<a1, a2, a3, a4, a5, a6, a7>> = p1
  <2>1. <<a1, a2, a3, a4, a5, a6, a7>> = <<a1>> \o <<a2, a3, a4, a5, a6, a7>>
    BY Seven
  <2>2. <<a2, a3, a4, a5, a6, a7>> = <<a2>> \o <<a3, a4, a5, a6, a7>>
    BY Six
  <2>3. <<a3, a4, a5, a6, a7>> = <<a3>> \o <<a4, a5, a6, a7>>
    BY Five
  <2>4. <<a4, a5, a6, a7>> = <<a4>> \o <<a5, a6, a7>>
    BY Four
  <2>5. <<a5, a6, a7>> = <<a5>> \o <<a6, a7>>
    BY Three
  <2>6. <<a6, a7>> = <<a6>> \o <<a7>>
    BY TwoTogether
  <2> QED BY <2>1, <2>2, <2>3, <2>4, <2>5, <2>6
<1> HIDE DEF p1, p2, p3, p4, p5, p6
<1>13. Leads(p6, l, h, {RawQuery, RawKey}, {"query", "key"}, {Query, Key})
  BY <1>9, RecurrentFacts, Then DEF p6
<1>14. Leads(p5, l, h, {f, Qkv, RawQuery, RawKey}, {"past", "query", "key"},
             {PastLeft, Query, Key})
  BY <1>8, <1>13, RecurrentFacts, Then DEF p5
<1>15. Leads(p4, l, h, {f, Qkv, RawQuery, RawKey}, {"value", "past", "query", "key"},
             {ValuePart, PastLeft, Query, Key})
  BY <1>7, <1>11, <1>14, RecurrentFacts, Then DEF p4
<1>16. Leads(p3, l, h, {f, Qkv, RawQuery}, {"rawKey", "value", "past", "query", "key"},
             {ValuePart, PastLeft, Query, Key})
  BY <1>6, <1>11, <1>15, RecurrentFacts, Then DEF p3
<1>17. Leads(p2, l, h, {f, Qkv}, {"rawQuery", "rawKey", "value", "past", "query", "key"},
             {ValuePart, PastLeft, Query, Key})
  BY <1>5, <1>11, <1>16, RecurrentFacts, Then DEF p2
<1>18. Leads(p1, l, h, {Past, Qkv}, Convolved, {ValuePart, PastLeft, Query, Key})
  BY <1>2, <1>17, RecurrentFacts, Then DEF p1, Convolved
<1> QED BY <1>10, <1>12, <1>18

-----------------------------------------------------------------------------
(* The recurrent state and the output projection.                          *)

CoreOutput == In("gatedOutput", "gatedOutput")
CoreCopy == As("q8_1", "q8_1", "gatedOutput")
Projection == In("projected", "projected")

\* The core has quantised its output.
CoreQuantized(s) ==
    Older!CoreFused(s) /\ Older!On(s, "FUSED_CORE_Q8") /\ Older!SsmOutNative(s)

LEMMA UpdateLeads ==
    ASSUME NEW l \in Layers, ~IsFullAttention(l), NEW h \in History,
           NEW out \in Floats, out \notin {"state", "query", "key", "value", "beta", "decay", "gate"}
    PROVE  Leads(<<Older!Make("gdnRawOutput",
                        <<"state", "query", "key", "value", "beta", "decay">>, out),
                   Older!Make("state", <<"state", "key", "value", "beta", "decay">>, "state"),
                   Older!Make("gatedOutput", <<out, "gate">>, "gatedOutput")>>, l, h,
                 {State, Query, Key, ValuePart, Beta, Decay, Gate},
                 {out, "state", "gatedOutput"}, {StateLeft, CoreOutput})
<1> DEFINE a == Older!Make("gdnRawOutput",
                     <<"state", "query", "key", "value", "beta", "decay">>, out)
           b == Older!Make("state", <<"state", "key", "value", "beta", "decay">>, "state")
           c == Older!Make("gatedOutput", <<out, "gate">>, "gatedOutput")
           f == In(out, "gdnRawOutput")
           K == {State, Query, Key, ValuePart, Beta, Decay}
<1>0. /\ "state" \in Floats /\ "query" \in Floats /\ "key" \in Floats /\ "value" \in Floats
      /\ "beta" \in Floats /\ "decay" \in Floats /\ "gate" \in Floats
      /\ "gatedOutput" \in Floats
  BY DEF Floats
<1>1. /\ Formula(l)["gdnRawOutput"] = <<"state", "query", "key", "value", "beta", "decay">>
      /\ Formula(l)["state"] = <<"state", "key", "value", "beta", "decay">>
      /\ Formula(l)["gatedOutput"] = <<"gdnRawOutput", "gate">>
      /\ {"gdnRawOutput", "state", "gatedOutput"} \subseteq DOMAIN Formula(l)
  BY FormulaRecurrent DEF Formula, Recurrent
<1>2. Leads(<<a>>, l, h, K, {out}, {f})
  <2> DEFINE ins == <<"state", "query", "key", "value", "beta", "decay">>
  <2>1. /\ DOMAIN ins = DOMAIN Formula(l)["gdnRawOutput"]
        /\ \A i \in DOMAIN ins : ins[i] \in Floats /\ In(ins[i], Formula(l)["gdnRawOutput"][i]) \in K
    BY <1>0, <1>1 DEF State, Query, Key, ValuePart, Beta, Decay
  <2> HIDE DEF ins, K
  <2>2. Leads(<<Older!Make("gdnRawOutput", ins, out)>>, l, h, K, {out},
              {LeftIn(out, "gdnRawOutput")})
    BY <1>1, <2>1, MakeLeaves
  <2> QED BY <2>2, FoundAsLeft DEF ins
<1>3. Leads(<<b>>, l, h, K, {"state"}, {StateLeft})
  <2> DEFINE ins == <<"state", "key", "value", "beta", "decay">>
  <2>1. /\ DOMAIN ins = DOMAIN Formula(l)["state"]
        /\ \A i \in DOMAIN ins : ins[i] \in Floats /\ In(ins[i], Formula(l)["state"][i]) \in K
    BY <1>0, <1>1 DEF State, Query, Key, ValuePart, Beta, Decay
  <2> HIDE DEF ins, K
  <2>2. Leads(<<Older!Make("state", ins, "state")>>, l, h, K, {"state"},
              {LeftIn("state", "state")})
    BY <1>0, <1>1, <2>1, MakeLeaves
  <2> QED BY <2>2 DEF ins, StateLeft
<1>4. Leads(<<c>>, l, h, {f, Gate}, {"gatedOutput"}, {CoreOutput})
  <2>1. Leads(<<c>>, l, h, {f, Gate}, {"gatedOutput"}, {LeftIn("gatedOutput", "gatedOutput")})
    BY <1>0, <1>1, MakeTwoLeaves DEF Gate
  <2> QED BY <1>0, <2>1, FoundAsLeft DEF CoreOutput
<1>5. f[1] = out
  BY FactOf
<1>6. <<a, b, c>> = <<a>> \o (<<b>> \o <<c>>)
  <2>1. <<a, b, c>> = <<a>> \o <<b, c>>
    BY Three
  <2>2. <<b, c>> = <<b>> \o <<c>>
    BY TwoTogether
  <2> QED BY <2>1, <2>2
<1> HIDE DEF a, b, c, f
<1> DEFINE bc == <<b>> \o <<c>>
<1>7. Leads(bc, l, h, K \cup {f, Gate}, {"state", "gatedOutput"}, {StateLeft, CoreOutput})
  <2> HIDE DEF K
  <2> QED BY <1>3, <1>4, <1>5, RecurrentFacts, Then
<1> HIDE DEF bc
<1> DEFINE All == {State, Query, Key, ValuePart, Beta, Decay, Gate}
<1>8. \A k \in K \cup {f, Gate} : k \in {f} \/ (k \in All /\ k[1] \notin {out})
  BY RecurrentFacts
<1>9. K \subseteq All
  OBVIOUS
<1> HIDE DEF K, All
<1>10. Leads(<<a>> \o bc, l, h, All, {out, "state", "gatedOutput"}, {StateLeft, CoreOutput})
  BY <1>2, <1>7, <1>8, <1>9, Then
<1> QED BY <1>6, <1>10 DEF bc, All, a, b, c

LEMMA CoreOperands ==
    /\ <<"state", "query">> \o <<"key", "value", "beta", "decay">>
            = <<"state", "query", "key", "value", "beta", "decay">>
    /\ <<"state">> \o <<"key", "value", "beta", "decay">>
            = <<"state", "key", "value", "beta", "decay">>
<1> DEFINE S == {"state", "query", "key", "value", "beta", "decay"}
           a == <<"state", "query">>
           b == <<"state">>
           p == <<"key", "value", "beta", "decay">>
           q == <<"state", "query", "key", "value", "beta", "decay">>
           r == <<"state", "key", "value", "beta", "decay">>
<1>1. /\ a \in Seq(S) /\ b \in Seq(S) /\ p \in Seq(S)
      /\ Len(a) = 2 /\ Len(b) = 1 /\ Len(p) = 4
      /\ a[1] = "state" /\ a[2] = "query" /\ b[1] = "state"
      /\ p[1] = "key" /\ p[2] = "value" /\ p[3] = "beta" /\ p[4] = "decay"
  OBVIOUS
<1>2. /\ q \in Seq(S) /\ r \in Seq(S) /\ Len(q) = 6 /\ Len(r) = 5
      /\ q[1] = "state" /\ q[2] = "query" /\ q[3] = "key" /\ q[4] = "value"
      /\ q[5] = "beta" /\ q[6] = "decay"
      /\ r[1] = "state" /\ r[2] = "key" /\ r[3] = "value" /\ r[4] = "beta" /\ r[5] = "decay"
  OBVIOUS
<1> HIDE DEF S, a, b, p, q, r
<1>3. /\ a \o p \in Seq(S) /\ Len(a \o p) = Len(a) + Len(p)
      /\ \A i \in 1 .. Len(a) + Len(p) : (a \o p)[i] = IF i <= Len(a) THEN a[i] ELSE p[i - Len(a)]
  BY <1>1, ConcatProperties
<1>4. /\ b \o p \in Seq(S) /\ Len(b \o p) = Len(b) + Len(p)
      /\ \A i \in 1 .. Len(b) + Len(p) : (b \o p)[i] = IF i <= Len(b) THEN b[i] ELSE p[i - Len(b)]
  BY <1>1, ConcatProperties
<1>5. \A i \in 1 .. 6 : (a \o p)[i] = q[i]
  BY <1>1, <1>2, <1>3
<1>6. \A i \in 1 .. 5 : (b \o p)[i] = r[i]
  BY <1>1, <1>2, <1>4
<1>7. a \o p = q
  <2> DEFINE x == a \o p
  <2>1. x \in Seq(S) /\ Len(x) = 6 /\ \A i \in 1 .. 6 : x[i] = q[i]
    BY <1>1, <1>3, <1>5
  <2> HIDE DEF x
  <2>2. x = q
    BY <1>2, <2>1, SeqEqual
  <2> QED BY <2>2 DEF x
<1>8. b \o p = r
  <2> DEFINE x == b \o p
  <2>1. x \in Seq(S) /\ Len(x) = 5 /\ \A i \in 1 .. 5 : x[i] = r[i]
    BY <1>1, <1>4, <1>6
  <2> HIDE DEF x
  <2>2. x = r
    BY <1>2, <2>1, SeqEqual
  <2> QED BY <2>2 DEF x
<1> QED BY <1>7, <1>8 DEF a, b, p, q, r

LEMMA CoreLeads ==
    ASSUME NEW l \in Layers, ~IsFullAttention(l), NEW h \in History, NEW s,
           ~Older!RawProjectionsMissing(s)
    PROVE  Leads(Older!Core(s), l, h,
                 {State, Query, Key, ValuePart, Beta, Decay, Gate} \cup RawKept(s),
                 {"first", "gdnRawOutput", "beta", "decay", "state", "gatedOutput", "q8_1"},
                 {StateLeft, CoreOutput} \cup GivenIf(CoreQuantized(s), CoreCopy))
<1> DEFINE out == IF Older!CoreFused(s) THEN "first" ELSE "gdnRawOutput"
           raw == <<Older!Make("beta", <<"rawBeta">>, "beta"),
                    Older!Make("decay", <<"rawAlpha">>, "decay")>>
           p == Older!Optional(Older!CoreFromRaw(s), raw)
           q == <<Older!Make("gdnRawOutput",
                        <<"state", "query", "key", "value", "beta", "decay">>, out),
                   Older!Make("state", <<"state", "key", "value", "beta", "decay">>, "state"),
                   Older!Make("gatedOutput", <<out, "gate">>, "gatedOutput")>>
           r == Older!Optional(CoreQuantized(s), Older!Q8_1("gatedOutput"))
           All == {State, Query, Key, ValuePart, Beta, Decay, Gate}
           D == {"first", "gdnRawOutput", "beta", "decay", "state", "gatedOutput", "q8_1"}
           N == GivenIf(CoreQuantized(s), CoreCopy)
<1>0. /\ out \in Floats /\ "beta" \in Floats /\ "decay" \in Floats
      /\ "rawBeta" \in Floats /\ "rawAlpha" \in Floats /\ "gatedOutput" \in Floats
      /\ out \notin {"state", "query", "key", "value", "beta", "decay", "gate"}
      /\ {out, "state", "gatedOutput"} \subseteq D
  BY DEF Floats
<1>1. Older!Core(s) = (p \o q) \o r
  <2>1. /\ <<"state", "query">> \o <<"key", "value", "beta", "decay">>
                = <<"state", "query", "key", "value", "beta", "decay">>
        /\ <<"state">> \o <<"key", "value", "beta", "decay">>
                = <<"state", "key", "value", "beta", "decay">>
    BY CoreOperands
  <2> QED BY <2>1 DEF Older!Core, CoreQuantized
<1>2. Leads(p, l, h, All \cup RawKept(s), {"beta", "decay"}, {Beta, Decay})
  <2> DEFINE a == Older!Make("beta", <<"rawBeta">>, "beta")
             b == Older!Make("decay", <<"rawAlpha">>, "decay")
  <2>1. /\ Leads(<<a>>, l, h, {RawBeta}, {"beta"}, {Beta})
        /\ Leads(<<b>>, l, h, {RawAlpha}, {"decay"}, {Decay})
    BY <1>0, RecurrentReads, MakeOneLeads DEF RawBeta, RawAlpha, Beta, Decay
  <2>2. raw = <<a>> \o <<b>>
    BY TwoTogether
  <2> HIDE DEF a, b
  <2> HIDE DEF raw
  <2>3. Leads(<<a>> \o <<b>>, l, h, {RawBeta, RawAlpha}, {"beta", "decay"}, {Beta, Decay})
    BY <2>1, RecurrentFacts, Then
  <2>4. Older!CoreFromRaw(s) => {RawBeta, RawAlpha} \subseteq All \cup RawKept(s)
    BY DEF Older!RawProjectionsMissing, RawKept
  <2>5. {Beta, Decay} \subseteq All
    OBVIOUS
  <2> HIDE DEF All
  <2> HIDE DEF raw
  <2>6. Leads(raw, l, h, {RawBeta, RawAlpha}, {"beta", "decay"}, {Beta, Decay})
    BY <2>2, <2>3
  <2>7. Older!CoreFromRaw(s) =>
            Leads(raw, l, h, All \cup RawKept(s), {"beta", "decay"}, {Beta, Decay})
    BY <2>4, <2>6, LeadsLess
  <2> QED BY <2>5, <2>7, Optionally
<1>3. Leads(q, l, h, All, {out, "state", "gatedOutput"}, {StateLeft, CoreOutput})
  BY <1>0, UpdateLeads
<1>4. Leads(r, l, h, {CoreOutput}, {"q8_1"}, N)
  <2> DEFINE a == Older!Q8_1("gatedOutput")
  <2>1. Leads(a, l, h, {CoreOutput}, {"q8_1"}, {CoreCopy})
    BY <1>0, Q8_1Leads DEF CoreOutput, CoreCopy
  <2> HIDE DEF a
  <2>2. CoreQuantized(s) => Leads(a, l, h, {CoreOutput}, {"q8_1"}, N)
    BY <2>1, LeadsLess DEF GivenIf
  <2>3. ~CoreQuantized(s) => N \subseteq {CoreOutput}
    BY DEF GivenIf
  <2> HIDE DEF N
  <2>4. Leads(Older!Optional(CoreQuantized(s), a), l, h, {CoreOutput}, {"q8_1"}, N)
    BY <2>2, <2>3, Optionally
  <2> QED BY <2>4 DEF a
<1>5. CoreOutput[1] = "gatedOutput"
  BY FactOf DEF CoreOutput
<1>6. \A k \in All : k \in {Beta, Decay} \/ (k \in All \cup RawKept(s) /\ k[1] \notin {"beta", "decay"})
  BY RecurrentFacts
<1>7. {"beta", "decay"} \subseteq D /\ {"q8_1"} \subseteq D
  OBVIOUS
<1> HIDE DEF p, q, r, All, D, N, out
<1>8. Leads(p \o q, l, h, All \cup RawKept(s), D, {StateLeft, CoreOutput})
  BY <1>0, <1>2, <1>3, <1>6, <1>7, Then
<1> DEFINE pq == p \o q
<1> HIDE DEF pq
<1>9. Leads(pq \o r, l, h, All \cup RawKept(s), D, {StateLeft, CoreOutput} \cup N)
  <2>1. Leads(pq, l, h, All \cup RawKept(s), D, {StateLeft, CoreOutput})
    BY <1>8 DEF pq
  <2> QED BY <1>4, <1>5, <1>7, <2>1, RecurrentFacts, Then
<1> QED BY <1>1, <1>9 DEF pq, All, D, N

LEMMA SsmOutLeads ==
    ASSUME NEW l \in Layers, ~IsFullAttention(l), NEW h \in History, NEW s
    PROVE  Leads(Older!SsmOut(s), l, h, {CoreOutput} \cup GivenIf(CoreQuantized(s), CoreCopy),
                 {"projected"} \cup Copies, {Projection})
<1> DEFINE K == {CoreOutput} \cup GivenIf(CoreQuantized(s), CoreCopy)
           D == {"projected"} \cup Copies
<1>0. /\ "projected" \in Floats /\ "gatedOutput" \in Floats
      /\ {"q8", "q8_1", "mmq"} \subseteq Copies
      /\ "mmq" \in Copies
      /\ Reads(l, "projected", "gatedOutput")
  BY RecurrentReads DEF Floats, Copies
<1>1. In("gatedOutput", "gatedOutput") \in K
  BY DEF CoreOutput
<1>2. CASE Older!RecurrentResident(s) /\ ~Older!On(s, "M26C_SSM_OUT_NATIVE")
  <2> DEFINE layout == IF Older!Mx(s) THEN "mxAffine" ELSE "m23"
             p == Older!Repacked("projected", "gatedOutput", "mmq", layout, "projected")
  <2>1. layout \in Layouts
    BY DEF Layouts
  <2>2. Older!SsmOut(s) = p
    BY <1>2 DEF Older!SsmOut
  <2> HIDE DEF layout
  <2>3. Leads(p, l, h, {In("gatedOutput", "gatedOutput")}, {"projected", "mmq"},
              {In("projected", "projected"), As("mmq", layout, "gatedOutput")})
    BY <1>0, <2>1, RepackedLeads
  <2> HIDE DEF p, K
  <2>4. Leads(p, l, h, K, D, {In("projected", "projected")})
    BY <1>0, <1>1, <2>3, LeadsLess
  <2> QED BY <2>2, <2>4 DEF K, Projection
<1>3. ASSUME NEW needed, ~needed => CoreCopy \in K
      PROVE  Leads(Older!Optional(needed, Older!Q8_1("gatedOutput"))
                   \o Older!Wave("projected", "projected"), l, h, K, D, {Projection})
  <2> DEFINE p == Older!Optional(needed, Older!Q8_1("gatedOutput"))
                  \o Older!Wave("projected", "projected")
  <2> HIDE DEF K
  <2>1. Leads(p, l, h, K, {"projected", "q8_1"},
              {In("projected", "projected"), As("q8_1", "q8_1", "gatedOutput")})
    BY <1>0, <1>1, <1>3, CopyWaveLeads DEF CoreCopy
  <2> HIDE DEF p
  <2>2. Leads(p, l, h, K, D, {In("projected", "projected")})
    BY <1>0, <2>1, LeadsLess
  <2> QED BY <2>2 DEF p, Projection
<1>4. CASE /\ ~(Older!RecurrentResident(s) /\ ~Older!On(s, "M26C_SSM_OUT_NATIVE"))
           /\ Older!SsmOutNative(s)
  <2> DEFINE needed == ~(Older!CoreFused(s) /\ Older!On(s, "FUSED_CORE_Q8"))
  <2>1. ~needed => CoreCopy \in K
    BY <1>4 DEF CoreQuantized, GivenIf
  <2>2. Older!SsmOut(s) = Older!Optional(needed, Older!Q8_1("gatedOutput"))
                          \o Older!Wave("projected", "projected")
    BY <1>4 DEF Older!SsmOut
  <2> HIDE DEF needed, K
  <2> QED BY <1>3, <2>1, <2>2 DEF K
<1>5. CASE /\ ~(Older!RecurrentResident(s) /\ ~Older!On(s, "M26C_SSM_OUT_NATIVE"))
           /\ ~Older!SsmOutNative(s) /\ Older!On(s, "Q5K_Q8_1_MMVQ")
  <2> DEFINE needed == TRUE
  <2>1. ~needed => CoreCopy \in K
    OBVIOUS
  <2>2. Older!SsmOut(s) = Older!Optional(needed, Older!Q8_1("gatedOutput"))
                          \o Older!Wave("projected", "projected")
    BY <1>5 DEF Older!SsmOut, Older!Optional
  <2> HIDE DEF needed, K
  <2> QED BY <1>3, <2>1, <2>2 DEF K
<1>6. CASE /\ ~(Older!RecurrentResident(s) /\ ~Older!On(s, "M26C_SSM_OUT_NATIVE"))
           /\ ~Older!SsmOutNative(s) /\ ~Older!On(s, "Q5K_Q8_1_MMVQ")
  <2> DEFINE p == Older!Plain("projected", "gatedOutput", "projected", FALSE)
  <2>1. Older!SsmOut(s) = p
    BY <1>6 DEF Older!SsmOut
  <2> HIDE DEF K
  <2>2. FALSE => As("q8", "q8k", "gatedOutput") \in K
    OBVIOUS
  <2>3. Leads(p, l, h, K, {"projected", "q8"},
              {In("projected", "projected"), As("q8", "q8k", "gatedOutput")})
    BY <1>0, <1>1, <2>2, PlainLeads
  <2> HIDE DEF p
  <2>4. Leads(p, l, h, K, D, {In("projected", "projected")})
    BY <1>0, <2>3, LeadsLess
  <2> QED BY <2>1, <2>4 DEF K, Projection
<1> QED BY <1>2, <1>4, <1>5, <1>6

-----------------------------------------------------------------------------
(* The feed-forward half.                                                  *)

Input == In("input", "input")
Residual == In("residual", "residual")
PostNormalized == In("postNormalized", "postNormalized")
PostCopy == As("q8_1", "q8_1", "postNormalized")
FfnGate == In("ffnGate", "ffnGate")
FfnUp == In("ffnUp", "ffnUp")
FfnActivation == In("ffnActivation", "ffnActivation")
FfnDown == In("projected", "ffnDown")
Output == In("output", "output")

LEMMA FeedForwardFacts ==
    /\ Input[1] = "input" /\ Residual[1] = "residual" /\ PostNormalized[1] = "postNormalized"
    /\ PostCopy[1] = "q8_1" /\ FfnGate[1] = "ffnGate" /\ FfnUp[1] = "ffnUp"
    /\ FfnActivation[1] = "ffnActivation" /\ FfnDown[1] = "projected"
    /\ Output[1] = "output" /\ Projection[1] = "projected" /\ CoreOutput[1] = "gatedOutput"
BY FactOf DEF Input, Residual, PostNormalized, PostCopy, FfnGate, FfnUp, FfnActivation,
   FfnDown, Output, Projection, CoreOutput

LEMMA FeedForwardBuffers ==
    /\ "input" \in Floats /\ "residual" \in Floats /\ "postNormalized" \in Floats
    /\ "ffnGate" \in Floats /\ "ffnUp" \in Floats /\ "ffnActivation" \in Floats
    /\ "projected" \in Floats /\ "output" \in Floats /\ "first" \in Floats
    /\ "second" \in Floats /\ "nextNormalized" \in Floats
    /\ "q8" \in Copies /\ "q8_1" \in Copies /\ "mmq" \in Copies /\ "mx" \in Copies
    /\ "nextQ8" \in Copies
BY DEF Floats, Copies

\* The kernels with two operands.
LEMMA SharedPairs ==
    ASSUME NEW l \in Layers, NEW h \in History
    PROVE  /\ Leads(<<Older!Make("residual", <<"input", "projected">>, "residual")>>, l, h,
                    {Input, Projection}, {"residual"}, {Residual})
           /\ \A from1, from2 \in Floats :
                  Leads(<<Older!Make("ffnActivation", <<from1, from2>>, "ffnActivation")>>, l, h,
                        {In(from1, "ffnGate"), In(from2, "ffnUp")}, {"ffnActivation"},
                        {FfnActivation})
           /\ Leads(<<Older!Make("output", <<"residual", "projected">>, "output")>>, l, h,
                    {Residual, FfnDown}, {"output"}, {Output})
<1>1. /\ Formula(l)["residual"] = <<"input", "projected">>
      /\ Formula(l)["ffnActivation"] = <<"ffnGate", "ffnUp">>
      /\ Formula(l)["output"] = <<"residual", "ffnDown">>
      /\ "residual" \in DOMAIN Formula(l) /\ "ffnActivation" \in DOMAIN Formula(l)
      /\ "output" \in DOMAIN Formula(l)
  BY FormulaShared DEF Formula, FeedForward
<1>2. Leads(<<Older!Make("residual", <<"input", "projected">>, "residual")>>, l, h,
            {Input, Projection}, {"residual"}, {Residual})
  <2>1. Leads(<<Older!Make("residual", <<"input", "projected">>, "residual")>>, l, h,
              {Input, Projection}, {"residual"}, {LeftIn("residual", "residual")})
    BY <1>1, FeedForwardBuffers, MakeTwoLeaves DEF Input, Projection
  <2> QED BY <2>1, FeedForwardBuffers, FoundAsLeft DEF Residual
<1>3. ASSUME NEW from1 \in Floats, NEW from2 \in Floats
      PROVE  Leads(<<Older!Make("ffnActivation", <<from1, from2>>, "ffnActivation")>>, l, h,
                   {In(from1, "ffnGate"), In(from2, "ffnUp")}, {"ffnActivation"},
                   {FfnActivation})
  <2>1. Leads(<<Older!Make("ffnActivation", <<from1, from2>>, "ffnActivation")>>, l, h,
              {In(from1, "ffnGate"), In(from2, "ffnUp")}, {"ffnActivation"},
              {LeftIn("ffnActivation", "ffnActivation")})
    BY <1>1, FeedForwardBuffers, MakeTwoLeaves
  <2> QED BY <2>1, FeedForwardBuffers, FoundAsLeft DEF FfnActivation
<1>4. Leads(<<Older!Make("output", <<"residual", "projected">>, "output")>>, l, h,
            {Residual, FfnDown}, {"output"}, {Output})
  <2>1. Leads(<<Older!Make("output", <<"residual", "projected">>, "output")>>, l, h,
              {Residual, FfnDown}, {"output"}, {LeftIn("output", "output")})
    BY <1>1, FeedForwardBuffers, MakeTwoLeaves DEF Residual, FfnDown
  <2> QED BY <2>1, FeedForwardBuffers, FoundAsLeft DEF Output
<1> QED BY <1>2, <1>3, <1>4

\* The fused kernel has quantised the post-attention norm.
PostQuantized(s, resident) ==
    /\ Older!On(s, "FUSED_ADD_RMS_NORM") /\ Older!On(s, "FUSED_NORM_Q8")
    /\ Older!Swiglu(s, resident) \/ Older!GateUpNative(s, resident)

LEMMA ResidualNormLeads ==
    ASSUME NEW l \in Layers, NEW h \in History, NEW s, NEW resident
    PROVE  Leads(Older!ResidualNorm(s, resident), l, h, {Input, Projection},
                 {"residual", "postNormalized", "q8_1"},
                 {Residual, PostNormalized} \cup GivenIf(PostQuantized(s, resident), PostCopy))
<1> DEFINE a == Older!Make("residual", <<"input", "projected">>, "residual")
           b == Older!Make("postNormalized", <<"residual">>, "postNormalized")
           r == Older!Optional(PostQuantized(s, resident), Older!Q8_1("postNormalized"))
           N == GivenIf(PostQuantized(s, resident), PostCopy)
           D == {"residual", "postNormalized", "q8_1"}
<1>1. Older!ResidualNorm(s, resident) = (<<a>> \o <<b>>) \o r
  BY TwoTogether DEF Older!ResidualNorm, PostQuantized
<1>2. Leads(<<a>>, l, h, {Input, Projection}, {"residual"}, {Residual})
  BY SharedPairs
<1>3. Leads(<<b>>, l, h, {Residual}, {"postNormalized"}, {PostNormalized})
  BY FeedForwardBuffers, SharedReads, MakeOneLeads DEF Residual, PostNormalized
<1>4. Leads(r, l, h, {PostNormalized}, {"q8_1"}, N)
  <2> DEFINE c == Older!Q8_1("postNormalized")
  <2>1. Leads(c, l, h, {PostNormalized}, {"q8_1"}, {PostCopy})
    BY FeedForwardBuffers, Q8_1Leads DEF PostNormalized, PostCopy
  <2> HIDE DEF c
  <2>2. PostQuantized(s, resident) => Leads(c, l, h, {PostNormalized}, {"q8_1"}, N)
    BY <2>1, LeadsLess DEF GivenIf
  <2>3. ~PostQuantized(s, resident) => N \subseteq {PostNormalized}
    BY DEF GivenIf
  <2> HIDE DEF N
  <2>4. Leads(Older!Optional(PostQuantized(s, resident), c), l, h, {PostNormalized}, {"q8_1"}, N)
    BY <2>2, <2>3, Optionally
  <2> QED BY <2>4 DEF c
<1> HIDE DEF a, b, r, N
<1>5. Leads(<<a>> \o <<b>>, l, h, {Input, Projection}, {"residual", "postNormalized"},
            {Residual, PostNormalized})
  BY <1>2, <1>3, FeedForwardFacts, Then
<1> DEFINE p == <<a>> \o <<b>>
<1>6. Leads(p \o r, l, h, {Input, Projection}, D, {Residual, PostNormalized} \cup N)
  <2> HIDE DEF p
  <2>1. Leads(p, l, h, {Input, Projection}, {"residual", "postNormalized"},
              {Residual, PostNormalized})
    BY <1>5 DEF p
  <2> QED BY <1>4, <2>1, FeedForwardFacts, Then
<1> QED BY <1>1, <1>6 DEF p, N

\* What the gate and up projections leave, possibly activated.
Activated(fused) == IF fused THEN {FfnActivation} ELSE {FfnGate, FfnUp}

Projected == {"first", "second", "ffnGate", "ffnUp", "ffnActivation"} \cup Copies

\* A Q8_1 copy, if it is needed, and both products of it.
LEMMA BothLead ==
    ASSUME NEW l \in Layers, NEW h \in History, NEW needed, NEW K,
           PostNormalized \in K, ~needed => PostCopy \in K,
           NEW out1 \in Floats, NEW out2 \in Floats \ {out1}
    PROVE  Leads(Older!Optional(needed, Older!Q8_1("postNormalized"))
                 \o (Older!Wave("ffnGate", out1) \o Older!Wave("ffnUp", out2)), l, h,
                 K, {out1, out2, "q8_1"}, {In(out1, "ffnGate"), In(out2, "ffnUp")})
<1> DEFINE a == Older!Q8_1("postNormalized")
           p == Older!Optional(needed, a)
           q == Older!Wave("ffnGate", out1)
           r == Older!Wave("ffnUp", out2)
           f == In(out1, "ffnGate")
           g == In(out2, "ffnUp")
<1>1. Leads(a, l, h, {PostNormalized}, {"q8_1"}, {PostCopy})
  BY FeedForwardBuffers, Q8_1Leads DEF PostNormalized, PostCopy
<1>2. /\ Leads(q, l, h, {PostCopy}, {out1}, {f}) /\ Leads(r, l, h, {PostCopy}, {out2}, {g})
  BY SharedReads, WaveLeads DEF PostCopy
<1>3. f[1] = out1 /\ g[1] = out2 /\ PostCopy[1] = "q8_1" /\ "q8_1" \notin {out1, out2}
  BY FactOf, FeedForwardFacts, FeedForwardBuffers, NoOverlap
<1> HIDE DEF a, q, r, f, g
<1>4. Leads(a, l, h, K, {"q8_1"}, {PostCopy})
  BY <1>1, LeadsLess
<1>5. ~needed => {PostCopy} \subseteq K
  OBVIOUS
<1>6. Leads(p, l, h, K, {"q8_1"}, {PostCopy})
  BY <1>4, <1>5, Optionally
<1> HIDE DEF p
<1>7. Leads(q \o r, l, h, {PostCopy}, {out1, out2}, {f, g})
  BY <1>2, <1>3, Then
<1> DEFINE qr == q \o r
<1> HIDE DEF qr
<1>8. Leads(p \o qr, l, h, K, {out1, out2, "q8_1"}, {f, g})
  <2>1. Leads(qr, l, h, {PostCopy}, {out1, out2}, {f, g})
    BY <1>7 DEF qr
  <2> QED BY <1>6, <2>1, Then
<1> QED BY <1>8 DEF qr, p, q, r, f, g, a

LEMMA GateUpLeads ==
    ASSUME NEW l \in Layers, NEW h \in History, NEW s, NEW resident,
           Older!On(s, "FUSED_NORM_Q8") /\ (Older!Swiglu(s, resident) \/ Older!GateUpNative(s, resident))
               => Older!On(s, "FUSED_ADD_RMS_NORM")
    PROVE  Leads(Older!GateUp(s, resident), l, h,
                 {PostNormalized} \cup GivenIf(PostQuantized(s, resident), PostCopy), Projected,
                 Activated(Older!GateUpFused(s, resident)))
<1> DEFINE K == {PostNormalized} \cup GivenIf(PostQuantized(s, resident), PostCopy)
           needed == ~Older!On(s, "FUSED_NORM_Q8")
           Both(need, out1, out2) ==
               Older!Optional(need, Older!Q8_1("postNormalized"))
               \o (Older!Wave("ffnGate", out1) \o Older!Wave("ffnUp", out2))
<1>0. PostNormalized \in K /\ {"q8", "q8_1"} \subseteq Copies
  BY FeedForwardBuffers
<1>1. ASSUME Older!Swiglu(s, resident) \/ Older!GateUpNative(s, resident)
      PROVE  ~needed => PostCopy \in K
  BY <1>1 DEF PostQuantized, GivenIf
<1>2. CASE Older!GateUpFused(s, resident)
  <2> DEFINE p == Both(needed, "first", "second")
             a == <<Older!Make("ffnActivation", <<"first", "second">>, "ffnActivation")>>
             f == In("first", "ffnGate")
             g == In("second", "ffnUp")
  <2>1. ~needed => PostCopy \in K
    BY <1>1, <1>2 DEF Older!GateUpFused
  <2>2. Older!GateUp(s, resident) = p \o a
    BY <1>2 DEF Older!GateUp
  <2> HIDE DEF K, needed
  <2>3. Leads(p, l, h, K, {"first", "second", "q8_1"}, {f, g})
    BY <1>0, <2>1, FeedForwardBuffers, BothLead
  <2>4. Leads(a, l, h, {f, g}, {"ffnActivation"}, {FfnActivation})
    BY FeedForwardBuffers, SharedPairs
  <2>5. /\ {"first", "second", "q8_1"} \subseteq Projected
        /\ {"ffnActivation"} \subseteq Projected
    BY <1>0 DEF Projected
  <2> HIDE DEF p, a, f, g
  <2>6. Leads(p \o a, l, h, K, Projected, {FfnActivation})
    BY <2>3, <2>4, <2>5, Then
  <2> QED BY <1>2, <2>2, <2>6 DEF K, Activated
<1>3. CASE ~Older!GateUpFused(s, resident) /\ Older!GateUpNative(s, resident)
  <2> DEFINE p == Both(needed, "ffnGate", "ffnUp")
  <2>1. ~needed => PostCopy \in K
    BY <1>1, <1>3
  <2>2. Older!GateUp(s, resident) = p
    BY <1>3 DEF Older!GateUp
  <2> HIDE DEF K, needed
  <2>3. Leads(p, l, h, K, {"ffnGate", "ffnUp", "q8_1"}, {FfnGate, FfnUp})
    BY <1>0, <2>1, FeedForwardBuffers, BothLead DEF FfnGate, FfnUp
  <2>4. {"ffnGate", "ffnUp", "q8_1"} \subseteq Projected
    BY <1>0 DEF Projected
  <2> HIDE DEF p
  <2>5. Leads(p, l, h, K, Projected, {FfnGate, FfnUp})
    BY <2>3, <2>4, LeadsLess
  <2> QED BY <1>3, <2>2, <2>5 DEF K, Activated
<1>4. CASE /\ ~Older!GateUpFused(s, resident) /\ ~Older!GateUpNative(s, resident)
           /\ Older!On(s, "Q4K_Q8_1_MMVQ_FFN_GATE_UP")
  <2> DEFINE p == Both(TRUE, "ffnGate", "ffnUp")
  <2>1. ~TRUE => PostCopy \in K
    OBVIOUS
  <2>2. Older!GateUp(s, resident) = p
    BY <1>4 DEF Older!GateUp, Older!Optional
  <2> HIDE DEF K
  <2>3. Leads(p, l, h, K, {"ffnGate", "ffnUp", "q8_1"}, {FfnGate, FfnUp})
    BY <1>0, <2>1, FeedForwardBuffers, BothLead DEF FfnGate, FfnUp
  <2>4. {"ffnGate", "ffnUp", "q8_1"} \subseteq Projected
    BY <1>0 DEF Projected
  <2> HIDE DEF p
  <2>5. Leads(p, l, h, K, Projected, {FfnGate, FfnUp})
    BY <2>3, <2>4, LeadsLess
  <2> QED BY <1>4, <2>2, <2>5 DEF K, Activated
<1>5. CASE /\ ~Older!GateUpFused(s, resident) /\ ~Older!GateUpNative(s, resident)
           /\ ~Older!On(s, "Q4K_Q8_1_MMVQ_FFN_GATE_UP")
  <2> DEFINE done == Older!On(s, "REUSE_PROJECTION_Q8")
             p == Older!Plain("ffnGate", "postNormalized", "ffnGate", FALSE)
             q == Older!Plain("ffnUp", "postNormalized", "ffnUp", done)
             f == As("q8", "q8k", "postNormalized")
  <2>1. Older!GateUp(s, resident) = p \o q
    BY <1>5 DEF Older!GateUp
  <2>2. In("postNormalized", "postNormalized") \in K
    BY DEF PostNormalized
  <2> HIDE DEF K
  <2>3. FALSE => As("q8", "q8k", "postNormalized") \in K
    OBVIOUS
  <2>4. Leads(p, l, h, K, {"ffnGate", "q8"}, {FfnGate, f})
    BY <2>2, <2>3, FeedForwardBuffers, SharedReads, PlainLeads DEF FfnGate
  <2> DEFINE M == {PostNormalized, f}
  <2>5. In("postNormalized", "postNormalized") \in M /\ (done => As("q8", "q8k", "postNormalized") \in M)
    BY DEF PostNormalized
  <2> HIDE DEF M, done
  <2>6. Leads(q, l, h, M, {"ffnUp", "q8"}, {FfnUp, f})
    BY <2>5, FeedForwardBuffers, SharedReads, PlainLeads DEF FfnUp
  <2>7. {"ffnGate", "q8"} \subseteq Projected /\ {"ffnUp", "q8"} \subseteq Projected
    BY <1>0 DEF Projected
  <2>8. Leads(q, l, h, {PostNormalized, f}, {"ffnUp", "q8"}, {FfnUp, f})
    BY <2>6 DEF M
  <2> HIDE DEF p, q, f
  <2>9. Leads(p \o q, l, h, K, Projected, {FfnGate, FfnUp})
    BY <1>0, <2>4, <2>7, <2>8, FeedForwardFacts, Then
  <2> QED BY <1>5, <2>1, <2>9 DEF K, Activated
<1> QED BY <1>2, <1>3, <1>4, <1>5

LEMMA RepackedGateUpLeads ==
    ASSUME NEW l \in Layers, NEW h \in History, NEW buffer \in Copies, NEW layout \in Layouts
    PROVE  Leads(Older!RepackedGateUp(buffer, layout), l, h, {PostNormalized}, Projected,
                 {FfnGate, FfnUp})
<1> DEFINE p == Older!Repacked("ffnGate", "postNormalized", buffer, layout, "ffnGate")
           q == <<Older!Project("ffnUp", buffer, layout, "ffnUp")>>
           f == As(buffer, layout, "postNormalized")
<1>1. Older!RepackedGateUp(buffer, layout) = p \o q
  BY DEF Older!RepackedGateUp
<1>2. Leads(p, l, h, {PostNormalized}, {"ffnGate", buffer}, {FfnGate, f})
  BY FeedForwardBuffers, SharedReads, RepackedLeads DEF PostNormalized, FfnGate
<1>3. Leads(q, l, h, {f}, {"ffnUp"}, {FfnUp})
  BY FeedForwardBuffers, SharedReads, ProjectLeads DEF FfnUp
<1>4. {"ffnGate", buffer} \subseteq Projected /\ {"ffnUp"} \subseteq Projected
  BY DEF Projected
<1> HIDE DEF p, q, f
<1>5. Leads(p \o q, l, h, {PostNormalized}, Projected, {FfnGate, FfnUp})
  BY <1>2, <1>3, <1>4, FeedForwardFacts, Then
<1> QED BY <1>1, <1>5

\* The activation, unless it was made.
LEMMA ActivationLeads ==
    ASSUME NEW l \in Layers, NEW h \in History, NEW needed, NEW fused, needed <=> ~fused
    PROVE  Leads(Older!Optional(needed, Older!Activation), l, h, Activated(fused),
                 {"ffnActivation"}, {FfnActivation})
<1> DEFINE a == Older!Activation
<1>1. Leads(a, l, h, {FfnGate, FfnUp}, {"ffnActivation"}, {FfnActivation})
  BY FeedForwardBuffers, SharedPairs DEF Older!Activation, FfnGate, FfnUp
<1> HIDE DEF a
<1>2. needed => Leads(a, l, h, Activated(fused), {"ffnActivation"}, {FfnActivation})
  BY <1>1 DEF Activated
<1>3. ~needed => {FfnActivation} \subseteq Activated(fused)
  BY DEF Activated
<1>4. Leads(Older!Optional(needed, a), l, h, Activated(fused), {"ffnActivation"}, {FfnActivation})
  BY <1>2, <1>3, Optionally
<1> QED BY <1>4 DEF a

LEMMA DownLeads ==
    ASSUME NEW l \in Layers, NEW h \in History, NEW s
    PROVE  Leads(Older!Down(s), l, h, {FfnActivation}, {"projected"} \cup Copies, {FfnDown})
<1> DEFINE D == {"projected"} \cup Copies
           K == {FfnActivation}
<1>0. In("ffnActivation", "ffnActivation") \in K /\ {"q8", "q8_1"} \subseteq Copies
  BY FeedForwardBuffers DEF FfnActivation
<1>1. CASE Older!DownReadsQ8_1(s)
  <2> DEFINE needed == TRUE
             p == Older!Optional(needed, Older!Q8_1("ffnActivation"))
                  \o Older!Wave("ffnDown", "projected")
  <2>1. Older!Down(s) = p
    BY <1>1 DEF Older!Down, Older!Optional
  <2>2. ~needed => As("q8_1", "q8_1", "ffnActivation") \in K
    OBVIOUS
  <2> HIDE DEF needed, K
  <2>3. Leads(p, l, h, K, {"projected", "q8_1"},
              {In("projected", "ffnDown"), As("q8_1", "q8_1", "ffnActivation")})
    BY <1>0, <2>2, FeedForwardBuffers, SharedReads, CopyWaveLeads
  <2> HIDE DEF p
  <2>4. Leads(p, l, h, K, D, {In("projected", "ffnDown")})
    BY <1>0, <2>3, LeadsLess
  <2> QED BY <2>1, <2>4 DEF K, FfnDown
<1>2. CASE ~Older!DownReadsQ8_1(s)
  <2> DEFINE p == Older!Plain("ffnDown", "ffnActivation", "projected", FALSE)
  <2>1. Older!Down(s) = p
    BY <1>2 DEF Older!Down
  <2> HIDE DEF K
  <2>2. FALSE => As("q8", "q8k", "ffnActivation") \in K
    OBVIOUS
  <2>3. Leads(p, l, h, K, {"projected", "q8"},
              {In("projected", "ffnDown"), As("q8", "q8k", "ffnActivation")})
    BY <1>0, <2>2, FeedForwardBuffers, SharedReads, PlainLeads
  <2> HIDE DEF p
  <2>4. Leads(p, l, h, K, D, {In("projected", "ffnDown")})
    BY <1>0, <2>3, LeadsLess
  <2> QED BY <2>1, <2>4 DEF K, FfnDown
<1> QED BY <1>1, <1>2

LEMMA RepackedDownLeads ==
    ASSUME NEW l \in Layers, NEW h \in History, NEW buffer \in Copies, NEW layout \in Layouts
    PROVE  Leads(Older!RepackedDown(buffer, layout), l, h, {FfnActivation},
                 {"projected"} \cup Copies, {FfnDown})
<1> DEFINE p == Older!Repacked("ffnDown", "ffnActivation", buffer, layout, "projected")
<1>1. Older!RepackedDown(buffer, layout) = p
  BY DEF Older!RepackedDown
<1>2. Leads(p, l, h, {FfnActivation}, {"projected", buffer},
            {FfnDown, As(buffer, layout, "ffnActivation")})
  BY FeedForwardBuffers, SharedReads, RepackedLeads DEF FfnActivation, FfnDown
<1> HIDE DEF p
<1>3. Leads(p, l, h, {FfnActivation}, {"projected"} \cup Copies, {FfnDown})
  BY <1>2, LeadsLess
<1> QED BY <1>1, <1>3

-----------------------------------------------------------------------------
(* The end of a layer.                                                     *)

NextNormalized == As("nextNormalized", "handed", "normalized")
NextCopy == As("nextQ8", "handed", "normalized")

\* What one layer leaves for the next.
HandedOver(s, c) ==
    GivenIf(Older!On(s, "FUSED_INTERLAYER_NORM") /\ c.next, NextNormalized)
    \cup GivenIf(Older!On(s, "FUSED_INTERLAYER_NORM") /\ c.next /\ Older!On(s, "FUSED_NORM_Q8"),
                 NextCopy)

\* There is a layer to hand over to.
NextIs(l, c) == c.next => l + 1 \in Layers

LEMMA HandOverLeads ==
    ASSUME NEW l \in Layers, l + 1 \in Layers, NEW h \in History, NEW quantized
    PROVE  Leads(<<Older!HandOver(quantized)>>, l, h, {Output}, {"nextNormalized", "nextQ8"},
                 {NextNormalized} \cup GivenIf(quantized, NextCopy))
<1> DEFINE a == Older!HandOver(quantized)
           N == {NextNormalized} \cup GivenIf(quantized, NextCopy)
           next == Named("normalized", l + 1, h)
<1>0. l \in Nat
  BY QuantitiesAssumption DEF Layers
<1>1. Named("output", l, h) = Named("input", l + 1, h)
  BY <1>0 DEF Named, OneToken
<1>2. Reads(l + 1, "normalized", "input")
  BY RecurrentReads, FullReads
<1>3. Compute("normalized", l + 1, <<Named("input", l + 1, h)>>) = next
  <2>1. /\ "normalized" \in DOMAIN Formula(l + 1) /\ Formula(l + 1)["normalized"] = <<"input">>
    BY <1>2 DEF Reads
  <2>2. NamedAll(Formula(l + 1)["normalized"], l + 1, h) = <<Named("input", l + 1, h)>>
    BY <2>1 DEF NamedAll
  <2>3. Operands("normalized", l + 1, h) = <<Named("input", l + 1, h)>>
    BY <2>1, <2>2, FormulaNames, OperandsAre
  <2> QED BY <2>1, <2>3, FourLayers, ComputeIs, MadeNamed DEF IsFullAttention
<1>4. ASSUME NEW m, IsStore(m), \A f \in {Output} : Learned(m, l, h, f)
      PROVE  /\ Alters(Older!Exec(m, l, a), m, {"nextNormalized", "nextQ8"})
             /\ \A f \in N : Learned(Older!Exec(m, l, a), l, h, f)
  <2>1. m.at["output"] = Named("output", l, h)
    <3>1. Learned(m, l, h, Output)
      BY <1>4
    <3> QED BY <3>1, FeedForwardBuffers DEF Learned, Output, In, Meant
  <2>2. Compute("normalized", l + 1, <<m.at["output"]>>) = next
    BY <1>1, <1>3, <2>1
  <2> DEFINE x == Older!Exec(m, l, a)
             w == Older!Write(m, "nextNormalized", next)
  <2>3. x = [w EXCEPT !.copies =
                IF quantized THEN [@ EXCEPT !["nextQ8"] = [layout |-> "q8_1", of |-> next]] ELSE @]
    <3> DEFINE v == Compute("normalized", l + 1, <<m.at["output"]>>)
    <3>1. x = [Older!Write(m, "nextNormalized", v) EXCEPT !.copies =
                  IF quantized THEN [@ EXCEPT !["nextQ8"] = [layout |-> "q8_1", of |-> v]] ELSE @]
      BY ExecHandOver
    <3>2. v = next
      BY <2>2
    <3> HIDE DEF x, v, next
    <3> QED BY <3>1, <3>2
  <2> HIDE DEF x, w, a, next
  <2>4. Wrote(w, m, "nextNormalized", next)
    BY <1>4, FeedForwardBuffers, WriteIs DEF w
  <2>5. Alters(w, m, {"nextNormalized"}) /\ w.at["nextNormalized"] = next
    BY <2>4 DEF Wrote
  <2>6. /\ x.at = w.at /\ x.rows = w.rows /\ DOMAIN x = DOMAIN w
        /\ x.copies = IF quantized
                      THEN [w.copies EXCEPT !["nextQ8"] = [layout |-> "q8_1", of |-> next]]
                      ELSE w.copies
    BY <2>3, <2>5 DEF Alters, IsStore
  <2>7. /\ DOMAIN x.copies = Copies
        /\ \A k \in Copies \ {"nextQ8"} : x.copies[k] = w.copies[k]
        /\ quantized => x.copies["nextQ8"] = [layout |-> "q8_1", of |-> next]
    BY <2>5, <2>6, FeedForwardBuffers DEF Alters, IsStore
  <2>8. Alters(x, m, {"nextNormalized", "nextQ8"})
    <3>1. IsStore(x)
      BY <2>5, <2>6, <2>7 DEF Alters, IsStore
    <3>2. x.rows = m.rows
      BY <2>5, <2>6 DEF Alters
    <3>3. \A b \in Floats \ {"nextNormalized", "nextQ8"} : x.at[b] = m.at[b]
      BY <2>5, <2>6 DEF Alters
    <3>4. \A k \in Copies \ {"nextNormalized", "nextQ8"} : x.copies[k] = m.copies[k]
      BY <2>5, <2>7, NoOverlap, FeedForwardBuffers DEF Alters
    <3> QED BY <3>1, <3>2, <3>3, <3>4 DEF Alters
  <2>9. Learned(x, l, h, NextNormalized)
    <3>1. x.at["nextNormalized"] = next
      BY <2>5, <2>6
    <3> QED BY <3>1, FeedForwardBuffers DEF Learned, NextNormalized, As, Meant, AllBuffers, next
  <2>10. quantized => Learned(x, l, h, NextCopy)
    BY <2>7, FeedForwardBuffers, NoOverlap DEF Learned, NextCopy, As, Meant, AllBuffers, next
  <2> QED BY <2>8, <2>9, <2>10 DEF x, GivenIf
<1> HIDE DEF a, N
<1>5. Leads(<<a>>, l, h, {Output}, {"nextNormalized", "nextQ8"}, N)
  BY <1>4, OneLeads
<1> QED BY <1>5 DEF a, N

Finished == {"output", "nextNormalized", "nextQ8"}

LEMMA LayerOutputLeads ==
    ASSUME NEW l \in Layers, NEW h \in History, NEW s, NEW c, NextIs(l, c)
    PROVE  Leads(Older!LayerOutput(s, c), l, h, {Residual, FfnDown}, Finished,
                 {Output} \cup HandedOver(s, c))
<1> DEFINE a == <<Older!Make("output", <<"residual", "projected">>, "output")>>
           b == <<Older!HandOver(Older!On(s, "FUSED_NORM_Q8"))>>
           needed == Older!On(s, "FUSED_INTERLAYER_NORM") /\ c.next
           r == Older!Optional(needed, b)
           N == {Output} \cup HandedOver(s, c)
<1>1. Older!LayerOutput(s, c) = a \o r
  BY DEF Older!LayerOutput
<1>2. Leads(a, l, h, {Residual, FfnDown}, {"output"}, {Output})
  BY SharedPairs
<1>3. Output[1] \notin {"nextNormalized", "nextQ8"}
  BY FeedForwardFacts
<1>4. needed => Leads(b, l, h, {Output}, {"nextNormalized", "nextQ8"}, N)
  <2>1. SUFFICES ASSUME needed
                 PROVE  Leads(b, l, h, {Output}, {"nextNormalized", "nextQ8"}, N)
    OBVIOUS
  <2> DEFINE M == {NextNormalized} \cup GivenIf(Older!On(s, "FUSED_NORM_Q8"), NextCopy)
  <2>2. Leads(b, l, h, {Output}, {"nextNormalized", "nextQ8"}, M)
    BY <2>1, HandOverLeads DEF NextIs
  <2>3. N = {Output} \cup M
    BY <2>1 DEF HandedOver, GivenIf
  <2> HIDE DEF b, N, M
  <2>4. Leads(b, l, h, {Output}, {"nextNormalized", "nextQ8"}, {Output} \cup M)
    BY <1>3, <2>2, LeadsLess
  <2> QED BY <2>3, <2>4
<1>5. ~needed => N \subseteq {Output}
  BY DEF HandedOver, GivenIf
<1> HIDE DEF a, b, N, needed
<1>6. Leads(r, l, h, {Output}, {"nextNormalized", "nextQ8"}, N)
  BY <1>4, <1>5, Optionally
<1> HIDE DEF r
<1>7. Leads(a \o r, l, h, {Residual, FfnDown}, Finished, N)
  BY <1>2, <1>6, Then DEF Finished
<1> QED BY <1>1, <1>7 DEF N

-----------------------------------------------------------------------------
(* A recurrent layer.                                                      *)

\* What a feed-forward half writes.
FfnWrites == {"residual", "postNormalized", "projected"} \cup Projected \cup Finished

\* Its parts put together, whatever kernels each part is made of.
LEMMA FeedForwardLeads ==
    ASSUME NEW l \in Layers, NEW h \in History, NEW s, NEW c, NEW resident, NEW fused,
           NextIs(l, c),
           NEW up, Leads(up, l, h, {PostNormalized} \cup GivenIf(PostQuantized(s, resident), PostCopy),
                         Projected, Activated(fused)),
           NEW act, Leads(act, l, h, Activated(fused), {"ffnActivation"}, {FfnActivation}),
           NEW down, Leads(down, l, h, {FfnActivation}, {"projected"} \cup Copies, {FfnDown})
    PROVE  Leads((((Older!ResidualNorm(s, resident) \o up)
                   \o act) \o down)
                 \o Older!LayerOutput(s, c), l, h,
                 {Input, Projection}, FfnWrites, {Output} \cup HandedOver(s, c))
<1> DEFINE p == Older!ResidualNorm(s, resident)
           e == Older!LayerOutput(s, c)
           M == {PostNormalized} \cup GivenIf(PostQuantized(s, resident), PostCopy)
           pu == p \o up
           pua == pu \o act
           pud == pua \o down
           N == {Output} \cup HandedOver(s, c)
           A == Activated(fused)
<1>1. Leads(p, l, h, {Input, Projection}, {"residual", "postNormalized", "q8_1"}, {Residual} \cup M)
  <2>1. {Residual, PostNormalized} \cup GivenIf(PostQuantized(s, resident), PostCopy) = {Residual} \cup M
    OBVIOUS
  <2> HIDE DEF M
  <2> QED BY <2>1, ResidualNormLeads
<1>2. Leads(act, l, h, A, {"ffnActivation"}, {FfnActivation})
  OBVIOUS
<1>3. Leads(e, l, h, {Residual, FfnDown}, Finished, N)
  BY LayerOutputLeads
<1>4. /\ {"residual", "postNormalized", "q8_1"} \subseteq FfnWrites
      /\ Projected \subseteq FfnWrites /\ {"ffnActivation"} \subseteq FfnWrites
      /\ {"projected"} \cup Copies \subseteq FfnWrites /\ Finished \subseteq FfnWrites
  BY FeedForwardBuffers DEF FfnWrites, Projected
<1>5. /\ Residual[1] \notin Projected /\ Residual[1] \notin {"ffnActivation"}
      /\ Residual[1] \notin {"projected"} \cup Copies
  BY FeedForwardFacts, FeedForwardBuffers, NoOverlap DEF Projected
<1>6. Leads(up, l, h, M, Projected, A)
  OBVIOUS
<1> HIDE DEF p, e, M, N, A, pu, pua, pud
<1>7. Leads(pu, l, h, {Input, Projection}, FfnWrites, {Residual} \cup A)
  BY <1>1, <1>4, <1>5, <1>6, Then DEF pu
<1>8. Leads(pua, l, h, {Input, Projection}, FfnWrites, {Residual, FfnActivation})
  BY <1>2, <1>4, <1>5, <1>7, Then DEF pua
<1>9. Leads(pud, l, h, {Input, Projection}, FfnWrites, {Residual, FfnDown})
  BY <1>4, <1>5, <1>8, Then DEF pud
<1>10. Leads(pud \o e, l, h, {Input, Projection}, FfnWrites, N)
  BY <1>3, <1>4, <1>9, Then
<1> QED BY <1>10 DEF pud, pua, pu, p, e, N

LEMMA RecurrentFeedForwardLeads ==
    ASSUME NEW l \in Layers, NEW h \in History, NEW s, NEW c, NextIs(l, c),
           ~Older!NormCopyMissing(s), ~Older!GateUpMissing(s)
    PROVE  Leads(Older!RecurrentFeedForward(s, c), l, h,
                 {Input, Projection}, FfnWrites, {Output} \cup HandedOver(s, c))
<1> DEFINE resident == Older!RecurrentResident(s)
           fused == Older!GateUpFused(s, resident)
           act == Older!Optional(Older!Mx(s) \/ ~fused, Older!Activation)
           up == IF resident THEN Older!RepackedGateUp("mmq", IF Older!Mx(s) THEN "mxAffine" ELSE "m23")
                             ELSE Older!GateUp(s, resident)
           down == IF resident THEN Older!RepackedDown("mmq", IF Older!Mx(s) THEN Older!MxLayout(Older!Q6(s, "down"))
                                                              ELSE "m23")
                               ELSE Older!Down(s)
           M == {PostNormalized} \cup GivenIf(PostQuantized(s, resident), PostCopy)
<1>1. Older!RecurrentFeedForward(s, c)
          = (((Older!ResidualNorm(s, resident) \o up)
              \o act) \o down) \o Older!LayerOutput(s, c)
  BY DEF Older!RecurrentFeedForward
<1>2. Leads(act, l, h, Activated(fused), {"ffnActivation"}, {FfnActivation})
  <2>1. (Older!Mx(s) \/ ~fused) <=> ~fused
    BY DEF Older!GateUpMissing, Older!GateUpFused, Older!Swiglu, Older!GateUpNative
  <2> HIDE DEF fused
  <2> QED BY <2>1, ActivationLeads
<1>3. Leads(up, l, h, M, Projected, Activated(fused))
  <2>1. CASE resident
    <3> DEFINE layout == IF Older!Mx(s) THEN "mxAffine" ELSE "m23"
               p == Older!RepackedGateUp("mmq", layout)
    <3>1. layout \in Layouts
      BY DEF Layouts
    <3>2. up = p
      BY <2>1
    <3>3. Activated(fused) = {FfnGate, FfnUp}
      BY <2>1 DEF Activated, Older!GateUpFused, Older!Swiglu, Older!GateUpNative
    <3> HIDE DEF layout, fused, up, resident
    <3>4. Leads(p, l, h, {PostNormalized}, Projected, {FfnGate, FfnUp})
      BY <3>1, FeedForwardBuffers, RepackedGateUpLeads
    <3>5. {PostNormalized} \subseteq M
      OBVIOUS
    <3> HIDE DEF p, M
    <3>6. Leads(p, l, h, M, Projected, {FfnGate, FfnUp})
      BY <3>4, <3>5, LeadsLess
    <3> QED BY <3>2, <3>3, <3>6
  <2>2. CASE ~resident
    <3>1. Older!On(s, "FUSED_NORM_Q8") /\ (Older!Swiglu(s, resident) \/ Older!GateUpNative(s, resident))
              => Older!On(s, "FUSED_ADD_RMS_NORM")
      BY DEF Older!NormCopyMissing
    <3>2. up = Older!GateUp(s, resident)
      BY <2>2
    <3> HIDE DEF resident, up
    <3> QED BY <3>1, <3>2, GateUpLeads
  <2> QED BY <2>1, <2>2
<1>4. Leads(down, l, h, {FfnActivation}, {"projected"} \cup Copies, {FfnDown})
  <2>1. CASE resident
    <3> DEFINE layout == IF Older!Mx(s) THEN Older!MxLayout(Older!Q6(s, "down")) ELSE "m23"
    <3>1. layout \in Layouts
      BY DEF Layouts, Older!MxLayout
    <3>2. down = Older!RepackedDown("mmq", layout)
      BY <2>1
    <3> HIDE DEF layout, down
    <3> QED BY <3>1, <3>2, FeedForwardBuffers, RepackedDownLeads
  <2>2. CASE ~resident
    <3>1. down = Older!Down(s)
      BY <2>2
    <3> HIDE DEF down
    <3> QED BY <3>1, DownLeads
  <2> QED BY <2>1, <2>2
<1> HIDE DEF resident, fused, act, up, down
<1>5. Leads((((Older!ResidualNorm(s, resident) \o up)
              \o act) \o down) \o Older!LayerOutput(s, c),
            l, h, {Input, Projection}, FfnWrites, {Output} \cup HandedOver(s, c))
  BY <1>2, <1>3, <1>4, FeedForwardLeads
<1> QED BY <1>1, <1>5

\* What a layer finds when it is run for the last token of h.
EntryFacts(s, c) == {Input} \cup GivenIf(c.ready, Normalized) \cup Handed(s, c)


LEMMA RecurrentStepLeads ==
    ASSUME NEW l \in Layers, ~IsFullAttention(l), NEW h \in History, NEW s, Older!Coherent(s),
           NEW c, AtLast(c, h), NextIs(l, c)
    PROVE  Leads(Older!RecurrentStep(s, c), l, h, EntryFacts(s, c) \cup {Past, State},
                 Floats \cup Copies, {PastLeft, StateLeft, Output} \cup HandedOver(s, c))
<1> DEFINE K == EntryFacts(s, c) \cup {Past, State}
           H == Handed(s, c)
           R == RawKept(s)
           Q == GivenIf(CoreQuantized(s), CoreCopy)
           N == {Output} \cup HandedOver(s, c)
           p1 == Older!Normalize(c)
           p2 == Older!QkvAndGate(s, c)
           p3 == Older!BetaDecay(s)
           p4 == Older!Convolution(c)
           p5 == Older!Core(s)
           p6 == Older!SsmOut(s)
           p7 == Older!RecurrentFeedForward(s, c)
           q2 == p1 \o p2
           q3 == q2 \o p3
           q4 == q3 \o p4
           q5 == q4 \o p5
           q6 == q5 \o p6
           D == Floats \cup Copies
           D2 == {"qkv", "gate"} \cup Copies
           D3 == {"first", "second", "rawBeta", "rawAlpha", "beta", "decay"}
           D5 == {"first", "gdnRawOutput", "beta", "decay", "state", "gatedOutput", "q8_1"}
           D6 == {"projected"} \cup Copies
           Update == {State, Query, Key, ValuePart, Beta, Decay, Gate}
<1>1. Older!RecurrentStep(s, c) = q6 \o p7
  BY DEF Older!RecurrentStep
<1>2. Leads(p1, l, h, {Input} \cup GivenIf(c.ready, Normalized), {"normalized"}, {Normalized})
  BY NormalizeLeads DEF Input
<1>3. Leads(p2, l, h, {Normalized} \cup H, D2, {Qkv, Gate})
  BY ProjectionsLead DEF Older!Coherent, Qkv, Gate
<1>4. Leads(p3, l, h, {Normalized}, D3, {Beta, Decay} \cup R)
  BY BetaDecayLeads
<1>5. Leads(p4, l, h, {Past, Qkv}, Convolved, {ValuePart, PastLeft, Query, Key})
  BY ConvolutionLeads
<1>6. Leads(p5, l, h, Update \cup R, D5, {StateLeft, CoreOutput} \cup Q)
  BY CoreLeads DEF Older!Coherent
<1>7. Leads(p6, l, h, {CoreOutput} \cup Q, D6, {Projection})
  BY SsmOutLeads
<1>8. Leads(p7, l, h, {Input, Projection}, FfnWrites, N)
  BY RecurrentFeedForwardLeads DEF Older!Coherent
<1> HIDE DEF p1, p2, p3, p4, p5, p6, p7, q2, q3, q4, q5, q6
<1>9. /\ {"normalized"} \subseteq D /\ D2 \subseteq D /\ D3 \subseteq D /\ Convolved \subseteq D
      /\ D5 \subseteq D /\ D6 \subseteq D /\ FfnWrites \subseteq D
  BY FeedForwardBuffers DEF Floats, Copies, Convolved, FfnWrites, Projected, Finished
<1>10. \A f \in H : f[1] = "q8_1"
  BY RecurrentFacts DEF Handed, GivenIf
<1>11. \A f \in R : f[1] \in {"rawBeta", "rawAlpha"}
  BY RecurrentFacts DEF RawKept
<1>12. \A f \in Q : f[1] = "q8_1"
  BY FactOf DEF GivenIf, CoreCopy
<1>13. /\ Input \in K /\ Past \in K /\ State \in K /\ H \subseteq K
       /\ {Input} \cup GivenIf(c.ready, Normalized) \subseteq K
  BY DEF EntryFacts
<1>14. \A x \in {"input", "past", "state", "qkv", "gate", "normalized", "beta", "decay",
                 "rawBeta", "rawAlpha", "value", "query", "key", "gatedOutput", "projected"} :
           x \notin Copies
  BY DEF Copies
<1> HIDE DEF H, R, Q, N, K, D
<1>15. Leads(q2, l, h, K, D, {Normalized, Qkv, Gate, Input, Past, State})
  <2>1. \A f \in {Normalized} \cup H : f \in {Normalized} \/ (f \in K /\ f[1] \notin {"normalized"})
    BY <1>10, <1>13
  <2>2. \A f \in {Normalized, Qkv, Gate, Input, Past, State} :
            \/ f \in {Qkv, Gate}
            \/ f \in {Normalized} /\ f[1] \notin D2
            \/ f \in K /\ f[1] \notin {"normalized"} /\ f[1] \notin D2
    BY <1>13, <1>14, RecurrentFacts, FeedForwardFacts
  <2> HIDE DEF D2
  <2> QED BY <1>2, <1>3, <1>9, <1>13, <2>1, <2>2, Then DEF q2
<1>16. Leads(q3, l, h, K, D, {Qkv, Gate, Input, Past, State, Beta, Decay} \cup R)
  <2> DEFINE A == {Normalized, Qkv, Gate, Input, Past, State}
             B == {Qkv, Gate, Input, Past, State, Beta, Decay} \cup R
  <2>1. \A f \in B : f \in {Beta, Decay} \cup R \/ (f \in A /\ f[1] \notin D3)
    BY RecurrentFacts, FeedForwardFacts
  <2>2. Normalized \in A /\ Leads(q2, l, h, K, D, A)
    BY <1>15
  <2> HIDE DEF A, B, D3
  <2>3. Leads(q3, l, h, K, D, B)
    BY <1>4, <1>9, <2>1, <2>2, Then DEF q3
  <2> QED BY <2>3 DEF B
<1>17. Leads(q4, l, h, K, D, {Gate, Input, State, Beta, Decay, ValuePart, PastLeft, Query, Key} \cup R)
  <2> DEFINE A == {Qkv, Gate, Input, Past, State, Beta, Decay} \cup R
             B == {Gate, Input, State, Beta, Decay, ValuePart, PastLeft, Query, Key} \cup R
             C == {ValuePart, PastLeft, Query, Key}
  <2>1. \A f \in B : f \in C \/ (f \in A /\ f[1] \notin Convolved)
    BY <1>11, RecurrentFacts, FeedForwardFacts DEF Convolved
  <2>2. {Past, Qkv} \subseteq A /\ Leads(q3, l, h, K, D, A)
    BY <1>16
  <2> HIDE DEF A, B, C
  <2>3. Leads(p4, l, h, {Past, Qkv}, Convolved, C)
    BY <1>5 DEF C
  <2>4. Leads(q4, l, h, K, D, B)
    BY <1>9, <2>1, <2>2, <2>3, Then DEF q4
  <2> QED BY <2>4 DEF B
<1>18. Leads(q5, l, h, K, D, {Input, PastLeft, StateLeft, CoreOutput} \cup Q)
  <2> DEFINE A == {Gate, Input, State, Beta, Decay, ValuePart, PastLeft, Query, Key} \cup R
             B == {Input, PastLeft, StateLeft, CoreOutput} \cup Q
             C == {StateLeft, CoreOutput} \cup Q
             U == Update \cup R
  <2>1. \A f \in B : f \in C \/ (f \in A /\ f[1] \notin D5)
    BY RecurrentFacts, FeedForwardFacts
  <2>2. U \subseteq A /\ Leads(q4, l, h, K, D, A)
    BY <1>17
  <2> HIDE DEF A, B, C, D5, U
  <2>3. Leads(p5, l, h, U, D5, C)
    BY <1>6 DEF C, U
  <2>4. Leads(q5, l, h, K, D, B)
    BY <1>9, <2>1, <2>2, <2>3, Then DEF q5
  <2> QED BY <2>4 DEF B
<1>19. Leads(q6, l, h, K, D, {Input, PastLeft, StateLeft, Projection})
  <2> DEFINE A == {Input, PastLeft, StateLeft, CoreOutput} \cup Q
             B == {Input, PastLeft, StateLeft, Projection}
             U == {CoreOutput} \cup Q
  <2>1. \A f \in B : f \in {Projection} \/ (f \in A /\ f[1] \notin D6)
    BY <1>14, RecurrentFacts, FeedForwardFacts
  <2>2. U \subseteq A /\ Leads(q5, l, h, K, D, A)
    BY <1>18
  <2> HIDE DEF A, B, D6, U
  <2>3. Leads(p6, l, h, U, D6, {Projection})
    BY <1>7 DEF U
  <2>4. Leads(q6, l, h, K, D, B)
    BY <1>9, <2>1, <2>2, <2>3, Then DEF q6
  <2> QED BY <2>4 DEF B
<1>20. Leads(q6 \o p7, l, h, K, D, {PastLeft, StateLeft} \cup N)
  <2> DEFINE A == {Input, PastLeft, StateLeft, Projection}
             B == {PastLeft, StateLeft} \cup N
  <2>1. \A f \in B : f \in N \/ (f \in A /\ f[1] \notin FfnWrites)
    BY <1>14, RecurrentFacts DEF FfnWrites, Projected, Finished
  <2>2. {Input, Projection} \subseteq A /\ Leads(q6, l, h, K, D, A)
    BY <1>19
  <2> HIDE DEF A, B
  <2>3. Leads(q6 \o p7, l, h, K, D, B)
    BY <1>8, <1>9, <2>1, <2>2, Then
  <2> QED BY <2>3 DEF B
<1>21. {PastLeft, StateLeft} \cup N = {PastLeft, StateLeft, Output} \cup HandedOver(s, c)
  BY DEF N
<1> QED BY <1>1, <1>20, <1>21 DEF K, D

-----------------------------------------------------------------------------
(* The projections of a full-attention layer.                              *)

QFull == In("attnQfull", "attnQfull")
QRope == In("attnQRope", "attnQRope")
AttnK == In("attnK", "attnK")
AttnV == In("attnV", "attnV")
QueryNorm == In("queryNorm", "attnQRope")
KeyNorm == In("keyNorm", "attnK")
Gated == In("attnGatedOutput", "attnGatedOutput")
GatedCopy == As("q8_1", "q8_1", "attnGatedOutput")
NormalizedQ8k == As("q8", "q8k", "normalized")
RowsBefore == As("rows", "value", "row")
RowsAfter == As("rows", "next", "row")

LEMMA AttentionFacts ==
    /\ QFull[1] = "attnQfull" /\ QRope[1] = "attnQRope" /\ AttnK[1] = "attnK"
    /\ AttnV[1] = "attnV" /\ QueryNorm[1] = "queryNorm" /\ KeyNorm[1] = "keyNorm"
    /\ Gated[1] = "attnGatedOutput" /\ GatedCopy[1] = "q8_1" /\ NormalizedQ8k[1] = "q8"
    /\ RowsBefore[1] = "rows" /\ RowsAfter[1] = "rows"
    /\ Normalized[1] = "normalized" /\ NormalizedCopy[1] = "q8_1" /\ Gate[1] = "gate"
<1>1. /\ QFull[1] = "attnQfull" /\ QRope[1] = "attnQRope" /\ AttnK[1] = "attnK"
      /\ AttnV[1] = "attnV" /\ QueryNorm[1] = "queryNorm" /\ KeyNorm[1] = "keyNorm"
  BY FactOf DEF QFull, QRope, AttnK, AttnV, QueryNorm, KeyNorm
<1>2. /\ Gated[1] = "attnGatedOutput" /\ GatedCopy[1] = "q8_1" /\ NormalizedQ8k[1] = "q8"
      /\ RowsBefore[1] = "rows" /\ RowsAfter[1] = "rows"
  BY FactOf DEF Gated, GatedCopy, NormalizedQ8k, RowsBefore, RowsAfter
<1>3. Normalized[1] = "normalized" /\ NormalizedCopy[1] = "q8_1" /\ Gate[1] = "gate"
  BY RecurrentFacts
<1> QED BY <1>1, <1>2, <1>3

LEMMA AttentionBuffers ==
    /\ "attnQfull" \in Floats /\ "attnQRope" \in Floats /\ "attnK" \in Floats
    /\ "attnV" \in Floats /\ "queryNorm" \in Floats /\ "keyNorm" \in Floats
    /\ "attnGatedOutput" \in Floats /\ "gate" \in Floats /\ "normalized" \in Floats
    /\ "first" \in Floats /\ "projected" \in Floats
    /\ "q8" \in Copies /\ "q8_1" \in Copies /\ "mmq" \in Copies /\ "mx" \in Copies
    /\ "m23" \in Layouts /\ "mxAffine" \in Layouts
BY DEF Floats, Copies, Layouts

\* What the query's projection leaves: the key's too, if they are combined,
\* and the activations in some layout.
QueryLeaves(s) ==
    {QFull} \cup
    (IF Older!AttentionResident(s) THEN {AttnK}
     ELSE IF Older!QkCombined(s) THEN {AttnK, NormalizedCopy}
     ELSE IF Older!QNative(s) THEN {NormalizedCopy} ELSE {NormalizedQ8k})

\* The activations after the key's.
KeyLeaves(s) ==
    IF Older!AttentionResident(s) THEN {}
    ELSE IF Older!QkCombined(s) \/ Older!QNative(s) \/ Older!KNative(s)
    THEN {NormalizedCopy} ELSE {NormalizedQ8k}

LEMMA QueryLeads ==
    ASSUME NEW l \in Layers, IsFullAttention(l), NEW h \in History, NEW s, NEW c
    PROVE  Leads(Older!QueryProjection(s, c), l, h, {Normalized} \cup Handed(s, c),
                 {"attnQfull", "attnK"} \cup Copies, QueryLeaves(s))
<1> DEFINE K == {Normalized} \cup Handed(s, c)
           D == {"attnQfull", "attnK"} \cup Copies
<1>0. /\ Reads(l, "attnQfull", "normalized") /\ Reads(l, "attnK", "normalized")
      /\ Normalized \in K
  BY FullReads
<1>1. CASE Older!AttentionResident(s)
  <2> DEFINE p == Older!Repacked("attnQfull", "normalized", "mmq", "m23", "attnQfull")
             q == <<Older!Project("attnK", "mmq", "m23", "attnK")>>
             f == As("mmq", "m23", "normalized")
  <2>1. Older!QueryProjection(s, c) = p \o q
    BY <1>1 DEF Older!QueryProjection
  <2>2. Leads(p, l, h, {Normalized}, {"attnQfull", "mmq"}, {QFull, f})
    BY <1>0, AttentionBuffers, RepackedLeads DEF Normalized, QFull
  <2>3. Leads(q, l, h, {f}, {"attnK"}, {AttnK})
    BY <1>0, AttentionBuffers, ProjectLeads DEF AttnK
  <2> HIDE DEF p, q, f, K
  <2>4. Leads(p \o q, l, h, K, D, {QFull, AttnK})
    BY <1>0, <2>2, <2>3, AttentionFacts, AttentionBuffers, Then
  <2>5. QueryLeaves(s) = {QFull, AttnK}
    BY <1>1 DEF QueryLeaves
  <2> QED BY <2>1, <2>4, <2>5 DEF K
<1>2. CASE ~Older!AttentionResident(s) /\ Older!QkCombined(s)
  <2> DEFINE p == Older!NormalizedQ8_1(s, c) \o Older!Wave("attnQfull", "attnQfull")
             q == Older!Wave("attnK", "attnK")
  <2>1. Older!QueryProjection(s, c) = p \o q
    BY <1>2 DEF Older!QueryProjection
  <2>2. Leads(p, l, h, K, {"attnQfull", "q8_1"}, {QFull, NormalizedCopy})
    BY <1>0, AttentionBuffers, NormalizedWaveLeads DEF QFull
  <2>3. Leads(q, l, h, {NormalizedCopy}, {"attnK"}, {AttnK})
    BY <1>0, AttentionBuffers, WaveLeads DEF AttnK, NormalizedCopy
  <2> HIDE DEF p, q, K
  <2>4. Leads(p \o q, l, h, K, D, {QFull, AttnK, NormalizedCopy})
    BY <2>2, <2>3, AttentionFacts, AttentionBuffers, Then
  <2>5. QueryLeaves(s) = {QFull, AttnK, NormalizedCopy}
    BY <1>2 DEF QueryLeaves
  <2> QED BY <2>1, <2>4, <2>5 DEF K
<1>3. CASE ~Older!AttentionResident(s) /\ ~Older!QkCombined(s) /\ Older!QNative(s)
  <2> DEFINE p == Older!NormalizedQ8_1(s, c) \o Older!Wave("attnQfull", "attnQfull")
  <2>1. Older!QueryProjection(s, c) = p
    BY <1>3 DEF Older!QueryProjection
  <2>2. Leads(p, l, h, K, {"attnQfull", "q8_1"}, {QFull, NormalizedCopy})
    BY <1>0, AttentionBuffers, NormalizedWaveLeads DEF QFull
  <2> HIDE DEF p, K
  <2>3. Leads(p, l, h, K, D, {QFull, NormalizedCopy})
    BY <2>2, AttentionBuffers, LeadsLess
  <2>4. QueryLeaves(s) = {QFull, NormalizedCopy}
    BY <1>3 DEF QueryLeaves
  <2> QED BY <2>1, <2>3, <2>4 DEF K
<1>4. CASE ~Older!AttentionResident(s) /\ ~Older!QkCombined(s) /\ ~Older!QNative(s)
  <2> DEFINE p == Older!Plain("attnQfull", "normalized", "attnQfull", FALSE)
  <2>1. Older!QueryProjection(s, c) = p
    BY <1>4 DEF Older!QueryProjection
  <2>2. In("normalized", "normalized") \in K
    BY DEF Normalized
  <2> HIDE DEF K
  <2>3. FALSE => As("q8", "q8k", "normalized") \in K
    OBVIOUS
  <2>4. Leads(p, l, h, K, {"attnQfull", "q8"}, {QFull, NormalizedQ8k})
    BY <1>0, <2>2, <2>3, AttentionBuffers, PlainLeads DEF QFull, NormalizedQ8k
  <2> HIDE DEF p
  <2>5. Leads(p, l, h, K, D, {QFull, NormalizedQ8k})
    BY <2>4, AttentionBuffers, LeadsLess
  <2>6. QueryLeaves(s) = {QFull, NormalizedQ8k}
    BY <1>4 DEF QueryLeaves
  <2> QED BY <2>1, <2>5, <2>6 DEF K
<1> QED BY <1>1, <1>2, <1>3, <1>4

LEMMA KeyLeads ==
    ASSUME NEW l \in Layers, IsFullAttention(l), NEW h \in History, NEW s
    PROVE  Leads(Older!KeyProjection(s), l, h, {Normalized} \cup QueryLeaves(s),
                 {"attnK", "q8", "q8_1"}, {AttnK} \cup KeyLeaves(s))
<1> DEFINE K == {Normalized} \cup QueryLeaves(s)
           D == {"attnK", "q8", "q8_1"}
           N == {AttnK} \cup KeyLeaves(s)
<1>0. /\ Reads(l, "attnK", "normalized") /\ In("normalized", "normalized") \in K
  BY FullReads DEF Normalized
<1>1. CASE ~Older!Separate(s)
  <2> DEFINE p == <<>>
  <2>1. Older!KeyProjection(s) = p
    BY <1>1 DEF Older!KeyProjection
  <2>2. N \subseteq K
    BY <1>1 DEF Older!Separate, Older!QkCombined, Older!QNative, Older!KNative, QueryLeaves, KeyLeaves
  <2> HIDE DEF K, N
  <2>3. Leads(p, l, h, K, {}, K)
    BY Nothing
  <2> HIDE DEF p, D
  <2>4. Leads(p, l, h, K, D, N)
    BY <2>2, <2>3, LeadsLess
  <2> QED BY <2>1, <2>4 DEF K, D, N
<1>2. CASE Older!Separate(s) /\ Older!KNative(s)
  <2> DEFINE needed == ~Older!QNative(s)
             p == Older!Optional(needed, Older!Q8_1("normalized")) \o Older!Wave("attnK", "attnK")
  <2>1. Older!KeyProjection(s) = p
    BY <1>2 DEF Older!KeyProjection
  <2>2. ~needed => As("q8_1", "q8_1", "normalized") \in K
    BY <1>2 DEF Older!Separate, QueryLeaves, NormalizedCopy
  <2>3. N = {AttnK, NormalizedCopy}
    BY <1>2 DEF Older!Separate, KeyLeaves
  <2> HIDE DEF K, needed, N
  <2>4. Leads(p, l, h, K, {"attnK", "q8_1"}, {AttnK, NormalizedCopy})
    BY <1>0, <2>2, AttentionBuffers, CopyWaveLeads DEF AttnK, NormalizedCopy
  <2> HIDE DEF p
  <2>5. Leads(p, l, h, K, D, {AttnK, NormalizedCopy})
    BY <2>4, LeadsLess
  <2> QED BY <2>1, <2>3, <2>5 DEF K, N
<1>3. CASE Older!Separate(s) /\ ~Older!KNative(s)
  <2> DEFINE done == ~Older!QNative(s) /\ Older!On(s, "REUSE_PROJECTION_Q8")
             p == Older!Plain("attnK", "normalized", "attnK", done)
  <2>1. Older!KeyProjection(s) = p
    BY <1>3 DEF Older!KeyProjection
  <2>2. done => As("q8", "q8k", "normalized") \in K
    BY <1>3 DEF Older!Separate, QueryLeaves, NormalizedQ8k
  <2>3. N = {AttnK, IF Older!QNative(s) THEN NormalizedCopy ELSE NormalizedQ8k}
    BY <1>3 DEF Older!Separate, KeyLeaves
  <2>4. Older!QNative(s) => NormalizedCopy \in K
    BY <1>3 DEF Older!Separate, QueryLeaves
  <2> HIDE DEF K, done, N
  <2>5. Leads(p, l, h, K, {"attnK", "q8"}, {AttnK, NormalizedQ8k})
    BY <1>0, <2>2, AttentionBuffers, PlainLeads DEF AttnK, NormalizedQ8k
  <2>6. \A f \in N : f \in {AttnK, NormalizedQ8k} \/ (f \in K /\ f[1] \notin {"attnK", "q8"})
    BY <2>3, <2>4, AttentionFacts
  <2> HIDE DEF p
  <2>7. Leads(p, l, h, K, D, N)
    BY <2>5, <2>6, LeadsLess
  <2> QED BY <2>1, <2>7 DEF K, N
<1> QED BY <1>1, <1>2, <1>3

LEMMA ValueLeads ==
    ASSUME NEW l \in Layers, IsFullAttention(l), NEW h \in History, NEW s
    PROVE  Leads(Older!ValueProjection(s), l, h, {Normalized} \cup KeyLeaves(s),
                 {"attnV"} \cup Copies, {AttnV})
<1> DEFINE K == {Normalized} \cup KeyLeaves(s)
           D == {"attnV"} \cup Copies
           shared == Older!QkCombined(s) \/ Older!QNative(s) \/ Older!KNative(s)
<1>0. /\ Reads(l, "attnV", "normalized") /\ In("normalized", "normalized") \in K
  BY FullReads DEF Normalized
<1>1. CASE Older!AttentionResident(s)
  <2> DEFINE p == Older!Repacked("attnV", "normalized", "mmq", "m23", "attnV")
             f == As("mmq", "m23", "normalized")
  <2>1. Older!ValueProjection(s) = p
    BY <1>1 DEF Older!ValueProjection
  <2>2. Leads(p, l, h, {Normalized}, {"attnV", "mmq"}, {AttnV, f})
    BY <1>0, AttentionBuffers, RepackedLeads DEF Normalized, AttnV
  <2>3. {Normalized} \subseteq K
    OBVIOUS
  <2> HIDE DEF p, f, K
  <2>4. Leads(p, l, h, K, D, {AttnV})
    BY <2>2, <2>3, AttentionBuffers, LeadsLess
  <2> QED BY <2>1, <2>4 DEF K
<1>2. CASE ~Older!AttentionResident(s) /\ Older!VNative(s)
  <2> DEFINE needed == ~shared
             p == Older!Optional(needed, Older!Q8_1("normalized")) \o Older!Wave("attnV", "attnV")
  <2>1. Older!ValueProjection(s) = p
    BY <1>2 DEF Older!ValueProjection
  <2>2. ~needed => As("q8_1", "q8_1", "normalized") \in K
    BY <1>2 DEF KeyLeaves, NormalizedCopy
  <2> HIDE DEF K, needed
  <2>3. Leads(p, l, h, K, {"attnV", "q8_1"}, {AttnV, NormalizedCopy})
    BY <1>0, <2>2, AttentionBuffers, CopyWaveLeads DEF AttnV, NormalizedCopy
  <2> HIDE DEF p
  <2>4. Leads(p, l, h, K, D, {AttnV})
    BY <2>3, AttentionBuffers, LeadsLess
  <2> QED BY <2>1, <2>4 DEF K
<1>3. CASE ~Older!AttentionResident(s) /\ ~Older!VNative(s)
  <2> DEFINE done == ~shared /\ Older!On(s, "REUSE_PROJECTION_Q8")
             p == Older!Plain("attnV", "normalized", "attnV", done)
  <2>1. Older!ValueProjection(s) = p
    BY <1>3 DEF Older!ValueProjection
  <2>2. done => As("q8", "q8k", "normalized") \in K
    BY <1>3 DEF KeyLeaves, NormalizedQ8k
  <2> HIDE DEF K, done
  <2>3. Leads(p, l, h, K, {"attnV", "q8"}, {AttnV, NormalizedQ8k})
    BY <1>0, <2>2, AttentionBuffers, PlainLeads DEF AttnV, NormalizedQ8k
  <2> HIDE DEF p
  <2>4. Leads(p, l, h, K, D, {AttnV})
    BY <2>3, AttentionBuffers, LeadsLess
  <2> QED BY <2>1, <2>4 DEF K
<1> QED BY <1>1, <1>2, <1>3

-----------------------------------------------------------------------------
(* Split, rotation and the row of the token.                               *)

RowMade == In("first", "row")

LEMMA RopeOf ==
    ASSUME NEW l, NEW h
    PROVE  Named("attnQRope", l, h).of = h /\ Named("row", l, h) = Value("row", l, h)
           /\ Named("row", l, h).of = h
<1>1. Named("attnQRope", l, h) = Value("attnQRope", l, h)
  BY DEF Named, OneToken
<1>2. Named("row", l, h) = Value("row", l, h)
  BY DEF Named, OneToken
<1> QED BY <1>1, <1>2 DEF Value

LEMMA RotateLeads ==
    ASSUME NEW l, NEW h \in History, NEW from \in Floats, NEW out \in Floats,
           NEW place, place = Len(h) - 1
    PROVE  Leads(<<Older!Rotate(from, out, place)>>, l, h,
                 {In(from, "attnQRope")}, {out}, {In(out, "attnQRope")})
<1> DEFINE a == Older!Rotate(from, out, place)
           k == In(from, "attnQRope")
           f == In(out, "attnQRope")
<1>0. Len(h) \in Nat
  BY HistoryIs
<1>1. ASSUME NEW m, IsStore(m), \A e \in {k} : Learned(m, l, h, e)
      PROVE  /\ Alters(Older!Exec(m, l, a), m, {out})
             /\ \A e \in {f} : Learned(Older!Exec(m, l, a), l, h, e)
  <2>1. m.at[from] = Named("attnQRope", l, h)
    <3>1. Learned(m, l, h, k)
      BY <1>1
    <3> QED BY <3>1 DEF Learned, In, Meant
  <2>2. Len(m.at[from].of) = place + 1
    BY <1>0, <2>1, RopeOf
  <2> DEFINE x == Older!Exec(m, l, a)
  <2>3. x = Older!Write(m, out, Named("attnQRope", l, h))
    BY <2>1, <2>2, ExecRotate
  <2> HIDE DEF x, a
  <2>4. Wrote(x, m, out, Named("attnQRope", l, h))
    BY <1>1, <2>3, WriteIs
  <2>5. Alters(x, m, {out}) /\ x.at[out] = Named("attnQRope", l, h)
    BY <2>4 DEF Wrote
  <2>6. Learned(x, l, h, f)
    BY <2>5 DEF Learned, In, Meant, AllBuffers
  <2> QED BY <2>5, <2>6 DEF x
<1> HIDE DEF a, f, k
<1>2. Leads(<<a>>, l, h, {k}, {out}, {f})
  BY <1>1, OneLeads
<1> QED BY <1>2 DEF a, f, k

LEMMA CopyLeads ==
    ASSUME NEW l, NEW h, NEW from \in Floats, NEW out \in Floats, NEW what
    PROVE  Leads(<<Older!Copy(from, out)>>, l, h, {In(from, what)}, {out}, {In(out, what)})
<1> DEFINE a == Older!Copy(from, out)
           k == In(from, what)
           f == In(out, what)
<1>1. ASSUME NEW m, IsStore(m), \A e \in {k} : Learned(m, l, h, e)
      PROVE  /\ Alters(Older!Exec(m, l, a), m, {out})
             /\ \A e \in {f} : Learned(Older!Exec(m, l, a), l, h, e)
  <2>1. m.at[from] = Named(what, l, h)
    <3>1. Learned(m, l, h, k)
      BY <1>1
    <3> QED BY <3>1 DEF Learned, In, Meant
  <2> DEFINE x == Older!Exec(m, l, a)
  <2>2. x = Older!Write(m, out, Named(what, l, h))
    BY <2>1, ExecCopy
  <2> HIDE DEF x, a
  <2>3. Wrote(x, m, out, Named(what, l, h))
    BY <1>1, <2>2, WriteIs
  <2>4. Alters(x, m, {out}) /\ x.at[out] = Named(what, l, h)
    BY <2>3 DEF Wrote
  <2>5. Learned(x, l, h, f)
    BY <2>4 DEF Learned, In, Meant, AllBuffers
  <2> QED BY <2>4, <2>5 DEF x
<1> HIDE DEF a, f, k
<1>2. Leads(<<a>>, l, h, {k}, {out}, {f})
  BY <1>1, OneLeads
<1> QED BY <1>2 DEF a, f, k

LEMMA WholePrefix ==
    ASSUME NEW h \in History
    PROVE  SubSeq(h, 1, Len(h)) = h
<1>0. h \in Seq(Token) /\ Len(h) \in Nat
  BY HistoryIs
<1>1. h \in Seq(Token) /\ Len(h) \in 0 .. Len(h)
  BY <1>0
<1>2. /\ SubSeq(h, 1, Len(h)) \in Seq(Token) /\ Len(SubSeq(h, 1, Len(h))) = Len(h)
      /\ \A i \in 1 .. Len(h) : SubSeq(h, 1, Len(h))[i] = h[i]
  BY <1>1, PrefixIs
<1> QED BY <1>1, <1>2, SeqEqual

LEMMA PlaceLeads ==
    ASSUME NEW l, NEW h \in History, Len(h) <= OlderCapacity,
           NEW place, place = Len(h) - 1
    PROVE  Leads(<<Older!Place(place)>>, l, h, {RowMade, RowsBefore}, {"rows"}, {RowsAfter})
<1> DEFINE a == Older!Place(place)
<1>0. Len(h) \in Nat /\ Len(h) > 0 /\ "first" \in Floats /\ OlderCapacity \in Nat
      /\ "rows" \notin Floats /\ "rows" \notin Copies
  BY HistoryIs, CapacityNat, NoOverlap, AttentionBuffers
<1>1. ASSUME NEW m, IsStore(m), \A e \in {RowMade, RowsBefore} : Learned(m, l, h, e)
      PROVE  /\ Alters(Older!Exec(m, l, a), m, {"rows"})
             /\ \A e \in {RowsAfter} : Learned(Older!Exec(m, l, a), l, h, e)
  <2>1. m.at["first"] = Named("row", l, h)
    <3>1. Learned(m, l, h, RowMade)
      BY <1>1
    <3> QED BY <1>0, <3>1 DEF Learned, RowMade, In, Meant
  <2>2. /\ m.rows = [i \in 1 .. OlderCapacity |-> m.rows[i]]
        /\ \A i \in 1 .. Len(h) : i < Len(h) => m.rows[i] = Value("row", l, SubSeq(h, 1, i))
    <3>1. Learned(m, l, h, RowsBefore)
      BY <1>1
    <3> QED BY <1>0, <3>1 DEF Learned, RowsBefore, As
  <2>3. Len(m.at["first"].of) = place + 1 /\ place + 1 = Len(h)
    BY <1>0, <2>1, RopeOf
  <2> DEFINE x == Older!Exec(m, l, a)
  <2>4. x = [m EXCEPT !.rows[Len(h)] = Named("row", l, h)]
    BY <2>1, <2>3, ExecPlace
  <2> HIDE DEF x, a
  <2>5. /\ DOMAIN x = DOMAIN m /\ x.at = m.at /\ x.copies = m.copies
        /\ x.rows = [m.rows EXCEPT ![Len(h)] = Named("row", l, h)]
    BY <1>1, <2>4 DEF IsStore
  <2>6. /\ x.rows = [i \in 1 .. OlderCapacity |-> x.rows[i]]
        /\ x.rows[Len(h)] = Value("row", l, h)
        /\ \A i \in 1 .. Len(h) : i # Len(h) => x.rows[i] = m.rows[i]
    <3> DEFINE r == m.rows
               y == x.rows
               v == Named("row", l, h)
    <3>1. r = [i \in 1 .. OlderCapacity |-> r[i]] /\ y = [r EXCEPT ![Len(h)] = v]
      BY <2>2, <2>5
    <3>2. v = Value("row", l, h) /\ Len(h) \in 1 .. OlderCapacity
      BY <1>0, RopeOf
    <3> HIDE DEF r, y, v
    <3>3. DOMAIN r = 1 .. OlderCapacity
      BY <3>1
    <3>4. y = [i \in 1 .. OlderCapacity |-> IF i = Len(h) THEN v ELSE r[i]]
      BY <3>1, <3>3
    <3>5. \A i \in 1 .. OlderCapacity : y[i] = IF i = Len(h) THEN v ELSE r[i]
      BY <3>4
    <3>6. y = [i \in 1 .. OlderCapacity |-> y[i]]
      BY <3>4
    <3>7. \A i \in 1 .. Len(h) : i \in 1 .. OlderCapacity
      BY <1>0, <3>2
    <3> QED BY <3>2, <3>5, <3>6, <3>7 DEF r, y
  <2>7. Alters(x, m, {"rows"})
    <3>1. DOMAIN x.rows = 1 .. OlderCapacity
      BY <2>6
    <3> QED BY <1>1, <2>5, <3>1 DEF IsStore, Alters
  <2>8. \A i \in 1 .. Len(h) : x.rows[i] = Value("row", l, SubSeq(h, 1, i))
    <3> TAKE i \in 1 .. Len(h)
    <3>1. CASE i = Len(h)
      BY <2>6, <3>1, WholePrefix
    <3>2. CASE i # Len(h)
      <4>1. i < Len(h)
        BY <1>0, <3>2
      <4> QED BY <2>2, <2>6, <3>2, <4>1
    <3> QED BY <3>1, <3>2
  <2>9. Learned(x, l, h, RowsAfter)
    BY <1>0, <2>6, <2>8 DEF Learned, RowsAfter, As, AllBuffers
  <2> QED BY <2>7, <2>9 DEF x
<1> HIDE DEF a
<1>2. Leads(<<a>>, l, h, {RowMade, RowsBefore}, {"rows"}, {RowsAfter})
  BY <1>1, OneLeads
<1> QED BY <1>2 DEF a

LEMMA AttendLeads ==
    ASSUME NEW l \in Layers, IsFullAttention(l), NEW h \in History, Len(h) <= OlderCapacity,
           NEW place, place = Len(h) - 1
    PROVE  Leads(<<Older!Attend(place)>>, l, h, {QRope, Gate, RowsAfter},
                 {"attnGatedOutput"}, {Gated})
<1> DEFINE a == Older!Attend(place)
<1>0. Len(h) \in Nat /\ Len(h) > 0 /\ OlderCapacity \in Nat
      /\ "rows" \notin Floats /\ "rows" \notin Copies
  BY HistoryIs, CapacityNat, NoOverlap
<1>1. ASSUME NEW m, IsStore(m), \A e \in {QRope, Gate, RowsAfter} : Learned(m, l, h, e)
      PROVE  /\ Alters(Older!Exec(m, l, a), m, {"attnGatedOutput"})
             /\ \A e \in {Gated} : Learned(Older!Exec(m, l, a), l, h, e)
  <2>1. /\ m.at["attnQRope"] = Named("attnQRope", l, h)
        /\ m.at["gate"] = Named("gate", l, h)
    <3>1. Learned(m, l, h, QRope) /\ Learned(m, l, h, Gate)
      BY <1>1
    <3> QED BY <3>1, AttentionBuffers DEF Learned, QRope, Gate, In, Meant
  <2>2. /\ m.rows = [i \in 1 .. OlderCapacity |-> m.rows[i]]
        /\ \A i \in 1 .. Len(h) : m.rows[i] = Value("row", l, SubSeq(h, 1, i))
    <3>1. Learned(m, l, h, RowsAfter)
      BY <1>1
    <3> QED BY <1>0, <3>1 DEF Learned, RowsAfter, As
  <2>3. SubSeq(m.rows, 1, place + 1) = RowsOf(l, h)
    <3> DEFINE r == m.rows
               S == {r[i] : i \in 1 .. OlderCapacity}
               b == SubSeq(r, 1, Len(h))
    <3>1. place + 1 = Len(h) /\ Len(h) \in 0 .. OlderCapacity
      BY <1>0
    <3>2. r \in Seq(S) /\ Len(r) = OlderCapacity
      <4>1. r = [i \in 1 .. OlderCapacity |-> r[i]] /\ \A i \in 1 .. OlderCapacity : r[i] \in S
        BY <2>2
      <4> HIDE DEF r, S
      <4>2. r \in [1 .. OlderCapacity -> S]
        BY <4>1
      <4> QED BY <1>0, <4>2
    <3>3. \A i \in 1 .. Len(h) : r[i] = Value("row", l, SubSeq(h, 1, i))
      BY <2>2
    <3> HIDE DEF r, S, b
    <3>4. /\ b \in Seq(S) /\ Len(b) = Len(h)
          /\ \A i \in 1 .. Len(h) : b[i] = r[i]
      BY <3>1, <3>2, PrefixIs DEF b
    <3>5. b = [i \in 1 .. Len(h) |-> b[i]]
      BY <3>4
    <3>6. b = RowsOf(l, h)
      BY <3>3, <3>4, <3>5 DEF RowsOf
    <3> QED BY <3>1, <3>6 DEF b, r
  <2>4. Compute("attnGatedOutput", l,
            <<m.at["attnQRope"], m.at["gate"]>> \o SubSeq(m.rows, 1, place + 1))
            = Named("attnGatedOutput", l, h)
    <3>1. Formula(l)["attnGatedOutput"] = <<"attnQRope", "gate">>
          /\ "attnGatedOutput" \in DOMAIN Formula(l)
      BY FormulaFull DEF Formula, Full
    <3>2. NamedAll(<<"attnQRope", "gate">>, l, h)
              = <<Named("attnQRope", l, h), Named("gate", l, h)>>
      BY DEF NamedAll
    <3>3. Operands("attnGatedOutput", l, h)
              = <<Named("attnQRope", l, h), Named("gate", l, h)>> \o RowsOf(l, h)
      BY <3>1, <3>2 DEF Operands
    <3>4. Compute("attnGatedOutput", l, Operands("attnGatedOutput", l, h))
              = Made("attnGatedOutput", l, h)
      BY <3>1, FourLayers, ComputeIs DEF IsFullAttention
    <3> QED BY <2>1, <2>3, <3>3, <3>4, MadeNamed
  <2> DEFINE x == Older!Exec(m, l, a)
  <2>5. x = Older!Write(m, "attnGatedOutput", Named("attnGatedOutput", l, h))
    BY <2>4, ExecAttend
  <2> HIDE DEF x, a
  <2>6. Wrote(x, m, "attnGatedOutput", Named("attnGatedOutput", l, h))
    BY <1>1, <2>5, WriteIs, AttentionBuffers
  <2>7. Alters(x, m, {"attnGatedOutput"})
        /\ x.at["attnGatedOutput"] = Named("attnGatedOutput", l, h)
    BY <2>6 DEF Wrote
  <2>8. Learned(x, l, h, Gated)
    BY <2>7, AttentionBuffers DEF Learned, Gated, In, Meant, AllBuffers
  <2> QED BY <2>7, <2>8 DEF x
<1> HIDE DEF a
<1>2. Leads(<<a>>, l, h, {QRope, Gate, RowsAfter}, {"attnGatedOutput"}, {Gated})
  BY <1>1, OneLeads
<1> QED BY <1>2 DEF a
-----------------------------------------------------------------------------
(* The attention of a token.                                               *)

RopeNorm(s) == Older!On(s, "FUSED_ROPE_NORM")

SplitLeaves(s) == {Gate, IF RopeNorm(s) THEN QRope ELSE QueryNorm}

LEMMA SplitLeads ==
    ASSUME NEW l \in Layers, IsFullAttention(l), NEW h \in History, NEW s,
           NEW c, AtLast(c, h)
    PROVE  Leads(Older!SplitQuery(s, c), l, h, {QFull},
                 {"queryNorm", "gate", "first", "attnQRope"}, SplitLeaves(s))
<1> DEFINE n == <<Older!Make("attnQRope", <<"attnQfull">>, "queryNorm")>>
           g == <<Older!Make("gate", <<"attnQfull">>, "gate")>>
           m == Older!Make("attnQRope", <<"attnQfull">>, "first")
           r == Older!Rotate("first", "attnQRope", Older!Where(c, TRUE))
           D == {"queryNorm", "gate", "first", "attnQRope"}
           f == In("first", "attnQRope")
<1>1. Older!SplitQuery(s, c)
          = (Older!Optional(~RopeNorm(s), n) \o g) \o Older!Optional(RopeNorm(s), <<m, r>>)
  BY DEF Older!SplitQuery, RopeNorm
<1>2. Leads(n, l, h, {QFull}, {"queryNorm"}, {QueryNorm})
  BY FullReads, AttentionBuffers, MakeOneLeads DEF QFull, QueryNorm
<1>3. Leads(g, l, h, {QFull}, {"gate"}, {Gate})
  BY FullReads, AttentionBuffers, MakeOneLeads DEF QFull, Gate
<1>4. Leads(<<m>>, l, h, {QFull}, {"first"}, {f})
  BY FullReads, AttentionBuffers, MakeOneLeads DEF QFull
<1>5. Leads(<<r>>, l, h, {f}, {"attnQRope"}, {QRope})
  <2>1. Older!Where(c, TRUE) = Len(h) - 1
    BY DEF Older!Where, AtLast
  <2> QED BY <2>1, AttentionBuffers, RotateLeads DEF QRope
<1>6. <<m, r>> = <<m>> \o <<r>>
  BY TwoTogether
<1> HIDE DEF n, g, m, r, f
<1>7. CASE RopeNorm(s)
  <2> DEFINE none == Older!Optional(~RopeNorm(s), n)
             p == none \o g
             q == <<m>> \o <<r>>
  <2>1. Older!SplitQuery(s, c) = p \o q
    <3>1. Older!Optional(RopeNorm(s), <<m, r>>) = <<m>> \o <<r>>
      BY <1>6, <1>7 DEF Older!Optional
    <3> QED BY <1>1, <3>1
  <2>2. Leads(none, l, h, {QFull}, {}, {QFull})
    <3>1. none = <<>>
      BY <1>7 DEF Older!Optional
    <3> HIDE DEF none
    <3> QED BY <3>1, Nothing
  <2> HIDE DEF none
  <2>3. Leads(p, l, h, {QFull}, {"gate"}, {Gate, QFull})
    BY <1>3, <2>2, AttentionFacts, Then
  <2>4. Leads(q, l, h, {QFull}, {"first", "attnQRope"}, {QRope})
    BY <1>4, <1>5, Then
  <2> HIDE DEF p, q
  <2>5. Leads(p \o q, l, h, {QFull}, D, {Gate, QRope})
    BY <2>3, <2>4, AttentionFacts, Then
  <2> QED BY <1>7, <2>1, <2>5 DEF SplitLeaves
<1>8. CASE ~RopeNorm(s)
  <2> DEFINE none == Older!Optional(RopeNorm(s), <<m, r>>)
             p == n \o g
  <2>1. Older!SplitQuery(s, c) = p \o none
    <3>1. Older!Optional(~RopeNorm(s), n) = n
      BY <1>8 DEF Older!Optional
    <3> QED BY <1>1, <3>1
  <2>2. Leads(p, l, h, {QFull}, {"queryNorm", "gate"}, {Gate, QueryNorm})
    BY <1>2, <1>3, AttentionFacts, Then
  <2>3. Leads(none, l, h, {Gate, QueryNorm}, {}, {Gate, QueryNorm})
    <3>1. none = <<>>
      BY <1>8 DEF Older!Optional
    <3> HIDE DEF none
    <3> QED BY <3>1, Nothing
  <2> HIDE DEF none, p
  <2>4. Leads(p \o none, l, h, {QFull}, D, {Gate, QueryNorm})
    BY <2>2, <2>3, Then
  <2> QED BY <1>8, <2>1, <2>4 DEF SplitLeaves
<1> QED BY <1>7, <1>8

LEMMA NormalizeKeyLeads ==
    ASSUME NEW l, NEW h, NEW s
    PROVE  Leads(Older!NormalizeKey(s), l, h, {AttnK}, {"keyNorm"}, GivenIf(~RopeNorm(s), KeyNorm))
<1> DEFINE p == <<Older!Copy("attnK", "keyNorm")>>
           N == GivenIf(~RopeNorm(s), KeyNorm)
           needed == ~RopeNorm(s)
<1>1. Leads(p, l, h, {AttnK}, {"keyNorm"}, {KeyNorm})
  BY AttentionBuffers, CopyLeads DEF AttnK, KeyNorm
<1>2. needed => N = {KeyNorm}
  BY DEF GivenIf
<1>3. ~needed => N \subseteq {AttnK}
  BY DEF GivenIf
<1>4. Older!NormalizeKey(s) = Older!Optional(needed, p)
  BY DEF Older!NormalizeKey, RopeNorm
<1> HIDE DEF p, N, needed
<1>5. Leads(Older!Optional(needed, p), l, h, {AttnK}, {"keyNorm"}, N)
  BY <1>1, <1>2, <1>3, Optionally
<1> QED BY <1>4, <1>5 DEF N

StoreNeeds(s) ==
    {AttnV, RowsBefore} \cup (IF RopeNorm(s) THEN {AttnK, QRope} ELSE {QueryNorm, KeyNorm})

LEMMA RowMadeLeads ==
    ASSUME NEW l \in Layers, IsFullAttention(l), NEW h \in History, NEW from \in Floats
    PROVE  Leads(<<Older!Make("row", <<from, "attnV">>, "first")>>, l, h,
                 {In(from, "attnK"), AttnV}, {"first"}, {RowMade})
<1> DEFINE p == <<Older!Make("row", <<from, "attnV">>, "first")>>
           K == {In(from, "attnK"), AttnV}
<1>1. Formula(l)["row"] = <<"attnK", "attnV">> /\ "row" \in DOMAIN Formula(l)
  BY FormulaFull DEF Formula, Full
<1>2. Leads(p, l, h, K, {"first"}, {LeftIn("first", "row")})
  BY <1>1, AttentionBuffers, MakeTwoLeaves DEF AttnV
<1> HIDE DEF p, K
<1>3. Leads(p, l, h, K, {"first"}, {In("first", "row")})
  BY <1>2, AttentionBuffers, FoundAsLeft
<1> QED BY <1>3 DEF p, K, RowMade

LEMMA StoreRowLeads ==
    ASSUME NEW l \in Layers, IsFullAttention(l), NEW h \in History, Len(h) <= OlderCapacity,
           NEW s, NEW c, AtLast(c, h)
    PROVE  Leads(Older!StoreRow(s, c), l, h, StoreNeeds(s), {"attnQRope", "first", "rows"},
                 {QRope, RowsAfter})
<1> DEFINE K == StoreNeeds(s)
           D == {"attnQRope", "first", "rows"}
<1>0. RowMade[1] = "first"
  BY FactOf DEF RowMade
<1>1. CASE RopeNorm(s)
  <2> DEFINE a == Older!Make("row", <<"attnK", "attnV">>, "first")
             b == Older!Place(Older!Where(c, Older!On(s, "FP16_KV_CACHE")))
             p == <<a>>
             q == <<b>>
  <2>1. Older!StoreRow(s, c) = p \o q
    BY <1>1, TwoTogether DEF Older!StoreRow, RopeNorm
  <2>2. Leads(p, l, h, {AttnK, AttnV}, {"first"}, {RowMade})
    BY AttentionBuffers, RowMadeLeads DEF AttnK
  <2>3. Leads(q, l, h, {RowMade, RowsBefore}, {"rows"}, {RowsAfter})
    <3>1. Older!Where(c, Older!On(s, "FP16_KV_CACHE")) = Len(h) - 1
      BY DEF Older!Where, AtLast
    <3> QED BY <3>1, PlaceLeads
  <2>4. K = {AttnV, RowsBefore, AttnK, QRope}
    BY <1>1 DEF StoreNeeds
  <2> HIDE DEF p, q, K
  <2>5. Leads(p \o q, l, h, K, D, {QRope, RowsAfter})
    BY <2>2, <2>3, <2>4, AttentionFacts, Then
  <2> QED BY <2>1, <2>5 DEF K
<1>2. CASE ~RopeNorm(s)
  <2> DEFINE a == Older!Rotate("queryNorm", "attnQRope", c.host)
             b == Older!Make("row", <<"keyNorm", "attnV">>, "first")
             d == Older!Place(c.host)
             p == <<a>>
             q == <<b>>
             r == <<d>>
  <2>0. Older!StoreRow(s, c) = <<a, b, d>>
    BY <1>2 DEF Older!StoreRow, RopeNorm
  <2>1. <<a, b, d>> = p \o (q \o r)
    <3>1. <<a, b, d>> = <<a>> \o <<b, d>>
      BY Three
    <3>2. <<b, d>> = <<b>> \o <<d>>
      BY TwoTogether
    <3> QED BY <3>1, <3>2
  <2>2. Leads(p, l, h, {QueryNorm}, {"attnQRope"}, {QRope})
    BY AttentionBuffers, RotateLeads DEF AtLast, QueryNorm, QRope
  <2>3. Leads(q, l, h, {KeyNorm, AttnV}, {"first"}, {RowMade})
    BY AttentionBuffers, RowMadeLeads DEF KeyNorm
  <2>4. Leads(r, l, h, {RowMade, RowsBefore}, {"rows"}, {RowsAfter})
    BY PlaceLeads DEF AtLast
  <2>5. K = {AttnV, RowsBefore, QueryNorm, KeyNorm}
    BY <1>2 DEF StoreNeeds
  <2> HIDE DEF a, b, d, p, q, r, K
  <2>6. Leads(q \o r, l, h, {KeyNorm, AttnV, RowsBefore}, {"first", "rows"}, {RowsAfter})
    BY <2>3, <2>4, AttentionFacts, Then
  <2>7. Leads(p \o (q \o r), l, h, K, D, {QRope, RowsAfter})
    BY <2>2, <2>5, <2>6, AttentionFacts, Then
  <2> QED BY <2>0, <2>1, <2>7 DEF K
<1> QED BY <1>1, <1>2

\* The Q8_1 copy that the attention kernel may leave of its output.
GatedQuantized(s) ==
    /\ Older!On(s, "TILED_ONLINE_ATTENTION") /\ Older!On(s, "FUSED_CORE_Q8")
    /\ Older!ONative(s)

LEMMA AttentionLeads ==
    ASSUME NEW l \in Layers, IsFullAttention(l), NEW h \in History, Len(h) <= OlderCapacity,
           NEW s, NEW c, AtLast(c, h)
    PROVE  Leads(Older!Attention(s, c), l, h, {QRope, Gate, RowsAfter},
                 {"attnGatedOutput", "q8_1"}, {Gated} \cup GivenIf(GatedQuantized(s), GatedCopy))
<1> DEFINE K == {QRope, Gate, RowsAfter}
           D == {"attnGatedOutput", "q8_1"}
           N == {Gated} \cup GivenIf(GatedQuantized(s), GatedCopy)
           w == Older!Where(c, Older!On(s, "FP16_KV_CACHE"))
<1>0. Gated[1] \notin {"q8_1"}
  BY AttentionFacts
<1>1. CASE Older!On(s, "TILED_ONLINE_ATTENTION")
  <2> DEFINE p == <<Older!Attend(w)>>
             needed == Older!On(s, "FUSED_CORE_Q8") /\ Older!ONative(s)
             a == Older!Q8_1("attnGatedOutput")
             q == Older!Optional(needed, a)
  <2>1. Older!Attention(s, c) = p \o q
    BY <1>1 DEF Older!Attention
  <2>2. Leads(p, l, h, K, {"attnGatedOutput"}, {Gated})
    <3>1. w = Len(h) - 1
      BY DEF Older!Where, AtLast
    <3> QED BY <3>1, AttendLeads
  <2>3. Leads(a, l, h, {Gated}, {"q8_1"}, {GatedCopy})
    BY AttentionBuffers, Q8_1Leads DEF Gated, GatedCopy
  <2>4. needed => N = {Gated, GatedCopy}
    BY <1>1 DEF GivenIf, GatedQuantized
  <2>5. ~needed => N \subseteq {Gated}
    BY <1>1 DEF GivenIf, GatedQuantized
  <2> HIDE DEF p, a, needed, K, N
  <2>6. Leads(a, l, h, {Gated}, {"q8_1"}, {Gated, GatedCopy})
    BY <1>0, <2>3, LeadsLess
  <2>7. Leads(q, l, h, {Gated}, {"q8_1"}, N)
    BY <2>4, <2>5, <2>6, Optionally
  <2> HIDE DEF q
  <2>8. Leads(p \o q, l, h, K, D, N)
    BY <2>2, <2>7, Then
  <2> QED BY <2>1, <2>8 DEF K, N
<1>2. CASE ~Older!On(s, "TILED_ONLINE_ATTENTION")
  <2> DEFINE p == <<Older!Attend(c.host)>>
  <2>1. Older!Attention(s, c) = p
    BY <1>2 DEF Older!Attention
  <2>2. Leads(p, l, h, K, {"attnGatedOutput"}, {Gated})
    BY AttendLeads DEF AtLast
  <2>3. N = {Gated}
    BY <1>2 DEF GivenIf, GatedQuantized
  <2> HIDE DEF p, K, N
  <2>4. Leads(p, l, h, K, D, N)
    BY <2>2, <2>3, LeadsLess
  <2> QED BY <2>1, <2>4 DEF K, N
<1> QED BY <1>1, <1>2

LEMMA OutProjectionLeads ==
    ASSUME NEW l \in Layers, IsFullAttention(l), NEW h \in History, NEW s
    PROVE  Leads(Older!OutProjection(s), l, h,
                 {Gated} \cup GivenIf(GatedQuantized(s), GatedCopy),
                 {"projected"} \cup Copies, {Projection})
<1> DEFINE K == {Gated} \cup GivenIf(GatedQuantized(s), GatedCopy)
           D == {"projected"} \cup Copies
<1>0. Reads(l, "projected", "attnGatedOutput") /\ In("attnGatedOutput", "attnGatedOutput") \in K
      /\ {In("attnGatedOutput", "attnGatedOutput")} \subseteq K
  BY FullReads DEF Gated
<1>1. CASE Older!AttentionResident(s)
  <2> DEFINE buffer == IF Older!MxStepO(s) THEN "mx" ELSE "mmq"
             layout == IF Older!MxStepO(s) THEN "mxAffine" ELSE "m23"
             p == Older!Repacked("projected", "attnGatedOutput", buffer, layout, "projected")
             k == In("attnGatedOutput", "attnGatedOutput")
             f == As(buffer, layout, "attnGatedOutput")
  <2>1. Older!OutProjection(s) = p
    BY <1>1 DEF Older!OutProjection
  <2>2. buffer \in Copies /\ layout \in Layouts
    BY AttentionBuffers
  <2> HIDE DEF buffer, layout, K
  <2>3. Leads(p, l, h, {k}, {"projected", buffer}, {Projection, f})
    BY <1>0, <2>2, AttentionBuffers, RepackedLeads DEF Projection
  <2>4. {k} \subseteq K /\ {"projected", buffer} \subseteq D
    BY <1>0, <2>2
  <2> HIDE DEF p, k, f, D
  <2>5. Leads(p, l, h, K, D, {Projection})
    BY <2>3, <2>4, LeadsLess
  <2> QED BY <2>1, <2>5 DEF K, D
<1>2. CASE ~Older!AttentionResident(s) /\ Older!ONative(s)
  <2> DEFINE needed == ~(Older!On(s, "FUSED_CORE_Q8") /\ Older!On(s, "TILED_ONLINE_ATTENTION"))
             p == Older!Optional(needed, Older!Q8_1("attnGatedOutput"))
                  \o Older!Wave("projected", "projected")
  <2>1. Older!OutProjection(s) = p
    BY <1>2 DEF Older!OutProjection
  <2>2. ~needed => As("q8_1", "q8_1", "attnGatedOutput") \in K
    BY <1>2 DEF GivenIf, GatedQuantized, GatedCopy
  <2> HIDE DEF K, needed
  <2>3. Leads(p, l, h, K, {"projected", "q8_1"}, {Projection, GatedCopy})
    BY <1>0, <2>2, AttentionBuffers, CopyWaveLeads DEF Projection, GatedCopy
  <2> HIDE DEF p
  <2>4. Leads(p, l, h, K, D, {Projection})
    BY <2>3, AttentionBuffers, LeadsLess
  <2> QED BY <2>1, <2>4 DEF K
<1>3. CASE ~Older!AttentionResident(s) /\ ~Older!ONative(s)
  <2> DEFINE p == Older!Plain("projected", "attnGatedOutput", "projected", FALSE)
             f == As("q8", "q8k", "attnGatedOutput")
  <2>1. Older!OutProjection(s) = p
    BY <1>3 DEF Older!OutProjection
  <2> HIDE DEF K
  <2>2. FALSE => As("q8", "q8k", "attnGatedOutput") \in K
    OBVIOUS
  <2>3. Leads(p, l, h, K, {"projected", "q8"}, {Projection, f})
    BY <1>0, <2>2, AttentionBuffers, PlainLeads DEF Projection
  <2> HIDE DEF p, f
  <2>4. Leads(p, l, h, K, D, {Projection})
    BY <2>3, AttentionBuffers, LeadsLess
  <2> QED BY <2>1, <2>4 DEF K
<1> QED BY <1>1, <1>2, <1>3
-----------------------------------------------------------------------------
(* A full-attention layer.                                                 *)

LEMMA AttentionFeedForwardLeads ==
    ASSUME NEW l \in Layers, NEW h \in History, NEW s, NEW c, NextIs(l, c),
           ~Older!NormCopyMissing(s)
    PROVE  Leads(Older!AttentionFeedForward(s, c), l, h,
                 {Input, Projection}, FfnWrites, {Output} \cup HandedOver(s, c))
<1> DEFINE resident == Older!AttentionResident(s)
           fused == Older!GateUpFused(s, resident)
           act == Older!Optional(~fused, Older!Activation)
           buffer == IF Older!MxStepFfn(s) THEN "mx" ELSE "mmq"
           up == IF ~resident THEN Older!GateUp(s, resident)
                 ELSE IF Older!MxStepFfn(s) THEN Older!RepackedGateUp("mx", "mxAffine")
                 ELSE Older!RepackedGateUp("mmq", "m23")
           down == IF ~resident THEN Older!Down(s)
                   ELSE IF Older!MxStepFfn(s)
                   THEN Older!RepackedDown("mx", Older!MxLayout(Older!Q6(s, "down")))
                   ELSE Older!RepackedDown("mmq", "m23")
           M == {PostNormalized} \cup GivenIf(PostQuantized(s, resident), PostCopy)
<1>1. Older!AttentionFeedForward(s, c)
          = (((Older!ResidualNorm(s, resident) \o up)
              \o act) \o down) \o Older!LayerOutput(s, c)
  BY DEF Older!AttentionFeedForward
<1>2. Leads(act, l, h, Activated(fused), {"ffnActivation"}, {FfnActivation})
  <2>1. ~fused <=> ~fused
    OBVIOUS
  <2> HIDE DEF fused
  <2> QED BY <2>1, ActivationLeads
<1>0. buffer \in Copies
  BY AttentionBuffers
<1>3. Leads(up, l, h, M, Projected, Activated(fused))
  <2>1. CASE resident
    <3> DEFINE layout == IF Older!MxStepFfn(s) THEN "mxAffine" ELSE "m23"
               p == Older!RepackedGateUp(buffer, layout)
    <3>1. layout \in Layouts
      BY DEF Layouts
    <3>2. up = p
      BY <2>1
    <3>3. Activated(fused) = {FfnGate, FfnUp}
      BY <2>1 DEF Activated, Older!GateUpFused, Older!Swiglu, Older!GateUpNative
    <3> HIDE DEF layout, fused, up, resident, buffer
    <3>4. Leads(p, l, h, {PostNormalized}, Projected, {FfnGate, FfnUp})
      BY <1>0, <3>1, FeedForwardBuffers, RepackedGateUpLeads
    <3>5. {PostNormalized} \subseteq M
      OBVIOUS
    <3> HIDE DEF p, M
    <3>6. Leads(p, l, h, M, Projected, {FfnGate, FfnUp})
      BY <3>4, <3>5, LeadsLess
    <3> QED BY <3>2, <3>3, <3>6
  <2>2. CASE ~resident
    <3>1. Older!On(s, "FUSED_NORM_Q8") /\ (Older!Swiglu(s, resident) \/ Older!GateUpNative(s, resident))
              => Older!On(s, "FUSED_ADD_RMS_NORM")
      BY DEF Older!NormCopyMissing
    <3>2. up = Older!GateUp(s, resident)
      BY <2>2
    <3> HIDE DEF resident, up
    <3> QED BY <3>1, <3>2, GateUpLeads
  <2> QED BY <2>1, <2>2
<1>4. Leads(down, l, h, {FfnActivation}, {"projected"} \cup Copies, {FfnDown})
  <2>1. CASE resident
    <3> DEFINE layout == IF Older!MxStepFfn(s) THEN Older!MxLayout(Older!Q6(s, "down")) ELSE "m23"
    <3>1. layout \in Layouts
      BY DEF Layouts, Older!MxLayout
    <3>2. down = Older!RepackedDown(buffer, layout)
      BY <2>1
    <3> HIDE DEF layout, down, buffer
    <3> QED BY <1>0, <3>1, <3>2, FeedForwardBuffers, RepackedDownLeads
  <2>2. CASE ~resident
    <3>1. down = Older!Down(s)
      BY <2>2
    <3> HIDE DEF down
    <3> QED BY <3>1, DownLeads
  <2> QED BY <2>1, <2>2
<1> HIDE DEF resident, fused, act, up, down, buffer
<1>5. Leads((((Older!ResidualNorm(s, resident) \o up)
              \o act) \o down) \o Older!LayerOutput(s, c),
            l, h, {Input, Projection}, FfnWrites, {Output} \cup HandedOver(s, c))
  BY <1>2, <1>3, <1>4, FeedForwardLeads
<1> QED BY <1>1, <1>5

LEMMA AttentionStepLeads ==
    ASSUME NEW l \in Layers, IsFullAttention(l), NEW h \in History, Len(h) <= OlderCapacity,
           NEW s, Older!Coherent(s), NEW c, AtLast(c, h), NextIs(l, c)
    PROVE  Leads(Older!AttentionStep(s, c), l, h, EntryFacts(s, c) \cup {RowsBefore},
                 AllBuffers, {RowsAfter, Output} \cup HandedOver(s, c))
<1> DEFINE K == EntryFacts(s, c) \cup {RowsBefore}
           H == Handed(s, c)
           Q == GivenIf(GatedQuantized(s), GatedCopy)
           N == {Output} \cup HandedOver(s, c)
           L2 == QueryLeaves(s)
           L3 == SplitLeaves(s)
           L4 == KeyLeaves(s)
           L5 == GivenIf(~RopeNorm(s), KeyNorm)
           Needs == StoreNeeds(s)
           p1 == Older!Normalize(c)
           p2 == Older!QueryProjection(s, c)
           p3 == Older!SplitQuery(s, c)
           p4 == Older!KeyProjection(s)
           p5 == Older!NormalizeKey(s)
           p6 == Older!ValueProjection(s)
           p7 == Older!StoreRow(s, c)
           p8 == Older!Attention(s, c)
           p9 == Older!OutProjection(s)
           p10 == Older!AttentionFeedForward(s, c)
           q2 == p1 \o p2
           q3 == q2 \o p3
           q4 == q3 \o p4
           q5 == q4 \o p5
           q6 == q5 \o p6
           q7 == q6 \o p7
           q8 == q7 \o p8
           q9 == q8 \o p9
           D == AllBuffers
           D2 == {"attnQfull", "attnK"} \cup Copies
           D3 == {"queryNorm", "gate", "first", "attnQRope"}
           D4 == {"attnK", "q8", "q8_1"}
           D6 == {"attnV"} \cup Copies
           D7 == {"attnQRope", "first", "rows"}
           D8 == {"attnGatedOutput", "q8_1"}
           D9 == {"projected"} \cup Copies
<1>1. Older!AttentionStep(s, c) = q9 \o p10
  BY DEF Older!AttentionStep
<1>2. Leads(p1, l, h, {Input} \cup GivenIf(c.ready, Normalized), {"normalized"}, {Normalized})
  BY NormalizeLeads DEF Input
<1>3. Leads(p2, l, h, {Normalized} \cup H, D2, L2)
  BY QueryLeads
<1>4. Leads(p3, l, h, {QFull}, D3, L3)
  BY SplitLeads
<1>5. Leads(p4, l, h, {Normalized} \cup L2, D4, {AttnK} \cup L4)
  BY KeyLeads
<1>6. Leads(p5, l, h, {AttnK}, {"keyNorm"}, L5)
  BY NormalizeKeyLeads
<1>7. Leads(p6, l, h, {Normalized} \cup L4, D6, {AttnV})
  BY ValueLeads
<1>8. Leads(p7, l, h, Needs, D7, {QRope, RowsAfter})
  BY StoreRowLeads
<1>9. Leads(p8, l, h, {QRope, Gate, RowsAfter}, D8, {Gated} \cup Q)
  BY AttentionLeads
<1>10. Leads(p9, l, h, {Gated} \cup Q, D9, {Projection})
  BY OutProjectionLeads
<1>11. Leads(p10, l, h, {Input, Projection}, FfnWrites, N)
  BY AttentionFeedForwardLeads DEF Older!Coherent
<1> HIDE DEF p1, p2, p3, p4, p5, p6, p7, p8, p9, p10, q2, q3, q4, q5, q6, q7, q8, q9
<1>12. /\ {"normalized"} \subseteq D /\ D2 \subseteq D /\ D3 \subseteq D /\ D4 \subseteq D
       /\ {"keyNorm"} \subseteq D /\ D6 \subseteq D /\ D7 \subseteq D /\ D8 \subseteq D
       /\ D9 \subseteq D /\ FfnWrites \subseteq D
  BY AttentionBuffers DEF AllBuffers, Floats, Copies, FfnWrites, Projected, Finished
<1>13. \A f \in H : f[1] = "q8_1"
  BY AttentionFacts DEF Handed, GivenIf
<1>14. \A f \in L2 : f[1] \in {"attnQfull", "attnK", "q8", "q8_1"}
  BY AttentionFacts DEF QueryLeaves
<1>15. \A f \in L3 : f[1] \in {"gate", "attnQRope", "queryNorm"}
  BY AttentionFacts DEF SplitLeaves
<1>16. \A f \in L4 : f[1] \in {"q8", "q8_1"}
  BY AttentionFacts DEF KeyLeaves
<1>17. \A f \in L5 : f[1] = "keyNorm"
  BY AttentionFacts DEF GivenIf
<1>18. \A f \in Q : f[1] = "q8_1"
  BY AttentionFacts DEF GivenIf
<1>19. /\ Input \in K /\ RowsBefore \in K /\ H \subseteq K
       /\ {Input} \cup GivenIf(c.ready, Normalized) \subseteq K
  BY DEF EntryFacts
<1>20. Input[1] = "input" /\ Projection[1] = "projected"
  BY FeedForwardFacts
<1>21. \A x \in {"input", "rows", "gate", "attnQRope", "queryNorm", "keyNorm", "attnK",
                 "normalized", "projected"} : x \notin Copies
  BY DEF Copies
<1>22. QFull \in L2 /\ Gate \in L3 /\ Needs \subseteq {AttnV, RowsBefore, AttnK} \cup L3 \cup L5
  BY DEF QueryLeaves, SplitLeaves, StoreNeeds, GivenIf
<1> HIDE DEF H, Q, N, K, D, L2, L3, L4, L5, Needs
<1>23. Leads(q2, l, h, K, D, {Normalized, Input, RowsBefore} \cup L2)
  <2> DEFINE B == {Normalized, Input, RowsBefore} \cup L2
  <2>1. \A f \in {Normalized} \cup H : f \in {Normalized} \/ (f \in K /\ f[1] \notin {"normalized"})
    BY <1>13, <1>19
  <2>2. \A f \in B :
            \/ f \in L2
            \/ f \in {Normalized} /\ f[1] \notin D2
            \/ f \in K /\ f[1] \notin {"normalized"} /\ f[1] \notin D2
    BY <1>19, <1>20, <1>21, AttentionFacts
  <2> HIDE DEF D2, B
  <2>3. Leads(q2, l, h, K, D, B)
    BY <1>2, <1>3, <1>12, <1>19, <2>1, <2>2, Then DEF q2
  <2> QED BY <2>3 DEF B
<1>24. Leads(q3, l, h, K, D, {Normalized, Input, RowsBefore} \cup L2 \cup L3)
  <2> DEFINE A == {Normalized, Input, RowsBefore} \cup L2
             B == {Normalized, Input, RowsBefore} \cup L2 \cup L3
  <2>1. \A f \in B : f \in L3 \/ (f \in A /\ f[1] \notin D3)
    BY <1>14, <1>20, AttentionFacts
  <2>2. QFull \in A /\ Leads(q2, l, h, K, D, A)
    BY <1>22, <1>23
  <2> HIDE DEF A, B, D3
  <2>3. Leads(q3, l, h, K, D, B)
    BY <1>4, <1>12, <2>1, <2>2, Then DEF q3
  <2> QED BY <2>3 DEF B
<1>25. Leads(q4, l, h, K, D, {Normalized, Input, RowsBefore, AttnK} \cup L3 \cup L4)
  <2> DEFINE A == {Normalized, Input, RowsBefore} \cup L2 \cup L3
             B == {Normalized, Input, RowsBefore, AttnK} \cup L3 \cup L4
             U == {Normalized} \cup L2
             C == {AttnK} \cup L4
  <2>1. \A f \in B : f \in C \/ (f \in A /\ f[1] \notin D4)
    BY <1>15, <1>20, AttentionFacts
  <2>2. U \subseteq A /\ Leads(q3, l, h, K, D, A) /\ Leads(p4, l, h, U, D4, C)
    BY <1>5, <1>24
  <2> HIDE DEF A, B, D4, U, C
  <2>3. Leads(q4, l, h, K, D, B)
    BY <1>12, <2>1, <2>2, Then DEF q4
  <2> QED BY <2>3 DEF B
<1>26. Leads(q5, l, h, K, D, {Normalized, Input, RowsBefore, AttnK} \cup L3 \cup L4 \cup L5)
  <2> DEFINE A == {Normalized, Input, RowsBefore, AttnK} \cup L3 \cup L4
             B == {Normalized, Input, RowsBefore, AttnK} \cup L3 \cup L4 \cup L5
  <2>1. \A f \in B : f \in L5 \/ (f \in A /\ f[1] \notin {"keyNorm"})
    BY <1>15, <1>16, <1>20, AttentionFacts
  <2>2. AttnK \in A /\ Leads(q4, l, h, K, D, A)
    BY <1>25
  <2> HIDE DEF A, B
  <2>3. Leads(q5, l, h, K, D, B)
    BY <1>6, <1>12, <2>1, <2>2, Then DEF q5
  <2> QED BY <2>3 DEF B
<1>27. Leads(q6, l, h, K, D, {AttnV, Input, RowsBefore, AttnK} \cup L3 \cup L5)
  <2> DEFINE A == {Normalized, Input, RowsBefore, AttnK} \cup L3 \cup L4 \cup L5
             B == {AttnV, Input, RowsBefore, AttnK} \cup L3 \cup L5
             U == {Normalized} \cup L4
  <2>1. \A f \in B : f \in {AttnV} \/ (f \in A /\ f[1] \notin D6)
    BY <1>15, <1>17, <1>20, <1>21, AttentionFacts
  <2>2. U \subseteq A /\ Leads(q5, l, h, K, D, A) /\ Leads(p6, l, h, U, D6, {AttnV})
    BY <1>7, <1>26
  <2> HIDE DEF A, B, D6, U
  <2>3. Leads(q6, l, h, K, D, B)
    BY <1>12, <2>1, <2>2, Then DEF q6
  <2> QED BY <2>3 DEF B
<1>28. Leads(q7, l, h, K, D, {Input, Gate, QRope, RowsAfter})
  <2> DEFINE A == {AttnV, Input, RowsBefore, AttnK} \cup L3 \cup L5
             B == {Input, Gate, QRope, RowsAfter}
             C == {QRope, RowsAfter}
  <2>1. \A f \in B : f \in C \/ (f \in A /\ f[1] \notin D7)
    BY <1>20, <1>22, AttentionFacts
  <2>2. Needs \subseteq A /\ Leads(q6, l, h, K, D, A) /\ Leads(p7, l, h, Needs, D7, C)
    BY <1>8, <1>22, <1>27
  <2> HIDE DEF A, B, D7, C
  <2>3. Leads(q7, l, h, K, D, B)
    BY <1>12, <2>1, <2>2, Then DEF q7
  <2> QED BY <2>3 DEF B
<1>29. Leads(q8, l, h, K, D, {Input, RowsAfter, Gated} \cup Q)
  <2> DEFINE A == {Input, Gate, QRope, RowsAfter}
             B == {Input, RowsAfter, Gated} \cup Q
             C == {Gated} \cup Q
             U == {QRope, Gate, RowsAfter}
  <2>1. \A f \in B : f \in C \/ (f \in A /\ f[1] \notin D8)
    BY <1>20, AttentionFacts
  <2>2. U \subseteq A /\ Leads(q7, l, h, K, D, A) /\ Leads(p8, l, h, U, D8, C)
    BY <1>9, <1>28
  <2> HIDE DEF A, B, D8, C, U
  <2>3. Leads(q8, l, h, K, D, B)
    BY <1>12, <2>1, <2>2, Then DEF q8
  <2> QED BY <2>3 DEF B
<1>30. Leads(q9, l, h, K, D, {Input, RowsAfter, Projection})
  <2> DEFINE A == {Input, RowsAfter, Gated} \cup Q
             B == {Input, RowsAfter, Projection}
             U == {Gated} \cup Q
  <2>1. \A f \in B : f \in {Projection} \/ (f \in A /\ f[1] \notin D9)
    BY <1>20, <1>21, AttentionFacts
  <2>2. U \subseteq A /\ Leads(q8, l, h, K, D, A) /\ Leads(p9, l, h, U, D9, {Projection})
    BY <1>10, <1>29
  <2> HIDE DEF A, B, D9, U
  <2>3. Leads(q9, l, h, K, D, B)
    BY <1>12, <2>1, <2>2, Then DEF q9
  <2> QED BY <2>3 DEF B
<1>31. Leads(q9 \o p10, l, h, K, D, {RowsAfter} \cup N)
  <2> DEFINE A == {Input, RowsAfter, Projection}
             B == {RowsAfter} \cup N
  <2>1. \A f \in B : f \in N \/ (f \in A /\ f[1] \notin FfnWrites)
    BY <1>21, AttentionFacts DEF FfnWrites, Projected, Finished
  <2>2. {Input, Projection} \subseteq A /\ Leads(q9, l, h, K, D, A)
    BY <1>30
  <2> HIDE DEF A, B
  <2>3. Leads(q9 \o p10, l, h, K, D, B)
    BY <1>11, <1>12, <2>1, <2>2, Then
  <2> QED BY <2>3 DEF B
<1>32. {RowsAfter} \cup N = {RowsAfter, Output} \cup HandedOver(s, c)
  BY DEF N
<1> QED BY <1>1, <1>31, <1>32 DEF K, D
-----------------------------------------------------------------------------
(* All layers.                                                             *)

\* The memory of a layer whose sequence is s.
StoreHolds(m, l, s) ==
    /\ IsStore(m)
    /\ IF IsFullAttention(l)
       THEN /\ m.rows = [i \in 1 .. OlderCapacity |-> m.rows[i]]
            /\ \A i \in 1 .. Len(s) : m.rows[i] = Value("row", l, SubSeq(s, 1, i))
       ELSE m.at["past"] = Value("past", l, s) /\ m.at["state"] = Value("state", l, s)

\* What the layer before, or the embedding, hands to a layer.
Passes(before, l, h, s) ==
    LET handed == l > 0 /\ Older!On(s, "FUSED_INTERLAYER_NORM") IN
    /\ before.at["output"] = Named("input", l, h)
    /\ handed => before.at["nextNormalized"] = Named("normalized", l, h)
    /\ handed /\ Older!On(s, "FUSED_NORM_Q8") =>
          before.copies["nextQ8"] = [layout |-> "q8_1", of |-> Named("normalized", l, h)]

\* A sequence with one more token.
LEMMA AppendedIs ==
    ASSUME NEW s \in Seq(Token), NEW token \in Token, NEW h, h = Append(s, token)
    PROVE  /\ h \in History /\ Front(h) = s /\ Last(h) = token
           /\ Len(h) = Len(s) + 1 /\ Len(s) \in Nat
           /\ \A i \in 1 .. Len(s) : SubSeq(h, 1, i) = SubSeq(s, 1, i)
<1>1. /\ h \in Seq(Token) /\ Len(h) = Len(s) + 1 /\ Len(s) \in Nat /\ h # <<>>
      /\ \A i \in 1 .. Len(s) : h[i] = s[i]
      /\ h[Len(h)] = token
  BY AppendProperties
<1>2. h \in History /\ Last(h) = token
  BY <1>1 DEF History, Last
<1>3. ASSUME NEW i \in 0 .. Len(s) PROVE SubSeq(h, 1, i) = SubSeq(s, 1, i)
  <2>1. i \in 0 .. Len(h)
    BY <1>1
  <2>2. /\ SubSeq(h, 1, i) \in Seq(Token) /\ Len(SubSeq(h, 1, i)) = i
        /\ \A k \in 1 .. i : SubSeq(h, 1, i)[k] = h[k]
    BY <1>1, <2>1, PrefixIs
  <2>3. /\ SubSeq(s, 1, i) \in Seq(Token) /\ Len(SubSeq(s, 1, i)) = i
        /\ \A k \in 1 .. i : SubSeq(s, 1, i)[k] = s[k]
    BY PrefixIs
  <2>4. \A k \in 1 .. i : SubSeq(h, 1, i)[k] = SubSeq(s, 1, i)[k]
    BY <1>1, <2>2, <2>3
  <2> QED BY <2>2, <2>3, <2>4, SeqEqual
<1>4. Front(h) = s
  <2>1. Len(h) - 1 = Len(s) /\ Len(s) \in 0 .. Len(s)
    BY <1>1
  <2>2. Front(h) = SubSeq(h, 1, Len(s))
    BY <2>1 DEF Front
  <2>3. SubSeq(s, 1, Len(s)) = s
    BY SubSeqFull
  <2> QED BY <1>3, <2>1, <2>2, <2>3
<1>5. \A i \in 1 .. Len(s) : SubSeq(h, 1, i) = SubSeq(s, 1, i)
  BY <1>1, <1>3
<1> QED BY <1>1, <1>2, <1>4, <1>5

\* What a layer of the kind has kept of the tokens before.
Kept(l) == IF IsFullAttention(l) THEN {RowsBefore} ELSE {Past, State}
KeptAfter(l) == IF IsFullAttention(l) THEN {RowsAfter} ELSE {PastLeft, StateLeft}

LEMMA EnteredKnows ==
    ASSUME NEW l \in Layers, NEW s \in Seq(Token), NEW token \in Token,
           NEW h, h = Append(s, token), NEW m, StoreHolds(m, l, s),
           NEW before, Passes(before, l, h, setup), NEW host,
           NEW c, c = Older!CallTo(l, host, Older!None, FALSE),
           NEW x, x = Older!Entered(m, l, before)
    PROVE  /\ IsStore(x)
           /\ \A f \in EntryFacts(setup, c) \cup Kept(l) : Learned(x, l, h, f)
<1> DEFINE handed == l > 0 /\ Older!On(setup, "FUSED_INTERLAYER_NORM")
           q8 == handed /\ Older!On(setup, "FUSED_NORM_Q8")
<1>0. /\ IsStore(m) /\ "input" \in Floats /\ "normalized" \in Floats /\ "q8_1" \in Copies
      /\ "past" \in Floats /\ "state" \in Floats
      /\ "q8_1" \notin Floats /\ "rows" \notin Floats /\ "rows" \notin Copies
  BY NoOverlap DEF StoreHolds, Floats, Copies
<1>1. /\ DOMAIN x = DOMAIN m /\ x.rows = m.rows
      /\ x.at = [m.at EXCEPT !["input"] = before.at["output"],
                             !["normalized"] = IF handed THEN before.at["nextNormalized"] ELSE @]
      /\ x.copies = [m.copies EXCEPT !["q8_1"] = IF q8 THEN before.copies["nextQ8"] ELSE @]
  <2> DEFINE at == [m.at EXCEPT !["input"] = before.at["output"],
                                !["normalized"] = IF handed THEN before.at["nextNormalized"] ELSE @]
             copies == [m.copies EXCEPT !["q8_1"] = IF q8 THEN before.copies["nextQ8"] ELSE @]
  <2>1. x = [m EXCEPT !.at = at, !.copies = copies]
    BY DEF Older!Entered
  <2> HIDE DEF at, copies
  <2>2. DOMAIN x = DOMAIN m /\ x.rows = m.rows /\ x.at = at /\ x.copies = copies
    BY <1>0, <2>1 DEF IsStore
  <2> QED BY <2>2 DEF at, copies
<1>2. IsStore(x)
  BY <1>0, <1>1 DEF IsStore
<1>3. /\ x.at["input"] = before.at["output"]
      /\ handed => x.at["normalized"] = before.at["nextNormalized"]
      /\ q8 => x.copies["q8_1"] = before.copies["nextQ8"]
      /\ x.at["past"] = m.at["past"] /\ x.at["state"] = m.at["state"]
  BY <1>0, <1>1 DEF IsStore
<1>4. c.ready = handed
  BY DEF Older!CallTo
<1>5. Learned(x, l, h, Input)
  BY <1>0, <1>3 DEF Passes, Learned, Input, In, Meant, AllBuffers
<1>6. c.ready => Learned(x, l, h, Normalized)
  BY <1>0, <1>3, <1>4 DEF Passes, Learned, Normalized, In, Meant, AllBuffers
<1>7. c.ready /\ Older!On(setup, "FUSED_NORM_Q8") => Learned(x, l, h, NormalizedCopy)
  BY <1>0, <1>3, <1>4 DEF Passes, Learned, NormalizedCopy, As, Meant, AllBuffers
<1>8. /\ h \in History /\ Front(h) = s /\ Len(h) = Len(s) + 1 /\ Len(s) \in Nat
      /\ \A i \in 1 .. Len(s) : SubSeq(h, 1, i) = SubSeq(s, 1, i)
  BY AppendedIs
<1>9. CASE IsFullAttention(l)
  <2>1. /\ x.rows = [i \in 1 .. OlderCapacity |-> x.rows[i]]
        /\ \A i \in 1 .. Len(s) : x.rows[i] = Value("row", l, SubSeq(s, 1, i))
    BY <1>1, <1>9 DEF StoreHolds
  <2>2. \A i \in 1 .. Len(h) : i < Len(h) => x.rows[i] = Value("row", l, SubSeq(h, 1, i))
    <3> TAKE i \in 1 .. Len(h)
    <3> HAVE i < Len(h)
    <3>1. i \in 1 .. Len(s)
      BY <1>8
    <3> QED BY <1>8, <2>1, <3>1
  <2>3. Learned(x, l, h, RowsBefore)
    BY <1>0, <2>1, <2>2 DEF Learned, RowsBefore, As, AllBuffers
  <2> QED BY <1>2, <1>5, <1>6, <1>7, <1>9, <2>3 DEF EntryFacts, GivenIf, Handed, Kept
<1>10. CASE ~IsFullAttention(l)
  <2>1. x.at["past"] = Value("past", l, s) /\ x.at["state"] = Value("state", l, s)
    BY <1>3, <1>10 DEF StoreHolds
  <2>2. Named("past", l, h) = Value("past", l, s) /\ Named("state", l, h) = Value("state", l, s)
    BY <1>8 DEF Named, OneToken
  <2>3. Learned(x, l, h, Past) /\ Learned(x, l, h, State)
    BY <1>0, <2>1, <2>2 DEF Learned, Past, State, In, Meant, AllBuffers
  <2> QED BY <1>2, <1>5, <1>6, <1>7, <1>10, <2>3 DEF EntryFacts, GivenIf, Handed, Kept
<1> QED BY <1>9, <1>10

LEMMA TheLayers ==
    /\ LastLayer \in Nat /\ Layers = 0 .. LastLayer /\ ~IsFullAttention(0)
    /\ \A l \in Layers : l \in Nat /\ (l < LastLayer => l + 1 \in Layers)
<1>1. Blocks \in Nat \ {0} /\ LayersPerBlock = 4
  BY FourLayers, QuantitiesAssumption
<1>2. LastLayer \in Nat /\ Layers = 0 .. LastLayer
  BY <1>1 DEF LastLayer, Layers
<1>3. ~IsFullAttention(0)
  BY <1>1 DEF IsFullAttention
<1> QED BY <1>2, <1>3

\* The program of any layer.
LEMMA StepProgramLeads ==
    ASSUME NEW l \in Layers, NEW h \in History, Len(h) <= OlderCapacity,
           NEW s, Older!Coherent(s), NEW c, AtLast(c, h), NextIs(l, c)
    PROVE  Leads(Older!StepProgram(l, s, c), l, h, EntryFacts(s, c) \cup Kept(l),
                 AllBuffers, KeptAfter(l) \cup {Output} \cup HandedOver(s, c))
<1> DEFINE p == Older!StepProgram(l, s, c)
           K == EntryFacts(s, c) \cup Kept(l)
           N == KeptAfter(l) \cup {Output} \cup HandedOver(s, c)
<1>1. CASE IsFullAttention(l)
  <2>1. p = Older!AttentionStep(s, c)
    BY <1>1, SameQuantities DEF Older!StepProgram
  <2>2. K = EntryFacts(s, c) \cup {RowsBefore} /\ N = {RowsAfter, Output} \cup HandedOver(s, c)
    BY <1>1 DEF Kept, KeptAfter
  <2> HIDE DEF p, K, N
  <2> QED BY <1>1, <2>1, <2>2, AttentionStepLeads DEF p, K, N
<1>2. CASE ~IsFullAttention(l)
  <2>1. p = Older!RecurrentStep(s, c)
    BY <1>2, SameQuantities DEF Older!StepProgram
  <2>2. /\ K = EntryFacts(s, c) \cup {Past, State}
        /\ N = {PastLeft, StateLeft, Output} \cup HandedOver(s, c)
    BY <1>2 DEF Kept, KeptAfter
  <2>3. Floats \cup Copies \subseteq AllBuffers
    BY DEF AllBuffers
  <2> HIDE DEF p, K, N
  <2>4. Leads(p, l, h, K, Floats \cup Copies, N)
    BY <1>2, <2>1, <2>2, RecurrentStepLeads
  <2>5. Leads(p, l, h, K, AllBuffers, N)
    BY <2>3, <2>4, LeadsLess
  <2> QED BY <2>5 DEF p, K, N
<1> QED BY <1>1, <1>2

\* A layer has been given the last token of h, and hands over to the next.
LayerDone(y, l, h) ==
    /\ StoreHolds(y, l, h) /\ y.at["output"] = Value("output", l, h)
    /\ l < LastLayer => Passes(y, l + 1, h, setup)

\* One layer, for the token after the sequence s.
LEMMA LayerStepIs ==
    ASSUME NEW l \in Layers, NEW s \in Seq(Token), NEW token \in Token,
           NEW h, h = Append(s, token), Len(h) <= OlderCapacity, Older!Coherent(setup),
           NEW m, StoreHolds(m, l, s), NEW before, Passes(before, l, h, setup),
           NEW c, c = Older!CallTo(l, Len(s), Older!None, FALSE),
           NEW y, y = Older!Run(Older!Entered(m, l, before), l, Older!StepProgram(l, setup, c))
    PROVE  LayerDone(y, l, h)
<1> DEFINE p == Older!StepProgram(l, setup, c)
           x == Older!Entered(m, l, before)
           K == EntryFacts(setup, c) \cup Kept(l)
           N == KeptAfter(l) \cup {Output} \cup HandedOver(setup, c)
<1>1. h \in History /\ Len(h) = Len(s) + 1 /\ Len(s) \in Nat
  BY AppendedIs
<1>2. IsStore(x) /\ \A f \in K : Learned(x, l, h, f)
  BY EnteredKnows
<1>3. AtLast(c, h) /\ (c.next <=> l < LastLayer) /\ NextIs(l, c)
  <2>1. /\ c.dynamic = FALSE /\ c.host = Len(s) /\ c.next = (l < Older!LastLayer)
    BY DEF Older!CallTo
  <2>2. AtLast(c, h)
    <3>1. Len(h) - 1 = Len(s)
      BY <1>1
    <3> QED BY <2>1, <3>1 DEF AtLast
  <2>3. c.next <=> l < LastLayer
    BY <2>1, SameQuantities
  <2> QED BY <2>2, <2>3, TheLayers DEF NextIs
<1>4. Leads(p, l, h, K, AllBuffers, N)
  BY <1>1, <1>3, StepProgramLeads
<1>5. y = Older!Run(x, l, p)
  OBVIOUS
<1> HIDE DEF p, x, K, N
<1>6. IsStore(y) /\ \A f \in N : Learned(y, l, h, f)
  BY <1>2, <1>4, <1>5 DEF Leads, Alters
<1>7. y.at["output"] = Value("output", l, h)
  <2>1. Learned(y, l, h, Output)
    BY <1>6 DEF N
  <2>2. Named("output", l, h) = Value("output", l, h)
    BY DEF Named, OneToken
  <2> QED BY <2>1, <2>2, FeedForwardBuffers DEF Learned, Output, In, Meant
<1>8. StoreHolds(y, l, h)
  <2>1. CASE IsFullAttention(l)
    <3>1. Learned(y, l, h, RowsAfter)
      BY <1>6, <2>1 DEF N, KeptAfter
    <3> QED BY <1>6, <2>1, <3>1, NoOverlap DEF Learned, RowsAfter, As, StoreHolds
  <2>2. CASE ~IsFullAttention(l)
    <3>1. Learned(y, l, h, PastLeft) /\ Learned(y, l, h, StateLeft)
      BY <1>6, <2>2 DEF N, KeptAfter
    <3>2. Made("past", l, h) = Value("past", l, h) /\ Made("state", l, h) = Value("state", l, h)
      BY DEF Made, OneToken
    <3>3. "past" \in Floats /\ "state" \in Floats
      BY DEF Floats
    <3> QED BY <1>6, <2>2, <3>1, <3>2, <3>3 DEF Learned, PastLeft, StateLeft, LeftIn, Meant, StoreHolds
  <2> QED BY <2>1, <2>2
<1>9. ASSUME l < LastLayer PROVE Passes(y, l + 1, h, setup)
  <2>1. y.at["output"] = Named("input", l + 1, h)
    <3>1. l \in Nat /\ l + 1 # 0 /\ (l + 1) - 1 = l
      BY TheLayers
    <3> DEFINE k == l + 1
    <3> HIDE DEF k
    <3>2. k # 0 /\ k - 1 = l
      BY <3>1 DEF k
    <3> QED BY <1>7, <3>2 DEF Named, k
  <2>2. Older!On(setup, "FUSED_INTERLAYER_NORM") => Learned(y, l, h, NextNormalized)
    BY <1>3, <1>6, <1>9 DEF N, HandedOver, GivenIf
  <2>3. Older!On(setup, "FUSED_INTERLAYER_NORM") /\ Older!On(setup, "FUSED_NORM_Q8") =>
            Learned(y, l, h, NextCopy)
    BY <1>3, <1>6, <1>9 DEF N, HandedOver, GivenIf
  <2>4. Learned(y, l, h, NextNormalized) =>
            y.at["nextNormalized"] = Named("normalized", l + 1, h)
    BY FeedForwardBuffers DEF Learned, NextNormalized, As, Meant
  <2>5. Learned(y, l, h, NextCopy) =>
            y.copies["nextQ8"] = [layout |-> "q8_1", of |-> Named("normalized", l + 1, h)]
    BY FeedForwardBuffers, NoOverlap DEF Learned, NextCopy, As, Meant
  <2> QED BY <2>1, <2>2, <2>3, <2>4, <2>5 DEF Passes
<1> QED BY <1>7, <1>8, <1>9 DEF LayerDone

MemoryHolds(mem, s) == DOMAIN mem = Layers /\ \A l \in Layers : StoreHolds(mem[l], l, s)

\* The memory after layer l.
LayerAfter(d, l, token, programs) ==
    [d EXCEPT ![l] =
        Older!Run(Older!Entered(d[l], l, IF l = 0 THEN Older!EmbeddingOf(token) ELSE d[l - 1]),
                  l, programs[l])]

\* The memories between the layers.
ThroughWalks(g, mem, token, programs, k) ==
    g = [l \in -1 .. k |-> IF l = -1 THEN mem ELSE LayerAfter(g[l - 1], l, token, programs)]

LEMMA ThroughExists ==
    ASSUME NEW mem, NEW token, NEW programs, NEW k \in Nat
    PROVE  \E g : ThroughWalks(g, mem, token, programs, k - 1)
<1> DEFINE After(d, l) == LayerAfter(d, l, token, programs)
           T == {i \in Nat : \E g : ThroughWalks(g, mem, token, programs, i - 1)}
<1>1. 0 \in T
  <2> DEFINE g == [l \in -1 .. -1 |-> mem]
  <2>1. ThroughWalks(g, mem, token, programs, 0 - 1)
    BY DEF ThroughWalks
  <2> QED BY <2>1
<1>2. ASSUME NEW i \in 1 .. k, i - 1 \in T
      PROVE  i \in T
  <2>1. PICK g : ThroughWalks(g, mem, token, programs, (i - 1) - 1)
    BY <1>2
  <2> DEFINE h == [c \in -1 .. i - 1 |-> IF c = i - 1 THEN After(g[c - 1], c) ELSE g[c]]
  <2>2. g[-1] = mem /\ \A c \in 0 .. i - 2 : g[c] = After(g[c - 1], c)
    <3>1. -1 \in -1 .. (i - 1) - 1 /\ 0 .. i - 2 \subseteq -1 .. (i - 1) - 1
      OBVIOUS
    <3> QED BY <2>1, <3>1 DEF ThroughWalks
  <2> HIDE DEF After
  <2>3. ASSUME NEW c \in -1 .. i - 1
        PROVE  h[c] = IF c = -1 THEN mem ELSE After(h[c - 1], c)
    <3>1. CASE c = -1
      <4>1. c # i - 1
        BY <3>1
      <4> QED BY <2>2, <3>1, <4>1
    <3>2. CASE c = i - 1
      <4>1. h[c] = After(g[c - 1], c) /\ c # -1 /\ h[c - 1] = g[c - 1]
        BY <3>2
      <4> QED BY <3>2, <4>1
    <3>3. CASE c # -1 /\ c # i - 1
      <4>1. c \in 0 .. i - 2 /\ h[c] = g[c] /\ h[c - 1] = g[c - 1]
        BY <3>3
      <4> QED BY <2>2, <3>3, <4>1
    <3> QED BY <3>1, <3>2, <3>3
  <2>4. h = [c \in -1 .. i - 1 |-> h[c]]
    OBVIOUS
  <2> HIDE DEF h
  <2>5. [c \in -1 .. i - 1 |-> h[c]]
            = [c \in -1 .. i - 1 |-> IF c = -1 THEN mem ELSE After(h[c - 1], c)]
    BY <2>3
  <2>6. ThroughWalks(h, mem, token, programs, i - 1)
    BY <2>4, <2>5 DEF ThroughWalks, After
  <2> QED BY <2>6
<1> HIDE DEF T
<1>3. 0 .. k \subseteq T
  <2>1. T \in SUBSET Nat
    BY DEF T
  <2> QED BY <1>1, <1>2, <2>1, EachTurn
<1> QED BY <1>3 DEF T

LEMMA ThroughIs ==
    ASSUME NEW token, NEW programs
    PROVE  \E g : /\ g[-1] = memory
                  /\ \A l \in Layers : g[l] = LayerAfter(g[l - 1], l, token, programs)
                  /\ Older!Through(token, programs) = g[LastLayer]
<1>0. LastLayer \in Nat /\ Layers = 0 .. LastLayer
  BY TheLayers
<1> DEFINE g == CHOOSE f : ThroughWalks(f, memory, token, programs, LastLayer)
<1>1. ThroughWalks(g, memory, token, programs, LastLayer)
  <2> DEFINE k == LastLayer + 1
  <2>1. k \in Nat /\ k - 1 = LastLayer
    BY <1>0
  <2> HIDE DEF k
  <2>2. \E f : ThroughWalks(f, memory, token, programs, k - 1)
    BY <2>1, ThroughExists
  <2> QED BY <2>1, <2>2
<1>2. Older!Through(token, programs) = g[LastLayer]
  BY SameQuantities DEF Older!Through, ThroughWalks, LayerAfter
<1> HIDE DEF g
<1>3. g[-1] = memory /\ \A l \in 0 .. LastLayer : g[l] = LayerAfter(g[l - 1], l, token, programs)
  <2>1. -1 \in -1 .. LastLayer /\ 0 .. LastLayer \subseteq -1 .. LastLayer
        /\ \A l \in 0 .. LastLayer : l # -1
    BY <1>0
  <2> QED BY <1>1, <2>1 DEF ThroughWalks
<1> QED BY <1>0, <1>2, <1>3

\* The first k layers have been given the token.
Walked(d, k, h) ==
    /\ DOMAIN d = Layers
    /\ \A l \in Layers : l < k => StoreHolds(d[l], l, h)
    /\ \A l \in Layers : l >= k => d[l] = memory[l]
    /\ k > 0 => d[k - 1].at["output"] = Value("output", k - 1, h)
    /\ k > 0 /\ k <= LastLayer => Passes(d[k - 1], k, h, setup)

LEMMA EmbeddingPasses ==
    ASSUME NEW h \in History, NEW token, Last(h) = token
    PROVE  Passes(Older!EmbeddingOf(token), 0, h, setup)
<1>1. Older!EmbeddingOf(token).at["output"] = Embedding(token)
  BY SameQuantities, OlderBuffers, FeedForwardBuffers DEF Older!EmbeddingOf, Older!LayerHolding
<1>2. Named("input", 0, h) = Embedding(token)
  BY DEF Named
<1> QED BY <1>1, <1>2 DEF Passes

LEMMA WalkedOn ==
    ASSUME seq \in Seq(Token), NEW token \in Token, NEW h, h = Append(seq, token),
           Len(h) <= OlderCapacity, Older!Coherent(setup), MemoryHolds(memory, seq),
           NEW k \in Layers, NEW d, Walked(d, k, h), NEW programs,
           programs = Older!Programs(Len(seq), Older!None, FALSE),
           NEW x, x = LayerAfter(d, k, token, programs)
    PROVE  Walked(x, k + 1, h)
<1> DEFINE before == IF k = 0 THEN Older!EmbeddingOf(token) ELSE d[k - 1]
           c == Older!CallTo(k, Len(seq), Older!None, FALSE)
           y == Older!Run(Older!Entered(d[k], k, before), k, Older!StepProgram(k, setup, c))
<1>0. LastLayer \in Nat /\ Layers = 0 .. LastLayer /\ k \in 0 .. LastLayer
  BY TheLayers
<1>1. h \in History /\ Last(h) = token
  BY AppendedIs
<1>2. d[k] = memory[k] /\ StoreHolds(d[k], k, seq)
  BY <1>0 DEF Walked, MemoryHolds
<1>3. Passes(before, k, h, setup)
  <2>1. CASE k = 0
    BY <1>1, <2>1, EmbeddingPasses
  <2>2. CASE k # 0
    <3>1. k > 0 /\ k <= LastLayer
      BY <1>0, <2>2
    <3> QED BY <2>2, <3>1 DEF Walked
  <2> QED BY <2>1, <2>2
<1>4. programs[k] = Older!StepProgram(k, setup, c)
  BY SameQuantities DEF Older!Programs
<1>5. x = [d EXCEPT ![k] = y]
  BY <1>4 DEF LayerAfter
<1> HIDE DEF before, c
<1>6. /\ StoreHolds(y, k, h) /\ y.at["output"] = Value("output", k, h)
      /\ k < LastLayer => Passes(y, k + 1, h, setup)
  <2>1. c = Older!CallTo(k, Len(seq), Older!None, FALSE)
    BY DEF c
  <2>2. y = Older!Run(Older!Entered(d[k], k, before), k, Older!StepProgram(k, setup, c))
    OBVIOUS
  <2> DEFINE m == d[k]
  <2>3. StoreHolds(m, k, seq)
    BY <1>2
  <2>4. y = Older!Run(Older!Entered(m, k, before), k, Older!StepProgram(k, setup, c))
    BY <2>2
  <2> HIDE DEF y, m
  <2>5. LayerDone(y, k, h)
    BY <1>3, <2>1, <2>3, <2>4, LayerStepIs
  <2> QED BY <2>5 DEF LayerDone
<1> HIDE DEF y
<1>7. /\ DOMAIN x = Layers /\ x[k] = y
      /\ \A l \in Layers : l # k => x[l] = d[l]
  BY <1>5 DEF Walked
<1>8. (k + 1) - 1 = k
  BY <1>0
<1>9. \A l \in Layers : l < k + 1 => StoreHolds(x[l], l, h)
  <2> TAKE l \in Layers
  <2> HAVE l < k + 1
  <2>1. l = k \/ (l # k /\ l < k)
    BY <1>0
  <2> QED BY <1>6, <1>7, <2>1 DEF Walked
<1>10. \A l \in Layers : l >= k + 1 => x[l] = memory[l]
  <2> TAKE l \in Layers
  <2> HAVE l >= k + 1
  <2>1. l # k /\ l >= k
    BY <1>0
  <2> QED BY <1>7, <2>1 DEF Walked
<1>11. k + 1 <= LastLayer => k < LastLayer
  BY <1>0
<1> DEFINE n == k + 1
<1>12. n - 1 = k
  BY <1>8
<1> HIDE DEF n
<1>13. Walked(x, n, h)
  <2>1. \A l \in Layers : l < n => StoreHolds(x[l], l, h)
    BY <1>9 DEF n
  <2>2. \A l \in Layers : l >= n => x[l] = memory[l]
    BY <1>10 DEF n
  <2>3. x[n - 1].at["output"] = Value("output", n - 1, h)
    BY <1>6, <1>7, <1>12
  <2>4. n <= LastLayer => Passes(x[n - 1], n, h, setup)
    BY <1>6, <1>7, <1>11, <1>12 DEF n
  <2> QED BY <1>7, <2>1, <2>2, <2>3, <2>4 DEF Walked
<1> QED BY <1>13 DEF n

\* run_prefix() for one token leaves the states and rows of the sequence with it.
THEOREM PrefixLeaves ==
    ASSUME seq \in Seq(Token), NEW token \in Token, NEW h, h = Append(seq, token),
           Len(h) <= OlderCapacity, Older!Coherent(setup), MemoryHolds(memory, seq),
           NEW x, x = Older!RunPrefix(token, Len(seq), Older!None, FALSE)
    PROVE  MemoryHolds(x, h) /\ Older!LogitsFrom(x) = LogitsOf(h)
<1> DEFINE programs == Older!Programs(Len(seq), Older!None, FALSE)
<1>0. LastLayer \in Nat /\ Layers = 0 .. LastLayer
  BY TheLayers
<1>1. PICK g : /\ g[-1] = memory
               /\ \A l \in Layers : g[l] = LayerAfter(g[l - 1], l, token, programs)
               /\ Older!Through(token, programs) = g[LastLayer]
  BY ThroughIs
<1>2. x = g[LastLayer]
  BY <1>1 DEF Older!RunPrefix
<1> DEFINE last == LastLayer + 1
           T == {k \in Nat : Walked(g[k - 1], k, h)}
<1>3. 0 \in T
  <2>1. g[0 - 1] = memory
    BY <1>1
  <2>2. \A l \in Layers : ~(l < 0)
    BY <1>0
  <2>3. Walked(memory, 0, h)
    BY <2>2 DEF Walked, MemoryHolds
  <2> QED BY <2>1, <2>3
<1>4. ASSUME NEW k \in 1 .. last, k - 1 \in T PROVE k \in T
  <2> DEFINE i == k - 1
  <2>1. i \in Layers /\ i + 1 = k /\ k \in Nat
    BY <1>0
  <2>2. Walked(g[i - 1], i, h)
    BY <1>4
  <2> HIDE DEF i
  <2>3. g[i] = LayerAfter(g[i - 1], i, token, programs)
    BY <1>1, <2>1
  <2>4. Walked(g[i], i + 1, h)
    BY <2>1, <2>2, <2>3, WalkedOn
  <2> QED BY <2>1, <2>4 DEF i
<1>5. last \in T
  <2>1. T \in SUBSET Nat /\ last \in Nat /\ last \in 0 .. last
    BY <1>0
  <2> HIDE DEF T, last
  <2>2. 0 .. last \subseteq T
    BY <1>3, <1>4, <2>1, EachTurn
  <2> QED BY <2>1, <2>2
<1>6. last - 1 = LastLayer /\ last > 0
  BY <1>0
<1> HIDE DEF last
<1>7. Walked(x, last, h)
  BY <1>2, <1>5, <1>6
<1>8. \A l \in Layers : l < last
  BY <1>0 DEF last
<1>9. MemoryHolds(x, h)
  BY <1>7, <1>8 DEF Walked, MemoryHolds
<1>10. x[LastLayer].at["output"] = Value("output", LastLayer, h)
  BY <1>6, <1>7 DEF Walked
<1>11. Older!LogitsFrom(x) = LogitsOf(h)
  <2>1. Older!LogitsFrom(x) = Logits(FinalNormalized(x[LastLayer].at["output"]))
    BY SameQuantities DEF Older!LogitsFrom, Older!FinalNormalized, FinalNormalized, Older!Logits, Logits,
       Older!LogitsOf, LogitsOf
  <2>2. FinalNormalized(Value("output", LastLayer, h)) = Value("finalNormalized", 0, h)
    BY DEF FinalNormalized, Value
  <2>3. Logits(Value("finalNormalized", 0, h)) = LogitsOf(h)
    BY DEF Logits, LogitsOf, Value
  <2> QED BY <1>10, <2>1, <2>2, <2>3
<1> QED BY <1>9, <1>11

\* A layer whose buffers hold nothing but the sequence.
LEMMA HoldingIs ==
    ASSUME NEW l, NEW s \in Seq(Token), Len(s) <= OlderCapacity
    PROVE  StoreHolds(Older!LayerHolding(l, s), l, s)
<1> DEFINE m == Older!LayerHolding(l, s)
<1>1. /\ m.at = [b \in Floats |-> IF b \in {"past", "state"} THEN Value(b, l, s) ELSE Wrong]
      /\ m.copies = [b \in Copies |-> Older!NoCopy]
      /\ m.rows = [r \in 1 .. OlderCapacity |->
                      IF r <= Len(s) THEN Value("row", l, SubSeq(s, 1, r)) ELSE Wrong]
      /\ DOMAIN m = {"at", "copies", "rows"}
  BY OlderBuffers, SameQuantities DEF Older!LayerHolding
<1> HIDE DEF m
<1>2. IsStore(m) /\ m.rows = [i \in 1 .. OlderCapacity |-> m.rows[i]]
  BY <1>1 DEF IsStore
<1>3. m.at["past"] = Value("past", l, s) /\ m.at["state"] = Value("state", l, s)
  BY <1>1 DEF Floats
<1>4. ASSUME NEW i \in 1 .. Len(s)
      PROVE  m.rows[i] = Value("row", l, SubSeq(s, 1, i))
  BY <1>1, <1>4, CapacityNat
<1> QED BY <1>2, <1>3, <1>4 DEF StoreHolds, m

\* A reset zeroes the states and the rows.
LEMMA ClearedIs ==
    ASSUME NEW l, NEW m, IsStore(m)
    PROVE  StoreHolds(Older!Cleared(m, l), l, <<>>)
<1> DEFINE x == Older!Cleared(m, l)
           none == Older!LayerHolding(l, <<>>)
           at == [m.at EXCEPT !["past"] = Value("past", l, <<>>),
                              !["state"] = Value("state", l, <<>>)]
<1>1. DOMAIN none.rows = 1 .. OlderCapacity
  BY DEF Older!LayerHolding
<1>2. x = [m EXCEPT !.at = at, !.rows = none.rows]
  BY DEF Older!Cleared, Older!Zero, Older!Value, Value
<1> HIDE DEF x, at, none
<1>3. DOMAIN x = {"at", "copies", "rows"} /\ x.at = at /\ x.copies = m.copies /\ x.rows = none.rows
  BY <1>2 DEF IsStore
<1>4. DOMAIN at = Floats /\ at["past"] = Value("past", l, <<>>)
      /\ at["state"] = Value("state", l, <<>>)
  BY DEF IsStore, Floats, at
<1>5. IsStore(x)
  BY <1>1, <1>3, <1>4 DEF IsStore
<1>6. x.rows = [i \in 1 .. OlderCapacity |-> x.rows[i]]
  <2>1. none.rows = [i \in 1 .. OlderCapacity |-> none.rows[i]]
    BY DEF none, Older!LayerHolding
  <2> QED BY <1>3, <2>1
<1>7. \A i \in 1 .. Len(<<>>) : FALSE
  BY Len(<<>>) = 0
<1> QED BY <1>3, <1>4, <1>5, <1>6, <1>7 DEF StoreHolds, x
=============================================================================
