---------------------------- MODULE EnginesProofs ----------------------------
(***************************************************************************)
(* For any number of blocks, capacities, tiles, splits, formats and        *)
(* setups: unless a convolution was launched at a position that makes it   *)
(* skip inputs, the device of prefill-v2 holds the reference's rows,       *)
(* histories and states for the tokens it has been given, and its logits   *)
(* are the reference's.  The rows, rings, states and logits of the older   *)
(* engine always are, under coherent switches.  To that extent both        *)
(* engines implement the reference, and a launch of the reusable decode    *)
(* graph does what step() would have done.                                 *)
(***************************************************************************)
EXTENDS StepProofs

-----------------------------------------------------------------------------
(* Prefill-v2.                                                             *)

\* The states of the recurrent layers after the tokens of h.
StatesHold(p, s, h) ==
    /\ DOMAIN p = RecurrentLayers /\ DOMAIN s = RecurrentLayers
    /\ \A l \in RecurrentLayers : p[l] = Value("past", l, h) /\ s[l] = Value("state", l, h)

\* The first rows of the caches after the tokens of h.
CachesHold(rows, h) ==
    /\ DOMAIN rows = 0 .. Blocks - 1
    /\ \A b \in 0 .. Blocks - 1 :
          Len(rows[b]) = Capacity /\ RowsAre(rows[b], b * 4 + 3, h, Len(h))

\* What the device holds when no convolution skipped an input.
Contents ==
    /\ CachesHold(kv, seq) /\ StatesHold(past, state, seq)
    /\ logits \in {NoLogits, LogitsOf(seq)}

\* Between tiles the storage's position is the length of the sequence but for
\* whole turns of the ring; in a cold prompt it is zero.
Places ==
    /\ position \in 0 .. Len(seq) /\ sound \in BOOLEAN
    /\ phase \in {"idle", "cold", "suffix", "filled", "decode"} /\ graph \in BOOLEAN
    /\ phase \in {"cold", "suffix"} => position % Kernel = Len(seq) % Kernel
    /\ phase = "cold" => position = 0 /\ (seq = <<>> \/ Len(seq) >= Tile)
    /\ phase = "cold" /\ Len(seq) <= Tile => sound

\* The inductive invariant: the rows and states are those of the tokens given,
\* and the states of the checkpoint those of its own.
DeviceInv ==
    /\ seq \in Seq(Token) /\ Len(seq) <= Capacity
    /\ Places
    /\ sound => Contents
    /\ checkpoint.tokens \in Seq(Token) /\ checkpoint.sound \in BOOLEAN
    /\ checkpoint.sound => StatesHold(checkpoint.past, checkpoint.state, checkpoint.tokens)
    /\ formats \in Formats /\ opted \in BOOLEAN

LEMMA DeviceInvSays == DeviceInv => TypeOK /\ DeviceHoldsSequence /\ LogitsFollowSequence
<1> SUFFICES ASSUME DeviceInv PROVE TypeOK /\ DeviceHoldsSequence /\ LogitsFollowSequence
  OBVIOUS
<1>1. TypeOK
  BY DEF DeviceInv, Places, Contents, TypeOK, CachesHold, StatesHold
<1>2. LogitsFollowSequence
  BY DEF DeviceInv, Contents, LogitsFollowSequence
<1>3. DeviceHoldsSequence
  <2>1. DOMAIN seq = 1 .. Len(seq)
    BY DEF DeviceInv
  <2>2. phase = "cold" /\ Len(seq) <= Tile => sound
    BY DEF DeviceInv, Places
  <2>3. sound => /\ \A b \in 0 .. Blocks - 1, i \in DOMAIN seq :
                       kv[b][i] = Value("row", b * LayersPerBlock + 3, SubSeq(seq, 1, i))
                 /\ \A l \in RecurrentLayers :
                       past[l] = Value("past", l, seq) /\ state[l] = Value("state", l, seq)
    BY <2>1, FourLayers DEF DeviceInv, Contents, CachesHold, StatesHold, RowsAre
  <2> QED BY <2>2, <2>3 DEF DeviceHoldsSequence
<1> QED BY <1>1, <1>2, <1>3

\* A tile is whole turns of the ring.
LEMMA TileTurns ==
    ASSUME NEW n \in Nat
    PROVE  (n + Tile) % Kernel = n % Kernel
<1> DEFINE k == Kernel
           p == n \div k
           q == Tile \div k
           r == n % k
<1>1. k \in Nat \ {0} /\ Tile \in Nat /\ Tile % k = 0
  BY LaunchesAssumption
<1> HIDE DEF k
<1>2. /\ p \in Nat /\ n = p * k + r /\ r \in 0 .. k - 1
      /\ q \in Nat /\ Tile = q * k
  BY <1>1, Z3
<1> HIDE DEF p, q, r
<1>3. p * k \in Nat /\ q * k \in Nat /\ (p + q) * k = p * k + q * k
  BY <1>1, <1>2, Z3
<1>4. n + Tile = (p + q) * k + r /\ p + q \in Nat
  BY <1>2, <1>3
<1>5. \A x \in Nat : (x * k + r) % k = r
  BY <1>1, <1>2, Z3
<1>6. (n + Tile) % k = r
  BY <1>4, <1>5
<1> QED BY <1>6 DEF r, k

\* Nothing has been given to a blank device.
LEMMA BlankIs ==
    /\ CachesHold(BlankDevice.kv, <<>>)
    /\ StatesHold(BlankDevice.past, BlankDevice.state, <<>>)
<1>1. BlankDevice.kv = [b \in 0 .. Blocks - 1 |-> BlankRows] /\ Len(BlankRows) = Capacity
  BY FourLayers DEF BlankDevice, BlankRows
<1>2. CachesHold(BlankDevice.kv, <<>>)
  <2> HIDE DEF BlankDevice, BlankRows
  <2>1. Len(<<>>) = 0
    OBVIOUS
  <2> QED BY <1>1, <2>1 DEF CachesHold, RowsAre
<1>3. StatesHold(BlankDevice.past, BlankDevice.state, <<>>)
  BY DEF BlankDevice, StatesHold, Zero
<1> QED BY <1>2, <1>3

LEMMA DeviceInit == Init => DeviceInv
<1> SUFFICES ASSUME Init PROVE DeviceInv
  OBVIOUS
<1>1. seq = <<>> /\ <<>> \in Seq(Token) /\ Len(seq) = 0 /\ 0 <= Capacity
  BY FourLayers DEF Init
<1>2. CachesHold(kv, seq) /\ StatesHold(past, state, seq)
  BY <1>1, BlankIs DEF Init
<1>3. /\ checkpoint.tokens = <<>> /\ checkpoint.past = past /\ checkpoint.state = state
      /\ checkpoint.sound = TRUE
      /\ logits = NoLogits /\ formats \in Formats /\ opted \in BOOLEAN
  BY DEF Init
<1>4. Places
  <2>1. position \in 0 .. Len(seq) /\ phase = "idle"
    BY <1>1 DEF Init
  <2>2. sound \in BOOLEAN /\ graph \in BOOLEAN
    BY Zenon DEF Init
  <2> QED BY <2>1, <2>2 DEF Places
<1> QED BY <1>1, <1>2, <1>3, <1>4 DEF DeviceInv, Contents

\* A sequence is a prefix of whatever is appended to it.
LEMMA PrefixOfWhole ==
    ASSUME NEW s \in Seq(Token), NEW tokens \in Seq(Token), NEW i \in 0 .. Len(s)
    PROVE  SubSeq(s \o tokens, 1, i) = SubSeq(s, 1, i)
<1> DEFINE w == s \o tokens
<1>1. /\ w \in Seq(Token) /\ Len(w) = Len(s) + Len(tokens)
      /\ Len(s) \in Nat /\ Len(tokens) \in Nat
      /\ \A k \in 1 .. Len(s) : w[k] = s[k]
  OBVIOUS
<1> HIDE DEF w
<1>2. i \in 0 .. Len(w)
  BY <1>1
<1>3. /\ SubSeq(w, 1, i) \in Seq(Token) /\ Len(SubSeq(w, 1, i)) = i
      /\ \A k \in 1 .. i : SubSeq(w, 1, i)[k] = w[k]
  BY <1>1, <1>2, PrefixIs
<1>4. /\ SubSeq(s, 1, i) \in Seq(Token) /\ Len(SubSeq(s, 1, i)) = i
      /\ \A k \in 1 .. i : SubSeq(s, 1, i)[k] = s[k]
  BY PrefixIs
<1>5. \A k \in 1 .. i : SubSeq(w, 1, i)[k] = SubSeq(s, 1, i)[k]
  BY <1>1, <1>3, <1>4
<1>6. SubSeq(w, 1, i) = SubSeq(s, 1, i)
  BY <1>3, <1>4, <1>5, SeqEqual
<1> QED BY <1>6 DEF w

\* The tile the device is about to be given.
Tilled(tokens) == [s |-> seq \o tokens, base |-> Len(seq), n |-> Len(tokens)]

LEMMA TilledIs ==
    ASSUME seq \in Seq(Token), NEW tokens \in Seq(Token), Len(tokens) \in 1 .. Tile, Fits(tokens),
           NEW g, g = Tilled(tokens)
    PROVE  /\ IsGiven(g) /\ g.s = seq \o tokens /\ g.base = Len(seq) /\ g.n = Len(tokens)
           /\ \A i \in 0 .. Len(seq) : SubSeq(g.s, 1, i) = SubSeq(seq, 1, i)
           /\ SubSeq(g.s, 1, Len(seq)) = seq
           /\ \A t \in 1 .. Len(tokens) : g.s[Len(seq) + t] = tokens[t]
<1> DEFINE s == seq \o tokens
<1>1. /\ s \in Seq(Token) /\ Len(s) = Len(seq) + Len(tokens)
      /\ Len(seq) \in Nat /\ Len(tokens) \in Nat
      /\ \A i \in 1 .. Len(seq) : s[i] = seq[i]
      /\ \A t \in 1 .. Len(tokens) : s[Len(seq) + t] = tokens[t]
  OBVIOUS
<1>2. g.s = s /\ g.base = Len(seq) /\ g.n = Len(tokens)
  BY DEF Tilled
<1> HIDE DEF s
<1>3. IsGiven(g)
  BY <1>1, <1>2 DEF IsGiven, Fits
<1>4. \A i \in 0 .. Len(seq) : SubSeq(seq \o tokens, 1, i) = SubSeq(seq, 1, i)
  BY PrefixOfWhole
<1>5. SubSeq(s, 1, Len(seq)) = seq
  <2>1. SubSeq(seq, 1, Len(seq)) = seq
    BY SubSeqFull
  <2> QED BY <1>1, <1>4, <2>1 DEF s
<1> QED BY <1>1, <1>2, <1>3, <1>4, <1>5 DEF s

\* The device as the first layer meets it.
LEMMA EmbeddedIs ==
    ASSUME DeviceInv, sound, NEW tokens \in Seq(Token), Len(tokens) \in 1 .. Tile,
           Fits(tokens), NEW g, g = Tilled(tokens)
    PROVE  Reached(Embedded(tokens), g, 0)
<1> DEFINE d == Embedded(tokens)
           n == Len(tokens)
           cells == [t \in DOMAIN tokens |-> Embedding(tokens[t])]
<1>1. /\ IsGiven(g) /\ g.s = seq \o tokens /\ g.base = Len(seq) /\ g.n = n
      /\ \A i \in 0 .. Len(seq) : SubSeq(g.s, 1, i) = SubSeq(seq, 1, i)
      /\ SubSeq(g.s, 1, Len(seq)) = seq
      /\ \A t \in 1 .. n : g.s[Len(seq) + t] = tokens[t]
  BY TilledIs DEF DeviceInv
<1>2. /\ d.ws = [Scratch EXCEPT !["ping"] = Over(cells, @, n)]
      /\ d.kv = kv /\ d.past = past /\ d.state = state
      /\ d.prefill = Len(seq) /\ d.decode = Len(seq)
      /\ DOMAIN d = {"ws", "affine", "kv", "past", "state", "prefill", "decode"}
  BY DEF Embedded, Over
<1> HIDE DEF d
<1>3. IsDevice(d)
  BY <1>2 DEF IsDevice, Scratch, DeviceInv, Contents, CachesHold, StatesHold
<1>4. Holds(d, Given(g, 0), StreamOf(0), "input")
  <2>1. StreamOf(0) = "ping" /\ "ping" \in Buffers
    BY BufferNames DEF StreamOf
  <2>2. n \in Nat /\ DOMAIN tokens = 1 .. n
    OBVIOUS
  <2>3. IsTile(cells, n) /\ \A t \in 1 .. n : cells[t] = Embedding(tokens[t])
    BY <2>2 DEF IsTile
  <2> HIDE DEF n, cells
  <2>4. \A t \in 1 .. n : d.ws["ping"][t] = cells[t]
    <3>1. d.ws["ping"] = Over(cells, Scratch["ping"], n)
      BY <1>2, <2>1 DEF Scratch
    <3> QED BY <2>2, <2>3, <3>1, Overwritten
  <2>5. IsJob(Given(g, 0)) /\ Given(g, 0).l = 0 /\ Given(g, 0).n = n
    <3>1. 0 \in Layers
      BY FourLayers, LayersAre
    <3> QED BY <1>1, <3>1, FourLayers, GivenIs
  <2>6. ASSUME NEW t \in 1 .. n
        PROVE  Named("input", 0, Upto(Given(g, 0), t)) = Embedding(tokens[t])
    <3>1. Given(g, 0).s = g.s /\ Given(g, 0).base = Len(seq)
      BY <1>1 DEF Given
    <3>2. Last(Upto(Given(g, 0), t)) = tokens[t]
      BY <1>1, <2>5, <3>1, UptoIs, ZenonT(40)
    <3> QED BY <3>2 DEF Named
  <2> QED BY <2>1, <2>3, <2>4, <2>5, <2>6 DEF Holds
<1>5. \A l \in Nat : Got(g, l, 0) = Len(seq)
  <2>1. \A l \in Nat : ~(l < 0)
    OBVIOUS
  <2> QED BY <1>1, <2>1 DEF Got
<1>6. CachesAre(d, g, 0)
  <2> SUFFICES ASSUME NEW b \in 0 .. Blocks - 1
               PROVE  /\ Len(d.kv[b]) = Capacity
                      /\ RowsAre(d.kv[b], b * 4 + 3, g.s, Got(g, b * 4 + 3, 0))
    BY DEF CachesAre
  <2>1. Got(g, b * 4 + 3, 0) = Len(seq)
    BY <1>5
  <2>2. Len(kv[b]) = Capacity /\ RowsAre(kv[b], b * 4 + 3, seq, Len(seq))
    BY DEF DeviceInv, Contents, CachesHold
  <2>3. \A i \in 1 .. Len(seq) : SubSeq(g.s, 1, i) = SubSeq(seq, 1, i)
    BY <1>1
  <2> QED BY <1>2, <2>1, <2>2, <2>3 DEF RowsAre
<1>7. StatesAre(d, g, 0)
  <2> SUFFICES ASSUME NEW l \in RecurrentLayers
               PROVE  /\ d.past[l] = Value("past", l, SubSeq(g.s, 1, Got(g, l, 0)))
                      /\ d.state[l] = Value("state", l, SubSeq(g.s, 1, Got(g, l, 0)))
    BY DEF StatesAre
  <2>1. Got(g, l, 0) = Len(seq)
    BY <1>5, FourLayers, LayersAre
  <2> QED BY <1>1, <1>2, <2>1 DEF DeviceInv, Contents, StatesHold
<1> QED BY <1>1, <1>2, <1>3, <1>4, <1>6, <1>7 DEF Reached, d

\* What the last layer leaves is the reference's.
LEMMA EndIs ==
    ASSUME NEW g, IsGiven(g), NEW d, Reached(d, g, Blocks * 4)
    PROVE  /\ CachesHold(d.kv, g.s) /\ StatesHold(d.past, d.state, g.s)
           /\ Logits(FinalNormalized(d.ws["ping"][g.n])) = LogitsOf(g.s)
<1> DEFINE k == Blocks * 4
<1>1. /\ LayersPerBlock = 4 /\ Blocks \in Nat \ {0} /\ k \in Nat /\ k # 0
      /\ LastLayer = k - 1 /\ g.base + g.n = Len(g.s) /\ k % 2 = 0
  BY FourLayers, QuantitiesAssumption DEF LastLayer, IsGiven
<1>2. SubSeq(g.s, 1, Len(g.s)) = g.s
  BY SubSeqFull DEF IsGiven
<1>3. \A l \in Layers : Got(g, l, k) = Len(g.s)
  BY <1>1, LayersAre DEF Got
<1>4. \A b \in 0 .. Blocks - 1 : b * 4 + 3 \in Layers
  BY <1>1, LayersAre
<1>5. CachesHold(d.kv, g.s)
  BY <1>3, <1>4 DEF Reached, CachesAre, CachesHold, IsDevice
<1>6. StatesHold(d.past, d.state, g.s)
  <2>1. RecurrentLayers \subseteq Layers
    BY DEF RecurrentLayers
  <2> QED BY <1>2, <1>3, <2>1 DEF Reached, StatesAre, StatesHold, IsDevice
<1>7. d.ws["ping"][g.n] = Value("output", LastLayer, g.s)
  <2>1. StreamOf(k) = "ping"
    BY <1>1 DEF StreamOf
  <2>2. /\ Given(g, k).n = g.n /\ Given(g, k).l = k /\ Upto(Given(g, k), g.n) = g.s
        /\ g.n \in 1 .. g.n
    BY <1>1, <1>2 DEF Given, Upto, IsGiven
  <2>3. d.ws["ping"][g.n] = Named("input", k, g.s)
    BY <2>1, <2>2 DEF Reached, Holds
  <2>4. Named("input", k, g.s) = Value("output", k - 1, g.s)
    <3> HIDE DEF k
    <3> QED BY <1>1 DEF Named
  <2> QED BY <1>1, <2>3, <2>4
<1>8. Logits(FinalNormalized(Value("output", LastLayer, g.s))) = LogitsOf(g.s)
  BY DEF Logits, FinalNormalized, Value
<1> QED BY <1>5, <1>6, <1>7, <1>8

\* A tile, however it is run, and a step of the decode graph.
LEMMA TileAdvances ==
    ASSUME DeviceInv, sound, NEW tokens \in Seq(Token), Len(tokens) \in 1 .. Tile,
           Fits(tokens), NEW call, Told(call, Tilled(tokens)), Advance(tokens, call)
    PROVE  Contents' /\ logits' = LogitsOf(seq')
<1> DEFINE g == Tilled(tokens)
           d == RunBlocks(Embedded(tokens), call)
<1>1. /\ kv' = d.kv /\ past' = d.past /\ state' = d.state
      /\ logits' = Logits(FinalNormalized(d.ws["ping"][Len(tokens)]))
      /\ seq' = seq \o tokens
  BY DEF Advance, Accept, SetDevice
<1>2. /\ IsGiven(g) /\ g.s = seq \o tokens /\ g.n = Len(tokens)
      /\ Reached(Embedded(tokens), g, 0)
  BY TilledIs, EmbeddedIs DEF DeviceInv
<1> HIDE DEF g
<1>3. Reached(d, g, Blocks * 4)
  BY <1>2, FourLayers, BlocksReach DEF g
<1> HIDE DEF d
<1>4. /\ CachesHold(d.kv, g.s) /\ StatesHold(d.past, d.state, g.s)
      /\ Logits(FinalNormalized(d.ws["ping"][g.n])) = LogitsOf(g.s)
  BY <1>2, <1>3, EndIs
<1>5. CachesHold(kv, seq)' /\ StatesHold(past, state, seq)' /\ logits' = LogitsOf(seq')
  BY <1>1, <1>2, <1>4 DEF CachesHold, StatesHold
<1> QED BY <1>5 DEF Contents, CachesHold, StatesHold

\* The launches are given the position of the sequence; the host's position of
\* the convolution fits unless it makes it skip inputs.
LEMMA Tells ==
    ASSUME DeviceInv, NEW tokens, Len(tokens) \in Nat
    PROVE  /\ \A run : /\ run = [kind |-> "forward", source |-> "host", base |-> Len(seq),
                                ring |-> position, count |-> Len(tokens),
                                formats |-> formats, opted |-> opted]
                      /\ phase \in {"cold", "suffix"} /\ ~Cuts(run)
                      => Told(run, Tilled(tokens))
           /\ Len(tokens) = Tile =>
              Told([kind |-> "forward", source |-> "prefill", base |-> 0, ring |-> 0,
                    count |-> Tile, formats |-> formats, opted |-> opted], Tilled(tokens))
           /\ Len(tokens) = 1 =>
              Told([kind |-> "decode", source |-> "decode", base |-> 0, ring |-> 0,
                    count |-> 1, formats |-> formats, opted |-> opted], Tilled(tokens))
<1>1. formats \in FormatRecord
  BY FourLayers DEF DeviceInv
<1>2. ASSUME NEW run,
             run = [kind |-> "forward", source |-> "host", base |-> Len(seq),
                    ring |-> position, count |-> Len(tokens),
                    formats |-> formats, opted |-> opted],
             phase \in {"cold", "suffix"}, ~Cuts(run)
      PROVE  Told(run, Tilled(tokens))
  <2>1. RingFits(position, Len(seq))
    <3>1. /\ position \in 0 .. Len(seq) /\ Len(seq) \in Nat /\ Kernel \in Nat \ {0}
          /\ position % Kernel = Len(seq) % Kernel
      BY <1>2, LaunchesAssumption DEF DeviceInv, Places
    <3>2. position = Len(seq) \/ ~(position < Kernel - 1)
      BY <1>2 DEF Cuts
    <3> QED BY <3>1, <3>2 DEF RingFits
  <2> QED BY <1>1, <1>2, <2>1 DEF Told, Tilled
<1>3. Len(tokens) = Tile =>
          Told([kind |-> "forward", source |-> "prefill", base |-> 0, ring |-> 0,
                count |-> Tile, formats |-> formats, opted |-> opted], Tilled(tokens))
  BY <1>1 DEF Told, Tilled
<1>4. Len(tokens) = 1 =>
          Told([kind |-> "decode", source |-> "decode", base |-> 0, ring |-> 0,
                count |-> 1, formats |-> formats, opted |-> opted], Tilled(tokens))
  BY <1>1 DEF Told, Tilled
<1> QED BY <1>2, <1>3, <1>4

LEMMA TileTokens ==
    ASSUME NEW tokens \in Tiles
    PROVE  tokens \in Seq(Token) /\ Len(tokens) \in 1 .. Tile
<1>1. PICK n \in 1 .. Tile : tokens \in [1 .. n -> Token]
  BY DEF Tiles
<1>2. n \in Nat /\ n \in 1 .. Tile
  BY LaunchesAssumption
<1> QED BY <1>1, <1>2

LEMMA TokenTile ==
    ASSUME NEW token \in Token
    PROVE  <<token>> \in Seq(Token) /\ Len(<<token>>) = 1 /\ Len(<<token>>) \in 1 .. Tile
BY LaunchesAssumption

\* What a launch sequence leaves of the invariant, its places aside.
LEMMA GivenTokens ==
    ASSUME DeviceInv, NEW tokens \in Seq(Token), Len(tokens) \in 1 .. Tile, Fits(tokens),
           NEW run, Advance(tokens, run),
           sound /\ ~Cuts(run) => Told(run, Tilled(tokens)),
           Places'
    PROVE  /\ DeviceInv' /\ (sound' => logits' = LogitsOf(seq'))
           /\ Len(tokens) > 0 /\ seq' = seq \o tokens
<1>1. /\ seq' = seq \o tokens /\ UNCHANGED <<checkpoint, formats, opted>>
      /\ sound' = (sound /\ ~Cuts(run))
  BY DEF Advance, Accept
<1>2. seq' \in Seq(Token) /\ Len(seq') <= Capacity
  BY <1>1 DEF DeviceInv, Fits
<1>3. sound' => Contents' /\ logits' = LogitsOf(seq')
  <2> SUFFICES ASSUME sound' PROVE Contents' /\ logits' = LogitsOf(seq')
    OBVIOUS
  <2>1. sound /\ Told(run, Tilled(tokens))
    BY <1>1
  <2> QED BY <2>1, TileAdvances
<1>4. DeviceInv'
  BY <1>1, <1>2, <1>3 DEF DeviceInv, StatesHold
<1> QED BY <1>1, <1>3, <1>4

\* Where a tile of the prompt leaves the call.
LEMMA TilePlaces ==
    ASSUME DeviceInv, NEW tokens \in Seq(Token), Len(tokens) \in 1 .. Tile,
           phase \in {"cold", "suffix"}, NEW run, Advance(tokens, run),
           run.source # "host" \/ run.ring = position, TileDone(tokens)
    PROVE  Places'
<1>1. /\ seq' = seq \o tokens /\ Len(seq') = Len(seq) + Len(tokens)
      /\ Len(seq) \in Nat /\ Len(seq') \in Nat /\ Tile \in Nat \ {0}
      /\ sound' = (sound /\ ~Cuts(run)) /\ graph' = graph
  BY LaunchesAssumption DEF Advance, Accept, DeviceInv
<1>2. /\ position \in 0 .. Len(seq) /\ sound \in BOOLEAN /\ graph \in BOOLEAN
      /\ position % Kernel = Len(seq) % Kernel
      /\ phase = "cold" => position = 0 /\ (seq = <<>> \/ Len(seq) >= Tile)
      /\ phase = "cold" /\ Len(seq) <= Tile => sound
  BY DEF DeviceInv, Places
<1>3. position' \in 0 .. Len(seq') /\ phase' \in {phase, "filled"}
  BY <1>1, <1>2 DEF TileDone
<1>4. phase' \in {"cold", "suffix"} =>
          /\ phase' = phase /\ position' = position /\ Len(tokens) = Tile
          /\ position' % Kernel = Len(seq') % Kernel
  <2> SUFFICES ASSUME phase' \in {"cold", "suffix"}
               PROVE  /\ phase' = phase /\ position' = position /\ Len(tokens) = Tile
                      /\ position' % Kernel = Len(seq') % Kernel
    OBVIOUS
  <2>1. phase' = phase /\ position' = position /\ Len(tokens) = Tile
    BY DEF TileDone
  <2> QED BY <1>1, <1>2, <2>1, TileTurns
<1>5. phase' = "cold" => position' = 0 /\ Len(seq') >= Tile
  BY <1>1, <1>2, <1>4
<1>6. phase' = "cold" /\ Len(seq') <= Tile => sound'
  <2> SUFFICES ASSUME phase' = "cold", Len(seq') <= Tile PROVE sound'
    OBVIOUS
  <2>1. phase = "cold" /\ Len(seq) = 0 /\ position = 0 /\ sound
    BY <1>1, <1>2, <1>4
  <2>2. ~Cuts(run)
    BY <2>1 DEF Cuts
  <2> QED BY <1>1, <2>1, <2>2
<1> QED BY <1>1, <1>2, <1>3, <1>4, <1>5, <1>6 DEF Places

\* Every action that gives the device tokens leaves the reference's logits.
LEMMA Gives ==
    ASSUME DeviceInv,
           \/ \E tokens \in Tiles : HostTile(tokens) \/ GraphTile(tokens)
           \/ \E token \in Token : GraphStep(token)
    PROVE  /\ DeviceInv' /\ (sound' => logits' = LogitsOf(seq'))
           /\ \E tokens \in Seq(Token) : Len(tokens) > 0 /\ seq' = seq \o tokens
<1>1. ASSUME NEW tokens \in Tiles, HostTile(tokens)
      PROVE  /\ DeviceInv' /\ (sound' => logits' = LogitsOf(seq'))
             /\ tokens \in Seq(Token) /\ Len(tokens) > 0 /\ seq' = seq \o tokens
  <2> DEFINE run == [kind |-> "forward", source |-> "host", base |-> Len(seq),
                     ring |-> position, count |-> Len(tokens),
                     formats |-> formats, opted |-> opted]
  <2>1. tokens \in Seq(Token) /\ Len(tokens) \in 1 .. Tile /\ Len(tokens) \in Nat
    BY TileTokens
  <2>2. Fits(tokens) /\ Advance(tokens, run) /\ phase \in {"cold", "suffix"} /\ TileDone(tokens)
    BY <1>1 DEF HostTile
  <2>3. ~Cuts(run) => Told(run, Tilled(tokens))
    BY <2>1, <2>2, Tells
  <2>4. run.ring = position
    OBVIOUS
  <2> HIDE DEF run
  <2>5. Places'
    BY <2>1, <2>2, <2>4, TilePlaces
  <2> QED BY <2>1, <2>2, <2>3, <2>5, GivenTokens
<1>2. ASSUME NEW tokens \in Tiles, GraphTile(tokens)
      PROVE  /\ DeviceInv' /\ (sound' => logits' = LogitsOf(seq'))
             /\ tokens \in Seq(Token) /\ Len(tokens) > 0 /\ seq' = seq \o tokens
  <2> DEFINE run == [kind |-> "forward", source |-> "prefill", base |-> 0, ring |-> 0,
                     count |-> Tile, formats |-> formats, opted |-> opted]
  <2>1. tokens \in Seq(Token) /\ Len(tokens) \in 1 .. Tile /\ Len(tokens) \in Nat
    BY TileTokens
  <2>2. /\ Fits(tokens) /\ Advance(tokens, run) /\ Len(tokens) = Tile
        /\ phase \in {"cold", "suffix"} /\ TileDone(tokens)
    BY <1>2 DEF GraphTile
  <2>3. Told(run, Tilled(tokens))
    BY <2>1, <2>2, Tells
  <2>4. run.source # "host"
    OBVIOUS
  <2> HIDE DEF run
  <2>5. Places'
    BY <2>1, <2>2, <2>4, TilePlaces
  <2> QED BY <2>1, <2>2, <2>3, <2>5, GivenTokens
<1>3. ASSUME NEW token \in Token, GraphStep(token)
      PROVE  /\ DeviceInv' /\ (sound' => logits' = LogitsOf(seq'))
             /\ seq' = seq \o <<token>>
  <2> DEFINE run == [kind |-> "decode", source |-> "decode", base |-> 0, ring |-> 0,
                     count |-> 1, formats |-> formats, opted |-> opted]
             tokens == <<token>>
  <2>1. tokens \in Seq(Token) /\ Len(tokens) \in 1 .. Tile /\ Len(tokens) = 1
    BY TokenTile
  <2>2. /\ Fits(tokens) /\ Advance(tokens, run)
        /\ phase' = "decode" /\ position' = position
    BY <1>3 DEF GraphStep
  <2> HIDE DEF tokens
  <2>3. Told(run, Tilled(tokens))
    <3>1. Len(tokens) \in Nat
      BY <2>1
    <3> QED BY <2>1, <3>1, Tells
  <2> HIDE DEF run
  <2>4. Places'
    <3>1. seq' = seq \o tokens /\ seq \in Seq(Token) /\ position \in 0 .. Len(seq)
      BY <2>2 DEF Advance, Accept, DeviceInv, Places
    <3>2. position' \in 0 .. Len(seq') /\ phase' = "decode"
      BY <2>1, <2>2, <3>1
    <3>3. sound' \in BOOLEAN /\ graph' \in BOOLEAN
      BY <2>2, Zenon DEF Advance, DeviceInv, Places
    <3> QED BY <3>2, <3>3 DEF Places
  <2>5. /\ DeviceInv' /\ (sound' => logits' = LogitsOf(seq')) /\ seq' = seq \o tokens
    BY <2>1, <2>2, <2>3, <2>4, GivenTokens
  <2> QED BY <2>5 DEF tokens
<1>4. \A token \in Token : <<token>> \in Seq(Token) /\ Len(<<token>>) > 0
  OBVIOUS
<1> QED BY <1>1, <1>2, <1>3, <1>4

\* The call ends.
LEMMA LeaveIs ==
    ASSUME DeviceInv, Leave \/ ReturnFromGraph
    PROVE  DeviceInv'
<1>1. /\ UNCHANGED <<seq, kv, past, state, logits, checkpoint, formats, opted, sound>>
      /\ phase' = "idle" /\ graph' = FALSE /\ position' \in {position, Len(seq)}
  BY DEF Leave, ReturnFromGraph, device
<1>2. Places'
  <2>1. position' \in 0 .. Len(seq') /\ phase' = "idle"
    BY <1>1 DEF DeviceInv, Places
  <2>2. sound' \in BOOLEAN /\ graph' \in BOOLEAN
    BY <1>1, Zenon DEF DeviceInv, Places
  <2> QED BY <2>1, <2>2 DEF Places
<1> QED BY <1>1, <1>2 DEF DeviceInv, Contents, CachesHold, StatesHold

LEMMA ResetIs ==
    ASSUME DeviceInv, Reset
    PROVE  DeviceInv'
<1>1. /\ seq' = <<>> /\ kv' = BlankDevice.kv /\ past' = BlankDevice.past
      /\ state' = BlankDevice.state /\ logits' = NoLogits
      /\ position' = 0 /\ phase' = "cold" /\ graph' \in BOOLEAN /\ sound' = TRUE
      /\ UNCHANGED <<checkpoint, formats, opted>>
  BY DEF Reset, SetDevice
<1>2. seq' \in Seq(Token) /\ Len(seq') = 0 /\ Len(seq') <= Capacity
  BY <1>1, FourLayers
<1>3. CachesHold(kv, seq)' /\ StatesHold(past, state, seq)'
  BY <1>1, BlankIs DEF CachesHold, StatesHold
<1>4. Contents' /\ Places'
  BY <1>1, <1>2, <1>3 DEF Contents, Places
<1> QED BY <1>1, <1>2, <1>4 DEF DeviceInv, StatesHold

LEMMA SaveIs ==
    ASSUME DeviceInv, Save
    PROVE  DeviceInv'
<1>1. /\ UNCHANGED <<seq, kv, past, state, position, logits, formats, opted, phase, graph, sound>>
      /\ checkpoint' = [tokens |-> seq, past |-> past, state |-> state, sound |-> sound]
  BY DEF Save, device, progress
<1>2. Places'
  BY <1>1 DEF DeviceInv, Places
<1> QED BY <1>1, <1>2 DEF DeviceInv, Places, Contents, CachesHold, StatesHold

LEMMA ResumeIs ==
    ASSUME DeviceInv, Resume
    PROVE  DeviceInv'
<1> DEFINE h == checkpoint.tokens
<1>1. /\ seq' = h /\ past' = checkpoint.past /\ state' = checkpoint.state
      /\ logits' = NoLogits /\ UNCHANGED <<kv, checkpoint, formats, opted>>
      /\ IsPrefix(h, seq) /\ phase' = "suffix" /\ graph' \in BOOLEAN
      /\ position' = Len(h) /\ sound' = (sound /\ checkpoint.sound)
  BY DEF Resume
<1>2. h \in Seq(Token) /\ seq \in Seq(Token) /\ Len(h) \in Nat /\ Len(seq) \in Nat
  BY DEF DeviceInv
<1> HIDE DEF h
<1>3. h = SubSeq(seq, 1, Len(h)) /\ Len(h) <= Len(seq)
  <2>1. SubSeq(h, 1, Len(h)) = SubSeq(seq, 1, Len(h)) /\ Len(h) <= Len(seq)
    BY <1>1 DEF IsPrefix
  <2>2. SubSeq(h, 1, Len(h)) = h
    BY <1>2, SubSeqFull
  <2> QED BY <2>1, <2>2
<1>4. \A i \in 0 .. Len(h) : SubSeq(h, 1, i) = SubSeq(seq, 1, i)
  <2> TAKE i \in 0 .. Len(h)
  <2>1. Len(h) \in 0 .. Len(seq)
    BY <1>2, <1>3
  <2>2. SubSeq(SubSeq(seq, 1, Len(h)), 1, i) = SubSeq(seq, 1, i)
    BY <1>2, <2>1, PrefixPrefix
  <2> QED BY <1>3, <2>2
<1>5. sound' => Contents'
  <2> SUFFICES ASSUME sound' PROVE Contents'
    OBVIOUS
  <2>1. Contents /\ StatesHold(checkpoint.past, checkpoint.state, h)
    BY <1>1 DEF DeviceInv, h
  <2>2. \A i \in 1 .. Len(h) : i \in 1 .. Len(seq) /\ SubSeq(h, 1, i) = SubSeq(seq, 1, i)
    BY <1>2, <1>3, <1>4
  <2>3. CachesHold(kv, h)
    BY <2>1, <2>2 DEF Contents, CachesHold, RowsAre
  <2>4. CachesHold(kv, seq)' /\ StatesHold(past, state, seq)'
    BY <1>1, <2>1, <2>3 DEF CachesHold, StatesHold
  <2> QED BY <1>1, <2>4 DEF Contents
<1>6. Len(seq') <= Capacity
  BY <1>1, <1>2, <1>3, FourLayers DEF DeviceInv
<1>7. Places'
  BY <1>1, <1>2 DEF DeviceInv, Places
<1> QED BY <1>1, <1>2, <1>5, <1>6, <1>7 DEF DeviceInv, StatesHold

LEMMA DeviceStep == DeviceInv /\ [Next]_vars => DeviceInv'
<1> SUFFICES ASSUME DeviceInv, [Next]_vars PROVE DeviceInv'
  OBVIOUS
<1>1. CASE UNCHANGED vars
  <2>1. UNCHANGED <<seq, kv, past, state, position, logits, checkpoint, formats, opted,
                    phase, graph, sound>>
    BY <1>1 DEF vars, device, progress
  <2> QED BY <2>1 DEF DeviceInv, Places, Contents, CachesHold, StatesHold
<1>2. CASE Reset
  BY <1>2, ResetIs
<1>3. CASE Save
  BY <1>3, SaveIs
<1>4. CASE Resume
  BY <1>4, ResumeIs
<1>5. CASE Leave \/ ReturnFromGraph
  BY <1>5, LeaveIs
<1>6. CASE \/ \E tokens \in Tiles : HostTile(tokens) \/ GraphTile(tokens)
           \/ \E token \in Token : GraphStep(token)
  BY <1>6, Gives
<1> QED BY <1>1, <1>2, <1>3, <1>4, <1>5, <1>6 DEF Next

\* Unless a convolution was launched at a position that makes it skip inputs (a
\* cold prompt of more than one tile, or a suffix of more than one tile behind a
\* prefix of less than three tokens), the logits of prefill-v2 are those of the
\* tokens given, never computed with a key, value or state of another token,
\* whatever mix of tiles, replays, resets and resumptions led here:
\* PrefillV2Model without the host-driven decode loop.
THEOREM PrefillLogitsCorrect == Spec => []LogitsFollowSequence
<1>1. Spec => []DeviceInv
  BY DeviceInit, DeviceStep, PTL DEF Spec
<1> QED BY <1>1, DeviceInvSays, PTL

\* The reference's words mean the same here.
LEMMA SameWords ==
    /\ \A h : Reference!LogitsOf(h) = LogitsOf(h)
    /\ Reference!NoLogits = NoLogits
    /\ \A s, t : Reference!IsPrefix(s, t) <=> IsPrefix(s, t)
BY DEF LogitsOf, Value, NoLogits, IsPrefix, Reference!LogitsOf, Reference!Value,
       Reference!NoLogits, Reference!IsPrefix

LEMMA TokensGiven ==
    ASSUME seq \in Seq(Token), NEW t \in Seq(Token), Len(t) > 0, seq' = seq \o t,
           sound' => logits' \in {NoLogits, LogitsOf(seq')}
    PROVE  Reference!Feed
<1>1. Len(seq \o t) = Len(seq) + Len(t) /\ Len(t) \in Nat /\ Len(seq) \in Nat
  OBVIOUS
<1>2. SubSeq(seq \o t, 1, Len(seq)) = SubSeq(seq, 1, Len(seq))
  BY PrefixOfWhole, Len(seq) \in 0 .. Len(seq)
<1>3. Len(seq') > Len(seq) /\ IsPrefix(seq, seq')
  BY <1>1, <1>2 DEF IsPrefix
<1>4. Promised' \in {NoLogits, LogitsOf(seq')}
  BY DEF Promised
<1> QED BY <1>3, <1>4, SameWords DEF Reference!Feed

LEMMA Rewound ==
    ASSUME IsPrefix(seq', seq), logits' = NoLogits
    PROVE  Reference!Rewind
<1>1. Promised' = NoLogits
  <2>1. NoLogits' = NoLogits
    BY DEF NoLogits, LogitsOf, Value
  <2> QED BY <2>1 DEF Promised
<1> QED BY <1>1, SameWords DEF Reference!Rewind

LEMMA DeviceStepGiven ==
    ASSUME DeviceInv, [Next]_vars
    PROVE  [Reference!Next]_(Reference!vars)
<1>1. seq \in Seq(Token) /\ Len(seq) \in Nat
  BY DEF DeviceInv
<1>2. CASE UNCHANGED vars \/ Save \/ Leave \/ ReturnFromGraph
  <2>1. UNCHANGED <<seq, logits, sound>>
    BY <1>2 DEF vars, Save, Leave, ReturnFromGraph
  <2> QED BY <2>1 DEF Reference!vars, Promised, NoLogits
<1>3. CASE Reset
  <2>1. seq' = <<>> /\ logits' = NoLogits /\ IsPrefix(<<>>, seq)
    BY <1>1, <1>3 DEF Reset, IsPrefix
  <2> QED BY <2>1, Rewound DEF Reference!Next
<1>4. CASE Resume
  <2>1. IsPrefix(seq', seq) /\ logits' = NoLogits
    BY <1>4 DEF Resume
  <2> QED BY <2>1, Rewound DEF Reference!Next
<1>5. CASE \/ \E tokens \in Tiles : HostTile(tokens) \/ GraphTile(tokens)
           \/ \E token \in Token : GraphStep(token)
  <2>1. PICK tokens \in Seq(Token) : Len(tokens) > 0 /\ seq' = seq \o tokens
    BY <1>5, Gives
  <2>2. sound' => logits' = LogitsOf(seq')
    BY <1>5, Gives
  <2> QED BY <1>1, <2>1, <2>2, TokensGiven DEF Reference!Next
<1> QED BY <1>2, <1>3, <1>4, <1>5 DEF Next

\* Every step of prefill-v2 is a step of the reference: tokens are given, the
\* logits of the whole sequence are made, or an earlier prefix is returned to.
\* Of a sequence some convolution skipped inputs of, no logits are promised.
THEOREM PrefillRefines == Spec => RefinesReference
<1>1. Init => Reference!Init
  BY SameWords DEF Init, Promised, Reference!Init
<1>2. DeviceInv /\ [Next]_vars => [Reference!Next]_(Reference!vars)
  BY DeviceStepGiven
<1>3. Spec => []DeviceInv
  BY DeviceInit, DeviceStep, PTL DEF Spec
<1> QED BY <1>1, <1>2, <1>3, PTL DEF Spec, RefinesReference, Reference!Spec


-----------------------------------------------------------------------------
\* While a chain is queued the position on the device is the number of tokens
\* given, and the switches are those ensure_graph_captured() asked for.
ChainKnows ==
    /\ seq \in Seq(Token)
    /\ decode # Older!None => decode = Len(seq) /\ Older!Capturable(setup)

\* run() takes from its arguments whether the norm is there, whether there is
\* a layer to hand over to, and the position each kernel ends up with.
SameCall(c, d) ==
    /\ c.ready = d.ready
    /\ c.next = d.next
    /\ Older!Where(c, TRUE) = Older!Where(d, TRUE)

\* A recurrent layer reads the position in one place, through the device.
LEMMA RecurrentSame ==
    ASSUME NEW s, NEW c, NEW d, SameCall(c, d)
    PROVE  Older!RecurrentStep(s, c) = Older!RecurrentStep(s, d)
PROOF
<1>1. Older!Normalize(c) = Older!Normalize(d)
    BY DEF Older!Normalize, SameCall
<1>2. Older!NormalizedQ8_1(s, c) = Older!NormalizedQ8_1(s, d)
    BY DEF Older!NormalizedQ8_1, SameCall
<1>3. Older!QkvAndGate(s, c) = Older!QkvAndGate(s, d)
    BY <1>2 DEF Older!QkvAndGate, Older!QkvProjection
<1>4. Older!Convolution(c) = Older!Convolution(d)
    BY DEF Older!Convolution, SameCall
<1>5. Older!RecurrentFeedForward(s, c) = Older!RecurrentFeedForward(s, d)
  <2>1. Older!LayerOutput(s, c) = Older!LayerOutput(s, d)
      BY DEF Older!LayerOutput, SameCall
  <2> QED BY <2>1 DEF Older!RecurrentFeedForward
<1> QED BY <1>1, <1>3, <1>4, <1>5 DEF Older!RecurrentStep

\* A full-attention layer reads it in three; with the switches the graph asks
\* for each of them goes through the device.
LEMMA AttentionSame ==
    ASSUME NEW s, NEW c, NEW d, SameCall(c, d), Older!Capturable(s)
    PROVE  Older!AttentionStep(s, c) = Older!AttentionStep(s, d)
PROOF
<1>0. /\ Older!On(s, "FUSED_ROPE_NORM") /\ Older!On(s, "FP16_KV_CACHE")
      /\ Older!On(s, "TILED_ONLINE_ATTENTION")
    BY DEF Older!Capturable, Older!On
<1>1. Older!Normalize(c) = Older!Normalize(d)
    BY DEF Older!Normalize, SameCall
<1>2. Older!NormalizedQ8_1(s, c) = Older!NormalizedQ8_1(s, d)
    BY DEF Older!NormalizedQ8_1, SameCall
<1>3. Older!QueryProjection(s, c) = Older!QueryProjection(s, d)
    BY <1>2 DEF Older!QueryProjection
<1>4. Older!SplitQuery(s, c) = Older!SplitQuery(s, d)
    BY DEF Older!SplitQuery, SameCall
<1>5. Older!StoreRow(s, c) = Older!StoreRow(s, d)
    BY <1>0 DEF Older!StoreRow, SameCall
<1>6. Older!Attention(s, c) = Older!Attention(s, d)
    BY <1>0 DEF Older!Attention, SameCall
<1>7. Older!AttentionFeedForward(s, c) = Older!AttentionFeedForward(s, d)
  <2>1. Older!LayerOutput(s, c) = Older!LayerOutput(s, d)
      BY DEF Older!LayerOutput, SameCall
  <2> QED BY <2>1 DEF Older!AttentionFeedForward
<1> QED BY <1>1, <1>3, <1>4, <1>5, <1>6, <1>7 DEF Older!AttentionStep

\* Whatever position the graph was captured at, its launch at position p runs
\* the programs of a step at p.
LEMMA ProgramsSame ==
    ASSUME Older!Capturable(setup), NEW at, NEW p
    PROVE  Older!Programs(at, p, TRUE) = Older!Programs(p, Older!None, FALSE)
PROOF
<1>1. ASSUME NEW l \in Older!Layers
      PROVE  Older!StepProgram(l, setup, Older!CallTo(l, at, p, TRUE))
                 = Older!StepProgram(l, setup, Older!CallTo(l, p, Older!None, FALSE))
  <2>1. SameCall(Older!CallTo(l, at, p, TRUE), Older!CallTo(l, p, Older!None, FALSE))
      BY DEF SameCall, Older!CallTo, Older!Where
  <2> QED BY <2>1, RecurrentSame, AttentionSame DEF Older!StepProgram
<1> QED BY <1>1 DEF Older!Programs

-----------------------------------------------------------------------------
LEMMA ChainInit == Older!Init => ChainKnows
BY CapacityNat DEF Older!Init, ChainKnows, Older!None

\* Every other action ends the chain or leaves it and the tokens alone.
LEMMA ChainStep == ChainKnows /\ [Older!Next]_<<seq, logits, olderVars>> => ChainKnows'
<1> SUFFICES ASSUME ChainKnows, [Older!Next]_<<seq, logits, olderVars>> PROVE ChainKnows'
    OBVIOUS
<1> USE DEF ChainKnows
<1>1. CASE Older!Reset
    BY <1>1 DEF Older!Reset
<1>2. CASE \E tokens \in Older!Prompts : Older!PrefillLayerMajor(tokens)
  <2>1. PICK tokens \in Older!Prompts : Older!PrefillLayerMajor(tokens)
      BY <1>2
  <2>2. tokens \in Seq(Token)
      BY CapacityNat DEF Older!Prompts
  <2> QED BY <2>1, <2>2 DEF Older!PrefillLayerMajor
<1>3. CASE Older!BeginChain
    BY <1>3 DEF Older!BeginChain
<1>4. ASSUME NEW token \in Token,
             Older!PrefillStep(token) \/ Older!Step(token) \/ Older!Replay(token)
      PROVE  ChainKnows'
  <2>1. CASE Older!PrefillStep(token)
      BY <2>1 DEF Older!PrefillStep
  <2>2. CASE Older!Step(token)
      BY <2>2 DEF Older!Step
  <2>3. CASE Older!Replay(token)
    <3>1. /\ seq' = Append(seq, token) /\ decode' = decode + 1 /\ setup' = setup
          /\ decode # Older!None
        BY <2>3 DEF Older!Replay
    <3>2. seq' \in Seq(Token) /\ Len(seq') = Len(seq) + 1
        BY <3>1
    <3>3. Older!Capturable(setup)'
        BY <3>1 DEF Older!Capturable
    <3> QED BY <3>1, <3>2, <3>3
  <2> QED BY <1>4, <2>1, <2>2, <2>3
<1>5. CASE UNCHANGED <<seq, logits, olderVars>>
    BY <1>5 DEF olderVars, Older!Capturable
<1> QED BY <1>1, <1>2, <1>3, <1>4, <1>5 DEF Older!Next

\* The engine of a process is the same for its life; the other one stands still.
OlderKnows == engine = "older" => ChainKnows

LEMMA OlderKnowsAlways == EitherSpec => []OlderKnows
<1>1. EitherInit => OlderKnows
    BY ChainInit DEF EitherInit, OlderKnows
<1>2. OlderKnows /\ [EitherNext]_allVars => OlderKnows'
  <2> SUFFICES ASSUME OlderKnows, [EitherNext]_allVars, engine' = "older"
               PROVE  ChainKnows'
      BY DEF OlderKnows
  <2>1. engine = "older" /\ [Older!Next]_<<seq, logits, olderVars>>
      BY DEF EitherNext, allVars, vars, olderVars
  <2> QED BY <2>1, ChainStep DEF OlderKnows
<1> QED BY <1>1, <1>2, PTL DEF EitherSpec

\* "Reusable-graph correctness": every launch of decode_graph_ does to every
\* buffer of every layer what step() would have done (ensure_graph_captured()).
THEOREM ReplayCorrect == EitherSpec => []ReplayIsStep
<1>1. OlderKnows => ReplayIsStep
  <2> SUFFICES ASSUME ChainKnows, decode # Older!None
               PROVE  \A token \in Token :
                          Older!RunPrefix(token, captured, decode, TRUE)
                              = Older!RunPrefix(token, Len(seq), Older!None, FALSE)
      BY DEF ReplayIsStep, Older!ReplayIsStep, OlderKnows
  <2>1. Older!Programs(captured, decode, TRUE) = Older!Programs(Len(seq), Older!None, FALSE)
      BY ProgramsSame DEF ChainKnows
  <2> QED BY <2>1 DEF Older!RunPrefix
<1> QED BY <1>1, OlderKnowsAlways, PTL

-----------------------------------------------------------------------------
\* Positions of the older engine stay within its caches: a chain can be begun,
\* and its graph launched, only while a row is left.
OlderTypes == engine = "older" => ChainKnows /\ Older!TypeOK

LEMMA OlderTypesInit == Older!Init => Older!TypeOK
BY CapacityNat DEF Older!Init, Older!TypeOK, Older!None

LEMMA Appended ==
    ASSUME NEW s \in Seq(Token), NEW token \in Token, Len(s) < OlderCapacity
    PROVE  /\ Append(s, token) \in Seq(Token) /\ Len(Append(s, token)) = Len(s) + 1
           /\ Len(s) + 1 <= OlderCapacity /\ Len(s) \in Nat
BY CapacityNat

LEMMA OlderTypesStep ==
    ChainKnows /\ Older!TypeOK /\ [Older!Next]_<<seq, logits, olderVars>> => Older!TypeOK'
<1> SUFFICES ASSUME ChainKnows, Older!TypeOK, [Older!Next]_<<seq, logits, olderVars>>
             PROVE  Older!TypeOK'
    OBVIOUS
<1>0. /\ setup \in Setups /\ seq \in Seq(Token) /\ Len(seq) <= OlderCapacity /\ Len(seq) \in Nat
      /\ captured \in 0 .. OlderCapacity \cup {OlderCapacity + 1}
      /\ decode \in 0 .. OlderCapacity \cup {OlderCapacity + 1}
      /\ decode # OlderCapacity + 1 => captured # OlderCapacity + 1 /\ decode = Len(seq)
    BY DEF Older!TypeOK, Older!None, ChainKnows
<1>1. SUFFICES /\ setup' \in Setups /\ seq' \in Seq(Token) /\ Len(seq') <= OlderCapacity
               /\ captured' \in 0 .. OlderCapacity \cup {OlderCapacity + 1}
               /\ decode' \in 0 .. OlderCapacity \cup {OlderCapacity + 1}
               /\ decode' # OlderCapacity + 1 => captured' # OlderCapacity + 1
    BY DEF Older!TypeOK, Older!None
<1>2. CASE Older!Reset
    BY <1>0, <1>2, CapacityNat DEF Older!Reset, Older!None
<1>3. CASE \E tokens \in Older!Prompts : Older!PrefillLayerMajor(tokens)
  <2>1. PICK tokens \in Older!Prompts : Older!PrefillLayerMajor(tokens)
      BY <1>3
  <2>2. tokens \in Seq(Token)
      BY CapacityNat DEF Older!Prompts
  <2>3. seq \o tokens \in Seq(Token) /\ Len(seq \o tokens) = Len(seq) + Len(tokens)
      BY <1>0, <2>2
  <2> QED BY <1>0, <2>1, <2>3, CapacityNat DEF Older!PrefillLayerMajor, Older!None
<1>4. CASE Older!BeginChain
    BY <1>0, <1>4, CapacityNat DEF Older!BeginChain, Older!None, Older!Fits
<1>5. ASSUME NEW token \in Token,
             Older!PrefillStep(token) \/ Older!Step(token) \/ Older!Replay(token)
      PROVE  /\ setup' \in Setups /\ seq' \in Seq(Token) /\ Len(seq') <= OlderCapacity
             /\ captured' \in 0 .. OlderCapacity \cup {OlderCapacity + 1}
             /\ decode' \in 0 .. OlderCapacity \cup {OlderCapacity + 1}
             /\ decode' # OlderCapacity + 1 => captured' # OlderCapacity + 1
  <2>1. /\ Len(seq) < OlderCapacity /\ seq' = Append(seq, token)
        /\ setup' = setup /\ captured' = captured
      BY <1>5 DEF Older!PrefillStep, Older!Step, Older!Replay, Older!Fits
  <2>2. \/ decode' = OlderCapacity + 1
        \/ decode # OlderCapacity + 1 /\ decode' = decode + 1
      BY <1>5 DEF Older!PrefillStep, Older!Step, Older!Replay, Older!None
  <2>3. /\ seq' \in Seq(Token) /\ Len(seq') = Len(seq) + 1 /\ Len(seq') <= OlderCapacity
      BY <1>0, <2>1, Appended
  <2> QED BY <1>0, <2>1, <2>2, <2>3, CapacityNat
<1>6. CASE UNCHANGED <<seq, logits, olderVars>>
    BY <1>0, <1>6 DEF olderVars
<1> QED BY <1>2, <1>3, <1>4, <1>5, <1>6 DEF Older!Next

LEMMA OlderTypesAlways == EitherSpec => []OlderTypes
<1>1. EitherInit => OlderTypes
    BY ChainInit, OlderTypesInit DEF EitherInit, OlderTypes
<1>2. OlderTypes /\ [EitherNext]_allVars => OlderTypes'
  <2> SUFFICES ASSUME OlderTypes, [EitherNext]_allVars, engine' = "older"
               PROVE  ChainKnows' /\ Older!TypeOK'
      BY DEF OlderTypes
  <2>1. engine = "older" /\ [Older!Next]_<<seq, logits, olderVars>>
      BY DEF EitherNext, allVars, vars, olderVars
  <2> QED BY <2>1, ChainStep, OlderTypesStep DEF OlderTypes
<1> QED BY <1>1, <1>2, PTL DEF EitherSpec

\* The same for prefill-v2.
TilesKnow == engine = "prefill_v2" => DeviceInv

LEMMA TilesKnowAlways == EitherSpec => []TilesKnow
<1>1. EitherInit => TilesKnow
    BY DeviceInit DEF EitherInit, TilesKnow
<1>2. TilesKnow /\ [EitherNext]_allVars => TilesKnow'
  <2> SUFFICES ASSUME TilesKnow, [EitherNext]_allVars, engine' = "prefill_v2"
               PROVE  DeviceInv'
      BY DEF TilesKnow
  <2>1. engine = "prefill_v2" /\ [Next]_vars
      BY DEF EitherNext, allVars
  <2> QED BY <2>1, DeviceStep DEF TilesKnow
<1> QED BY <1>1, <1>2, PTL DEF EitherSpec

\* Whichever engine a process runs, its tokens, positions and chain stay within
\* the caches it allocated (KvCache, Qwen35RuntimeEngine::step()).
THEOREM TypesCorrect == EitherSpec => []EngineTypeOK
<1>1. EitherInit => engine \in {"prefill_v2", "older"}
    BY DEF EitherInit
<1>2. engine \in {"prefill_v2", "older"} /\ [EitherNext]_allVars
          => (engine \in {"prefill_v2", "older"})'
    BY DEF EitherNext, allVars
<1>3. engine \in {"prefill_v2", "older"} /\ TilesKnow /\ OlderTypes => EngineTypeOK
    BY DeviceInvSays DEF TilesKnow, OlderTypes, EngineTypeOK
<1> QED BY <1>1, <1>2, <1>3, TilesKnowAlways, OlderTypesAlways, PTL DEF EitherSpec

\* Rows, convolution history and GDN state of prefill-v2 are those of exactly
\* the tokens it has been given, after any mix of tiles, replayed graphs, steps,
\* resets and resumptions: forward() and decode() of both layers, launch by
\* launch, for any number of blocks and any tile, capacity and formats.
THEOREM TilesCorrect == EitherSpec => []TilesHoldSequence
<1>1. TilesKnow => TilesHoldSequence
    BY DeviceInvSays DEF TilesKnow, TilesHoldSequence
<1> QED BY <1>1, TilesKnowAlways, PTL

-----------------------------------------------------------------------------
(* The older engine.                                                       *)

\* The inductive invariant of the older engine: each layer's ring, state and
\* rows are those of the tokens given, whatever its other buffers hold, and the
\* process was started with switches that fit together.
OlderInv ==
    /\ ChainKnows /\ Older!TypeOK /\ Older!Coherent(setup)
    /\ MemoryHolds(memory, seq)
    /\ logits \in {NoLogits, LogitsOf(seq)}

OlderHolds == engine = "older" => OlderInv /\ sound

LEMMA SameLogits == /\ Older!NoLogits = NoLogits
                    /\ \A h : Older!LogitsOf(h) = LogitsOf(h)
BY SameQuantities DEF Older!NoLogits, NoLogits, Older!LogitsOf, LogitsOf

LEMMA OlderInit == Older!Init /\ Older!Coherent(setup) => OlderInv
<1> SUFFICES ASSUME Older!Init, Older!Coherent(setup) PROVE OlderInv
  OBVIOUS
<1>1. ChainKnows /\ Older!TypeOK
  BY ChainInit, OlderTypesInit
<1>2. /\ memory = [l \in Layers |-> Older!LayerHolding(l, <<>>)]
      /\ seq = <<>> /\ logits = NoLogits
  BY SameQuantities, SameLogits DEF Older!Init
<1>3. \A l \in Layers : StoreHolds(Older!LayerHolding(l, <<>>), l, <<>>)
  <2>1. <<>> \in Seq(Token) /\ Len(<<>>) <= OlderCapacity
    BY CapacityNat
  <2> QED BY <2>1, HoldingIs
<1>4. MemoryHolds(memory, seq)
  BY <1>2, <1>3 DEF MemoryHolds
<1> QED BY <1>1, <1>2, <1>4 DEF OlderInv

\* A step() and a launch of the graph run the same programs; both leave the
\* states and rows of the sequence with the token, and its logits.
LEMMA TokenGiven ==
    ASSUME OlderInv, NEW token \in Token,
           Older!PrefillStep(token) \/ Older!Step(token) \/ Older!Replay(token)
    PROVE  /\ seq' = Append(seq, token) /\ setup' = setup
           /\ MemoryHolds(memory', seq') /\ logits' \in {NoLogits, LogitsOf(seq')}
<1>1. /\ seq \in Seq(Token) /\ Len(seq) \in Nat /\ Older!Coherent(setup)
      /\ MemoryHolds(memory, seq)
  BY DEF OlderInv, ChainKnows
<1>2. /\ seq' = Append(seq, token) /\ setup' = setup /\ Len(seq) < OlderCapacity
  BY DEF Older!PrefillStep, Older!Step, Older!Replay, Older!Fits
<1>3. memory' = Older!RunPrefix(token, Len(seq), Older!None, FALSE)
  <2>1. CASE Older!PrefillStep(token) \/ Older!Step(token)
    BY <2>1 DEF Older!PrefillStep, Older!Step
  <2>2. CASE Older!Replay(token)
    <3>1. decode # Older!None /\ memory' = Older!RunPrefix(token, captured, decode, TRUE)
      BY <2>2 DEF Older!Replay
    <3>2. Older!Programs(captured, decode, TRUE) = Older!Programs(Len(seq), Older!None, FALSE)
      BY <3>1, ProgramsSame DEF OlderInv, ChainKnows
    <3> QED BY <3>1, <3>2 DEF Older!RunPrefix
  <2> QED BY <2>1, <2>2
<1>4. Len(Append(seq, token)) <= OlderCapacity
  BY <1>1, <1>2, Appended
<1> DEFINE h == Append(seq, token)
           x == Older!RunPrefix(token, Len(seq), Older!None, FALSE)
<1>5. MemoryHolds(x, h) /\ Older!LogitsFrom(x) = LogitsOf(h)
  <2>1. h = Append(seq, token) /\ x = Older!RunPrefix(token, Len(seq), Older!None, FALSE)
        /\ Len(h) <= OlderCapacity
    BY <1>4
  <2> HIDE DEF h, x
  <2> QED BY <1>1, <2>1, PrefixLeaves
<1>6. logits' = NoLogits \/ logits' = Older!LogitsFrom(memory')
  BY SameLogits DEF Older!PrefillStep, Older!Step, Older!Replay
<1>7. memory' = x /\ seq' = h
  BY <1>2, <1>3
<1> HIDE DEF x, h
<1> QED BY <1>2, <1>5, <1>6, <1>7

LEMMA PromptIs ==
    ASSUME ChainKnows, NEW tokens \in Older!Prompts
    PROVE  /\ tokens \in Seq(Token) /\ seq \o tokens \in Seq(Token)
           /\ Len(seq \o tokens) = Len(seq) + Len(tokens)
           /\ Len(seq) \in Nat /\ Len(tokens) \in Nat \ {0}
<1>1. PICK n \in 1 .. OlderCapacity : tokens \in [1 .. n -> Token]
  BY DEF Older!Prompts
<1>2. tokens \in Seq(Token) /\ Len(tokens) = n
  BY <1>1, CapacityNat
<1> QED BY <1>1, <1>2, CapacityNat DEF ChainKnows

LEMMA OlderStep ==
    OlderInv /\ [Older!Next]_<<seq, logits, olderVars>> => OlderInv'
<1> SUFFICES ASSUME OlderInv, [Older!Next]_<<seq, logits, olderVars>> PROVE OlderInv'
  OBVIOUS
<1>1. ChainKnows' /\ Older!TypeOK'
  BY ChainStep, OlderTypesStep DEF OlderInv
<1>2. Older!Coherent(setup')
  <2>1. setup' = setup
    BY DEF Older!Next, Older!Reset, Older!PrefillLayerMajor, Older!BeginChain, Older!PrefillStep,
       Older!Step, Older!Replay, olderVars
  <2> QED BY <2>1 DEF OlderInv
<1>3. SUFFICES MemoryHolds(memory', seq') /\ logits' \in {NoLogits, LogitsOf(seq')}
  <2>1. Older!Coherent(setup)' <=> Older!Coherent(setup')
    OBVIOUS
  <2> QED BY <1>1, <1>2, <1>3, <2>1 DEF OlderInv
<1>4. CASE Older!Reset
  <2>1. /\ memory' = [l \in Layers |-> Older!Cleared(memory[l], l)]
        /\ seq' = <<>> /\ logits' = NoLogits
    BY <1>4, SameQuantities, SameLogits DEF Older!Reset
  <2>2. \A l \in Layers : StoreHolds(Older!Cleared(memory[l], l), l, <<>>)
    BY ClearedIs DEF OlderInv, MemoryHolds, StoreHolds
  <2> QED BY <2>1, <2>2 DEF MemoryHolds
<1>5. CASE \E tokens \in Older!Prompts : Older!PrefillLayerMajor(tokens)
  <2>1. PICK tokens \in Older!Prompts : Older!PrefillLayerMajor(tokens)
    BY <1>5
  <2>2. /\ memory' = [l \in Layers |-> Older!LayerHolding(l, seq')]
        /\ seq' = seq \o tokens /\ logits' = NoLogits
        /\ Len(seq) + Len(tokens) <= OlderCapacity
    BY <2>1, SameQuantities, SameLogits DEF Older!PrefillLayerMajor
  <2>3. seq' \in Seq(Token) /\ Len(seq') <= OlderCapacity
    BY <2>2, PromptIs DEF OlderInv
  <2>4. \A l \in Layers : StoreHolds(Older!LayerHolding(l, seq'), l, seq')
    BY <2>3, HoldingIs
  <2> QED BY <2>2, <2>4 DEF MemoryHolds
<1>6. CASE Older!BeginChain
  BY <1>6 DEF Older!BeginChain, OlderInv
<1>7. CASE \E token \in Token :
              Older!PrefillStep(token) \/ Older!Step(token) \/ Older!Replay(token)
  BY <1>7, TokenGiven
<1>8. CASE UNCHANGED <<seq, logits, olderVars>>
  BY <1>8 DEF olderVars, OlderInv
<1> QED BY <1>4, <1>5, <1>6, <1>7, <1>8 DEF Older!Next

LEMMA OlderHoldsAlways == EitherSpec => []OlderHolds
<1>1. EitherInit => OlderHolds
  BY OlderInit DEF EitherInit, Init, OlderHolds
<1>2. OlderHolds /\ [EitherNext]_allVars => OlderHolds'
  <2> SUFFICES ASSUME OlderHolds, [EitherNext]_allVars, engine' = "older"
               PROVE  OlderInv' /\ sound'
    BY DEF OlderHolds
  <2>1. /\ engine = "older" /\ [Older!Next]_<<seq, logits, olderVars>>
        /\ sound' = sound
    BY DEF EitherNext, allVars, vars, ownVars, olderVars
  <2> QED BY <2>1, OlderStep DEF OlderHolds
<1> QED BY <1>1, <1>2, PTL DEF EitherSpec

\* Under any coherent switches, and whatever earlier tokens and requests left in
\* the buffers run() shares between its kernels, every layer's ring, state and
\* rows are the reference's for the tokens given: run_prefix() launch by launch,
\* for any number of blocks, any capacity and any setups.
THEOREM StepsCorrect == EitherSpec => []StepsHoldSequence
<1>1. OlderHolds => StepsHoldSequence
  <2> SUFFICES ASSUME OlderInv, NEW l \in Layers
               PROVE  IF IsFullAttention(l)
                      THEN \A i \in DOMAIN seq :
                               memory[l].rows[i] = Value("row", l, SubSeq(seq, 1, i))
                      ELSE /\ memory[l].at["past"] = Value("past", l, seq)
                           /\ memory[l].at["state"] = Value("state", l, seq)
    BY SameQuantities DEF StepsHoldSequence, OlderHolds, Older!LayersHoldSequence
  <2>1. StoreHolds(memory[l], l, seq) /\ seq \in Seq(Token)
    BY DEF OlderInv, MemoryHolds, ChainKnows
  <2>2. DOMAIN seq = 1 .. Len(seq)
    BY <2>1
  <2> QED BY <2>1, <2>2 DEF StoreHolds
<1> QED BY <1>1, OlderHoldsAlways, PTL

\* A step of the older engine is a step of the reference, or none.
LEMMA OlderStepGiven ==
    ASSUME OlderInv, sound, sound', [Older!Next]_<<seq, logits, olderVars>>
    PROVE  [Reference!Next]_(Reference!vars)
<1>1. seq \in Seq(Token) /\ Len(seq) \in Nat /\ ChainKnows
  BY DEF OlderInv, ChainKnows
<1>2. CASE Older!Reset
  <2>1. seq' = <<>> /\ logits' = NoLogits
    BY <1>2, SameLogits DEF Older!Reset
  <2>2. CASE seq = <<>>
    BY <2>1, <2>2 DEF OlderInv, NoLogits, Promised, Reference!vars
  <2>3. CASE seq # <<>>
    <3>1. IsPrefix(seq', seq)
      BY <1>1, <2>1 DEF IsPrefix
    <3> QED BY <2>1, <3>1, Rewound DEF Reference!Next
  <2> QED BY <2>2, <2>3
<1>3. CASE \E tokens \in Older!Prompts : Older!PrefillLayerMajor(tokens)
  <2>1. PICK tokens \in Older!Prompts : Older!PrefillLayerMajor(tokens)
    BY <1>3
  <2>2. seq' = seq \o tokens /\ logits' = NoLogits
    BY <2>1, SameLogits DEF Older!PrefillLayerMajor
  <2>3. tokens \in Seq(Token) /\ Len(tokens) > 0
    BY <1>1, PromptIs
  <2>4. Reference!Feed
    BY <1>1, <2>2, <2>3, TokensGiven
  <2> QED BY <2>4 DEF Reference!Next
<1>4. CASE Older!BeginChain
  BY <1>4 DEF Older!BeginChain, Promised, NoLogits, Reference!vars
<1>5. CASE \E token \in Token :
              Older!PrefillStep(token) \/ Older!Step(token) \/ Older!Replay(token)
  <2>1. PICK token \in Token :
              Older!PrefillStep(token) \/ Older!Step(token) \/ Older!Replay(token)
    BY <1>5
  <2>2. seq' = Append(seq, token) /\ logits' \in {NoLogits, LogitsOf(seq')}
    BY <2>1, TokenGiven
  <2>3. PICK t \in Seq(Token) : Len(t) > 0 /\ seq' = seq \o t
    <3>1. /\ <<token>> \in Seq(Token) /\ Len(<<token>>) > 0
          /\ Append(seq, token) = seq \o <<token>>
      BY <1>1
    <3> QED BY <2>2, <3>1
  <2>4. Reference!Feed
    BY <1>1, <2>2, <2>3, TokensGiven
  <2> QED BY <2>4 DEF Reference!Next
<1>6. CASE UNCHANGED <<seq, logits, olderVars>>
  BY <1>6 DEF Promised, NoLogits, Reference!vars
<1> QED BY <1>2, <1>3, <1>4, <1>5, <1>6 DEF Older!Next

\* Whichever engine a process runs, to its user it is the model of
\* ReferenceGeneration: fed tokens, it has the logits of all of them or none,
\* and it can be taken back to an earlier prefix (PrefillV2Model's forward() and
\* decode paths, Qwen35RuntimeEngine's prefill and step paths, the resets).
THEOREM EnginesRefine == EitherSpec => RefinesReference
<1>1. EitherInit => Reference!Init
  BY SameWords DEF EitherInit, Init, Promised, Reference!Init
<1>2. TilesKnow /\ OlderHolds /\ [EitherNext]_allVars
          => [Reference!Next]_(Reference!vars)
  <2> SUFFICES ASSUME TilesKnow, OlderHolds, [EitherNext]_allVars
               PROVE  [Reference!Next]_(Reference!vars)
    OBVIOUS
  <2>1. CASE engine = "prefill_v2" /\ Next
    BY <2>1, DeviceStepGiven DEF TilesKnow
  <2>2. CASE engine = "older" /\ Older!Next
    <3>1. OlderInv /\ sound /\ sound' = sound /\ [Older!Next]_<<seq, logits, olderVars>>
      BY <2>2 DEF OlderHolds, EitherNext, allVars, vars, ownVars, olderVars
    <3> QED BY <3>1, OlderStepGiven
  <2>3. CASE UNCHANGED allVars
    BY <2>3 DEF allVars, vars, Promised, NoLogits, Reference!vars
  <2> QED BY <2>1, <2>2, <2>3 DEF EitherNext
<1> QED BY <1>1, <1>2, TilesKnowAlways, OlderHoldsAlways, PTL
        DEF EitherSpec, RefinesReference, Reference!Spec

-----------------------------------------------------------------------------
(* The profiled copies of the attention programs.                          *)

LEMMA ForwardCopied ==
    ASSUME NEW base, NEW n, NEW p, NEW q
    PROVE  AttentionForwardProfiled("ping", "pong", base, n, p, q)
               = AttentionForward("ping", "pong", "host", base, n, p, q)
BY DEF AttentionForwardProfiled, AttentionForward, TileAttention

LEMMA StepIsProgram ==
    ASSUME NEW in, NEW out, NEW f
    PROVE  IsProgram(StepFeedForward(in, out, f))
<1> DEFINE p == <<AddNorm(in), GateUpSwiglu>>
           q == DownAndResidual(out, f)
<1>1. IsProgram(p) /\ IsProgram(q)
  BY RunTwo, RunThree DEF DownAndResidual
<1>2. StepFeedForward(in, out, f) = p \o q
  BY DEF StepFeedForward
<1> HIDE DEF p, q
<1> QED BY <1>1, <1>2, RunThen

\* The memory of a full-attention layer that is run on its own.
LEMMA AloneIs ==
    ASSUME DeviceInv, sound, NEW token \in Token, NEW tokens, tokens = <<token>>,
           Fits(tokens), NEW m, m = MemoryOf(LayerAlone(3, tokens), 3),
           NEW j, j = [s |-> seq \o tokens, base |-> Len(seq), n |-> 1, l |-> 3]
    PROVE  /\ IsJob(j) /\ IsFullAttention(j.l) /\ j.base + j.n <= Capacity
           /\ IsMemory(m) /\ m.decode = j.base /\ Holds(m, j, "ping", "input")
           /\ RowsAre(m.kv, j.l, j.s, j.base)
<1> DEFINE cells == [t \in DOMAIN tokens |-> Named("input", 3, seq \o SubSeq(tokens, 1, t))]
           d == LayerAlone(3, tokens)
           ping == Embedded(tokens).ws["ping"]
<1>1. /\ tokens \in Seq(Token) /\ Len(tokens) = 1 /\ Len(tokens) \in 1 .. Tile
      /\ DOMAIN tokens = 1 .. 1
  BY TokenTile
<1>2. 3 \in Layers /\ IsFullAttention(3) /\ ~IsFullAttention(0) /\ 3 \div LayersPerBlock = 0
      /\ 3 \notin RecurrentLayers /\ 0 \in 0 .. Blocks - 1
  <2>1. LayersPerBlock = 4 /\ Blocks \in Nat \ {0}
    BY FourLayers, QuantitiesAssumption
  <2>2. 3 \in Layers
    BY <2>1, LayersAre
  <2>3. IsFullAttention(3) /\ ~IsFullAttention(0)
    BY <2>1 DEF IsFullAttention
  <2> QED BY <2>1, <2>2, <2>3 DEF RecurrentLayers
<1>3. /\ seq \in Seq(Token) /\ Len(seq) \in Nat /\ Len(seq) + 1 <= Capacity
      /\ seq \o tokens \in Seq(Token) /\ Len(seq \o tokens) = Len(seq) + 1
  BY <1>1 DEF DeviceInv, Fits
<1>4. IsJob(j) /\ IsFullAttention(j.l) /\ j.base + j.n <= Capacity
  BY <1>1, <1>2, <1>3 DEF IsJob
<1>5. d.ws = [Embedded(tokens).ws EXCEPT !["ping"] = Over(cells, @, Len(tokens))]
      /\ d.kv = kv /\ d.decode = Len(seq) /\ DOMAIN Embedded(tokens).ws = Buffers
  BY DEF LayerAlone, Embedded, Over, Scratch
<1> HIDE DEF d
<1>6. m.ws = d.ws /\ m.kv = d.kv[0] /\ m.decode = d.decode
      /\ DOMAIN m = {"ws", "affine", "kv", "past", "state", "prefill", "decode"}
  BY <1>2 DEF MemoryOf, d
<1>7. IsMemory(m) /\ m.decode = j.base
  BY <1>5, <1>6 DEF IsMemory
<1>8. RowsAre(m.kv, j.l, j.s, j.base)
  <2>1. RowsAre(kv[0], 3, seq, Len(seq))
    BY <1>2 DEF DeviceInv, Contents, CachesHold
  <2>2. \A i \in 1 .. Len(seq) : SubSeq(seq \o tokens, 1, i) = SubSeq(seq, 1, i)
    BY <1>1, <1>3, PrefixOfWhole
  <2> QED BY <1>5, <1>6, <2>1, <2>2 DEF RowsAre
<1>9. Holds(m, j, "ping", "input")
  <2>1. Upto(j, 1) = seq \o tokens /\ SubSeq(tokens, 1, 1) = tokens
    <3>1. Upto(j, j.n) = j.s
      BY <1>4, UptoIs
    <3>2. SubSeq(tokens, 1, Len(tokens)) = tokens
      BY <1>1, SubSeqFull
    <3> QED BY <1>1, <3>1, <3>2
  <2>2. IsTile(cells, 1) /\ cells[1] = Named("input", 3, Upto(j, 1))
    <3>1. cells = [t \in 1 .. 1 |-> Named("input", 3, seq \o SubSeq(tokens, 1, t))]
      BY <1>1
    <3>2. 1 \in 1 .. 1
      OBVIOUS
    <3>3. cells[1] = Named("input", 3, seq \o SubSeq(tokens, 1, 1))
      BY <3>1, <3>2
    <3>4. IsTile(cells, 1)
      <4> DEFINE f(t) == Named("input", 3, seq \o SubSeq(tokens, 1, t))
      <4>1. cells = [t \in 1 .. 1 |-> f(t)]
        BY <3>1
      <4> HIDE DEF f, cells
      <4> QED BY <4>1 DEF IsTile
    <3> QED BY <2>1, <3>3, <3>4
  <2> HIDE DEF cells
  <2>3. m.ws["ping"] = Over(cells, ping, 1)
    BY <1>1, <1>5, <1>6, BufferNames
  <2>4. m.ws["ping"][1] = cells[1]
    <3>1. 1 \in Nat /\ 1 \in 1 .. 1 /\ IsTile(cells, 1)
      BY <2>2
    <3> HIDE DEF ping
    <3>2. \A t \in 1 .. 1 : Over(cells, ping, 1)[t] = cells[t]
      BY <3>1, Overwritten
    <3> QED BY <2>3, <3>1, <3>2
  <2> QED BY <2>2, <2>4 DEF Holds
<1> QED BY <1>4, <1>7, <1>8, <1>9

LEMMA DecodeCopied ==
    ASSUME DeviceInv, sound, NEW token \in Token, NEW tokens, tokens = <<token>>,
           Fits(tokens)
    PROVE  RunLayer(LayerAlone(3, tokens), 1, 3,
                    AttentionDecodeProfiled("ping", "pong", "host", Len(seq), formats))
           = RunLayer(LayerAlone(3, tokens), 1, 3,
                      AttentionDecode("ping", "pong", "decode", 0, formats))
<1> DEFINE m == MemoryOf(LayerAlone(3, tokens), 3)
           j == [s |-> seq \o tokens, base |-> Len(seq), n |-> 1, l |-> 3]
           host == Attend("suffix", "host", Len(seq))
           dynamic == Attend("dynamic", "decode", 0)
           p == AttentionHalf("ping", formats, "host", Len(seq), host)
           q == AttentionHalf("ping", formats, "decode", 0, dynamic)
           r == StepFeedForward("ping", "pong", formats)
<1>1. /\ IsJob(j) /\ IsFullAttention(j.l) /\ j.base + j.n <= Capacity
      /\ IsMemory(m) /\ m.decode = j.base /\ Holds(m, j, "ping", "input")
      /\ RowsAre(m.kv, j.l, j.s, j.base)
  BY AloneIs
<1>2. formats \in FormatRecord /\ "ping" \in Streams
  BY FourLayers DEF DeviceInv, Streams
<1>3. AttentionDecodeProfiled("ping", "pong", "host", Len(seq), formats) = p \o r
  BY DEF AttentionDecodeProfiled, AttentionHalf, AttentionLaunches
<1>4. AttentionDecode("ping", "pong", "decode", 0, formats) = q \o r
  BY DEF AttentionDecode, AttentionHalf, AttentionLaunches
<1>5. j.base = Len(seq) /\ j.n = 1 /\ j.l = 3
  OBVIOUS
<1> HIDE DEF m, j, host, dynamic
<1>6. Run(m, 1, 3, p) = Run(m, 1, 3, q) /\ IsProgram(p) /\ IsProgram(q)
  <2>1. host = Attend("suffix", "host", j.base) /\ dynamic = Attend("dynamic", "decode", 0)
    BY <1>5 DEF host, dynamic
  <2>2. /\ Run(m, j.n, j.l, AttentionHalf("ping", formats, "host", j.base, host))
               = Run(m, j.n, j.l, AttentionHalf("ping", formats, "decode", 0, dynamic))
        /\ IsProgram(AttentionHalf("ping", formats, "host", j.base, host))
        /\ IsProgram(AttentionHalf("ping", formats, "decode", 0, dynamic))
    BY <1>1, <1>2, <2>1, HalfPlaced
  <2> QED BY <1>5, <2>2
<1>7. IsProgram(r)
  BY StepIsProgram
<1> HIDE DEF p, q, r
<1>8. Run(m, 1, 3, p \o r) = Run(m, 1, 3, q \o r)
  <2>1. /\ Run(m, 1, 3, p \o r) = Run(Run(m, 1, 3, p), 1, 3, r)
        /\ Run(m, 1, 3, q \o r) = Run(Run(m, 1, 3, q), 1, 3, r)
    BY <1>6, <1>7, RunThen
  <2> QED BY <1>6, <2>1
<1> QED BY <1>3, <1>4, <1>8 DEF RunLayer, m

\* forward_profiled() and decode_profiled() of the attention layer leave in every
\* buffer, cache row and position what forward() and decode() leave.
THEOREM ProfiledCorrect == EitherSpec => []ProfiledLayersAgree
<1>1. ASSUME DeviceInv, sound, NEW token \in Token, NEW n \in 1 .. Tile, NEW tokens,
             tokens = [t \in 1 .. n |-> token], Fits(tokens), n = 1
      PROVE  RunLayer(LayerAlone(3, tokens), 1, 3,
                      AttentionDecodeProfiled("ping", "pong", "host", Len(seq), formats))
             = RunLayer(LayerAlone(3, tokens), 1, 3,
                        AttentionDecode("ping", "pong", "decode", 0, formats))
  <2>1. tokens = <<token>>
    BY <1>1
  <2> QED BY <1>1, <2>1, DecodeCopied
<1>2. LayersPerBlock - 1 = 3
  BY FourLayers
<1>3. DeviceInv => ProfiledAgree
  BY <1>1, <1>2, ForwardCopied DEF ProfiledAgree
<1>4. TilesKnow => ProfiledLayersAgree
  BY <1>3 DEF TilesKnow, ProfiledLayersAgree
<1> QED BY <1>4, TilesKnowAlways, PTL

=============================================================================
