------------------------------ MODULE Launches ------------------------------
(***************************************************************************)
(* The kernels PrefillV2's layers launch, as steps on the device memory.   *)
(*                                                                         *)
(* A layer enqueues its launches on one stream, so its program is a        *)
(* sequence and Run executes it in order.  The memory of a run holds       *)
(*   ws      the workspace arena and the ping/pong buffers: name -> token  *)
(*           of the tile -> value.  ssm_output is an alias of projected;   *)
(*   affine  which of the two Q8_1 layouts is in ws.mmq_q8;                *)
(*   kv      rows of the layer's KV cache (row 1 is position 0);           *)
(*   past, state   convolution history and GDN state of the layer;         *)
(*   prefill, decode   positions in DevicePrefillState, DeviceDecodeState. *)
(* The ring of a convolution is one value here, right when it holds the    *)
(* last inputs of the sequence in the slots of their positions; which slot *)
(* a launch touches when is the subject of ConvHistory.                    *)
(***************************************************************************)
EXTENDS Quantities, AttentionSplits

CONSTANTS Tile,            \* kPrefillV2MacroTile (512)
          Kernel,          \* kConvKernel, taps and slots of a ring (4)
          Fragment,        \* query tokens of a fragment-kernel block (16)
          SuffixSplits,    \* splits of the suffix kernel (32)
          FragmentSplits   \* splits of the fragment kernel (3)

ASSUME LaunchesAssumption ==
    /\ Tile \in Nat \ {0}
    /\ Kernel \in Nat \ {0}
    /\ Tile % Kernel = 0
    /\ Fragment \in Nat \ {0}
    /\ SuffixSplits \in Nat \ {0}
    /\ FragmentSplits \in Nat \ {0}

Buffers == {"ping", "pong", "mmqQ8", "q8"} \cup
           ((DOMAIN FeedForward \cup DOMAIN Recurrent \cup DOMAIN Full) \ {"output"})

\* Nothing a run reads from the workspace was left there by an earlier run.
Scratch == [b \in Buffers |-> [t \in 1 .. Tile |-> Wrong]]

\* The memory after a launch over n tokens that writes `cell(t)` to `out`.
Store(m, n, out, cell(_)) ==
    [m EXCEPT !.ws[out] = [t \in 1 .. n |-> cell(t)] \o SubSeq(@, n + 1, Tile)]

\* Operand values of token t.
Read(m, ins, t) == [i \in DOMAIN ins |-> m.ws[ins[i]][t]]

-----------------------------------------------------------------------------
\* Launches, as the layer code enqueues them.  `what` names the weights.
Apply(what, ins, out)    == [kernel |-> "apply", what |-> what, ins |-> ins, out |-> out]
Quantize(in, affine)     == [kernel |-> "quantize", in |-> in, affine |-> affine]
Project(what, q6)        == [kernel |-> "project", what |-> what, q6 |-> q6]
AddNorm(in)              == [kernel |-> "addNorm", in |-> in]
BetaDecay                == [kernel |-> "betaDecay"]
GateUpSwiglu             == [kernel |-> "gateUpSwiglu"]
Conv(source, base)       == [kernel |-> "conv", source |-> source, base |-> base]
GdnChunk                 == [kernel |-> "gdnChunk"]
RecurrentCore            == [kernel |-> "recurrentCore"]
QSplit(source, base)     == [kernel |-> "qSplit", source |-> source, base |-> base]
StoreKv(source, base)    == [kernel |-> "storeKv", source |-> source, base |-> base]
Attend(kind, source, base) ==
    [kernel |-> "attend", kind |-> kind, source |-> source, base |-> base]

\* A kernel given a device state reads its position there when it runs; a host
\* argument is the one the launch was enqueued (or captured) with.
BaseOf(m, launch) ==
    CASE launch.source = "host"    -> launch.base
      [] launch.source = "prefill" -> m.prefill
      [] launch.source = "decode"  -> m.decode

\* A rotation is right when it is given the position of its token.
Rotated(value, position) == IF Len(value.of) = position + 1 THEN value ELSE Wrong

\* Q4_K and Q5_K matrices read the affine Q8_1 layout, Q6_K the other.
LayoutFits(m, q6) == m.affine = ~q6

Exec_Project(m, n, l, launch) ==
    Store(m, n, launch.what, LAMBDA t :
        IF LayoutFits(m, launch.q6)
        THEN Compute(launch.what, l, <<m.ws["mmqQ8"][t]>>) ELSE Wrong)

\* Residual and post-attention norm, with the Q8_1 copy decode() asks for.
Exec_AddNorm(m, n, l, launch) ==
    LET r == Store(m, n, "residual", LAMBDA t :
                 Compute("residual", l, <<m.ws[launch.in][t], m.ws["projected"][t]>>))
        p == Store(r, n, "postNormalized", LAMBDA t :
                 Compute("postNormalized", l, <<r.ws["residual"][t]>>))
    IN  Store(p, n, "q8", LAMBDA t : p.ws["postNormalized"][t])

\* The dual GEMV and the parameter preparation in one kernel.
Exec_BetaDecay(m, n, l) ==
    LET raw(what) == Compute(what, l, <<m.ws["normalized"][1]>>) IN
    Store(Store(m, 1, "beta", LAMBDA t : Compute("beta", l, <<raw("rawBeta")>>)),
          1, "decay", LAMBDA t : Compute("decay", l, <<raw("rawAlpha")>>))

Exec_GateUpSwiglu(m, n, l) ==
    LET half(what) == Compute(what, l, <<m.ws["q8"][1]>>) IN
    Store(m, 1, "ffnActivation", LAMBDA t :
        Compute("ffnActivation", l, <<half("ffnGate"), half("ffnUp")>>))

\* Whether token t of a launch at position `base`, after `length` tokens, reads
\* the inputs before its own: the position test skips no tap that has an input
\* and keeps none that has not, and a tap from before the launch is looked up in
\* the slot it was left in.
TapsFit(base, length, t) ==
    \A lag \in 1 .. Kernel - 1 :
        /\ base + t - 1 < lag <=> length + t - 1 < lag
        /\ lag < t \/ base + t - 1 < lag \/ base % Kernel = length % Kernel

\* The convolution walks the tile and leaves its last inputs in the slots of
\* the positions it was given.
Exec_Conv(m, n, l, launch) ==
    LET base == BaseOf(m, launch)
        length == Len(m.past.of)
        past[t \in 0 .. n] ==
            IF t = 0 THEN m.past ELSE Compute("past", l, <<past[t - 1], m.ws["qkv"][t]>>)
        split(what) == [t \in 1 .. n |->
            IF TapsFit(base, length, t)
            THEN Compute(what, l, <<past[t - 1], m.ws["qkv"][t]>>) ELSE Wrong]
        q == Store(m, n, "query", LAMBDA t : split("rawQuery")[t])
        k == Store(q, n, "key", LAMBDA t : split("rawKey")[t])
        v == Store(k, n, "value", LAMBDA t : split("value")[t])
    IN  [v EXCEPT !.past = IF base % Kernel = length % Kernel THEN past[n] ELSE Wrong]

\* The scan of the recurrent state over the tile.
Exec_GdnChunk(m, n, l) ==
    LET ins(t) == Read(m, <<"key", "value", "beta", "decay">>, t)
        state[t \in 0 .. n] ==
            IF t = 0 THEN m.state ELSE Compute("state", l, <<state[t - 1]>> \o ins(t))
        o == Store(m, n, "gdnRawOutput", LAMBDA t :
                 Compute("gdnRawOutput", l, <<state[t - 1], m.ws["query"][t]>> \o ins(t)))
    IN  [o EXCEPT !.state = state[n]]

\* The scan of one token and its postprocessing in one kernel.
Exec_RecurrentCore(m, l) ==
    LET s == Exec_GdnChunk(m, 1, l) IN
    Store([m EXCEPT !.state = s.state], 1, "gatedOutput", LAMBDA t :
        Compute("gatedOutput", l, <<s.ws["gdnRawOutput"][1], m.ws["gate"][1]>>))

Exec_QSplit(m, n, l, launch) ==
    LET base == BaseOf(m, launch)
        q == Store(m, n, "attnQRope", LAMBDA t :
                 Rotated(Compute("attnQRope", l, Read(m, <<"attnQfull">>, t)), base + t - 1))
    IN  Store(q, n, "gate", LAMBDA t : Compute("gate", l, Read(m, <<"attnQfull">>, t)))

\* Key norm, rotation and the store of key and value; callers keep the rows
\* within the capacity.
Exec_StoreKv(m, n, l, launch) ==
    LET base == BaseOf(m, launch)
        row(t) == Rotated(Compute("row", l, Read(m, <<"attnK", "attnV">>, t)), base + t - 1)
    IN  [m EXCEPT !.kv = SubSeq(@, 1, base) \o [t \in 1 .. n |-> row(t)]
                            \o SubSeq(@, base + n + 1, Capacity)]

\* The members of a set of rows in the order of the loop over them.
Ascending(rows) ==
    [i \in 1 .. Cardinality(rows) |->
        CHOOSE r \in rows : Cardinality({q \in rows : q < r}) = i - 1]

\* The rows the query of token t attends to, split by split.
RowsRead(kind, base, n, t, splits) ==
    LET length == base + t
        block == (t - 1) \div Fragment
        first == base + block * Fragment + 1
        last == base + Smaller(n, (block + 1) * Fragment)
        rows(s) == IF kind = "fragment"
                   THEN FragmentRows(first, last, length, splits, s)
                   ELSE SplitRows(length, splits, s)
    IN  FlattenSeq([s \in 1 .. splits |-> Ascending(rows(s - 1))])

\* attention_splits_for_length()
SplitsForLength(length) ==
    CASE length <= 512   -> 4
      [] length > 512 /\ length <= 2048 -> 8
      [] length > 2048 /\ length <= 8192 -> 16
      [] length > 8192 /\ length <= 16384 -> 32
      [] OTHER -> 64

SplitsOf(kind, length) ==
    CASE kind = "tiled"    -> 1
      [] kind = "suffix"   -> SuffixSplits
      [] kind = "fragment" -> FragmentSplits
      [] kind = "dynamic"  -> SplitsForLength(length)

\* A query longer than the cache writes no partials: the merge finds what an
\* earlier launch left.
Exec_Attend(m, n, l, launch) ==
    LET base == BaseOf(m, launch) IN
    Store(m, n, "attnGatedOutput", LAMBDA t :
        IF base + t > Capacity THEN Wrong
        ELSE LET rows == RowsRead(launch.kind, base, n, t, SplitsOf(launch.kind, base + t))
             IN  Compute("attnGatedOutput", l,
                         Read(m, <<"attnQRope", "gate">>, t)
                         \o [i \in DOMAIN rows |-> m.kv[rows[i] + 1]]))

Exec(m, n, l, launch) ==
    CASE launch.kernel = "apply" ->
             Store(m, n, launch.out, LAMBDA t :
                 Compute(launch.what, l, Read(m, launch.ins, t)))
      [] launch.kernel = "quantize" ->
             [Store(m, n, "mmqQ8", LAMBDA t : m.ws[launch.in][t])
                 EXCEPT !.affine = launch.affine]
      [] launch.kernel = "project" -> Exec_Project(m, n, l, launch)
      [] launch.kernel = "addNorm" -> Exec_AddNorm(m, n, l, launch)
      [] launch.kernel = "betaDecay" -> Exec_BetaDecay(m, n, l)
      [] launch.kernel = "gateUpSwiglu" -> Exec_GateUpSwiglu(m, n, l)
      [] launch.kernel = "conv" -> Exec_Conv(m, n, l, launch)
      [] launch.kernel = "gdnChunk" -> Exec_GdnChunk(m, n, l)
      [] launch.kernel = "recurrentCore" -> Exec_RecurrentCore(m, l)
      [] launch.kernel = "qSplit" -> Exec_QSplit(m, n, l, launch)
      [] launch.kernel = "storeKv" -> Exec_StoreKv(m, n, l, launch)
      [] launch.kernel = "attend" -> Exec_Attend(m, n, l, launch)

\* The memory after the program of layer l has run over n tokens.
Run(memory, n, l, program) ==
    LET after[i \in 0 .. Len(program)] ==
            IF i = 0 THEN memory ELSE Exec(after[i - 1], n, l, program[i])
    IN  after[Len(program)]

=============================================================================
