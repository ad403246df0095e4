----------------------------- MODULE Quantities -----------------------------
(***************************************************************************)
(* The forward pass of the 64-layer hybrid model as the CPU reference      *)
(* harness states it: which quantity is computed from which others.        *)
(*                                                                         *)
(* A value is named by the quantity it is, the layer whose weights made it *)
(* and the tokens it depends on (its history, the last one being the token *)
(* it belongs to).  A computation gives the named quantity exactly when    *)
(* its operands are the ones the reference uses; anything else is Wrong.   *)
(* Rounding, and the shapes inside a tensor, are abstracted away.          *)
(***************************************************************************)
EXTENDS Naturals, SequencesExt

CONSTANTS Token,          \* the vocabulary
          Blocks,         \* topology blocks (16)
          LayersPerBlock, \* three recurrent layers and a full-attention one (4)
          Capacity        \* rows of a key/value cache

ASSUME QuantitiesAssumption ==
    /\ Blocks \in Nat \ {0}
    /\ LayersPerBlock \in Nat \ {0}
    /\ Capacity \in Nat \ {0}

Layers == 0 .. Blocks * LayersPerBlock - 1

IsFullAttention(layer) == layer % LayersPerBlock = LayersPerBlock - 1

RecurrentLayers == {l \in Layers : ~IsFullAttention(l)}

Value(what, layer, of) == [what |-> what, layer |-> layer, of |-> of]

Wrong == Value("wrong", 0, <<>>)

\* The states before the first token: zeroed GDN state and convolution.
Zero(what, layer) == Value(what, layer, <<>>)

-----------------------------------------------------------------------------
\* The feed-forward half, the same in both kinds of layer.
FeedForward ==
    [residual       |-> <<"input", "projected">>,
     postNormalized |-> <<"residual">>,
     ffnGate        |-> <<"postNormalized">>,
     ffnUp          |-> <<"postNormalized">>,
     ffnActivation  |-> <<"ffnGate", "ffnUp">>,
     ffnDown        |-> <<"ffnActivation">>,
     output         |-> <<"residual", "ffnDown">>]

\* recurrent_block(): "past" (the convolution history) and "state" are the
\* ones the previous token left behind.
Recurrent ==
    [normalized   |-> <<"input">>,
     qkv          |-> <<"normalized">>,
     past         |-> <<"past", "qkv">>,
     rawQuery     |-> <<"past", "qkv">>,
     rawKey       |-> <<"past", "qkv">>,
     value        |-> <<"past", "qkv">>,
     query        |-> <<"rawQuery">>,
     key          |-> <<"rawKey">>,
     gate         |-> <<"normalized">>,
     rawBeta      |-> <<"normalized">>,
     rawAlpha     |-> <<"normalized">>,
     beta         |-> <<"rawBeta">>,
     decay        |-> <<"rawAlpha">>,
     state        |-> <<"state", "key", "value", "beta", "decay">>,
     gdnRawOutput |-> <<"state", "query", "key", "value", "beta", "decay">>,
     gatedOutput  |-> <<"gdnRawOutput", "gate">>,
     projected    |-> <<"gatedOutput">>]

\* full_block(): a row is the normalised, rotated key and the value of one
\* token; the gated attention also reads the rows of all tokens up to its own.
Full ==
    [normalized      |-> <<"input">>,
     attnQfull       |-> <<"normalized">>,
     attnQRope       |-> <<"attnQfull">>,
     gate            |-> <<"attnQfull">>,
     attnK           |-> <<"normalized">>,
     attnV           |-> <<"normalized">>,
     row             |-> <<"attnK", "attnV">>,
     attnGatedOutput |-> <<"attnQRope", "gate">>,
     projected       |-> <<"attnGatedOutput">>]

Formula(layer) ==
    LET own == IF IsFullAttention(layer) THEN Full ELSE Recurrent IN
    [what \in DOMAIN FeedForward \cup DOMAIN own |->
        IF what \in DOMAIN own THEN own[what] ELSE FeedForward[what]]

-----------------------------------------------------------------------------
\* What layer 0 computes before it meets its convolution depends on one token.
OneToken == {"normalized", "qkv", "gate", "rawBeta", "rawAlpha", "beta", "decay"}

Embedding(token) == Value("embedding", 0, <<token>>)

\* The named quantity of the last token of h.
Named(what, layer, h) ==
    IF what = "input"
    THEN IF layer = 0 THEN Embedding(Last(h)) ELSE Value("output", layer - 1, h)
    ELSE IF layer = 0 /\ what \in OneToken THEN Value(what, 0, <<Last(h)>>)
    ELSE IF what \in {"past", "state"} THEN Value(what, layer, Front(h))
    ELSE Value(what, layer, h)

RowsOf(layer, h) == [i \in 1 .. Len(h) |-> Value("row", layer, SubSeq(h, 1, i))]

NamedAll(ins, layer, h) == [i \in DOMAIN ins |-> Named(ins[i], layer, h)]

\* The operands from which the reference computes a quantity.
Operands(what, layer, h) ==
    NamedAll(Formula(layer)[what], layer, h)
    \o (IF what = "attnGatedOutput" THEN RowsOf(layer, h) ELSE <<>>)

\* Histories the result of a computation on these operands may have.
Histories(operands) ==
    LET ofs == {operands[i].of : i \in DOMAIN operands} \ {<<>>} IN
    ofs \cup {Append(operands[1].of, Last(h)) : h \in ofs}

Made(what, layer, h) ==
    Value(what, layer, IF layer = 0 /\ what \in OneToken THEN <<Last(h)>> ELSE h)

\* What a kernel that computes `what` with the weights of `layer` leaves in its
\* output when it is given these operands: the quantity of the longest history
\* that has them.
MadeFrom(what, layer, fits) ==
    IF fits = {} THEN Wrong
    ELSE Made(what, layer, CHOOSE h \in fits : \A g \in fits : Len(g) <= Len(h))

Compute(what, layer, operands) ==
    MadeFrom(what, layer,
             {h \in Histories(operands) : Operands(what, layer, h) = operands})

\* output_norm and output.weight after the last layer.
LastLayer == Blocks * LayersPerBlock - 1

LogitsOf(h) == Value("logits", 0, h)

FinalNormalized(x) ==
    IF x.what = "output" /\ x.layer = LastLayer
    THEN Value("finalNormalized", 0, x.of) ELSE Wrong
Logits(x) == IF x.what = "finalNormalized" THEN LogitsOf(x.of) ELSE Wrong

=============================================================================
