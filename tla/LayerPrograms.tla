---------------------------- MODULE LayerPrograms ----------------------------
(***************************************************************************)
(* The launch sequences of PrefillV2AttentionLayer, PrefillV2RecurrentLayer *)
(* and PrefillV2TopologyBlock.  A program depends on where the call gets   *)
(* its position from (`source`: the host argument, a DevicePrefillState or *)
(* a DeviceDecodeState), on the host position `base` it is enqueued with   *)
(* and on the formats of the layer's matrices:                             *)
(*   v_is_q6_, ffn_down_is_q6_ (ffn_down_type_), qkv_type_ # q4_k.         *)
(***************************************************************************)
EXTENDS Launches

FormatRecord == [v : BOOLEAN, down : BOOLEAN, qkv : BOOLEAN]

\* The down projection and the final residual, shared by all programs.
DownAndResidual(out, formats) ==
    <<Quantize("ffnActivation", ~formats.down),
      Project("ffnDown", formats.down),
      Apply("output", <<"residual", "ffnDown">>, out)>>

\* The feed-forward half of forward().
TileFeedForward(in, out, formats) ==
    <<AddNorm(in),
      Quantize("postNormalized", TRUE),
      Project("ffnGate", FALSE),
      Project("ffnUp", FALSE),
      Apply("ffnActivation", <<"ffnGate", "ffnUp">>, "ffnActivation")>>
    \o DownAndResidual(out, formats)

\* The feed-forward half of decode().
StepFeedForward(in, out, formats) ==
    <<AddNorm(in), GateUpSwiglu>> \o DownAndResidual(out, formats)

-----------------------------------------------------------------------------
QkvProjections(formats) ==
    <<Quantize("normalized", TRUE), Project("attnQfull", FALSE), Project("attnK", FALSE)>>
    \o (IF formats.v THEN <<Quantize("normalized", FALSE)>> ELSE <<>>)
    \o <<Project("attnV", formats.v)>>

OutputProjection == <<Quantize("attnGatedOutput", TRUE), Project("projected", FALSE)>>

\* Mutant: only the host position tells a suffix from a first tile, so a
\* captured tile records the tiled kernel.
TileAttentionByBase(source, base, n, opted) ==
    IF base > 0 THEN Attend("suffix", source, base) ELSE Attend("tiled", "host", base)

\* The attention kernel forward() picks for a tile of n tokens; `opted` is the
\* MIINFER_V2_0043 switch.  The suffix kernel is the only one that reads the
\* device state of a captured tile.
TileAttention(source, base, n, opted) ==
    IF opted /\ base > 0 /\ source = "host" /\ n >= Fragment /\ n % Fragment = 0
    THEN Attend("fragment", "host", base)
    ELSE IF base > 0 \/ source = "prefill"
    THEN Attend("suffix", source, base)
    ELSE Attend("tiled", "host", base)

AttentionForward(in, out, source, base, n, formats, opted) ==
    <<Apply("normalized", <<in>>, "normalized")>> \o QkvProjections(formats)
    \o <<QSplit(source, base), StoreKv(source, base), TileAttention(source, base, n, opted)>>
    \o OutputProjection \o TileFeedForward(in, out, formats)

\* The profiled copy takes no device state.
AttentionForwardProfiled(in, out, base, n, formats, opted) ==
    <<Apply("normalized", <<in>>, "normalized")>> \o QkvProjections(formats)
    \o <<QSplit("host", base), StoreKv("host", base),
         IF opted /\ base > 0 /\ n >= Fragment /\ n % Fragment = 0
         THEN Attend("fragment", "host", base)
         ELSE Attend(IF base > 0 THEN "suffix" ELSE "tiled", "host", base)>>
    \o OutputProjection \o TileFeedForward(in, out, formats)

\* Without a device state, decode() passes position + 1 to the suffix kernel.
AttentionDecode(in, out, source, position, formats) ==
    <<Apply("normalized", <<in>>, "normalized")>> \o QkvProjections(formats)
    \o <<QSplit(source, position), StoreKv(source, position),
         IF source = "decode" THEN Attend("dynamic", "decode", position)
                              ELSE Attend("suffix", "host", position + 1)>>
    \o OutputProjection \o StepFeedForward(in, out, formats)

\* Mutant: the copy reads the position from the host when it was captured.
AttentionDecodeProfiledFrozen(in, out, source, position, formats) ==
    <<Apply("normalized", <<in>>, "normalized")>> \o QkvProjections(formats)
    \o <<QSplit("host", position), StoreKv("host", position),
         Attend("suffix", "host", position + 1)>>
    \o OutputProjection \o StepFeedForward(in, out, formats)

\* The profiled copy passes position, and never gives the device state to the
\* key/value store.
AttentionDecodeProfiled(in, out, source, position, formats) ==
    <<Apply("normalized", <<in>>, "normalized")>> \o QkvProjections(formats)
    \o <<QSplit(source, position), StoreKv("host", position),
         IF source = "decode" THEN Attend("dynamic", "decode", position)
                              ELSE Attend("suffix", "host", position)>>
    \o OutputProjection \o StepFeedForward(in, out, formats)

-----------------------------------------------------------------------------
\* Mutant: the gate matrix (Q4_K) reads the layout left for a Q6_K qkv matrix.
QkvAndGateShared(formats) ==
    <<Quantize("normalized", ~formats.qkv), Project("qkv", formats.qkv),
      Project("gate", FALSE)>>

QkvAndGate(formats) ==
    <<Quantize("normalized", ~formats.qkv), Project("qkv", formats.qkv)>>
    \o (IF formats.qkv THEN <<Quantize("normalized", TRUE)>> ELSE <<>>)
    \o <<Project("gate", FALSE)>>

NormalizeHeads ==
    <<Apply("query", <<"query">>, "query"), Apply("key", <<"key">>, "key")>>

SsmOut == <<Quantize("gatedOutput", TRUE), Project("projected", FALSE)>>

\* The convolution is given the position of the layer's storage (`ring`), which
\* is not the position of the call: forward() and decode() advance a copy of it.
RecurrentForward(in, out, source, ring, formats) ==
    <<Apply("normalized", <<in>>, "normalized"),
      Apply("rawBeta", <<"normalized">>, "rawBeta"),
      Apply("rawAlpha", <<"normalized">>, "rawAlpha"),
      Apply("beta", <<"rawBeta">>, "beta"),
      Apply("decay", <<"rawAlpha">>, "decay")>>
    \o QkvAndGate(formats) \o <<Conv(source, ring)>> \o NormalizeHeads
    \o <<GdnChunk, Apply("gatedOutput", <<"gdnRawOutput", "gate">>, "gatedOutput")>>
    \o SsmOut \o TileFeedForward(in, out, formats)

RecurrentDecode(in, out, source, ring, formats) ==
    <<Apply("normalized", <<in>>, "normalized"), BetaDecay>> \o QkvAndGate(formats)
    \o <<Conv(source, ring)>> \o NormalizeHeads \o <<RecurrentCore>>
    \o SsmOut \o StepFeedForward(in, out, formats)

\* The profiled copies launch the same kernels in the same order.
RecurrentForwardProfiled(in, out, ring, formats) ==
    RecurrentForward(in, out, "host", ring, formats)
RecurrentDecodeProfiled(in, out, source, ring, formats) ==
    RecurrentDecode(in, out, source, ring, formats)

=============================================================================
