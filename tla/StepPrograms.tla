---------------------------- MODULE StepPrograms ----------------------------
(***************************************************************************)
(* RecurrentLayer::run() and FullAttentionLayer::run() of the older engine *)
(* for one token, under the switches their constructors read from the      *)
(* environment.  A setup is                                                *)
(*   on   the switches that are on, by the name of their variable without  *)
(*        MIINFER_; LAYER_MAJOR stands for layer-major, wide-chunk and     *)
(*        wide-attention prefill together, REPACKED and MX for             *)
(*        PREFILL_WIDE_REPACKED_MMQ and PREFILL_WIDE_MX_REPACKED_MMQ;      *)
(*   q6   the matrices stored as Q6_K where Q4_K is the other possibility. *)
(* A call is what run_prefix() passes: whether the layer before has left   *)
(* the normalised input (`ready`), whether there is a layer to hand over   *)
(* to (`next`), the host position, and the one in DeviceDecodeState if a   *)
(* pointer to it is given (`dynamic`).                                     *)
(***************************************************************************)
EXTENDS StepLaunches

On(s, switch) == switch \in s.on
Q6(s, matrix) == matrix \in s.q6

Optional(condition, launches) == IF condition THEN launches ELSE <<>>

\* Activations in the layout of the wave and MMVQ kernels, and such a kernel.
Q8_1(in) == <<Quantize(in, "q8_1", "q8_1")>>
Wave(what, out) == <<Project(what, "q8_1", "q8_1", out)>>

\* project(): quantise to Q8_K unless told that it was done, and multiply.
Plain(what, in, out, prequantized) ==
    Optional(~prequantized, <<Quantize(in, "q8", "q8k")>>)
    \o <<Project(what, "q8", "q8k", out)>>

\* A repacked matrix: quantise into the buffer of its kernels, and multiply.
Repacked(what, in, buffer, layout, out) ==
    <<Quantize(in, buffer, layout), Project(what, buffer, layout, out)>>

\* The two layouts of the Mx kernels.
MxLayout(q6) == IF q6 THEN "mxPlain" ELSE "mxAffine"

Where(call, reads) == IF call.dynamic /\ reads THEN call.device ELSE call.host

-----------------------------------------------------------------------------
\* What the constructors leave in their flags and weight buffers.
Mx(s) == On(s, "LAYER_MAJOR") /\ On(s, "MX")

RecurrentResident(s) == (On(s, "REPACKED") \/ Mx(s)) /\ On(s, "RESIDENT_ALL")

AttentionResident(s) ==
    /\ {"LAYER_MAJOR", "REPACKED", "RESIDENT_ALL", "COMBINED_ATTN_QK"} \subseteq s.on
    /\ ~Q6(s, "q") /\ ~Q6(s, "k")

QkvGateCombined(s) == ~RecurrentResident(s) /\ On(s, "COMBINED_QKV_GATE") /\ ~Q6(s, "qkv")
QkvNative(s) == ~RecurrentResident(s) /\ ~QkvGateCombined(s) /\ On(s, "KQUANT_NATIVE_QKV")
GateNative(s) == ~RecurrentResident(s) /\ ~QkvGateCombined(s) /\ On(s, "Q4K_NATIVE_ATTN_GATE")

SsmOutNative(s) ==
    On(s, "M26C_SSM_OUT_NATIVE") \/ (~RecurrentResident(s) /\ On(s, "Q5K_NATIVE_SSM_OUT"))

QkCombined(s) ==
    /\ ~AttentionResident(s) /\ On(s, "COMBINED_ATTN_QK")
    /\ ~Q6(s, "q") /\ ~Q6(s, "k")
Separate(s) == ~AttentionResident(s) /\ ~QkCombined(s)
QNative(s) == Separate(s) /\ On(s, "Q4K_NATIVE_Q") /\ ~Q6(s, "q")
KNative(s) == Separate(s) /\ On(s, "Q4K_NATIVE_K") /\ ~Q6(s, "k")
VNative(s) == ~AttentionResident(s) /\ On(s, "KQUANT_NATIVE_V")
ONative(s) == ~AttentionResident(s) /\ On(s, "Q4K_NATIVE_ATTN_OUT") /\ ~Q6(s, "o")

\* The same for the feed-forward half of both, given whether it is resident.
Swiglu(s, resident) == ~resident /\ On(s, "SWIGLU_PAIRED")
GateUpNative(s, resident) ==
    ~resident /\ ~Swiglu(s, resident) /\ On(s, "Q4K_NATIVE_GATE_UP")
GateUpFused(s, resident) ==
    Swiglu(s, resident) \/ (GateUpNative(s, resident) /\ On(s, "FUSED_GATE_UP_SWIGLU"))

DownReadsQ8_1(s) ==
    IF Q6(s, "down") THEN On(s, "Q6K_NATIVE_DOWN")
    ELSE {"Q4K_NATIVE_DOWN", "Q4K_EXPANDED_DOWN", "Q4K_Q8_1_MMVQ"} \cap s.on # {}

\* The scan and its postprocessing are one kernel, which may quantise.
CoreFused(s) == On(s, "FUSED_RECURRENT_CORE") /\ On(s, "DELTA_TRANSPOSED_STATE")
\* The kernel that derives beta and decay itself, from the raw projections.
CoreFromRaw(s) ==
    /\ ~CoreFused(s) /\ On(s, "DELTA_TRANSPOSED_STATE")
    /\ On(s, "FUSE_BETA_ALPHA") /\ ~On(s, "DELTA_ROW_WAVES")

\* Mx kernels for the decode steps of an attention layer.
MxStepFfn(s) == On(s, "MX_ATTN_DECODE") /\ On(s, "MX_ATTN_FFN")
MxStepO(s) == On(s, "MX_ATTN_DECODE") /\ On(s, "MX_ATTN_O")

\* The setups on which neither a constructor nor run() throws.
Accepted(s) ==
    /\ On(s, "MX_ATTN_DECODE") /\ On(s, "LAYER_MAJOR") =>
          AttentionResident(s) /\ (On(s, "MX_ATTN_FFN") \/ On(s, "MX_ATTN_O"))
    /\ On(s, "MX_ATTN_O") /\ On(s, "LAYER_MAJOR") => ~Q6(s, "o")
    /\ On(s, "M26C_QKV_M23") \/ On(s, "M26C_SSM_OUT_NATIVE") => Mx(s) /\ RecurrentResident(s)
    /\ On(s, "FP16_KV_CACHE") => On(s, "TILED_ONLINE_ATTENTION")

-----------------------------------------------------------------------------
Normalize(call) == Optional(~call.ready, <<Make("normalized", <<"input">>, "normalized")>>)

\* The Q8_1 copy of the normalised input, which the layer before may have left.
NormalizedQ8_1(s, call) ==
    Optional(~call.ready \/ ~On(s, "FUSED_NORM_Q8"), Q8_1("normalized"))

\* The qkv and gate matrices when repacked weights stay on the device.
ResidentQkvGate(s) ==
    IF ~Mx(s)
    THEN Repacked("qkv", "normalized", "mmq", "m23", "qkv")
         \o <<Project("gate", "mmq", "m23", "gate")>>
    ELSE (IF On(s, "M26C_QKV_M23")
          THEN Repacked("qkv", "normalized", "mmq", "m23", "qkv")
          ELSE Repacked("qkv", "normalized", "mmq", MxLayout(Q6(s, "qkv")), "qkv"))
         \o Optional(On(s, "M26C_QKV_M23") \/ Q6(s, "qkv"),
                     <<Quantize("normalized", "mmq", "mxAffine")>>)
         \o <<Project("gate", "mmq", "mxAffine", "gate")>>

QkvProjection(s, call) ==
    IF QkvNative(s) THEN NormalizedQ8_1(s, call) \o Wave("qkv", "qkv")
    ELSE Plain("qkv", "normalized", "qkv", FALSE)

GateProjection(s) ==
    IF GateNative(s) THEN Optional(~QkvNative(s), Q8_1("normalized")) \o Wave("gate", "gate")
    ELSE IF On(s, "Q4K_Q8_1_MMVQ_ATTN_GATE") THEN Q8_1("normalized") \o Wave("gate", "gate")
    ELSE Plain("gate", "normalized", "gate", On(s, "REUSE_PROJECTION_Q8"))

QkvAndGate(s, call) ==
    IF RecurrentResident(s) THEN ResidentQkvGate(s)
    ELSE IF QkvGateCombined(s)
    THEN NormalizedQ8_1(s, call) \o Wave("qkv", "qkv") \o Wave("gate", "gate")
    ELSE QkvProjection(s, call) \o GateProjection(s)

BetaDecay(s) ==
    LET raw == IF On(s, "DUAL_BETA_ALPHA_PREPARE") THEN <<"first", "second">>
                                                   ELSE <<"rawBeta", "rawAlpha">>
    IN  <<Make("rawBeta", <<"normalized">>, raw[1]),
          Make("rawAlpha", <<"normalized">>, raw[2]),
          Make("beta", <<raw[1]>>, "beta"), Make("decay", <<raw[2]>>, "decay")>>

Convolution(call) ==
    <<Taps(Where(call, TRUE)),
      Make("rawQuery", <<"first", "qkv">>, "rawQuery"),
      Make("rawKey", <<"first", "qkv">>, "rawKey"),
      Make("value", <<"first", "qkv">>, "value"),
      Make("past", <<"first", "qkv">>, "past"),
      Make("query", <<"rawQuery">>, "query"), Make("key", <<"rawKey">>, "key")>>

\* The update of the recurrent state, the head norm and the gate.
Core(s) ==
    LET out == IF CoreFused(s) THEN "first" ELSE "gdnRawOutput"
        ins == <<"key", "value", "beta", "decay">>
    IN  Optional(CoreFromRaw(s), <<Make("beta", <<"rawBeta">>, "beta"),
                                   Make("decay", <<"rawAlpha">>, "decay")>>)
        \o <<Make("gdnRawOutput", <<"state", "query">> \o ins, out),
             Make("state", <<"state">> \o ins, "state"),
             Make("gatedOutput", <<out, "gate">>, "gatedOutput")>>
        \o Optional(CoreFused(s) /\ On(s, "FUSED_CORE_Q8") /\ SsmOutNative(s),
                    Q8_1("gatedOutput"))

SsmOut(s) ==
    IF RecurrentResident(s) /\ ~On(s, "M26C_SSM_OUT_NATIVE")
    THEN Repacked("projected", "gatedOutput", "mmq",
                  IF Mx(s) THEN "mxAffine" ELSE "m23", "projected")
    ELSE IF SsmOutNative(s)
    THEN Optional(~(CoreFused(s) /\ On(s, "FUSED_CORE_Q8")), Q8_1("gatedOutput"))
         \o Wave("projected", "projected")
    ELSE IF On(s, "Q5K_Q8_1_MMVQ") THEN Q8_1("gatedOutput") \o Wave("projected", "projected")
    ELSE Plain("projected", "gatedOutput", "projected", FALSE)

-----------------------------------------------------------------------------
\* Residual and post-attention norm; only the fused kernel leaves a Q8_1 copy.
ResidualNorm(s, resident) ==
    <<Make("residual", <<"input", "projected">>, "residual"),
      Make("postNormalized", <<"residual">>, "postNormalized")>>
    \o Optional(/\ On(s, "FUSED_ADD_RMS_NORM") /\ On(s, "FUSED_NORM_Q8")
                /\ Swiglu(s, resident) \/ GateUpNative(s, resident),
                Q8_1("postNormalized"))

\* Gate and up projections, and the activation if the kernel makes it.
GateUp(s, resident) ==
    LET reused == Optional(~On(s, "FUSED_NORM_Q8"), Q8_1("postNormalized"))
        both(out1, out2) == Wave("ffnGate", out1) \o Wave("ffnUp", out2)
    IN  IF GateUpFused(s, resident)
        THEN reused \o both("first", "second")
             \o <<Make("ffnActivation", <<"first", "second">>, "ffnActivation")>>
        ELSE IF GateUpNative(s, resident) THEN reused \o both("ffnGate", "ffnUp")
        ELSE IF On(s, "Q4K_Q8_1_MMVQ_FFN_GATE_UP")
        THEN Q8_1("postNormalized") \o both("ffnGate", "ffnUp")
        ELSE Plain("ffnGate", "postNormalized", "ffnGate", FALSE)
             \o Plain("ffnUp", "postNormalized", "ffnUp", On(s, "REUSE_PROJECTION_Q8"))

\* Repacked gate, up and down matrices; layout "mx" is affine or plain by matrix.
RepackedGateUp(buffer, layout) ==
    Repacked("ffnGate", "postNormalized", buffer, layout, "ffnGate")
    \o <<Project("ffnUp", buffer, layout, "ffnUp")>>

RepackedDown(buffer, layout) ==
    Repacked("ffnDown", "ffnActivation", buffer, layout, "projected")

Down(s) ==
    IF DownReadsQ8_1(s) THEN Q8_1("ffnActivation") \o Wave("ffnDown", "projected")
    ELSE Plain("ffnDown", "ffnActivation", "projected", FALSE)

Activation == <<Make("ffnActivation", <<"ffnGate", "ffnUp">>, "ffnActivation")>>

\* The end of a layer, with the norm of the next.
LayerOutput(s, call) ==
    <<Make("output", <<"residual", "projected">>, "output")>>
    \o Optional(On(s, "FUSED_INTERLAYER_NORM") /\ call.next, <<HandOver(On(s, "FUSED_NORM_Q8"))>>)

RecurrentFeedForward(s, call) ==
    LET resident == RecurrentResident(s) IN
    ResidualNorm(s, resident)
    \o (IF resident THEN RepackedGateUp("mmq", IF Mx(s) THEN "mxAffine" ELSE "m23")
                    ELSE GateUp(s, resident))
    \o Optional(Mx(s) \/ ~GateUpFused(s, resident), Activation)
    \o (IF resident THEN RepackedDown("mmq", IF Mx(s) THEN MxLayout(Q6(s, "down")) ELSE "m23")
                    ELSE Down(s))
    \o LayerOutput(s, call)

AttentionFeedForward(s, call) ==
    LET resident == AttentionResident(s) IN
    ResidualNorm(s, resident)
    \o (IF ~resident THEN GateUp(s, resident)
        ELSE IF MxStepFfn(s) THEN RepackedGateUp("mx", "mxAffine")
        ELSE RepackedGateUp("mmq", "m23"))
    \o Optional(~GateUpFused(s, resident), Activation)
    \o (IF ~resident THEN Down(s)
        ELSE IF MxStepFfn(s) THEN RepackedDown("mx", MxLayout(Q6(s, "down")))
        ELSE RepackedDown("mmq", "m23"))
    \o LayerOutput(s, call)

RecurrentStep(s, call) ==
    Normalize(call) \o QkvAndGate(s, call) \o BetaDecay(s) \o Convolution(call)
    \o Core(s) \o SsmOut(s) \o RecurrentFeedForward(s, call)

-----------------------------------------------------------------------------
QueryProjection(s, call) ==
    IF AttentionResident(s)
    THEN Repacked("attnQfull", "normalized", "mmq", "m23", "attnQfull")
         \o <<Project("attnK", "mmq", "m23", "attnK")>>
    ELSE IF QkCombined(s)
    THEN NormalizedQ8_1(s, call) \o Wave("attnQfull", "attnQfull") \o Wave("attnK", "attnK")
    ELSE IF QNative(s) THEN NormalizedQ8_1(s, call) \o Wave("attnQfull", "attnQfull")
    ELSE Plain("attnQfull", "normalized", "attnQfull", FALSE)

KeyProjection(s) ==
    IF ~Separate(s) THEN <<>>
    ELSE IF KNative(s) THEN Optional(~QNative(s), Q8_1("normalized")) \o Wave("attnK", "attnK")
    ELSE Plain("attnK", "normalized", "attnK", ~QNative(s) /\ On(s, "REUSE_PROJECTION_Q8"))

\* Mutant: forgets that the combined matrix leaves no Q8_K copy.
ValueProjectionReusing(s) ==
    IF AttentionResident(s) THEN Repacked("attnV", "normalized", "mmq", "m23", "attnV")
    ELSE IF VNative(s)
    THEN Optional(~(QkCombined(s) \/ QNative(s) \/ KNative(s)), Q8_1("normalized"))
         \o Wave("attnV", "attnV")
    ELSE Plain("attnV", "normalized", "attnV",
               ~(QNative(s) \/ KNative(s)) /\ On(s, "REUSE_PROJECTION_Q8"))

ValueProjection(s) ==
    LET shared == QkCombined(s) \/ QNative(s) \/ KNative(s) IN
    IF AttentionResident(s) THEN Repacked("attnV", "normalized", "mmq", "m23", "attnV")
    ELSE IF VNative(s) THEN Optional(~shared, Q8_1("normalized")) \o Wave("attnV", "attnV")
    ELSE Plain("attnV", "normalized", "attnV", ~shared /\ On(s, "REUSE_PROJECTION_Q8"))

\* The query's split, norm and rotation: one kernel, or the rotation later.
SplitQuery(s, call) ==
    Optional(~On(s, "FUSED_ROPE_NORM"), <<Make("attnQRope", <<"attnQfull">>, "queryNorm")>>)
    \o <<Make("gate", <<"attnQfull">>, "gate")>>
    \o Optional(On(s, "FUSED_ROPE_NORM"),
                <<Make("attnQRope", <<"attnQfull">>, "first"),
                  Rotate("first", "attnQRope", Where(call, TRUE))>>)

NormalizeKey(s) == Optional(~On(s, "FUSED_ROPE_NORM"), <<Copy("attnK", "keyNorm")>>)

StoreRow(s, call) ==
    IF On(s, "FUSED_ROPE_NORM")
    THEN <<Make("row", <<"attnK", "attnV">>, "first"),
           Place(Where(call, On(s, "FP16_KV_CACHE")))>>
    ELSE <<Rotate("queryNorm", "attnQRope", call.host),
           Make("row", <<"keyNorm", "attnV">>, "first"), Place(call.host)>>

Attention(s, call) ==
    IF On(s, "TILED_ONLINE_ATTENTION")
    THEN <<Attend(Where(call, On(s, "FP16_KV_CACHE")))>>
         \o Optional(On(s, "FUSED_CORE_Q8") /\ ONative(s), Q8_1("attnGatedOutput"))
    ELSE <<Attend(call.host)>>

OutProjection(s) ==
    IF AttentionResident(s) /\ MxStepO(s)
    THEN Repacked("projected", "attnGatedOutput", "mx", "mxAffine", "projected")
    ELSE IF AttentionResident(s)
    THEN Repacked("projected", "attnGatedOutput", "mmq", "m23", "projected")
    ELSE IF ONative(s)
    THEN Optional(~(On(s, "FUSED_CORE_Q8") /\ On(s, "TILED_ONLINE_ATTENTION")),
                  Q8_1("attnGatedOutput"))
         \o Wave("projected", "projected")
    ELSE Plain("projected", "attnGatedOutput", "projected", FALSE)

AttentionStep(s, call) ==
    Normalize(call) \o QueryProjection(s, call) \o SplitQuery(s, call) \o KeyProjection(s)
    \o NormalizeKey(s) \o ValueProjection(s) \o StoreRow(s, call) \o Attention(s, call)
    \o OutProjection(s) \o AttentionFeedForward(s, call)

StepProgram(layer, s, call) ==
    IF IsFullAttention(layer) THEN AttentionStep(s, call) ELSE RecurrentStep(s, call)

=============================================================================
