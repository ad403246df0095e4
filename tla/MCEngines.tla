----------------------------- MODULE MCEngines -----------------------------
(* Two tokens and one block of layers; the tiles of MCPrefillModel on one     *)
(* side, and on the other all combinations of the switches that meet at one   *)
(* stage of a layer.                                                          *)
EXTENDS Engines, MCPrefillModel

\* What setup_environment() and the constructors have on by default.
Defaults ==
    {"Q4K_NATIVE_DOWN", "Q4K_NATIVE_GATE_UP", "Q4K_NATIVE_Q", "Q4K_NATIVE_ATTN_GATE",
     "Q4K_NATIVE_ATTN_OUT", "Q4K_NATIVE_K", "Q5K_NATIVE_SSM_OUT", "KQUANT_NATIVE_QKV",
     "KQUANT_NATIVE_V", "Q6K_NATIVE_DOWN", "HIP_GRAPH", "FUSED_GATE_UP_SWIGLU",
     "FUSED_RECURRENT_CORE", "FUSED_INTERLAYER_NORM", "TILED_ONLINE_ATTENTION",
     "COMBINED_QKV_GATE", "COMBINED_ATTN_QK", "SWIGLU_PAIRED", "FUSED_ROPE_NORM",
     "FUSED_ADD_RMS_NORM", "REUSE_PROJECTION_Q8", "Q5K_Q8_1_MMVQ", "Q4K_Q8_1_MMVQ",
     "Q4K_Q8_1_MMVQ_FFN_GATE_UP", "Q4K_Q8_1_MMVQ_ATTN_GATE", "Q4K_EXPANDED_DOWN",
     "FUSED_CORE_Q8", "DELTA_TRANSPOSED_STATE", "FP16_KV_CACHE"}

\* Launches do not differ between a graph and single steps except in positions:
\* the graph is on where positions are used, and with wide prefill.
NoGraph == Defaults \ {"HIP_GRAPH"}

\* Switches that meet at one stage; the first two also depend on the formats.
FormatStages ==
    {{"COMBINED_QKV_GATE", "KQUANT_NATIVE_QKV", "Q4K_NATIVE_ATTN_GATE",
      "Q4K_Q8_1_MMVQ_ATTN_GATE", "REUSE_PROJECTION_Q8", "FUSED_NORM_Q8",
      "FUSED_INTERLAYER_NORM"},
     {"Q4K_NATIVE_DOWN", "Q6K_NATIVE_DOWN", "Q4K_EXPANDED_DOWN", "Q4K_Q8_1_MMVQ"}}

Stages ==
    {{"COMBINED_ATTN_QK", "Q4K_NATIVE_Q", "Q4K_NATIVE_K", "KQUANT_NATIVE_V",
      "REUSE_PROJECTION_Q8", "FUSED_NORM_Q8"},
     {"FUSED_RECURRENT_CORE", "DELTA_TRANSPOSED_STATE", "FUSE_BETA_ALPHA",
      "DELTA_ROW_WAVES", "DUAL_BETA_ALPHA_PREPARE", "FUSED_CORE_Q8"},
     {"Q5K_NATIVE_SSM_OUT", "Q5K_Q8_1_MMVQ", "FUSED_CORE_Q8", "FUSED_RECURRENT_CORE"},
     {"FUSED_ADD_RMS_NORM", "FUSED_NORM_Q8", "SWIGLU_PAIRED", "Q4K_NATIVE_GATE_UP",
      "FUSED_GATE_UP_SWIGLU", "Q4K_Q8_1_MMVQ_FFN_GATE_UP"},
     {"FUSED_ROPE_NORM", "TILED_ONLINE_ATTENTION", "FP16_KV_CACHE", "HIP_GRAPH",
      "Q4K_NATIVE_ATTN_OUT", "FUSED_CORE_Q8"}}

Wide == {"LAYER_MAJOR", "REPACKED", "MX", "RESIDENT_ALL"}
WideStages ==
    {{"REPACKED", "MX", "RESIDENT_ALL", "COMBINED_ATTN_QK", "SWIGLU_PAIRED"},
     {"M26C_QKV_M23", "M26C_SSM_OUT_NATIVE", "MX_ATTN_FFN", "MX_ATTN_O", "MX_ATTN_DECODE"}}

\* The default switches, but any combination of those of one stage.
Around(base, stages) ==
    UNION {{(base \ stage) \cup on : on \in SUBSET stage} : stage \in stages}

AllQ4 == {}
Mixed == {"qkv", "v", "down"}   \* the matrices that may be stored as Q6_K

MCSetups ==
    [on : Around(NoGraph, Stages), q6 : {AllQ4}]
    \cup [on : Around(NoGraph, FormatStages) \cup Around(Defaults \cup Wide, WideStages),
          q6 : {AllQ4, Mixed}]

=============================================================================
