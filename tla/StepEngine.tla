----------------------------- MODULE StepEngine -----------------------------
(***************************************************************************)
(* Qwen35RuntimeEngine one token at a time: prefill_step(), step(), the    *)
(* reusable decode graph, reset_device_state(), and prefill by layers as   *)
(* far as it leaves the recurrent states and the key/value rows behind.    *)
(***************************************************************************)
EXTENDS StepPrograms

CONSTANT Setups   \* switches and formats the engine may be started with

VARIABLES setup,    \* the one this process was started with
          memory,   \* layer -> its buffers
          seq,      \* the tokens the device has been given
          logits,   \* what d_output_weight_ makes of the last hidden state
          captured, \* host position decode_graph_ was captured with
          decode    \* position in DeviceDecodeState while a chain is queued

vars == <<setup, memory, seq, logits, captured, decode>>

NoLogits == LogitsOf(<<>>)
None == Capacity + 1   \* not captured; no chain of graph launches

Init ==
    /\ setup \in Setups
    /\ memory = [l \in Layers |-> LayerHolding(l, <<>>)]
    /\ seq = <<>>
    /\ logits = NoLogits
    /\ captured = None
    /\ decode = None

-----------------------------------------------------------------------------
\* run_prefix(): each layer in turn, fed the output of the one before, which
\* may also have written its normalised input and the Q8_1 copy of that.
Entered(m, layer, before) ==
    LET handed == layer > 0 /\ On(setup, "FUSED_INTERLAYER_NORM")
        at == [m.at EXCEPT
                  !["input"] = before.at["output"],
                  !["normalized"] = IF handed THEN before.at["nextNormalized"] ELSE @]
        copies == [m.copies EXCEPT
                      !["q8_1"] = IF handed /\ On(setup, "FUSED_NORM_Q8")
                                  THEN before.copies["nextQ8"] ELSE @]
    IN  [m EXCEPT !.at = at, !.copies = copies]

CallTo(layer, host, device, dynamic) ==
    [ready |-> layer > 0 /\ On(setup, "FUSED_INTERLAYER_NORM"), next |-> layer < LastLayer,
     host |-> host, device |-> device, dynamic |-> dynamic]

\* The embedding of the token is the output of layer "-1".
EmbeddingOf(token) ==
    [LayerHolding(0, <<>>) EXCEPT !.at = [@ EXCEPT !["output"] = Embedding(token)]]

Programs(host, device, dynamic) ==
    [l \in Layers |-> StepProgram(l, setup, CallTo(l, host, device, dynamic))]

Through(token, programs) ==
    LET through[l \in -1 .. LastLayer] ==
            IF l = -1 THEN memory
            ELSE LET done == through[l - 1]
                     before == IF l = 0 THEN EmbeddingOf(token) ELSE done[l - 1]
                 IN  [done EXCEPT ![l] = Run(Entered(@, l, before), l, programs[l])]
    IN  through[LastLayer]

RunPrefix(token, host, device, dynamic) == Through(token, Programs(host, device, dynamic))

\* Final norm, Q8_1 and the output matrix.
LogitsFrom(mem) == Logits(FinalNormalized(mem[LastLayer].at["output"]))

\* Both throw on a position past the capacity.
Fits == Len(seq) < Capacity

-----------------------------------------------------------------------------
Reset ==
    /\ memory' = [l \in Layers |-> Cleared(memory[l], l)]
    /\ seq' = <<>>
    /\ logits' = NoLogits
    /\ decode' = None
    /\ UNCHANGED <<setup, captured>>

\* A token of the prompt: no output matrix.
PrefillStep(token) ==
    /\ ~On(setup, "LAYER_MAJOR") /\ Fits
    /\ memory' = RunPrefix(token, Len(seq), None, FALSE)
    /\ seq' = Append(seq, token)
    /\ logits' = NoLogits
    /\ decode' = None
    /\ UNCHANGED <<setup, captured>>

\* prefill_layer_major() in outline: the states and rows of the prompt, with
\* whatever it leaves in the buffers of the single steps.
PrefillLayerMajor(tokens) ==
    /\ On(setup, "LAYER_MAJOR") /\ Len(seq) + Len(tokens) <= Capacity
    /\ seq' = seq \o tokens
    /\ memory' = [l \in Layers |-> LayerHolding(l, seq')]
    /\ logits' = NoLogits
    /\ decode' = None
    /\ UNCHANGED <<setup, captured>>

\* step(): the position is a launch argument.
Step(token) ==
    /\ Fits
    /\ memory' = RunPrefix(token, Len(seq), None, FALSE)
    /\ seq' = Append(seq, token)
    /\ logits' = LogitsFrom(memory')
    /\ decode' = None
    /\ UNCHANGED <<setup, captured>>

\* Mutant: any configuration is captured.
CapturableAnyway(s) == On(s, "HIP_GRAPH")

\* ensure_graph_captured() throws unless every launch has a device-state form.
Capturable(s) ==
    {"HIP_GRAPH", "FUSED_ROPE_NORM", "FP16_KV_CACHE", "TILED_ONLINE_ATTENTION"} \subseteq s.on

\* ensure_graph_captured() and initialize_decode_state(): the graph is captured
\* once, at whatever position the first chain starts.
BeginChain ==
    /\ Capturable(setup) /\ Fits /\ decode = None
    /\ captured' = IF captured = None THEN Len(seq) ELSE captured
    /\ decode' = Len(seq)
    /\ UNCHANGED <<setup, memory, seq, logits>>

\* One launch of decode_graph_: the token and the position are on the device,
\* and the last node advances the position.
Replay(token) ==
    /\ decode # None /\ Fits
    /\ memory' = RunPrefix(token, captured, decode, TRUE)
    /\ seq' = Append(seq, token)
    /\ logits' = LogitsFrom(memory')
    /\ decode' = decode + 1
    /\ UNCHANGED <<setup, captured>>

Prompts == UNION {[1 .. n -> Token] : n \in 1 .. Capacity}

Next ==
    \/ Reset
    \/ \E tokens \in Prompts : PrefillLayerMajor(tokens)
    \/ BeginChain
    \/ \E token \in Token : PrefillStep(token) \/ Step(token) \/ Replay(token)

Spec == Init /\ [][Next]_vars

-----------------------------------------------------------------------------
\* Setups that read a buffer no launch wrote for this token.  Each part is a
\* combination of switches that are right on their own.

\* The Q8_1 copy of the post-attention norm is left by the fused kernel only.
NormCopyMissing(s) ==
    /\ On(s, "FUSED_NORM_Q8") /\ ~On(s, "FUSED_ADD_RMS_NORM")
    /\ \E resident \in {RecurrentResident(s), AttentionResident(s)} :
          Swiglu(s, resident) \/ GateUpNative(s, resident)

\* The gate takes the Q8_K copy of a qkv projection that made a Q8_1 copy.
GateCopyMissing(s) ==
    /\ QkvNative(s) /\ ~GateNative(s)
    /\ ~On(s, "Q4K_Q8_1_MMVQ_ATTN_GATE") /\ On(s, "REUSE_PROJECTION_Q8")

\* The raw projections stay in the registers of the preparing kernel.
RawProjectionsMissing(s) == CoreFromRaw(s) /\ On(s, "DUAL_BETA_ALPHA_PREPARE")

\* The activation is made again, from gate and up buffers nobody wrote.
GateUpMissing(s) == Mx(s) /\ GateUpFused(s, RecurrentResident(s))

\* Repacked weights are uploaded by the branch for wide prefill only.
ResidentWeightsMissing(s) == RecurrentResident(s) /\ ~On(s, "LAYER_MAJOR")

Coherent(s) ==
    /\ Accepted(s) /\ ~ResidentWeightsMissing(s)
    /\ ~NormCopyMissing(s) /\ ~GateCopyMissing(s)
    /\ ~RawProjectionsMissing(s) /\ ~GateUpMissing(s)

-----------------------------------------------------------------------------
TypeOK ==
    /\ setup \in Setups
    /\ seq \in Seq(Token) /\ Len(seq) <= Capacity
    /\ {captured, decode} \subseteq 0 .. Capacity \cup {None}
    /\ decode # None => captured # None

\* Whatever switches select the kernels, and whatever earlier tokens and
\* requests left in the buffers, each layer's ring, state and rows are the
\* reference's for the tokens given ("causal state evolution").
LayersHoldSequence ==
    \A l \in Layers :
        IF IsFullAttention(l)
        THEN \A i \in DOMAIN seq : memory[l].rows[i] = Value("row", l, SubSeq(seq, 1, i))
        ELSE /\ memory[l].at["past"] = Value("past", l, seq)
             /\ memory[l].at["state"] = Value("state", l, seq)

\* A launch of the graph, captured at whatever position, does to every buffer
\* what step() would have done ("reusable-graph correctness").
ReplayIsStep ==
    decode # None /\ Fits =>
        \A token \in Token :
            RunPrefix(token, captured, decode, TRUE) = RunPrefix(token, Len(seq), None, FALSE)

=============================================================================
