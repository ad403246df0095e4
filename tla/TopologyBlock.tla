---------------------------- MODULE TopologyBlock ----------------------------
(***************************************************************************)
(* PrefillV2TopologyBlock: three recurrent layers and one full-attention   *)
(* layer that hand the hidden states of a tile back and forth between two  *)
(* buffers.  The device holds, beside the workspace, one KV cache per      *)
(* block and one convolution history and GDN state per recurrent layer.    *)
(***************************************************************************)
EXTENDS LayerPrograms

\* What the program of a layer is given: the workspace and the layer's own state.
MemoryOf(device, layer) ==
    LET mine(states) == IF layer \in RecurrentLayers THEN states[layer] ELSE Wrong IN
    [ws |-> device.ws, affine |-> device.affine,
     kv |-> device.kv[layer \div LayersPerBlock],
     past |-> mine(device.past), state |-> mine(device.state),
     prefill |-> device.prefill, decode |-> device.decode]

\* The device after the program of a layer has left memory m.
Updated(device, layer, m) ==
    LET mine(states, new) ==
            IF layer \in RecurrentLayers THEN [states EXCEPT ![layer] = new] ELSE states
    IN  [device EXCEPT
            !.ws = m.ws,
            !.affine = m.affine,
            !.kv[layer \div LayersPerBlock] = m.kv,
            !.past = mine(@, m.past),
            !.state = mine(@, m.state)]

RunLayer(device, n, layer, program) ==
    Updated(device, layer, Run(MemoryOf(device, layer), n, layer, program))

\* The recurrent layer and the attention layer of a call to the block.
RecurrentProgram(call, in, out) ==
    CASE call.kind = "forward" -> RecurrentForward(in, out, call.source, call.ring, call.formats)
      [] call.kind = "decode"  -> RecurrentDecode(in, out, call.source, call.ring, call.formats)

AttentionProgram(call, in, out) ==
    CASE call.kind = "forward" ->
             AttentionForward(in, out, call.source, call.base, call.count,
                              call.formats, call.opted)
      [] call.kind = "decode" ->
             AttentionDecode(in, out, call.source, call.base, call.formats)

\* Where layer i of a block reads the hidden states, and where it leaves them.
InOut(i) == IF i % 2 = 0 THEN <<"ping", "pong">> ELSE <<"pong", "ping">>

ProgramOf(call, i) ==
    IF i = LayersPerBlock - 1 THEN AttentionProgram(call, InOut(i)[1], InOut(i)[2])
                              ELSE RecurrentProgram(call, InOut(i)[1], InOut(i)[2])

\* forward(), decode() and, but for its events, forward_profiled(): ping is
\* also the final output.
RunBlock(device, block, call) ==
    LET after[i \in 0 .. LayersPerBlock] ==
            IF i = 0 THEN device
            ELSE RunLayer(after[i - 1], call.count, block * LayersPerBlock + i - 1,
                          ProgramOf(call, i - 1))
    IN  after[LayersPerBlock]

RunBlocks(device, call) ==
    LET after[b \in 0 .. Blocks] ==
            IF b = 0 THEN device ELSE RunBlock(after[b - 1], b - 1, call)
    IN  after[Blocks]

=============================================================================
