----------------------------- MODULE PrefillModel -----------------------------
(***************************************************************************)
(* The computations of PrefillV2Model on the device, launch by launch, in  *)
(* the order in which a call of generate() makes them: reset_state() or    *)
(* the return to a checkpoint, the tiles of the prompt (enqueued by the    *)
(* host or replayed from the captured suffix graph), the decode steps      *)
(* (host-driven or replayed from the decode graph).  Generation treats the *)
(* result of each as one value; here the value is computed by the programs *)
(* of the layers, so that a wrong operand, layout, position or buffer in   *)
(* any of them shows.                                                      *)
(***************************************************************************)
EXTENDS TopologyBlock, FiniteSets

CONSTANT Formats   \* the quantisation mixes of model files

ASSUME PrefillModelAssumption ==
    /\ LayersPerBlock = 4
    /\ Formats \subseteq FormatRecord

VARIABLES seq,        \* the tokens the device has been given
          kv,         \* block -> rows of its KV cache
          past,       \* recurrent layer -> convolution history
          state,      \* recurrent layer -> GDN state
          position,   \* position_ of the storage of every recurrent layer
          logits,     \* what compute_logits() makes of the last hidden state
          checkpoint, \* [tokens, past, state, sound] of the reusable context
          formats,    \* of the loaded model
          opted,      \* MIINFER_V2_0043: the fragment kernel is enabled
          phase,      \* where the call of generate() is
          graph       \* the call uses HIP graphs (FALSE between calls)

\* Auxiliary, read by no action: no convolution over the tokens of seq was
\* launched at a position that makes it skip inputs.
VARIABLE sound

device == <<kv, past, state>>
progress == <<phase, graph>>
vars == <<seq, device, position, logits, checkpoint, formats, opted, progress, sound>>

\* Mutant: the caches are one row short.
BlankRowsButLast == [r \in 1 .. Capacity - 1 |-> Zero("row", 0)]

BlankRows == [r \in 1 .. Capacity |-> Zero("row", 0)]

BlankDevice ==
    [kv |-> [b \in 0 .. Blocks - 1 |-> BlankRows],
     past |-> [l \in RecurrentLayers |-> Zero("past", l)],
     state |-> [l \in RecurrentLayers |-> Zero("state", l)]]

NoLogits == LogitsOf(<<>>)

SetDevice(d) ==
    /\ kv' = d.kv
    /\ past' = d.past
    /\ state' = d.state

Init ==
    /\ seq = <<>>
    /\ kv = BlankDevice.kv
    /\ past = BlankDevice.past
    /\ state = BlankDevice.state
    /\ position = 0
    /\ logits = NoLogits
    /\ checkpoint = [tokens |-> <<>>, past |-> past, state |-> state, sound |-> TRUE]
    /\ formats \in Formats
    /\ opted \in BOOLEAN
    /\ phase = "idle"
    /\ graph = FALSE
    /\ sound = TRUE

-----------------------------------------------------------------------------
\* The device with the embeddings of the tokens in ping, and the position
\* records as the host has uploaded them.
Embedded(tokens) ==
    [ws |-> [Scratch EXCEPT !["ping"] =
                [t \in DOMAIN tokens |-> Embedding(tokens[t])]
                \o SubSeq(@, Len(tokens) + 1, Tile)],
     affine |-> FALSE, kv |-> kv, past |-> past, state |-> state,
     prefill |-> Len(seq), decode |-> Len(seq)]

\* The final norm and the logits of the last of the tokens, after the blocks
\* have left device d.  The decode paths and forward() leave the normed hidden
\* states in pong.
Accept(tokens, d) ==
    /\ SetDevice(d)
    /\ logits' = Logits(FinalNormalized(d.ws["ping"][Len(tokens)]))
    /\ seq' = seq \o tokens

\* A launch with the host's positions takes the one of the convolution from the
\* storage; when the storage is behind the sequence, and at one of the first
\* positions, the position test skips inputs the sequence has.
Cuts(run) == run.source = "host" /\ run.ring # Len(seq) /\ run.ring < Kernel - 1

Advance(tokens, run) ==
    /\ Accept(tokens, RunBlocks(Embedded(tokens), run))
    /\ sound' = (sound /\ ~Cuts(run))
    /\ UNCHANGED <<checkpoint, formats, opted, graph>>

Fits(tokens) == Len(seq) + Len(tokens) <= Capacity

\* The prompt ends with a tile that is not full, or with any tile; the suffix
\* loop then sets the positions, the cold loop leaves them at zero.
TileDone(tokens) ==
    /\ phase' \in IF Len(tokens) = Tile THEN {phase, "filled"} ELSE {"filled"}
    /\ position' = IF phase = "suffix" /\ phase' = "filled" THEN Len(seq') ELSE position

\* forward(d_temp_tokens_, pos, chunk, ...) on a tile of the prompt; a call that
\* uses graphs runs only the last tile of a suffix this way.
HostTile(tokens) ==
    /\ phase \in {"cold", "suffix"}
    /\ phase = "suffix" /\ graph => Len(tokens) < Tile
    /\ Fits(tokens)
    /\ Advance(tokens, [kind |-> "forward", source |-> "host", base |-> Len(seq),
                         ring |-> position, count |-> Len(tokens),
                         formats |-> formats, opted |-> opted])
    /\ TileDone(tokens)

\* A full tile of a suffix, replayed from the graph that capture_suffix_graph()
\* recorded with base position 0.
GraphTile(tokens) ==
    /\ phase = "suffix" /\ graph
    /\ Len(tokens) = Tile
    /\ Fits(tokens)
    /\ Advance(tokens, [kind |-> "forward", source |-> "prefill", base |-> 0,
                         ring |-> 0, count |-> Tile,
                         formats |-> formats, opted |-> opted])
    /\ TileDone(tokens)

\* One token through the decode graph, captured with host position 0.
GraphStep(token) ==
    /\ phase \in {"filled", "decode"} /\ graph
    /\ Fits(<<token>>)
    /\ Advance(<<token>>, [kind |-> "decode", source |-> "decode", base |-> 0,
                            ring |-> 0, count |-> 1,
                            formats |-> formats, opted |-> opted])
    /\ phase' = "decode"
    /\ UNCHANGED position

\* One token of the host-driven loop (no HIP graph).  The positions are set when
\* the token sampled from it neither stops nor cancels the call.
HostStep(token) ==
    /\ phase \in {"filled", "decode"} /\ ~graph
    /\ Fits(<<token>>)
    /\ Advance(<<token>>, [kind |-> "decode", source |-> "host", base |-> Len(seq),
                            ring |-> position, count |-> 1,
                            formats |-> formats, opted |-> opted])
    /\ \/ phase' = "decode" /\ position' = Len(seq')
       \/ phase' = "idle" /\ UNCHANGED position

\* The call returns after its first token or from the host-driven loop, or a
\* launch throws.
Leave ==
    /\ phase # "idle"
    /\ phase' = "idle" /\ graph' = FALSE
    /\ UNCHANGED <<seq, device, position, logits, checkpoint, formats, opted, sound>>

\* The call returns from the loop over the decode graph.
ReturnFromGraph ==
    /\ phase = "decode" /\ graph
    /\ phase' = "idle" /\ graph' = FALSE
    /\ position' = Len(seq)
    /\ UNCHANGED <<seq, device, logits, checkpoint, formats, opted, sound>>

\* A cold call: reset_state().
Reset ==
    /\ phase = "idle"
    /\ phase' = "cold"
    /\ graph' \in BOOLEAN
    /\ seq' = <<>>
    /\ SetDevice(BlankDevice)
    /\ position' = 0
    /\ logits' = NoLogits
    /\ sound' = TRUE
    /\ UNCHANGED <<checkpoint, formats, opted>>

\* reusable_context_.save() of the prompt.
Save ==
    /\ phase = "filled"
    /\ checkpoint' = [tokens |-> seq, past |-> past, state |-> state, sound |-> sound]
    /\ UNCHANGED <<seq, device, position, logits, formats, opted, progress, sound>>

\* A call that reuses the checkpoint: restore_gdn_states() sets the positions;
\* the KV rows stay as they are, and are still the checkpoint's when nothing
\* else has been run since.
Resume ==
    /\ phase = "idle"
    /\ checkpoint.tokens # <<>>
    /\ IsPrefix(checkpoint.tokens, seq)
    /\ phase' = "suffix"
    /\ graph' \in BOOLEAN
    /\ seq' = checkpoint.tokens
    /\ past' = checkpoint.past
    /\ state' = checkpoint.state
    /\ position' = Len(checkpoint.tokens)
    /\ logits' = NoLogits
    /\ sound' = (sound /\ checkpoint.sound)
    /\ UNCHANGED <<kv, checkpoint, formats, opted>>

Tiles == UNION {[1 .. n -> Token] : n \in 1 .. Tile}

Next ==
    \/ \E tokens \in Tiles : HostTile(tokens) \/ GraphTile(tokens)
    \/ \E token \in Token : GraphStep(token)
    \/ Leave
    \/ ReturnFromGraph
    \/ Reset
    \/ Save
    \/ Resume

Spec == Init /\ [][Next]_vars

\* A process with MIINFER_HIP_GRAPH=0 runs the host-driven loop as well.
HostNext == Next \/ \E token \in Token : HostStep(token)

HostSpec == Init /\ [][HostNext]_vars

-----------------------------------------------------------------------------
TypeOK ==
    /\ seq \in Seq(Token) /\ Len(seq) <= Capacity
    /\ position \in 0 .. Len(seq)
    /\ sound \in BOOLEAN
    /\ sound => /\ \A b \in DOMAIN kv : Len(kv[b]) = Capacity
                /\ DOMAIN past = RecurrentLayers /\ DOMAIN state = RecurrentLayers
    /\ checkpoint.tokens \in Seq(Token) /\ checkpoint.sound \in BOOLEAN
    /\ formats \in Formats /\ opted \in BOOLEAN
    /\ phase \in {"idle", "cold", "suffix", "filled", "decode"} /\ graph \in BOOLEAN

\* Whatever mix of tiles, graph replays, steps, resets and resumptions led
\* here, when no convolution skipped an input the first rows of every KV cache
\* and the convolution history and GDN state of every layer are the reference's
\* for the tokens given; later rows may be stale.  The first tile of a cold
\* prompt skips none.
DeviceHoldsSequence ==
    /\ phase = "cold" /\ Len(seq) <= Tile => sound
    /\ sound =>
        /\ \A b \in 0 .. Blocks - 1, i \in DOMAIN seq :
              kv[b][i] = Value("row", b * LayersPerBlock + 3, SubSeq(seq, 1, i))
        /\ \A l \in RecurrentLayers :
              past[l] = Value("past", l, seq) /\ state[l] = Value("state", l, seq)

\* When no convolution skipped an input, the logits on the device are the
\* reference's for the tokens given, never computed with a key or value of
\* another token ("causal state evolution").
LogitsFollowSequence == sound => logits \in {NoLogits, LogitsOf(seq)}

\* The logits of a sequence some convolution skipped inputs of are promised to
\* nobody.
Promised == IF sound THEN logits ELSE NoLogits

\* Every step of the device is a step of the reference, or none.
Reference == INSTANCE ReferenceGeneration WITH logits <- Promised

RefinesReference == Reference!Spec

\* One layer on its own, as the profiling benches run it: the reference input
\* of the next tokens in ping.
LayerAlone(layer, tokens) ==
    [Embedded(tokens) EXCEPT !.ws["ping"] =
        [t \in DOMAIN tokens |-> Named("input", layer, seq \o SubSeq(tokens, 1, t))]
        \o SubSeq(@, Len(tokens) + 1, Tile)]

\* The profiled copies of the attention programs compute, from any state of the
\* device, what the programs they were copied from compute.
ProfiledAgree ==
    \A token \in Token, n \in 1 .. Tile :
        LET layer == LayersPerBlock - 1
            tokens == [t \in 1 .. n |-> token]
            alone == LayerAlone(layer, tokens)
        IN  sound /\ Fits(tokens) /\ seq # <<>> =>
            /\ RunLayer(alone, n, layer, AttentionForwardProfiled(
                   "ping", "pong", Len(seq), n, formats, opted))
               = RunLayer(alone, n, layer, AttentionForward(
                   "ping", "pong", "host", Len(seq), n, formats, opted))
            /\ n = 1 =>
               RunLayer(alone, 1, layer, AttentionDecodeProfiled(
                   "ping", "pong", "host", Len(seq), formats))
               = RunLayer(alone, 1, layer, AttentionDecode(
                   "ping", "pong", "decode", 0, formats))

=============================================================================
