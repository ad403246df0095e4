----------------------------- MODULE ConvHistory -----------------------------
(***************************************************************************)
(* The causal convolution of one recurrent (GDN) layer of PrefillV2Model.  *)
(*                                                                         *)
(* The layer mixes each token with its Kernel - 1 predecessors.  It keeps  *)
(* the last Kernel inputs in a ring that is indexed by POSITION, and the   *)
(* position is kept in three places: the storage object (position_), the   *)
(* DevicePrefillState of a captured suffix tile and the DeviceDecodeState  *)
(* of the decode graph.  A launch takes it from whichever its path uses,   *)
(* and no launch writes it back: forward() and decode() advance a view     *)
(* that the caller drops.                                                  *)
(*                                                                         *)
(* Inputs are named by the index of their token in the sequence, counted   *)
(* from 1; 0 is the zero vector of a reset ring.                           *)
(***************************************************************************)
EXTENDS Naturals

CONSTANTS Kernel,    \* kConvKernel: taps, and slots of the ring (4)
          Tile,      \* kPrefillV2MacroTile: tokens per prefill tile (512)
          Prompts,   \* prompt lengths
          MaxLength, \* bound on the tokens of one sequence
          Graph      \* values of use_hip_graph && MIINFER_HIP_GRAPH # "0"

ASSUME ConvAssumption ==
    /\ Kernel \in Nat \ {0, 1}
    /\ Tile \in Nat \ {0}
    /\ Tile % Kernel = 0
    /\ Prompts \subseteq Nat \ {0}
    /\ MaxLength \in Nat
    /\ Graph \subseteq BOOLEAN

VARIABLES ring,       \* d_conv_history: slot -> input
          position,   \* position_ of the storage object
          length,     \* tokens the recurrent state stands for
          misread,    \* those computed with a wrong predecessor
          checkpoint, \* [ring, length, misread] of the reusable context
          pc,         \* phase of generate()
          goal,       \* prompt_len
          graph       \* enable_graph

state == <<ring, position, length, misread>>
vars  == <<state, checkpoint, pc, goal, graph>>

Slots == 0 .. Kernel - 1
Zeroed == [s \in Slots |-> 0]
NoCheckpoint == [ring |-> Zeroed, length |-> 0, misread |-> {}]

Init ==
    /\ ring = Zeroed
    /\ position = 0
    /\ length = 0
    /\ misread = {}
    /\ checkpoint = NoCheckpoint
    /\ pc = "idle"
    /\ goal = 0
    /\ graph \in Graph

-----------------------------------------------------------------------------
\* Mutant: the newest predecessor is skipped at its first position, too.
TapLate(base, j, lag) ==
    IF base + j <= lag THEN 0
    ELSE IF lag <= j THEN length + j + 1 - lag
    ELSE ring[(base + j - lag) % Kernel]

\* The input a launch at `base` reads `lag` before its j-th token: none in
\* front of position 0, an input of the launch itself, or the ring's.
Tap(base, j, lag) ==
    IF base + j < lag THEN 0
    ELSE IF lag <= j THEN length + j + 1 - lag
    ELSE ring[(base + j - lag) % Kernel]

\* The input that is really `lag` before that token.
Predecessor(j, lag) == IF length + j < lag THEN 0 ELSE length + j + 1 - lag

\* One launch over `count` tokens at `base`.
Convolve(base, count) ==
    /\ misread' = misread \cup
          {length + j + 1 : j \in {i \in 0 .. count - 1 :
              \E lag \in 1 .. Kernel - 1 : Tap(base, i, lag) # Predecessor(i, lag)}}
    /\ ring' = [s \in Slots |->
          LET written == {j \in 0 .. count - 1 : (base + j) % Kernel = s}
              last == CHOOSE j \in written : \A i \in written : i <= j
          IN IF written = {} THEN ring[s] ELSE length + last + 1]
    /\ length' = length + count

-----------------------------------------------------------------------------
\* The cold path: reset_state(), then prefill from the first token.
Cold(len, g) ==
    /\ pc = "idle"
    /\ ring' = Zeroed
    /\ position' = 0
    /\ length' = 0
    /\ misread' = {}
    /\ pc' = "cold"
    /\ goal' = len
    /\ graph' = g
    /\ UNCHANGED checkpoint

\* Mutant: the positions are not restored.
ResumeStalePosition(len, g) ==
    /\ pc = "idle"
    /\ 0 < checkpoint.length /\ checkpoint.length < len
    /\ ring' = checkpoint.ring
    /\ length' = checkpoint.length
    /\ misread' = checkpoint.misread
    /\ pc' = "suffix"
    /\ goal' = len
    /\ graph' = g
    /\ UNCHANGED <<position, checkpoint>>

\* The warm path: restore_gdn_states().
Resume(len, g) ==
    /\ pc = "idle"
    /\ 0 < checkpoint.length /\ checkpoint.length < len
    /\ ring' = checkpoint.ring
    /\ position' = checkpoint.length
    /\ length' = checkpoint.length
    /\ misread' = checkpoint.misread
    /\ pc' = "suffix"
    /\ goal' = len
    /\ graph' = g
    /\ UNCHANGED checkpoint

\* Mutant: the last tile is not shortened.
ChunkUncapped == Tile

Chunk == IF goal - length < Tile THEN goal - length ELSE Tile

\* Every tile of the cold path runs at the position of the storage object.
ColdTile ==
    /\ pc = "cold"
    /\ Convolve(position, Chunk)
    /\ pc' = IF length + Chunk = goal THEN "save" ELSE "cold"
    /\ UNCHANGED <<position, checkpoint, goal, graph>>

\* A full suffix tile is replayed from the captured graph, at the position
\* uploaded for it; any other suffix tile runs like a cold one.
SuffixBase == IF graph /\ Chunk = Tile THEN length ELSE position

\* One suffix tile; after the last one the positions are set.
SuffixTile ==
    /\ pc = "suffix"
    /\ Convolve(SuffixBase, Chunk)
    /\ IF length + Chunk = goal
       THEN pc' = "save" /\ position' = goal
       ELSE pc' = "suffix" /\ UNCHANGED position
    /\ UNCHANGED <<checkpoint, goal, graph>>

\* cache_prefix_after: capture() copies the ring, not the position.
Save ==
    /\ pc = "save"
    /\ checkpoint' = [ring |-> ring, length |-> length, misread |-> misread]
    /\ pc' = "decode"
    /\ UNCHANGED <<state, goal, graph>>

DoNotSave ==
    /\ pc = "save"
    /\ pc' = "decode"
    /\ UNCHANGED <<state, checkpoint, goal, graph>>

\* The first token ends the call.
StopAtFirst ==
    /\ pc = "decode"
    /\ length = goal
    /\ pc' = "idle"
    /\ UNCHANGED <<state, checkpoint, goal, graph>>

\* Mutant: the uploaded position is one behind.
DecodeGraphLate ==
    /\ pc = "decode" /\ graph
    /\ length < MaxLength
    /\ Convolve(length - 1, 1)
    /\ UNCHANGED <<position, checkpoint, pc, goal, graph>>

\* One replay of the decode graph at the position of DeviceDecodeState.
DecodeGraph ==
    /\ pc = "decode" /\ graph
    /\ length < MaxLength
    /\ Convolve(length, 1)
    /\ UNCHANGED <<position, checkpoint, pc, goal, graph>>

\* The graph loop is left and sets the positions once.
EndGraphDecode ==
    /\ pc = "decode" /\ graph
    /\ length > goal
    /\ position' = length
    /\ pc' = "idle"
    /\ UNCHANGED <<ring, length, misread, checkpoint, goal, graph>>

\* One turn of the host loop, at the position of the storage object, which is
\* set afterwards unless the sampled token ends the loop.
DecodeHost ==
    /\ pc = "decode" /\ ~graph
    /\ length < MaxLength
    /\ Convolve(position, 1)
    /\ \/ position' = length + 1 /\ UNCHANGED pc
       \/ pc' = "idle" /\ UNCHANGED position
    /\ UNCHANGED <<checkpoint, goal, graph>>

\* max_new_tokens or the KV capacity ends the host loop.
EndHostDecode ==
    /\ pc = "decode" /\ ~graph
    /\ pc' = "idle"
    /\ UNCHANGED <<state, checkpoint, goal, graph>>

Next ==
    \/ \E len \in Prompts, g \in Graph : Cold(len, g) \/ Resume(len, g)
    \/ ColdTile \/ SuffixTile
    \/ Save \/ DoNotSave
    \/ StopAtFirst
    \/ DecodeGraph \/ EndGraphDecode
    \/ DecodeHost \/ EndHostDecode

Spec == Init /\ [][Next]_vars

-----------------------------------------------------------------------------
Rings == [Slots -> Nat]

TypeOK ==
    /\ ring \in Rings
    /\ position \in Nat
    /\ length \in Nat
    /\ misread \subseteq 1 .. length
    /\ checkpoint.ring \in Rings
    /\ checkpoint.length \in Nat
    /\ checkpoint.misread \subseteq 1 .. checkpoint.length
    /\ pc \in {"idle", "cold", "suffix", "save", "decode"}
    /\ goal \in Nat
    /\ pc \in {"cold", "suffix"} => length < goal
    /\ graph \in BOOLEAN

\* The last Kernel inputs of a sequence of length n sit in their slots.
Aligned(r, n) ==
    \A lag \in 1 .. Kernel : lag <= n => r[(n - lag) % Kernel] = n + 1 - lag

\* Although the tiles and decode steps of one sequence take their position
\* from three places that disagree, they agree on the slots: in every loop but
\* the host's the ring holds the newest inputs where the next launch will look
\* for them (conv kernels, set_position() in generate()).
RingFollowsSequence ==
    pc \in {"cold", "suffix", "save"} \/ (pc = "decode" /\ graph) =>
        Aligned(ring, length)

\* The head of a tile after the first, counting from the first token.
AtSeam(i) == i > Tile /\ (i - 1) % Tile < Kernel - 1

\* Suffix tiles and replays of the decode graph read the true predecessors,
\* whether or not the state they continue is sound, unless the prefix they
\* continue is shorter than the kernel (generate(): suffix loop, decode graph).
WarmStepsReadHistory ==
    [][(pc = "suffix" /\ checkpoint.length >= Kernel - 1) \/ (pc = "decode" /\ graph)
          => misread' = misread]_vars

\* Whatever loop decoded before, the ring a checkpoint captured is complete
\* and damaged at seams only (save() right after prefill, restore()).
CheckpointSound ==
    /\ Aligned(checkpoint.ring, checkpoint.length)
    /\ \A i \in checkpoint.misread : AtSeam(i)

\* Tokens computed without their predecessors sit at the head of a later tile
\* of a prompt or, with the host loop, which starts at the stale position
\* of the storage, among the first Kernel generated tokens: nothing else adds
\* damage, and the damage heals (cold, suffix and decode loops of generate()).
MisreadIsConfined ==
    \A i \in misread :
        AtSeam(i) \/ (~graph /\ i \in goal + 1 .. goal + Kernel)

\* prefill_sequence()'s comment: the tiles are joined seamlessly, base_position
\* advances and all recurrent states persist.
TilesAreSeamless == misread = {}

=============================================================================
