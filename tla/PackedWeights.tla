---------------------------- MODULE PackedWeights ----------------------------
(***************************************************************************)
(* The repacked weights of the older engine that do not stay on the        *)
(* device: one scratch buffer per matrix, g_m23_repacked_scratch, to which *)
(* each layer uploads its own weights, which it holds until it is told to  *)
(* release them.                                                           *)
(*                                                                         *)
(* A scratch buffer is replaced only by a larger one, so its size names    *)
(* it; a layer that holds the old one keeps it.                            *)
(***************************************************************************)
EXTENDS Integers, Sequences, FiniteSets

CONSTANTS
    Layers,         \* "recurrent" or "attention", by layer
    PackedBytes     \* by layer: bytes of a matrix of each group

\* Slots 0-2, of the projections, and 3-5, of the feed-forward network.
Groups == {"projections", "ffn"}

Sizes == {PackedBytes[l][g] : l \in DOMAIN Layers, g \in Groups}
None == 0

ASSUME LayersAssumption ==
    /\ Layers \in Seq({"recurrent", "attention"}) /\ Layers # <<>>
    /\ DOMAIN PackedBytes = DOMAIN Layers
    /\ Sizes \subseteq Nat \ {None}

NoWeights ==
    [scratch |-> [g \in Groups |-> None],           \* the buffer in the slot
     content |-> [g \in Groups |-> [s \in Sizes |-> None]],
     held |-> [l \in DOMAIN Layers |-> [g \in Groups |-> None]]]    \* d_*_mmq

Held(w, l) == {g \in Groups : w.held[l][g] # None}
NothingHeld(w) == \A l \in DOMAIN Layers : Held(w, l) = {}

\* A buffer goes with the last reference to it.
Alive(w) ==
    LET used(g, s) == s = w.scratch[g] \/ \E l \in DOMAIN Layers : w.held[l][g] = s
    IN  [w EXCEPT !.content = [g \in Groups |-> [s \in Sizes |->
            IF used(g, s) THEN w.content[g][s] ELSE None]]]

Larger(a, b) == IF a < b THEN b ELSE a

Uploaded(w, l, groups) ==
    LET bytes(g) == Larger(w.scratch[g], PackedBytes[l][g])
    IN  Alive([scratch |-> [g \in Groups |-> IF g \in groups THEN bytes(g) ELSE w.scratch[g]],
               content |-> [g \in Groups |-> [s \in Sizes |->
                   IF g \in groups /\ s = bytes(g) THEN l ELSE w.content[g][s]]],
               held |-> [w.held EXCEPT ![l] = [g \in Groups |->
                   IF g \in groups THEN bytes(g) ELSE w.held[l][g]]]])

\* Mutant: only the feed-forward weights are released.
ReleasedFfn(w, l) ==
    Alive([w EXCEPT !.held[l]["ffn"] = None])

Released(w, l) ==
    Alive([w EXCEPT !.held[l] = [g \in Groups |-> None]])

\* ensure_m23_repacked(): a layer uploads what it does not hold. What is
\* resident has a buffer of its own.
Missing(w, l, resident) == (Groups \ resident) \ Held(w, l)
Ensured(w, l, resident) == Uploaded(w, l, Missing(w, l, resident))

Own(w, l, resident) ==
    \A g \in Groups \ resident : w.content[g][w.held[l][g]] = l
=============================================================================
