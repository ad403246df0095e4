----------------------------- MODULE LayerRoutes -----------------------------
(***************************************************************************)
(* How the layers of the older engine process a chunk of a prompt when     *)
(* layer-major, wide, full-layer and wide-attention prefill with repacked  *)
(* weights are asked for: which layers work on the whole chunk, from which *)
(* normalised rows, and whose weights they multiply.                       *)
(*                                                                         *)
(* A chunk is [n |-> tokens, full |-> whether it takes the full-layer      *)
(* route]; the environment is the part of it that chooses between routes.  *)
(***************************************************************************)
EXTENDS PackedWeights

CONSTANTS
    Full,           \* kFullPrefillCapacity
    Wide,           \* kM12PrefillBatch
    Batch,          \* kPrefillBatch
    Environments    \* [scheduler, chunk, resident]: "default", "remainder"
                    \* (EXP0374), "b64" (and EXP0377), "compose" (and EXP0382)
                    \* or "partial" (EXP0366); MIINFER_PREFILL_CHUNK; and what
                    \* MIINFER_PREFILL_REPACKED_RESIDENT_* keeps on the device

ASSUME RoutesAssumption ==
    /\ {Full, Wide, Batch} \subseteq Nat \ {0}
    /\ Batch < Wide /\ Wide < Full
    /\ Full % Wide = 0 /\ Wide % Batch = 0
    /\ \A e \in Environments :
          /\ e.scheduler \in {"default", "remainder", "b64", "compose", "partial"}
          /\ e.chunk \in Wide .. Full /\ e.chunk % Batch = 0
          /\ e.resident \in {{}, {"ffn"}, Groups}

-----------------------------------------------------------------------------
\* A count the matrix kernels are used for.
Matrix(e, n) == n >= Wide \/ (e.scheduler = "compose" /\ n = Batch)

WideRecurrent(e, l, n) == Layers[l] = "recurrent" /\ Matrix(e, n)

\* prefill_wide() throws on any other count.
Served(e, n) == Matrix(e, n) => n <= e.chunk /\ n % Batch = 0

\* The native kernels of an attention layer, without which a batch of
\* kPrefillBatch is prepared by the matrix kernels or not at all.
Native(e) == "projections" \notin e.resident

\* prepare_prefill_batch() of an attention layer.
Prepared(e, l, n) ==
    /\ Layers[l] = "attention"
    /\ \/ n \in {Batch, e.chunk}
       \/ e.scheduler = "partial" /\ n \in Wide .. e.chunk /\ n % Batch = 0
    /\ Native(e) \/ (Matrix(e, n) /\ n % Batch = 0)

Batched(e, l, n) == Prepared(e, l, n) /\ Matrix(e, n)

OneByOne(e, l, n) == ~WideRecurrent(e, l, n) /\ ~Batched(e, l, n)

\* Mutant: the full-layer route expects the rows too.
RowsExpectedEverywhere(l, chunk) == l > 1

\* An attention layer takes its normalised rows from the layer before it.
RowsExpected(l, chunk) == ~chunk.full /\ l > 1

\* Every layer leaves the normalised rows of the next, unless it is wide.
RowsMissing(e, chunk) ==
    \E l \in DOMAIN Layers :
        /\ Prepared(e, l, chunk.n) /\ RowsExpected(l, chunk)
        /\ WideRecurrent(e, l - 1, chunk.n)

-----------------------------------------------------------------------------
\* The layers that ask for their packed weights, and those that use them.
Ensures(e, l, n) == Layers[l] = "attention" \/ WideRecurrent(e, l, n)
Multiplies(e, l, n) == Prepared(e, l, n) \/ WideRecurrent(e, l, n)

\* Layer l of a chunk, with the weights of the layers before it released.
Entered(w, e, l, n) == IF Ensures(e, l, n) THEN Ensured(w, l, e.resident) ELSE w

\* The weights once the first l layers are done.
Behind(w, e, n) ==
    LET done[l \in 0 .. Len(Layers)] ==
            IF l = 0 THEN w ELSE Released(Entered(done[l - 1], e, l, n), l)
    IN  done

WeightsForeign(w, e, n) ==
    \E l \in DOMAIN Layers :
        /\ Multiplies(e, l, n)
        /\ ~Own(Entered(Behind(w, e, n)[l - 1], e, l, n), l, e.resident)

Misread(w, e, chunk) ==
    (IF RowsMissing(e, chunk) THEN {"rows"} ELSE {})
        \union (IF WeightsForeign(w, e, chunk.n) THEN {"weights"} ELSE {})

\* The layers a chunk gets to.
Reached(e, n) ==
    {l \in DOMAIN Layers :
        Served(e, n) \/ \A k \in 1 .. l - 1 : Layers[k] = "attention"}

\* Where a call may be left: before a layer, inside one that works token by
\* token, or where a device call fails.
LeftByCancel(w, e, n) ==
    {Behind(w, e, n)[l - 1] : l \in Reached(e, n)}
        \union {Entered(Behind(w, e, n)[l - 1], e, l, n) :
                   l \in {m \in Reached(e, n) : OneByOne(e, m, n)}}

LeftByFailure(w, e, n) ==
    LeftByCancel(w, e, n)
        \union UNION {
            LET before == Behind(w, e, n)[l - 1]
                missing == Missing(before, l, e.resident)
            IN  {Uploaded(before, l, groups) : groups \in {missing \ {"ffn"}, missing}}
            : l \in {m \in Reached(e, n) : Ensures(e, m, n)}}
=============================================================================
