---------------------------- MODULE LegacySession ----------------------------
(***************************************************************************)
(* generate() of Qwen35RuntimeEngine: layer-major prefill in chunks, and   *)
(* up to kMaxSessionCheckpoints copies of the device state at multiples of *)
(* kFullPrefillCapacity, found again through a radix tree.                 *)
(*                                                                         *)
(* What the device holds is named by tokens: `state' the tokens that the   *)
(* recurrent state and convolution history have consumed, `kv' the token   *)
(* of each row, `scalar' whether any of them went through a layer one by   *)
(* one, and `misread' whether one was made from normalised rows nobody     *)
(* wrote or from the weights of another layer.                             *)
(***************************************************************************)
EXTENDS SessionIndex, LayerRoutes, FiniteSetsExt

CONSTANTS
    Token,          \* the vocabulary
    Prompts,        \* prompts of the calls
    MaxCheckpoints, \* kMaxSessionCheckpoints
    Budget,         \* kSessionCheckpointBudgetBytes
    StateBytes,     \* of a recurrent state
    RowBytes,       \* of a row of the KV cache
    Output          \* tokens that may be generated

ASSUME SizesAssumption ==
    {MaxCheckpoints, Budget, StateBytes, RowBytes} \subseteq Nat \ {0}

\* generate() returns at once from an empty prompt.
ASSUME PromptsAssumption == Prompts \subseteq Seq(Token) \ {<<>>}

VARIABLES
    checkpoints,    \* session_checkpoints_
    recency,        \* their tokens by last_used, oldest first
    root,           \* session_prefix_root_
    bytes,          \* session_checkpoint_bytes_
    live,           \* the state on the device
    phase,          \* "idle", "prefill", "decode"
    prompt, base,   \* of the call
    reused,         \* the tokens it started from
    reuse,          \* reuse_session
    environment,    \* of the process
    weights,        \* the packed weights on the device
    abandoned       \* a call left while a layer held some (history)

cacheVars == <<checkpoints, recency, root, bytes>>
callVars == <<prompt, reused, reuse, environment>>
weightVars == <<weights, abandoned>>
vars == <<cacheVars, live, phase, base, callVars, weightVars>>

Fresh == [state |-> <<>>, kv |-> <<>>, scalar |-> FALSE, misread |-> {}]
Broken == [state |-> <<"?">>, kv |-> <<>>, scalar |-> TRUE, misread |-> {}]

Init ==
    /\ checkpoints = <<>> /\ recency = <<>> /\ root = Root /\ bytes = 0
    /\ live = Fresh
    /\ phase = "idle" /\ prompt = <<>> /\ base = 0
    /\ reused = <<>> /\ reuse = FALSE
    /\ environment \in Environments
    /\ weights = NoWeights /\ abandoned = FALSE

PrefixesOf(entries) == [i \in DOMAIN entries |-> entries[i].tokens]
Total(sizes) ==
    LET upTo[i \in 0 .. Len(sizes)] == IF i = 0 THEN 0 ELSE upTo[i - 1] + sizes[i]
    IN  upTo[Len(sizes)]
StorageBytes(n) == StateBytes + 2 * n * RowBytes

\* touch_session_checkpoint()
Used(order, tokens) ==
    IF tokens \in ToSet(order)
    THEN Append(RemoveAt(order, CHOOSE i \in DOMAIN order : order[i] = tokens), tokens)
    ELSE order

ClearCheckpoints ==
    checkpoints' = <<>> /\ recency' = <<>> /\ root' = Root /\ bytes' = 0

-----------------------------------------------------------------------------
\* The beginning of a call, up to the restored or reset device.

Kept == IF reuse' THEN checkpoints ELSE <<>>

\* What the rebuilt tree finds for the prompt.
Selected == IF reuse' THEN Longest(root', prompt').checkpoint ELSE 0

Begin(next) ==
    /\ phase = "idle"
    /\ prompt' \in Prompts /\ reuse' \in BOOLEAN
    /\ checkpoints' = Kept
    /\ root' = Rebuilt(PrefixesOf(Kept))
    /\ bytes' = Total([i \in DOMAIN Kept |-> Kept[i].bytes])
    /\ phase' = next
    /\ UNCHANGED <<environment, weightVars>>

\* Mutant: the device is not reset.
StartFreshUnreset ==
    /\ Begin("prefill") /\ Selected = 0
    /\ recency' = IF reuse' THEN recency ELSE <<>>
    /\ base' = 0 /\ reused' = <<>>
    /\ UNCHANGED live

StartFresh ==
    /\ Begin("prefill") /\ Selected = 0
    /\ recency' = IF reuse' THEN recency ELSE <<>>
    /\ live' = Fresh
    /\ base' = 0 /\ reused' = <<>>

StartFromCheckpoint ==
    /\ Begin("prefill") /\ Selected # 0
    /\ LET c == checkpoints[Selected]
       IN  /\ recency' = Used(recency, c.tokens)
           /\ live' = c.saved
           /\ base' = Len(c.tokens) /\ reused' = c.tokens

\* The restore is not covered by the handler that clears the checkpoints.
RestoreFails ==
    /\ Begin("idle") /\ Selected # 0
    /\ live' = Broken
    /\ UNCHANGED <<recency, base, reused>>

-----------------------------------------------------------------------------
\* prefill_layer_major(): the length of the next chunk of a prompt.

Left == Len(prompt) - base
Scheduler == environment.scheduler
Remainder == Scheduler \in {"remainder", "b64", "compose"}
Requested == IF Left < environment.chunk THEN Left ELSE environment.chunk

\* Mutant: the part that does not fill a batch is not left for later.
Untrimmed == Requested

Trimmed ==
    IF ~Remainder /\ Requested >= Wide THEN Requested - (Requested % Batch) ELSE Requested

\* Mutant: no fallback for a tail between the two batch sizes.
ScheduledToWide ==
    IF base < Full \/ Trimmed = environment.chunk THEN Trimmed
    ELSE IF Remainder /\ Trimmed >= Wide THEN Wide
    ELSE IF Scheduler \in {"b64", "compose"} /\ Trimmed >= Batch THEN Batch
    ELSE IF Scheduler = "partial" /\ Trimmed > Batch THEN (Trimmed \div Wide) * Wide
    ELSE Trimmed

\* The schedulers that were tried for what is left behind a full chunk.
Scheduled ==
    IF base < Full \/ Trimmed = environment.chunk THEN Trimmed
    ELSE IF Remainder /\ Trimmed >= Wide THEN Wide
    ELSE IF Scheduler \in {"b64", "compose"} /\ Trimmed >= Batch THEN Batch
    ELSE IF Scheduler = "partial" /\ Trimmed >= Wide THEN (Trimmed \div Wide) * Wide
    ELSE IF Scheduler = "partial" /\ Trimmed > Batch THEN Batch
    ELSE Trimmed

FullLayer == Scheduled = Full \/ (Remainder /\ Scheduled = Wide)

Chunk ==
    IF ~FullLayer /\ ~Remainder /\ Scheduled > Batch /\ Scheduled < Wide THEN Batch
    ELSE Scheduled

Route == [n |-> Chunk, full |-> FullLayer]

Processed(scalar) ==
    LET tokens == SubSeq(prompt, base + 1, base + Chunk)
        rows == SubSeq(live.kv, 1, base) \o tokens
    IN  [state |-> live.state \o tokens,
         kv |-> rows \o From(live.kv, Min({Len(rows), Len(live.kv)})),
         scalar |-> live.scalar \/ scalar,
         misread |-> live.misread \union Misread(weights, environment, Route)]

-----------------------------------------------------------------------------
\* capture_session_checkpoint(), from the callback of generate().

Boundary == base + Chunk
IsPowerOfTwo(n) == \E k \in 0 .. n : n = 2 ^ k
ToCapture ==
    /\ IsPowerOfTwo(Boundary \div Full) \/ Boundary = Len(prompt) - (Len(prompt) % Full)
    /\ StorageBytes(Boundary) <= Budget
Tokens == SubSeq(prompt, 1, Boundary)

\* Mutant: the checkpoint that the call resumed from is not kept recent.
TouchedNot == recency

\* The callback first renews the checkpoint the call resumed from.
Touched == IF reused # <<>> THEN Used(recency, reused) ELSE recency

\* evict_oldest_session_checkpoint()
Evict(cache) ==
    LET oldest == CHOOSE i \in DOMAIN cache.entries : cache.entries[i].tokens = Head(cache.order)
    IN  [entries |-> RemoveAt(cache.entries, oldest), order |-> Tail(cache.order),
         bytes |-> cache.bytes - cache.entries[oldest].bytes]

\* What is left after each eviction.
Evictions ==
    LET left[n \in 0 .. Len(Touched)] ==
            IF n = 0 THEN [entries |-> checkpoints, order |-> Touched, bytes |-> bytes]
            ELSE Evict(left[n - 1])
    IN  left

\* Mutant: only the number of checkpoints is limited.
FitsByCount(cache) == Len(cache.entries) < MaxCheckpoints

Fits(cache) ==
    /\ Len(cache.entries) < MaxCheckpoints
    /\ cache.bytes + StorageBytes(Boundary) <= Budget

\* How many of the oldest have to go before the new one fits.
Evicted ==
    Min({n \in 0 .. Len(Touched) : n = Len(Touched) \/ Fits(Evictions[n])})

Remaining == Evictions[Evicted]

\* Mutant: the tree still has the checkpoints that are gone.
RootAfterEvictionStale == root

RootAfterEviction ==
    IF Evicted = 0 THEN root ELSE Rebuilt(PrefixesOf(Remaining.entries))

\* Mutant: the copy is made before the chunk has been processed.
StoredEarly(saved) ==
    [tokens |-> Tokens, bytes |-> StorageBytes(Boundary), saved |-> live]

Stored(saved) ==
    [tokens |-> Tokens, bytes |-> StorageBytes(Boundary),
     saved |-> [saved EXCEPT !.kv = SubSeq(@, 1, Boundary)]]

\* The prefix has a checkpoint already: it is copied again in place.
Recapture(saved) ==
    /\ Tokens \in ToSet(PrefixesOf(checkpoints))
    /\ checkpoints' = [i \in DOMAIN checkpoints |->
           IF checkpoints[i].tokens = Tokens THEN Stored(saved) ELSE checkpoints[i]]
    /\ recency' = Used(Touched, Tokens)
    /\ UNCHANGED <<root, bytes>>

Capture(saved) ==
    /\ Tokens \notin ToSet(PrefixesOf(checkpoints))
    /\ checkpoints' = Append(Remaining.entries, Stored(saved))
    /\ recency' = Append(Remaining.order, Tokens)
    /\ root' = Rebuilt(PrefixesOf(checkpoints'))
    /\ bytes' = Remaining.bytes + StorageBytes(Boundary)

\* No device memory: what was evicted to make room stays evicted.
AllocationFails ==
    /\ Tokens \notin ToSet(PrefixesOf(checkpoints))
    /\ checkpoints' = Remaining.entries
    /\ recency' = Remaining.order
    /\ root' = RootAfterEviction
    /\ bytes' = Remaining.bytes

-----------------------------------------------------------------------------
\* The steps of a call.

\* All layers have taken the chunk, and given up their weights.
Swept ==
    /\ Served(environment, Chunk)
    /\ weights' = Behind(weights, environment, Chunk)[Len(Layers)]
    /\ UNCHANGED abandoned

FullChunk ==
    /\ phase = "prefill" /\ Left > 0 /\ FullLayer
    /\ Swept
    /\ live' = Processed(FALSE)
    /\ base' = Boundary
    /\ IF reuse /\ Boundary % Full = 0
         THEN IF ToCapture
                THEN Recapture(live') \/ Capture(live') \/ AllocationFails
                ELSE recency' = Touched /\ UNCHANGED <<checkpoints, root, bytes>>
         ELSE UNCHANGED cacheVars
    /\ UNCHANGED <<phase, callVars>>

TailChunk ==
    /\ phase = "prefill" /\ Left > 0 /\ ~FullLayer
    /\ Swept
    /\ live' = Processed(\E l \in DOMAIN Layers : OneByOne(environment, l, Chunk))
    /\ base' = Boundary
    /\ UNCHANGED <<cacheVars, phase, callVars>>

PrefillEnds ==
    /\ phase = "prefill" /\ Left = 0
    /\ phase' = "decode"
    /\ UNCHANGED <<cacheVars, live, base, callVars, weightVars>>

\* Every decoded token goes through the layers one by one.
DecodeStep ==
    /\ phase = "decode" /\ Len(live.state) < Len(prompt) + Output
    /\ LET n == Len(live.state)
       IN  live' = [state |-> Append(live.state, "g"), scalar |-> TRUE,
                    kv |-> SubSeq(live.kv, 1, n) \o <<"g">> \o From(live.kv, n + 1),
                    misread |-> live.misread]
    /\ UNCHANGED <<cacheVars, phase, base, callVars, weightVars>>

Return ==
    /\ phase = "decode"
    /\ phase' = "idle"
    /\ UNCHANGED <<cacheVars, live, base, callVars, weightVars>>

\* Where the packed weights are left: as they are between chunks and tokens.
Abandoned(places) ==
    /\ weights' \in {weights} \union
           (IF phase = "prefill" /\ Left > 0 THEN places ELSE {})
    /\ abandoned' = (abandoned \/ ~NothingHeld(weights'))

\* Cancelled between or inside chunks or between tokens.
Cancel ==
    /\ phase # "idle"
    /\ ClearCheckpoints
    /\ phase' = "idle"
    /\ live' \in {live, Broken}
    /\ Abandoned(LeftByCancel(weights, environment, Chunk))
    /\ UNCHANGED <<base, callVars>>

\* A device call fails, in a chunk, in the copy of a checkpoint, or in a step.
Fail ==
    /\ phase # "idle"
    /\ ClearCheckpoints
    /\ phase' = "idle"
    /\ live' = Broken
    /\ Abandoned(LeftByFailure(weights, environment, Chunk))
    /\ UNCHANGED <<base, callVars>>

\* reset(): between calls.
Reset ==
    /\ phase = "idle"
    /\ ClearCheckpoints
    /\ live' = Fresh
    /\ UNCHANGED <<phase, base, callVars, weightVars>>

Next ==
    \/ StartFresh \/ StartFromCheckpoint \/ RestoreFails
    \/ FullChunk \/ TailChunk \/ PrefillEnds
    \/ DecodeStep \/ Return
    \/ Cancel \/ Fail \/ Reset

Spec == Init /\ [][Next]_vars

-----------------------------------------------------------------------------
\* The reference: the longest stored proper prefix of a prompt, by definition.
Stores(tokens) == \E i \in DOMAIN checkpoints : checkpoints[i].tokens = tokens
StoredPrefixes(p) == {n \in 1 .. Len(p) - 1 : Stores(SubSeq(p, 1, n))}

\* The radix tree finds the longest stored proper prefix of every prompt, and
\* tells how far any stored prefix agrees with it, whatever was inserted,
\* copied again, evicted or given up for want of memory before.
IndexFindsLongest ==
    \A p \in Prompts :
        LET found == Longest(root, p)
        IN  /\ IF StoredPrefixes(p) = {} THEN found.checkpoint = 0
               ELSE /\ found.checkpoint \in DOMAIN checkpoints
                    /\ checkpoints[found.checkpoint].tokens
                           = SubSeq(p, 1, Max(StoredPrefixes(p)))
            /\ found.common =
                   Max({0} \union {Shared(checkpoints[i].tokens, p) : i \in DOMAIN checkpoints})

\* Every checkpoint holds exactly the state and the rows of its tokens, none of
\* which went through a layer one by one ("it does not retain scalar-decoded
\* state").
CheckpointsComplete ==
    \A i \in DOMAIN checkpoints :
        LET c == checkpoints[i]
        IN  c.saved.state = c.tokens /\ c.saved.kv = c.tokens /\ ~c.saved.scalar

\* A call that resumed decodes from the state a full replay would have made.
ReplayEquivalent ==
    phase = "decode" =>
        /\ SubSeq(live.state, 1, Len(prompt)) = prompt
        /\ SubSeq(live.kv, 1, Len(prompt)) = prompt

\* The checkpoint a call resumed from outlives the captures of that call as
\* long as any other can be evicted instead.
RestorePointKept ==
    phase = "prefill" /\ reused # <<>> /\ ~Stores(reused) => Len(checkpoints) <= 1

\* The payload cap: the bytes counted are those of the checkpoints and stay in
\* the budget.
PayloadCounted ==
    /\ bytes = Total([i \in DOMAIN checkpoints |-> checkpoints[i].bytes])
    /\ bytes <= Budget /\ Len(checkpoints) <= MaxCheckpoints
    /\ ToSet(recency) = ToSet(PrefixesOf(checkpoints)) /\ Len(recency) = Len(checkpoints)

\* Every chunk is part of what is left and, if chunks divide kFullPrefillCapacity,
\* none goes past a boundary at which a checkpoint may be taken, whatever the
\* scheduler makes of a tail.
ChunksStopAtBoundaries ==
    phase = "prefill" /\ Left > 0 =>
        /\ Chunk \in 1 .. Left
        /\ Full % environment.chunk = 0 => (base % Full) + Chunk <= Full

\* No chunk is refused by the wide layers in the middle of a prompt, but for the
\* first one of the schedulers that leave the unaligned part in it.
ChunksServed ==
    phase = "prefill" /\ Left > 0 /\ ~Served(environment, Chunk) =>
        Remainder /\ base < Full

\* No attention layer takes rows that the wide layer before it did not leave, as
\* long as chunks are Full tokens and no other batch is prepared than these.
RowsHandedOver ==
    environment.scheduler \notin {"partial", "compose"} /\ environment.chunk = Full =>
        "rows" \notin live.misread

\* A layer multiplies the weights of another one only behind a call that was left
\* while a layer held its own, and never if all of them are resident; a call that
\* gets to its end leaves nothing held.
OwnWeights ==
    /\ phase = "decode" => NothingHeld(weights)
    /\ ~abandoned \/ environment.resident = Groups =>
           /\ "weights" \notin live.misread
           /\ \A i \in DOMAIN checkpoints : "weights" \notin checkpoints[i].saved.misread
=============================================================================
