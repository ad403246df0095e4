----------------------------- MODULE Generation -----------------------------
(***************************************************************************)
(* PrefillV2Model::generate() over its reusable state: the live GDN states *)
(* and KV caches, the in-memory checkpoint and the session directory.      *)
(*                                                                         *)
(* One call runs at a time (the server's single worker, the chat loop, the *)
(* run command), so the actions of a call are the consecutive phases of    *)
(* generate().  Between two phases the process may die (Crash), and in a   *)
(* phase that talks to the device the call may throw (Fail); the caller    *)
(* catches the exception and goes on using the same engine.                *)
(***************************************************************************)
EXTENDS ReusableContext, PersistentSession, FiniteSets

CONSTANTS Prompt,     \* the token sequences callers submit
          Options,    \* the GenerateOptions callers submit
          MaxNew,     \* the largest max_new_tokens requested
          Faults,     \* subset of {"crash", "powerloss", "fail"}
          Checked,    \* callers apply resolve_output_token_limit() first
          NoCall      \* no generate() in progress

OptionRecord ==
    [reset : BOOLEAN,     \* reset_state_before
     graph : BOOLEAN,     \* use_hip_graph
     reuse : BOOLEAN,     \* enable_prefix_reuse
     cache : BOOLEAN,     \* cache_prefix_after
     cacheLen : Nat,      \* cache_prefix_len
     dir : BOOLEAN]       \* persistent_session_dir is not empty

Calls == [prompt : Prompt, maxNew : 1 .. MaxNew, opt : Options]

ASSUME GenerationAssumption ==
    /\ Prompt \subseteq Seq(Token) \ {<<>>}
    /\ Options \subseteq OptionRecord
    /\ MaxNew \in Nat \ {0}
    /\ Faults \subseteq {"crash", "powerloss", "fail"}
    /\ Checked \in BOOLEAN
    /\ NoCall \notin Calls

VARIABLES recurrentStates, \* history of the 48 live GDN states
          kvCaches,        \* histories of the live KV rows
          dLogits,         \* history the logits last computed belong to
          pc,              \* phase of the call, "idle" between calls
          call,            \* [prompt, maxNew, opt] of the call, or NoCall
          pos,             \* prompt tokens whose state the engine has
          lastChunk,       \* last_chunk
          generated,       \* stats.generated_tokens
          outcome          \* how the last call ended

device  == <<recurrentStates, kvCaches>>
host    == <<reusableContext>>
storage == <<sessionDir, tempFile>>
locals  == <<dLogits, call, pos, lastChunk, generated>>
vars    == <<device, host, storage, locals, pc, outcome>>

Phases == {"idle", "match", "find", "loadGdn", "loadKv", "restore", "cold",
           "prefill", "save", "write", "rename", "logits", "sampleFirst",
           "decode", "sample"}

Outcomes == {"none", "stop", "cancelled", "limit", "failed"}

\* The tokens the model has been given so far in this call.
Context == call.prompt \o generated

Min2(a, b) == IF a <= b THEN a ELSE b

\* resolve_output_token_limit(): the callers' contract on a request.
WithinContext(prompt, maxNew) ==
    /\ Len(prompt) < Capacity
    /\ maxNew <= Capacity - Len(prompt)

-----------------------------------------------------------------------------
\* A fresh engine over whatever the session directory holds.
FreshEngine ==
    /\ recurrentStates = Blank
    /\ kvCaches = BlankRows
    /\ reusableContext = EmptyContext
    /\ dLogits = Blank
    /\ pc = "idle"
    /\ call = NoCall
    /\ pos = 0
    /\ lastChunk = 0
    /\ generated = <<>>

Init ==
    /\ FreshEngine
    /\ sessionDir = <<>>
    /\ tempFile = NoFile
    /\ outcome = "none"

\* Leave generate().  The locals die; d_logits_ is rewritten before every use.
Return(o) ==
    /\ pc' = "idle"
    /\ outcome' = o
    /\ call' = NoCall
    /\ pos' = 0
    /\ lastChunk' = 0
    /\ generated' = <<>>
    /\ dLogits' = Blank

Goto(phase) ==
    /\ pc' = phase
    /\ UNCHANGED outcome

-----------------------------------------------------------------------------
\* A caller passes the context check and enters generate().
Generate(prompt, maxNew, opt) ==
    /\ pc = "idle"
    /\ Checked => WithinContext(prompt, maxNew)
    /\ call' = [prompt |-> prompt, maxNew |-> maxNew, opt |-> opt]
    /\ Goto("match")
    /\ UNCHANGED <<device, host, storage, dLogits, pos, lastChunk, generated>>

\* Mutant: a checkpoint of the whole prompt is taken for a hit.
MemoryHitWhole == call.opt.reuse /\ ExactMatch(call.prompt)

\* The checkpoint covers a proper prefix of the prompt.
MemoryHit ==
    /\ call.opt.reuse
    /\ ExactMatch(call.prompt)
    /\ Len(reusableContext.tokens) < Len(call.prompt)

MatchMemory ==
    /\ pc = "match"
    /\ MemoryHit
    /\ Goto("restore")
    /\ UNCHANGED <<device, host, storage, locals>>

MissMemory ==
    /\ pc = "match"
    /\ ~MemoryHit
    /\ Goto(IF call.opt.reuse /\ call.opt.dir THEN "find" ELSE "cold")
    /\ UNCHANGED <<device, host, storage, locals>>

FindSession ==
    /\ pc = "find"
    /\ Goto(IF Matching(call.prompt) = {} THEN "cold" ELSE "loadGdn")
    /\ UNCHANGED <<device, host, storage, locals>>

Selected == BestMatch(call.prompt)

\* load_from_file() up to the upload of the GDN states; a short read is a miss.
LoadGdn ==
    /\ pc = "loadGdn"
    /\ IF sessionDir[Selected].extent = "tokens"
       THEN Goto("cold") /\ UNCHANGED recurrentStates
       ELSE Goto("loadKv") /\ recurrentStates' = sessionDir[Selected].gdn
    /\ UNCHANGED <<kvCaches, host, storage, locals>>

\* The rest of load_from_file().  The GDN states are already overwritten when
\* the KV rows turn out to be cut short and the load reports a miss.
LoadKv ==
    /\ pc = "loadKv"
    /\ LET file == sessionDir[Selected] IN
       IF file.extent = "gdn"
       THEN /\ Goto("cold")
            /\ UNCHANGED <<kvCaches, host>>
       ELSE /\ Goto("restore")
            /\ kvCaches' = [i \in Rows |-> IF i <= Len(Selected) THEN file.kv[i]
                                                                 ELSE kvCaches[i]]
            /\ SaveContext(Selected, recurrentStates)
    /\ UNCHANGED <<recurrentStates, storage, locals>>

\* Mutant: the suffix starts one token early.
RestoreOneEarly ==
    /\ pc = "restore"
    /\ recurrentStates' = reusableContext.gdn
    /\ pos' = Len(reusableContext.tokens) - 1
    /\ Goto("prefill")
    /\ UNCHANGED <<kvCaches, host, storage, dLogits, call, lastChunk, generated>>

\* Mutant: only the positions are restored, not the states.
RestoreNoCopy ==
    /\ pc = "restore"
    /\ pos' = Len(reusableContext.tokens)
    /\ Goto(IF Len(reusableContext.tokens) < Len(call.prompt) THEN "prefill" ELSE "save")
    /\ UNCHANGED <<device, host, storage, dLogits, call, lastChunk, generated>>

\* restore_gdn_states() and the start of the suffix prefill.
Restore ==
    /\ pc = "restore"
    /\ recurrentStates' = reusableContext.gdn
    /\ pos' = Len(reusableContext.tokens)
    /\ Goto(IF Len(reusableContext.tokens) < Len(call.prompt) THEN "prefill" ELSE "save")
    /\ UNCHANGED <<kvCaches, host, storage, dLogits, call, lastChunk, generated>>

\* Mutant: reset_state() forgets the recurrent states.
ColdStartKvOnly ==
    /\ pc = "cold"
    /\ kvCaches' = BlankRows
    /\ Goto("prefill")
    /\ UNCHANGED <<recurrentStates, host, storage, locals>>

\* The cold path: reset_state() if asked to.
ColdStart ==
    /\ pc = "cold"
    /\ IF call.opt.reset
       THEN recurrentStates' = Blank /\ kvCaches' = BlankRows
       ELSE UNCHANGED device
    /\ Goto("prefill")
    /\ UNCHANGED <<host, storage, locals>>

\* A launch over `count` tokens at position `base` leaves `out` behind.
Leaves(base, count, out) ==
    /\ recurrentStates' = out
    /\ kvCaches' = StoredRows(kvCaches, base, count, out)

\* Run `tokens` at position `base`; attention reads the rows up to its own.
Run(base, tokens) ==
    Leaves(base, Len(tokens), Advanced(recurrentStates, kvCaches, base, tokens))

\* Mutant: the tile width is not capped.
ChunkUncapped == Len(call.prompt) - pos

\* Tokens of the next tile.
Chunk == Min2(Tile, Len(call.prompt) - pos)

\* Mutant: the loop also runs at pos = prompt_len.
PrefillDoneLate == pos + Chunk > Len(call.prompt)

PrefillDone == pos + Chunk >= Len(call.prompt)

\* One tile of the prompt.
PrefillTile ==
    /\ pc = "prefill"
    /\ Run(pos, SubSeq(call.prompt, pos + 1, pos + Chunk))
    /\ pos' = pos + Chunk
    /\ lastChunk' = Chunk
    /\ Goto(IF PrefillDone THEN "save" ELSE "prefill")
    /\ UNCHANGED <<host, storage, dLogits, call, generated>>

\* Mutant: the last prompt token, which a follow-up repeats, is left out.
SaveLenButLast == IF Len(call.prompt) > 1 THEN Len(call.prompt) - 1 ELSE 1

\* The number of prompt tokens the checkpoint is labelled with.
SaveLen ==
    IF call.opt.cacheLen > 0 THEN Min2(call.opt.cacheLen, Len(call.prompt))
                             ELSE Len(call.prompt)

Saved == Prefix(call.prompt, SaveLen)

\* Capture the checkpoint after prefill, and decide whether to persist it.
SaveCheckpoint ==
    /\ pc = "save"
    /\ IF call.opt.cache
       THEN /\ SaveContext(Saved, recurrentStates)
            /\ Goto(IF call.opt.dir /\ SaveLen >= MinPersist
                       /\ Saved \notin DOMAIN sessionDir
                    THEN "write" ELSE "logits")
       ELSE Goto("logits") /\ UNCHANGED host
    /\ UNCHANGED <<device, storage, locals>>

WriteSession ==
    /\ pc = "write"
    /\ WriteTemp(Saved, recurrentStates, kvCaches)
    /\ Goto("rename")
    /\ UNCHANGED <<device, host, locals>>

RenameSession ==
    /\ pc = "rename"
    /\ RenameTemp
    /\ Goto("logits")
    /\ UNCHANGED <<device, host, locals>>

\* A disk error while writing or renaming is swallowed.
SaveSessionFails ==
    /\ pc \in {"write", "rename"}
    /\ Goto("logits")
    /\ UNCHANGED <<device, host, storage, locals>>

\* The hidden vector of prompt token last_chunk - 1 of the last tile; with no
\* tile run the index wraps below zero and the vector read is anything.
ComputeLogits ==
    /\ pc = "logits"
    /\ dLogits' = IF lastChunk = 0 THEN Garbage ELSE recurrentStates
    /\ Goto("sampleFirst")
    /\ UNCHANGED <<device, host, storage, call, pos, lastChunk, generated>>

-----------------------------------------------------------------------------
\* The sampled token is a stop token.
SampleStop ==
    /\ pc \in {"sampleFirst", "sample"}
    /\ Return("stop")
    /\ UNCHANGED <<device, host, storage>>

\* The sampled token is pushed and on_token asks to stop.
SampleCancelled ==
    /\ pc \in {"sampleFirst", "sample"}
    /\ Return("cancelled")
    /\ UNCHANGED <<device, host, storage>>

\* The sampled token is pushed and was the last one asked for.
SampleLast ==
    /\ pc \in {"sampleFirst", "sample"}
    /\ Len(generated) + 1 >= call.maxNew
    /\ Return("limit")
    /\ UNCHANGED <<device, host, storage>>

SampleToken(t) ==
    /\ pc \in {"sampleFirst", "sample"}
    /\ Len(generated) + 1 < call.maxNew
    /\ generated' = Append(generated, t)
    /\ Goto("decode")
    /\ UNCHANGED <<device, host, storage, dLogits, call, pos, lastChunk>>

\* The token to run next sits at this position of the sequence.
DecodePosition == Len(call.prompt) - 1 + Len(generated)

\* Only the host loop checks the KV capacity.
DecodeFits == call.opt.graph \/ DecodePosition < Capacity

\* One decode launch.  The host loop's decode() makes the kernel read the row
\* behind the token's own, which belongs to no token of the sequence, and its
\* first step convolves at the position the prefill left: what it computes
\* belongs to no sequence.
Decode ==
    /\ pc = "decode"
    /\ DecodeFits
    /\ IF call.opt.graph
       THEN Run(DecodePosition, <<generated[Len(generated)]>>)
       ELSE Leaves(DecodePosition, 1, Garbage)
    /\ dLogits' = recurrentStates'
    /\ Goto("sample")
    /\ UNCHANGED <<host, storage, call, pos, lastChunk, generated>>

DecodeFull ==
    /\ pc = "decode"
    /\ ~DecodeFits
    /\ Return("limit")
    /\ UNCHANGED <<device, host, storage>>

-----------------------------------------------------------------------------
\* A device call throws out of generate().  The buffers the phase was writing
\* are then untouched, or neither the old nor the new content.
Spoilt(rows) == [i \in Rows |-> IF i \in rows THEN Garbage ELSE kvCaches[i]]

RowsBeingWritten ==
    CASE pc = "loadKv"  -> 1 .. Len(Selected)
      [] pc = "cold"    -> Rows
      [] pc = "prefill" -> pos + 1 .. pos + Chunk
      [] OTHER          -> {}

Fail ==
    /\ "fail" \in Faults
    /\ pc \in {"loadGdn", "loadKv", "restore", "cold", "prefill", "save",
               "logits", "decode"}
    /\ Return("failed")
    /\ \/ UNCHANGED <<device, host>>
       \/ /\ pc \in {"loadGdn", "restore", "cold", "prefill", "decode"}
          /\ recurrentStates' = Garbage
          /\ kvCaches' = Spoilt(RowsBeingWritten)
          /\ UNCHANGED host
       \/ /\ pc = "loadKv"
          /\ kvCaches' = Spoilt(RowsBeingWritten)
          /\ UNCHANGED <<recurrentStates, host>>
       \/ /\ pc = "save" /\ call.opt.cache
          /\ reusableContext' = [reusableContext EXCEPT !.gdn = Garbage]
          /\ UNCHANGED device
    /\ UNCHANGED storage

\* The process dies and is started again over the same directory.
Restart ==
    /\ recurrentStates' = Blank
    /\ kvCaches' = BlankRows
    /\ reusableContext' = EmptyContext
    /\ Return("none")

Crash ==
    /\ "crash" \in Faults
    /\ Restart
    /\ UNCHANGED storage

\* Nothing is synced: after a power failure a renamed file may be cut short.
PowerLoss ==
    /\ "powerloss" \in Faults
    /\ Restart
    /\ \E t \in DOMAIN sessionDir, e \in Extents \ {"all"} :
          /\ sessionDir[t].extent = "all"
          /\ sessionDir' = [sessionDir EXCEPT ![t].extent = e]
    /\ UNCHANGED tempFile

-----------------------------------------------------------------------------
GenerateStep ==
    \/ MatchMemory \/ MissMemory \/ FindSession \/ LoadGdn \/ LoadKv
    \/ Restore \/ ColdStart \/ PrefillTile
    \/ SaveCheckpoint \/ WriteSession \/ RenameSession \/ SaveSessionFails
    \/ ComputeLogits
    \/ SampleStop \/ SampleCancelled \/ SampleLast
    \/ \E t \in Token : SampleToken(t)
    \/ Decode \/ DecodeFull

Next ==
    \/ \E p \in Prompt, m \in 1 .. MaxNew, o \in Options : Generate(p, m, o)
    \/ GenerateStep
    \/ Fail \/ Crash \/ PowerLoss

Spec == Init /\ [][Next]_vars

\* Every phase of a call is executed by the calling thread once it is reached.
FairSpec == Spec /\ WF_vars(GenerateStep)

-----------------------------------------------------------------------------
TypeOK ==
    /\ recurrentStates \in History
    /\ kvCaches \in [Rows -> History]
    /\ reusableContext \in Contexts
    /\ \A t \in DOMAIN sessionDir :
          /\ t \in Seq(Token)
          /\ sessionDir[t] \in Sessions
    /\ tempFile \in Files \cup {NoFile}
    /\ dLogits \in History
    /\ pc \in Phases
    /\ call \in Calls \cup {NoCall}
    /\ pc = "idle" <=> call = NoCall
    /\ pos \in Nat
    /\ lastChunk \in 0 .. Tile
    /\ generated \in Seq(Token)
    /\ outcome \in Outcomes

\* Every token is sampled from the logits of exactly this call's prompt and
\* the tokens generated so far - whatever earlier calls, checkpoints, session
\* files and crashes left behind (generate(): reuse, load and cold paths).
\* Calls that restored their whole prompt and ran no tile are excepted.
LogitsFollowContext ==
    pc \in {"sampleFirst", "sample"} /\ lastChunk > 0 => dLogits = Context

\* The comment in generate() on exact-prefix checkpoints: they do not hold the
\* final hidden vector, so a call never goes to the logits without a tile of
\* its own.
LogitsHaveHidden == pc = "logits" => lastChunk > 0

\* The rows of the checkpoint, which it does not own, are in the live cache.
CheckpointInCache ==
    /\ HasValidPrefix
    /\ RowsHold(kvCaches, reusableContext.tokens, Len(reusableContext.tokens))

\* Between calls the checkpoint can be resumed: its GDN copy stands for the
\* tokens it is labelled with and their KV rows, which it does not own, are
\* still in the live cache.
CheckpointResumable ==
    pc = "idle" /\ HasValidPrefix =>
        reusableContext.gdn = reusableContext.tokens /\ CheckpointInCache

\* cache_prefix_len: the checkpoint stands for the first N tokens it is
\* labelled with.
CheckpointMatchesLabel ==
    HasValidPrefix => reusableContext.gdn = reusableContext.tokens

\* Every section a session file reaches belongs to the tokens that name it,
\* so any engine that loads it later resumes that prefix.
SessionsCoherent ==
    \A t \in DOMAIN sessionDir :
        /\ sessionDir[t].gdn = t
        /\ RowsHold(sessionDir[t].kv, t, Len(t))

\* A failure while the suffix of a reused prefix is prefilled tears no
\* checkpoint: one that is still valid afterwards has its rows in the cache,
\* since those lie below the tile being written.  generate() does not clear the
\* checkpoint; the property would hold of code that does.
WarmFailureTearsNothing ==
    [][(/\ pc \in {"restore", "prefill"}
        /\ HasValidPrefix => CheckpointInCache
        /\ outcome' = "failed"
        /\ HasValidPrefix') => CheckpointInCache']_vars

\* A call that does not reuse starts from reset_state(): no failure, overflow,
\* host loop or stale checkpoint of an earlier call reaches its first token,
\* nor, with the decode graph and while the context fits, the later ones.
ColdCallsIndependent ==
    /\ pc \in {"sampleFirst", "sample"}
    /\ ~call.opt.reuse
    /\ generated = <<>> \/ (call.opt.graph /\ Len(Context) <= Capacity)
    => dLogits = Context

\* generate() always comes back, by completion, cancellation or exception.
CallReturns == pc # "idle" ~> pc = "idle"

\* generate() is a completion of its prompt: checkpoint, sessions, tiles and
\* decode graph are invisible to the caller.
Stateless ==
    INSTANCE Completion WITH Request <- Calls, NoRequest <- NoCall,
        request <- call, basis <- dLogits, emitted <- generated

ImplementsCompletion == Stateless!Spec

=============================================================================
