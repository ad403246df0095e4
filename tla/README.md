# MIInfer: specification and verification

MIInfer is a C++/HIP inference engine for one hybrid model (48 recurrent "GDN"
layers and 16 attention layers) with a command line (`run`, `chat`, `serve`).
The part with state worth verifying is the *prefill-v2* engine with its prefix
reuse (`src/src/prefill_v2/`, `src/include/miinfer/prefill_v2/`), the HTTP
server around it (`cmd_serve` in `src/tools/miinfer_cli.cpp`), the code that
separates generated text into channels, and the older engine with its own
session cache (`Qwen35RuntimeEngine`, which `debug run` and its diagnostics
still run). The rest of the repository is numerics, formats, audits and
measurements.

## 1. Inventory

| Component | State it keeps | Operations | Correct when |
|---|---|---|---|
| Generation engine, `PrefillV2Model::generate()` (`prefill_v2/model.cpp`) | live GDN states, live KV rows, logits, captured graphs | one call at a time: match, load, restore, reset, prefill by tiles, checkpoint, persist, sample, decode (graph or host loop) | a call completes its own prompt, whatever earlier calls, checkpoints, files, failures or restarts left behind |
| Prefix checkpoint, `ReusableContext` | a copy of the GDN states, the tokens they stand for, a valid flag; **not** the KV rows | `save`, `check_match`, `restore`, `clear` | its states stand for its tokens, and the KV rows of those tokens are still in the live cache |
| Session files, `PersistentSession` | a directory of `*.miinfer` files: header, tokens, GDN states, KV rows | save to a temporary file and rename, inspect, longest match, load section by section | what is loaded belongs to the tokens that name the file; a short file is a miss |
| Recurrent layer: convolution history (`recurrent_layer.cpp`, `state.cpp`, two kernels) | a ring of four inputs indexed by position; the position in three places | prefill tiles, graph and host decode steps, capture, restore | each token is mixed with its three real predecessors |
| KV cache storage (`kv_cache.cpp`) | one row per position and layer, fixed capacity | store rows, attention over earlier rows, raw download/upload | no row past the capacity is written |
| HTTP server (`cmd_serve`) | accept queue, request queue (8), condition variable, flags, wake pipe | accept, read, answer control requests, enqueue, reject; worker: dequeue, handle; shutdown: drain, notify, join | every connection has one owner, is answered once, in order; shutdown ends |
| Completion contract (`generation_contract.hpp`) | none | `resolve_output_token_limit`, stop reasons | prompt and output fit the context |
| Stream splitter, terminal stream (CLI) | held-back text, open channel, tool-call state | one callback per token, flush at the end | no text lost, duplicated or on the wrong channel, however tokens cut the markup |
| Legacy engine and session cache (CLI, qwen35 path) | LRU list of checkpoints over a radix tree, byte budget | chunked prefill, capture, look up, restore, evict | a restored call ends where a cold one would; a lookup finds the longest live prefix |
| Prefill routes and packed weights of the legacy engine (`qwen35_gpu_pipeline.hpp`, CLI) | scratch buffers shared by the layers, which layer holds which, a flag for normalised rows | a layer prepares a chunk, uploads, multiplies, releases; a chunk is cancelled or fails between or inside layers | a layer multiplies its own weights and reads rows somebody wrote; no chunk is refused |
| Token step of the legacy engine (`qwen35_gpu_pipeline.hpp`, CLI) | buffers of each layer with their quantised copies, ring, state, KV rows; the captured graph and its device position | `prefill_step`, `step`, chains of graph launches, reset; some sixty switches choose the launches | under any switches a token sees what was made for it; a launch of the graph is a step |
| Layers and topology block (`attention_layer.cpp`, `recurrent_layer.cpp`, `topology_block.cpp`) | scratch buffers, KV rows, convolution and GDN state, device positions | launches in fixed order: tile, decode step, profiled copies, captured graphs | every launch reads the operand, layout and position the reference uses |
| OpenAI request/response code, tokenizer, chat templates, GGUF reader, planner | none, or read-only tables | parse, format, encode, check | sequential functions |
| GPU kernels, reference models, audits, benchmarks | - | numerics | out of a model checker's reach |

How they interact. Callers (`run`, `chat`, the server's worker) check the
context limit, then call `generate()` synchronously with an option set and an
`on_token` callback that may ask to stop. `generate()` reads and replaces the
checkpoint and reads and writes session files; the server's main thread and its
worker share the request queue under one mutex and a condition variable, and a
signal handler sets a flag and writes to a pipe the main thread polls.

What is hard here: the checkpoint owns half of its state and relies on the live
cache for the rest; a call may throw or the process may die between any two
phases; files are not synced; the position of the convolution ring is kept in
three places that are updated at different times; two threads and a signal
handler meet in the server. `PROJECT.json` lists these as hazards, at their lines.

## 2. Modules

| Module | Models | Uses |
|---|---|---|
| `Histories` | what the device buffers hold | |
| `ReusableContext` | the in-memory checkpoint | `Histories` |
| `PersistentSession` | the session directory | `Histories` |
| `Generation` | `generate()` over all of the above | extends both |
| `Completion` | what a caller of `generate()` relies on (abstract) | refined by `Generation` |
| `GenerationProofs` | type correctness and safety of `Generation`, that it implements `Completion`, and what failures and careless callers cannot do to it, proved | extends it |
| `ConvHistory` | the convolution ring and its positions | |
| `Server` | `cmd_serve`: two threads, signals, clients | |
| `Markup`, `GeneratedText` | marked-up text, how whole texts are read, the growing text | |
| `ServeStream` | the streaming callback of `cmd_serve` | extends `GeneratedText` |
| `TerminalStream` | what `run` and `chat` print | extends `GeneratedText` |
| `Streams` | both consumers over one generation | extends both |
| `StreamProofs` | that the server streams each symbol once, withholds nothing and sends what the whole text says, and that the terminal shows what the whole text is to show, proved | extends `Streams` |
| `SessionIndex` | the radix tree of the older engine | |
| `PackedWeights` | scratch buffers for repacked weights | |
| `LayerRoutes` | how each layer of the older engine takes a chunk | extends `PackedWeights` |
| `LegacySession` | its `generate()`, checkpoints and chunk schedulers | extends `SessionIndex`, `LayerRoutes` |
| `LegacyProofs` | that the radix tree finds the longest stored prefix, and the safety of `LegacySession`, packed weights included, proved | extends `LegacySession` |
| `Quantities` | the forward pass as the CPU reference states it | |
| `StepLaunches` | the kernels of the older engine's token step | extends `Quantities` |
| `StepPrograms` | which of them a layer launches under which switches | extends `StepLaunches` |
| `StepEngine` | that engine one token at a time: steps, graph launches, resets | extends `StepPrograms` |
| `ReferenceGeneration` | a model that is fed tokens (abstract) | extends `Quantities`, refined by `PrefillModel` and `StepEngine` |
| `AttentionSplits` | which rows a split-K work group reads | |
| `Launches` | each kernel the layers launch, as a step on device memory | extends `Quantities`, `AttentionSplits` |
| `LayerPrograms` | the launch sequences of both kinds of layer | extends `Launches` |
| `TopologyBlock` | a block of four layers and its two buffers | extends `LayerPrograms` |
| `PrefillModel` | tiles, steps, graph replays, resets and resumptions of the model | extends `TopologyBlock` |
| `Engines` | a process with either engine, against one reference | extends `PrefillModel`, instantiates `StepEngine` |
| `LayerProofs` | what the programs of prefill-v2's layers leave behind, and that attention reads every row once, proved | extends `TopologyBlock` |
| `StepProofs` | what one token leaves in the layers of the older engine, under any coherent switches, proved | extends `Engines`, `LayerProofs` |
| `EnginesProofs` | that both engines compute the reference's values, and that a launch of the older engine's graph is a step, proved | extends `StepProofs` |
| `ServerProofs` | the safety of `Server`, proved | extends it |
| `ConvProofs` | the ring and its positions, proved | extends `ConvHistory` |
| `MC...` | instances for TLC | |

### Histories, ReusableContext, PersistentSession, Generation

*The abstraction.* The GDN states after *n* tokens, the KV row of token *n* and
the logits for token *n + 1* are functions of the first *n* tokens, provided all
their inputs belong to the same sequence. So a buffer is represented by the
token sequence that produced it, its *history*; a value computed from inputs
that do not belong together is `Garbage`. `Advanced` is one launch of
`forward()` or `decode()`: the result has a history only if the recurrent states
stand at `base_position` and every earlier KV row belongs to the same tokens.
`StoredRows` writes the rows of the launch, including the overflow of a row past
the capacity into the next head's rows. A step of the host-driven decode loop
leaves `Garbage`: its attention is told to read the row behind the token's own
(`attention_layer.cpp:646`) and its first convolution runs at the position the
prefill left (`model.cpp:1114`), so what it computes belongs to no sequence.

*State.* `recurrentStates` and `kvCaches` are the 48 GDN states and 16 KV
caches, which are always advanced together; `dLogits` is `d_logits_`;
`reusableContext` is `ReusableContext` (valid flag, tokens, GDN copy);
`sessionDir` and `tempFile` are the files, with how far each reaches (`extent`).
`pc`, `call`, `pos`, `lastChunk`, `generated` are the locals of `generate()`.

*Actions*, in the order of the function: `Generate` (entry), `MatchMemory` /
`MissMemory`, `FindSession`, `LoadGdn`, `LoadKv`, `Restore`, `ColdStart`,
`PrefillTile`, `SaveCheckpoint`, `WriteSession`, `RenameSession`,
`SaveSessionFails`, `ComputeLogits`, `SampleStop` / `SampleCancelled` /
`SampleLast` / `SampleToken`, `Decode`, `DecodeFull`. `Fail` is an exception
from a device call: the buffers the phase was writing are untouched or
`Garbage`, the locals die, the engine lives on. `Crash` loses everything but the
files; `PowerLoss` also cuts one complete file short, because nothing is
`fsync`ed. The options of the callers (`run`, `chat`, `serve`) are records of
the six fields of `GenerateOptions` that change control flow.

*`Completion`* has a request, the distribution computed last and the tokens
emitted. `Generation` implements it under the mapping request = `call`, basis =
`dLogits`, emitted = `generated` (`ImplementsCompletion`): cache, sessions,
tiles and decode graph are invisible to the caller.

### ConvHistory

`Generation` takes for granted that a launch at the right position reads the
right convolution inputs. `ConvHistory` looks at exactly that. An input is named
by the index of its token; `ring` is `d_conv_history`; `position` is
`position_` of the storage object. `Tap` is the index arithmetic of the
convolution kernels, `Convolve` one launch, `SuffixBase` the choice between the
position of a captured tile and that of the storage. `misread` collects the
tokens for which some tap was not the real predecessor.

### Server

One step is a section that holds the mutex or one phase of a handler. `main`
and `worker` are the program counters, `mainFd` and `workerFd` the descriptor
each thread has in hand, `pending` and `accepting` the shared queue. What is
written to a socket is abstracted to its status lines (`replies`). `notify_one`
is lost unless the worker sleeps; a spurious wake-up is allowed. `Disconnect`
may come at any moment; `SignalFlag` and `SignalWake` are the two steps of the
signal handler, and a signal on the main thread interrupts `poll()`.

### Markup, GeneratedText, ServeStream, TerminalStream, Streams

A text is a sequence of symbols, one for each part of a marker that a token can
cut off; a result is a sequence of *positions* of the text, so that losing,
repeating and misplacing text can all be told. `GeneratedText` is the growing
text both consumers read. `ServeStream` has the callback's variables
(`processed_pos`, `stream_mode`, `tool_check_state`, `defer_tool_output`) and one
action per turn of its loop, with the flush that follows generation and a client
that disappears. `TerminalStream` is `TerminalTextStream::process()` in the same
way. What they are compared with are the functions that read a *whole* text,
translated separately in `Markup`: `extract_reasoning_and_content()`, which a
request that is not streamed uses, and `terminal_output()`.

### SessionIndex, PackedWeights, LayerRoutes, LegacySession

`SessionIndex` is `insert_session_prefix()` and the lookup as functions on trees. A
tree is kept flat, as a function on its nodes, each named by the tokens on the way
to it, so that the edge to a node is what its name has beyond its parent's. The
recursion of the insertion and the loop of the lookup are the same `Descent`: one
`Turn` for each edge that agrees with the tokens to its end. In `LegacySession` the
checkpoints are in the order of the code's vector and `recency` is the order of
their `last_used`; `Evictions` is what the cache is after so many turns of the
eviction loop and `Evicted` how many it takes until the new checkpoint fits.
`LegacySession` is `Qwen35RuntimeEngine::generate()`: `StartFresh`,
`StartFromCheckpoint` and `RestoreFails` are the lookup with the reset or the
restore that follows; `FullChunk` and `TailChunk` one turn of the prefill loop,
its length from one of five schedulers, with the checkpoint callback at a
boundary; then `PrefillEnds`, `DecodeStep`, `Return`, and `Cancel`, `Fail` and
`Reset` at any point. Device contents are named by tokens as in `Histories`.
`scalar` records whether a layer took tokens one by one (`OneByOne`), which differs
numerically: a checkpoint must not contain such a token.

A chunk goes through the layers one after another. `LayerRoutes` says what each
layer does with it in a given environment: whether it works on the whole chunk
with the matrix kernels (`WideRecurrent`, `Batched`) or token by token, whether it
takes normalised rows from the layer before it (`RowsExpected`), and which of the
two were not there for it (`Misread`). `PackedWeights` is the memory behind it: a
scratch buffer for each matrix to which a layer uploads its repacked weights
unless it holds some already (`Ensured`), and the release at the end of the layer
(`Released`). `Behind` folds a chunk over the layers; `LeftByCancel` and
`LeftByFailure` are the states of the buffers in which a call can be left. The
constant `Environments` ranges over what chooses between these routes: the
scheduler, `MIINFER_PREFILL_CHUNK`, and which weights stay on the device. Layer-major,
wide, full-layer and wide-attention prefill are on, as in the recorded experiments.

### Quantities, AttentionSplits, Launches, LayerPrograms, TopologyBlock, PrefillModel

`Generation` takes a tile or a step as one operation. These modules open it. A
value is named by the quantity it is, its layer and the tokens it depends on;
`Quantities` says which operands each quantity has, as the CPU reference harness
computes it. `Launches` has one operator per kernel: it looks at the operands
that are actually in the buffers it is given and yields the named value only if
they are the ones the reference uses, `Wrong` otherwise. The two Q8_1 layouts
that share a buffer, host and device positions, the in-place reuse of buffers,
the rows that attention reads and the position test of the convolution
(`qwen3_primitives.hip:1747`, `TapsFit`) are part of that. `LayerPrograms` is the launch
sequence of `forward()`, `decode()` and of their profiled copies; `TopologyBlock`
hands a tile from layer to layer through `ping` and `pong`; `PrefillModel` has the
state that outlives a call and the actions `Reset`, `Resume`, `HostTile`, `GraphTile`,
`Save`, `GraphStep`, `HostStep`, `Leave` and `ReturnFromGraph`, in the order in which
a call makes them (`phase`). `position` is the one in the storage of the recurrent
layers. A launch by the host takes the position of the convolution from there, and
`forward()` advances only a copy of it: all tiles of a cold prompt run at 0, all tiles
of a suffix at the length of the resumed prefix (`model.cpp:825`, `862`;
`recurrent_layer.cpp:291`). At a position below `Kernel - 1` that is not the real one
the kernel skips inputs the sequence has (`Cuts`). The auxiliary variable `sound`,
which no action reads, is true while that has not happened since the last reset or in
the checkpoint resumed from. What the properties claim of prefill-v2 is claimed while
it is true; once a convolution was cut, the device holds `Wrong` values and nothing is
claimed of it up to the next `reset_state()`. It implements `ReferenceGeneration`
(`RefinesReference`): to a user the device is a model that is fed tokens, whose logits
are promised for every sequence that was not cut (`Promised`).

### StepLaunches, StepPrograms, StepEngine

The older engine runs a token through `RecurrentLayer::run()` and
`FullAttentionLayer::run()`. Both assemble their launches from some sixty switches
that their constructors read from the environment, and the danger is between the
switches: an activation is quantised into a buffer that outlives the token, in one
of several layouts, and each later kernel relies on an earlier one to have done so.

`StepLaunches` has the memory of a layer (float buffers, quantised copies with
their layouts, ring, state, rows) and one operator per kind of launch, which names
what it writes by the quantity of `Quantities` its operands make, or `Wrong`.
`StepPrograms` is `run()` of both layers as functions of a *setup* (the switches
that are on, by the name of their variable, and the matrices stored as Q6_K) and of
what the caller passes. `LAYER_MAJOR` stands for layer-major, wide-chunk and
wide-attention prefill together. `StepEngine` is the engine around them:
`PrefillStep`, `Step`, `Reset`, `PrefillLayerMajor` (in outline: what it leaves
behind), `BeginChain` (capture, once, and the position in `DeviceDecodeState`) and
`Replay`, one launch of the graph, whose launch arguments are frozen at the position of
the capture.

`Accepted` are the setups on which nothing throws. `Coherent` excludes five
combinations more, each of switches that are right on their own: `NormCopyMissing`
(`MIINFER_FUSED_NORM_Q8` without the fused add and norm that leaves the copy),
`GateCopyMissing` (the first observation of section 3), `RawProjectionsMissing` (a kernel that
reads what another one kept in registers), `GateUpMissing` (an activation made a
second time from buffers nobody wrote) and `ResidentWeightsMissing` (weights that
one switch declares resident and another one uploads).

`Engines` puts both engines under the same question: a process runs one of them, the
tokens given and the logits are shared, and either way every step is one of
`ReferenceGeneration` (`RefinesReference`). `run`, `chat` and `serve` build
prefill-v2, `debug run` the older engine.

## 3. Runs

| Run | Question | Properties | Result |
|---|---|---|---|
| `memory` | chat, and serving without a session directory: every prompt up to four tokens in any order, process deaths | `TypeOK`, `LogitsHaveHidden`, `CheckpointResumable`, `ImplementsCompletion` | hold |
| `disk` | serving with session files: deaths at each point of a save or load, truncated files | `LogitsFollowContext`, `SessionsCoherent`, `CheckpointMatchesLabel` | hold |
| `faults` | device failures in every phase, callers that do not check the context, cold calls through either decode loop between calls that reuse checkpoints and files; fair scheduling | `ColdCallsIndependent`, `WarmFailureTearsNothing`, `CallReturns` | hold |
| `exact_session` | a session file that is the whole prompt | `LogitsHaveHidden` | **violated** |
| `conv` | ring and positions, graph and host loops mixed call by call | `TypeOK`, `RingFollowsSequence`, `CheckpointSound`, `MisreadIsConfined`, `WarmStepsReadHistory` | hold |
| `conv_seam` | are prefill tiles joined seamlessly? | `TilesAreSeamless` | **violated** |
| `server` | three connections of any kind, queue of two, signal and disconnects at any moment | `TypeOK`, `OneOwner`, `AnsweredOnce`, `FirstComeFirstServed` | hold |
| `server_live` | two connections, queue of one | `EveryConnectionEnds`, `ShutdownCompletes` | hold |
| `streams` | is what is streamed what the whole text says, once, in order and without delay? | `ServeMatchesExtraction`, `StreamedOnce`, `NothingWithheld`, `TerminalMatchesOutput` | hold |
| `legacy` | seven branching prompts, five schedulers, three chunk lengths, three choices of resident weights; three checkpoints, a byte budget, failures and cancellation at any layer | `IndexFindsLongest`, `CheckpointsComplete`, `ReplayEquivalent`, `RestorePointKept`, `PayloadCounted`, `ChunksStopAtBoundaries`, `ChunksServed`, `RowsHandedOver`, `OwnWeights` | hold |
| `layers` | do both engines compute what the CPU reference computes? prefill-v2, as long as no convolution is cut: any order of tiles, replayed tiles and steps, resets and resumptions, both quantisation mixes; the older engine: any order of steps, graph launches, resets and prefill, under all coherent combinations of the switches of one stage | `EngineTypeOK`, `TilesHoldSequence`, `StepsHoldSequence`, `ProfiledLayersAgree`, `ReplayIsStep`, `RefinesReference` | hold |
| `host_decode` | prefill-v2 with the host-driven decode loop | `LogitsFollowSequence` | **violated** |

*Findings.*

* `exact_session`. A restarted server that is sent the very prompt of a session
  file restores all of it and runs no tile, so `last_chunk` stays 0 and
  `compute_logits` gets `d_pong_ - kHidden` (unsigned wrap, `model.cpp:890`). The
  path through memory excludes this case and says why (`model.cpp:758`); the path
  through files does not.
* `conv_seam`. On the cold path every tile takes its ring position from the
  storage, where it is still 0 (`model.cpp:862`); the kernel then treats the
  first three tokens of each later tile as the first of the sequence. The
  comment at `model.hpp:134-136` says that tiles are joined seamlessly. In `layers`
  the same launch makes everything behind it `Wrong` (`Cuts`): of a cold prompt longer
  than one tile, `TilesHoldSequence` and `RefinesReference` claim nothing beyond the
  first tile.
* `host_decode`. `decode()` without a device state gives the suffix kernel
  `position + 1` as the position of its first query (`attention_layer.cpp:646`);
  the kernel adds one itself, so the step also attends to the row after its own,
  which the sequence has not written. `forward()` and `decode_profiled()` pass the
  position. After a cold prefill that row is zero, after a longer call it is the
  other call's. In `Generation` such a step therefore yields `Garbage`: what is
  said of the tokens of a call holds of the first one, which is sampled before any
  step, and of the others with the decode graph, which the callers use by default
  (`layers` shows that it is not affected). A checkpoint or session file is taken
  before decoding and survives a host loop.

*Observations without a run.*

* In the older engine, with the native and the Q8_1 gate kernels switched off, the
  gate projection is told that its input is in the Q8_K buffer already
  (`qwen35_gpu_pipeline.hpp:3326`). If the qkv matrix is Q6_K its native kernel has
  read a Q8_1 copy, and nothing has filled the other buffer for this token.
  `docs/current-state.md:818` offers this path as the former one, and line 783 says
  that a copy is shared where its source is exactly the same.
* That is one of the combinations that `Coherent` excludes. TLC refutes
  `RefinesReference` or `StepsHoldSequence` within the first steps of a setup with
  `GateCopyMissing`, `NormCopyMissing`, `RawProjectionsMissing` or `GateUpMissing`.
  `ResidentWeightsMissing` is excluded because the model has no weights to miss. No
  default configuration has any of them.

* A checkpoint of one or two tokens has the fault of `conv_seam` on the warm path
  too: a later suffix tile that is not replayed runs at the checkpoint's position,
  and the kernel takes its first tokens for the first of the sequence
  (`model.cpp:825`). `WarmStepsReadHistory` therefore asks for a prefix no shorter
  than the kernel reaches, which every rendered chat prompt is; in `PrefillModel` it
  is another case of `Cuts`.
* `docs/interactive-serving.md:41-42` says: "Mismatch, reset, cancellation, or
  generation failure clears the cache." It describes the radix trie of the older
  engine, whose handlers do clear it (`miinfer_cli.cpp:2254`, `2263`). `serve` now runs
  prefill-v2 under the same `MIINFER_SESSION_REUSE`, and there nothing clears the
  checkpoint: the handler of a failed request (`miinfer_cli.cpp:5679`) does not, and
  `ReusableContext::clear()` has no caller. Two invariants that the sentence would
  give are refuted by TLC in the configuration of `faults`: that no
  checkpoint is valid after a call that failed (`pc = "idle" /\ outcome = "failed" =>
  ~HasValidPrefix`, eight states: a call takes its checkpoint and throws later), and
  that a valid checkpoint has its rows between calls (`pc = "idle" /\ HasValidPrefix =>
  CheckpointInCache`: a cold call throws after `reset_state()` and leaves the previous
  checkpoint valid over zeroed rows). `WarmFailureTearsNothing` takes no side: it says
  that a failure while a suffix is prefilled leaves no *valid* checkpoint without its
  rows, which would hold as well of code that clears the checkpoint.
* With `cache_prefix_len` set, the checkpoint is labelled with fewer tokens than
  its states stand for (`model.cpp:870`); no caller sets it.
* With the host decode loop the first steps use the stale ring position the
  prefill left (`model.cpp:1114` sets it only after the step);
  `MisreadIsConfined` bounds the damage to the first four generated tokens.
* Once some content has been streamed, tool markup that follows is streamed as
  content too, and is sent again as tool calls at the end
  (`docs/interactive-serving.md:60-61` says that markup is not streamed).
* With tools offered, content before a reasoning block is sent twice when the
  generation ends while the text after `</think>` is still being checked. Without
  tools, a tool marker inside reasoning drops the rest of the text. An opening
  tag that is never closed is streamed as content and extracted as reasoning.
  Whether a newline after a tag is dropped depends on how tokens cut it. The
  properties of `streams` except these cases in their antecedents (`TagsComplete`,
  `NoTools`, `LeadingThoughtOnly`, `Orderly`).
* `TerminalTextStream` drops text up to the next `>` when it follows `</tool_call>`
  in the same piece, and `finish()` drops a trailing part of a marker.
* In the older engine a call with reuse that matches nothing resets the device
  and keeps every checkpoint, which is sound because a checkpoint is a full copy;
  the byte budget counts the KV rows of a checkpoint twice.
* The older engine tells an attention layer that its rows are normalised already
  whenever the layer before it is done (`normalized_ready`, `miinfer_cli.cpp:1624`),
  but a wide recurrent layer leaves none. With the default chunk the full-layer
  route normalises for itself; the partial (EXP0366) and composed (EXP0382) batches
  of 64 and every `MIINFER_PREFILL_CHUNK` below 512 make the layer read what an
  earlier chunk left. TLC shows it when the antecedent of `RowsHandedOver` is
  dropped.
* A cancellation inside a layer that works token by token, or a failed upload,
  leaves the layer holding its scratch buffers. They are shared, so the next call
  finds the weights of another layer in them and takes them for its own
  (`qwen35_gpu_pipeline.hpp:4298`); a full chunk made from them can be checkpointed
  and resumed from. `reset()` does not release them. With all weights resident
  there is nothing to share.
* With a chunk length that does not divide 512, such as the 192 that
  `MIINFER_PREFILL_CHUNK` accepts, chunks step over the boundaries at which
  checkpoints are taken, so a long prompt may leave none. `ChunksStopAtBoundaries`
  therefore asks for a length that divides.
* A scheduler that leaves the remainder to the last chunk (EXP0374 and
  those on top of it) hands the wide layers an unaligned count for a prompt between one wide batch and one
  full chunk, which they refuse; `ChunksServed` excepts that case and no other.
* `decode_profiled()` stores K without the decode state and `forward_profiled()`
  without the prefill state, so both are usable only where they are used, with
  host positions (`ProfiledLayersAgree` compares them there). `decode_step()` and
  the host loop normalise with a compile-time epsilon, `forward()` and the graphs
  with the one of the model file. With Q8 KV modes a first tile goes to a kernel
  that reads the f16 cache, which those modes do not allocate.

*Bounds and why they are enough.*

* Two tokens distinguish agreeing from diverging prompts. Tiles of two and
  prompts of up to four tokens give short, full and multiple tiles and a prompt
  that is an exact multiple; with a checkpoint, every split of a prompt into a
  restored part and a suffix; `faults` has three prompts, of which one continues
  another and one diverges. Capacity 3, 4 or 6 makes the last row reachable, by
  prompts and by decoding. `MaxNew` of up to 4 (1 where decoding does not matter)
  covers the first token, a middle and a last one. `MinPersist` 2 leaves some
  prefixes unpersisted. The number of calls, crashes and failures is not bounded:
  the state space is finite because a call starts from what is left of the
  previous ones.
* `ConvHistory` uses the real kernel width 4, a tile of 8 (a multiple of it, as
  512 is) and prompts from one token to more than two tiles. `MaxLength` bounds the
  decoding; it exceeds the longest prompt by more than the ring.
* `Server`: queues of one and two are full with the clients left over; three
  clients are one per owner (main thread, queue, worker). Clients are symmetric
  in the safety run only. The theorems cover every number of both.
* `Streams`: twelve pieces that contain markers whole, cut at each place, and two
  at once; five of them (`MaxTokens`) open and close a block with text before,
  inside and after it. `BlankLimit` is the white space after which a text is taken
  for content; one makes both sides of the limit common.
* `LegacySession`: batches of 2, 4 and 8 keep the ratios the schedulers rely on
  (64, 128, 512); the prompts branch at a boundary and inside a chunk, one
  is shorter than a chunk, one goes a token beyond two chunks; chunk lengths are 8, 4
  and 6, the last of which does not divide a boundary; three checkpoints and a budget that holds fewer than
  the prompts would fill. Three layers have an attention layer between two recurrent ones, so that there is a
  transition of each kind; one of them needs a larger buffer than another, so that
  a buffer is replaced while a layer holds it. The eleven processes vary one switch
  at a time.
* `PrefillModel`: one block has every kind of layer and of transition, and the
  blocks are alike; capacity 4 is two tiles; three splits are more than the rows
  of a first tile, so empty splits occur. The kernel of the convolution has two taps
  and the tile two tokens, so a second cold tile is cut and one after a resumed prefix
  is not; that a prefix of fewer than three tokens is cut as well needs the real width
  and is covered by the theorems and by `ConvHistory`. A tile is one block of the fragment
  kernel; longer lengths and other block sizes are covered by the theorems about
  `AttentionSplits`. The vocabulary is symmetric.

* `StepEngine`: one block, in which a recurrent layer follows the embedding and
  another recurrent layer, and an attention layer a recurrent one; two tokens and capacity 2, so that a second step finds what the
  first has left and a graph captured at one position is launched at another. The
  switches of one stage (those that decide about one quantised copy) vary together
  around the defaults; across stages they meet only in buffers that each stage writes
  before it reads. The graph is on in the stage that uses positions and with wide
  prefill; the theorem `ReplayCorrect` of `EnginesProofs` covers every setup.

*Deadlock* is checked in every run but the server's, where everything may have
been served and the process may have ended.

*Fairness.* `FairSpec` of `Generation` has weak fairness of the steps of a call:
one thread executes them one after another, each ends. Callers are not obliged
to make a call. `Server` has weak fairness of the main thread, of the worker
thread and of the second step of the signal handler: both threads are scheduled
by the kernel, socket reads and writes end by `SO_RCVTIMEO` / `SO_SNDTIMEO` (ten
seconds), `generate()` ends by its token limit. Clients and signals are not fair:
they may never come. The other modules are checked for safety only: each of
their calls is a sequence of steps that ends by construction.

*Mutants.* Each property of a passing run is paired in `PROJECT.json` with a
plausible bug (the operators marked "Mutant" beside what they change), which
TLC finds with the same configuration.

## 4. Theorems

The theorems about `Generation` are proved for every vocabulary, capacity, tile width, prompt set
and option set allowed by the named assumptions `HistoriesAssumption`,
`PersistAssumption` and `GenerationAssumption`, which every run over
`Generation` evaluates. Their own hypotheses are written out in each statement. Those about `Server` hold
for any finite set of connections and any queue (`ServerAssumption`), those about
`ConvHistory` for any kernel width that divides the tile and any prompts
(`ConvAssumption`). Those about the session cache of the older engine hold for any
tokens and prompts (`PromptsAssumption`), any number of checkpoints and any byte
budget (`SizesAssumption`), any layers with matrices of any sizes
(`LayersAssumption`), any batch sizes that divide one another, and every environment
that the start-up code accepts (`RoutesAssumption`); those about its step engine for
any setups, any layers and any capacity (`QuantitiesAssumption`,
`EnginesAssumption`): incoherent setups too as far as graph launches and single steps
are compared with each other, coherent ones as far as both are compared with the
reference. Those about prefill-v2 hold for any
tokens, any number of blocks of four layers, any capacity, tile, fragment and numbers
of splits (`LaunchesAssumption`) and any quantisation formats
(`PrefillModelAssumption`). Those about the streams hold for any tokens that decode to
a nonempty text (`PiecesAssumption`), any number of them and any limit of white space
(`BlankLimitAssumption`). The one about the terminal adds that `</tool_call>` ends the
token it comes in (`CallsEndTokens`): the tokenizer has one token for that tag, and with
text behind it in the same piece `TerminalTextStream` drops that text up to the next
`>` (section 3). It is stated of the pieces, `Orderly` of the texts they make; TLC
evaluates it on the pieces of the run `streams`.

| Theorem | Module | Hypotheses | Conclusion |
|---|---|---|---|
| `TypeCorrect` | `GenerationProofs` | `PromptsFit` | `[]TypeOK` |
| `LogitsCorrect` | `GenerationProofs` | `SafeCallers`, `GraphDecoding` | `[]LogitsFollowContext` |
| `SessionsCorrect` | `GenerationProofs` | `SafeCallers` | `[]SessionsCoherent` |
| `LabelCorrect` | `GenerationProofs` | `SafeCallers` | `[]CheckpointMatchesLabel` |
| `CheckpointCorrect` | `GenerationProofs` | `SafeCallers`, `CheckpointAlways` | `[]CheckpointResumable` |
| `HiddenCorrect` | `GenerationProofs` | `PromptsFit`, `NoSessions` | `[]LogitsHaveHidden` |
| `GenerateImplementsCompletion` | `GenerationProofs` | `SafeCallers`, `NoSessions`, `GraphDecoding` | `ImplementsCompletion` |
| `ColdCallsCorrect` | `GenerationProofs` | `PromptsFit`, `ColdCallsReset` | `[]ColdCallsIndependent` |
| `WarmFailureCorrect` | `GenerationProofs` | `PromptsFit`, `EveryCallResets` | `WarmFailureTearsNothing` |
| `ServerTypeCorrect` | `ServerProofs` | none | `[]TypeOK` |
| `OwnershipCorrect` | `ServerProofs` | none | `[]OneOwner` |
| `AnswersCorrect` | `ServerProofs` | none | `[]AnsweredOnce` |
| `OrderCorrect` | `ServerProofs` | none | `[]FirstComeFirstServed` |
| `ConvTypeCorrect` | `ConvProofs` | none | `[]TypeOK` |
| `RingCorrect` | `ConvProofs` | none | `[]RingFollowsSequence` |
| `CheckpointRingCorrect` | `ConvProofs` | none | `[]CheckpointSound` |
| `DamageConfined` | `ConvProofs` | none | `[]MisreadIsConfined` |
| `WarmStepsCorrect` | `ConvProofs` | none | `WarmStepsReadHistory` |
| `StreamedOnceCorrect` | `StreamProofs` | none | `[]StreamedOnce` |
| `NothingWithheldCorrect` | `StreamProofs` | none | `[]NothingWithheld` |
| `ServeMatchesCorrect` | `StreamProofs` | none | `[]ServeMatchesExtraction` |
| `TerminalMatchesCorrect` | `StreamProofs` | `CallsEndTokens` | `[]TerminalMatchesOutput` |
| `InsertIs` | `LegacyProofs` | a radix tree, some tokens | a radix tree with that checkpoint and no other changed |
| `RebuiltIs` | `LegacyProofs` | distinct prefixes | a radix tree that maps each to its checkpoint |
| `LongestIs` | `LegacyProofs` | such a tree, any prompt | the longest stored proper prefix, and the longest agreement |
| `SessionInvariant` | `LegacyProofs` | none | `[]IInv` |
| `IndexCorrect` | `LegacyProofs` | none | `[]IndexFindsLongest` |
| `CheckpointsCorrect` | `LegacyProofs` | none | `[]CheckpointsComplete` |
| `ReplayCorrect` | `LegacyProofs` | none | `[]ReplayEquivalent` |
| `RestorePointCorrect` | `LegacyProofs` | none | `[]RestorePointKept` |
| `PayloadCorrect` | `LegacyProofs` | none | `[]PayloadCounted` |
| `ChunksCorrect` | `LegacyProofs` | none | `[]ChunksStopAtBoundaries` |
| `ServedCorrect` | `LegacyProofs` | none | `[]ChunksServed` |
| `RowsCorrect` | `LegacyProofs` | none | `[]RowsHandedOver` |
| `WeightsCorrect` | `LegacyProofs` | none | `[]OwnWeights` |
| `LayerHasItsOwn` | `LegacyProofs` | no layer holds anything | a layer that asks for its weights multiplies its own, and when it has released them no layer holds anything again |
| `TilesCorrect` | `EnginesProofs` | none | `[]TilesHoldSequence` |
| `PrefillLogitsCorrect` | `EnginesProofs` | none | `[]LogitsFollowSequence` |
| `PrefillRefines` | `EnginesProofs` | the process runs prefill-v2 (`Spec` of `PrefillModel`) | `RefinesReference` |
| `PrefixLeaves` | `StepProofs` | coherent switches, room for the token, layers that hold a sequence | layers that hold the sequence with the token, and its logits |
| `StepsCorrect` | `EnginesProofs` | none | `[]StepsHoldSequence` |
| `EnginesRefine` | `EnginesProofs` | none | `RefinesReference` |
| `TypesCorrect` | `EnginesProofs` | none | `[]EngineTypeOK` |
| `ReplayCorrect` | `EnginesProofs` | none | `[]ReplayIsStep` |
| `ProfiledCorrect` | `EnginesProofs` | none | `[]ProfiledLayersAgree` |
| `EveryRowRead` | `LayerProofs` | any length, at least one split | each row is read by some work group |
| `NoRowReadTwice` | `LayerProofs` | the same | and by no other |
| `BlockServesQuery` | `LayerProofs` | the same, a query inside the block | the loop of a fragment block covers the rows of each of its queries |

*The hypotheses.* `PromptsFit`: prompts are shorter than the cache, which
`resolve_output_token_limit()` sees to for all callers in the CLI. `SafeCallers`:
also, generated tokens fit (`Checked`), no device call throws, every
call resets on the cold path, `cache_prefix_len` is 0, and if some call reuses
prefixes then every call takes a checkpoint. The option sets of `run`, `chat`
and `serve` satisfy it (`ChatOptions`, `ServeOptions`, `RunOptions` of
`MCGeneration`); that exceptions and `cache_prefix_len` have to be excluded is
shown by the observations above. A caller
that reused without always taking a checkpoint would find one whose rows an
uncached call has overwritten. `NoSessions`: no call names a session directory;
with one, the finding `exact_session` refutes the conclusion. `GraphDecoding`: every
call decodes with the graph; with the host loop, the finding `host_decode` refutes it.
The theorems without it hold for calls through either loop.
`ColdCallsReset` and `EveryCallResets`: the calls that do not reuse, or all calls,
ask for `reset_state()`; all callers in the CLI do. `ColdCallsCorrect`
and `WarmFailureCorrect` ask for nothing else: device calls may throw anywhere, any mix
of options is allowed and answers may run past the context. `ColdCallsIndependent` is a
statement about the first token of every cold call and about the later ones of those
that decode with the graph, up to the end of the context. The theorems of
`EnginesProofs` about prefill-v2 have no hypothesis on callers; the restriction to
sequences that were not cut is part of the properties they prove (`sound`).
Crashes, power failures and failing saves are allowed throughout.

*The argument.*

* `TypeOK` is not inductive: that the rows read from a file are there needs
  their number, that a launch is well typed needs a nonempty tile inside the
  prompt. `TypeInv` adds where each phase finds `pos` and `generated`
  (`PositionInPrompt`), that a prompt fits (`CallInContext`), that a file is
  selected while it is loaded (`FileSelected`) and how many rows a file has
  (`FilesSized`). `TypeNext` has one step per action.
* `LogitsFollowContext` says something of two phases only; what it rests on is
  where the engine stands in all the others. `SafeInv` says so phase by phase:
  between calls the checkpoint is resumable (`ContextKept`), after the first
  half of a load the states are those of the selected file (`LoadedGdn`), during
  prefill the engine stands after `pos` tokens of the prompt, after a step of the
  graph after all tokens, and before one after all but the last (`EngineFollows`); the
  checkpoint taken in a call is that of its prompt until it returns
  (`ContextTaken`). The one lemma about the device is `LaunchAdvances`: a launch
  over the tokens that come next, within the capacity, moves the engine forward
  along the sequence. `EndsResumable` is why decoding after a checkpoint does not
  harm it.
* For the refinement `HiddenInv` adds that a tile is run before the logits are
  computed: the memory path excludes a checkpoint of the whole prompt.

* The split-K theorems reduce to one fact about rounding up: the chunks of all
  splits together are at least as long as the rows (`ChunkCovers`), and a longer
  sequence has no shorter chunks (`ChunkMonotone`), so the first row of a split
  only moves up from the first query of a block to the last.

* `OneOwner` counts references; the invariant behind it (`Owned`) says where a
  descriptor is instead: open exactly if the main thread, the queue or the worker
  has it, in one place only, with no repetition in either queue. `Numbered` adds
  the request in the main thread's hand to the order of the queue. `Answers` says
  what has been written at each phase of the handler; that a cancelled request
  stays cancelled makes its silence acceptable for good.
* For the ring the invariant (`Phases`) says that a launch runs at a position that
  is behind the true one by whole tiles, hence by whole turns of the ring
  (`TilesAreTurns`). `RingRead` and `RingAfter` carry the alignment through a
  launch; `TapCorrect` shows that a tap is then wrong only if the stale position
  hides a predecessor that exists, and `MisreadAtSeam` that this happens at seams.
  `HostAligned` is the part of the ring the host loop has rewritten since its
  first, misplaced step.

* Behind `ColdCallsIndependent` is `ColdInv`: from the reset on, a call that does
  not reuse stands where its own prompt has led it, phase by phase, so that no
  earlier call, checkpoint or failure is in sight. For `WarmFailureTearsNothing`,
  an action property, `RowsBelowTile` says that a suffix is written behind the rows
  the checkpoint stands for: what a failure spoils begins at `pos`.

* A tree is a radix tree (`Tree`) if every child goes on from its parent with the
  token it is found by, and whatever goes on from a node goes on from the child for
  its next token. `OnTheWay` is the consequence that a descent turns towards every
  node on the way of the tokens; `DescentIs` that it therefore ends at the last of
  them, having passed the longest stored prefix. An insertion splits an edge where
  the tokens leave it (`ForkTree`) and adds a leaf (`GrowTree`); `RebuiltIs` goes
  through the prefixes one by one. `EachTurn` stands in for induction: a property
  that a recursive function on a range keeps from one value to the next holds for
  all, because there is no least value at which it fails.

* None of the nine properties of `LegacySession` is inductive, and they share one
  invariant, `IInv`. `Cached` says of the cache that entries are pairwise different
  and complete, that `recency` has the same tokens, that the tree indexes exactly
  them (`Indexes`) and that the bytes are their sum: an eviction moves entries, so
  the tree is right after it only because it is rebuilt from the entries that are
  left (`EvictIs`, `RemainingFits`). `PrefillInv` and `DecodeInv` say where the
  device stands in the prompt, `ScalarInv` that once tokens went one by one no
  whole chunk is left, so no boundary is captured any more. `AlignedInv` says that a
  prompt is processed in whole chunks up to its last, which keeps boundaries in
  step; `BoundaryIs` and `ScheduledIs` go through the arithmetic of all schedulers.
  `RestorePoint` is stronger than `RestorePointKept`: the restore point is lost only
  if it and the new checkpoint have no room together, and this stays so for the later,
  larger ones (`RestorePointLater`). `RowsInv` and `WeightsInv` hold of the device
  and of every checkpoint at once, because a call copies one to the other.
  `LayerHasItsOwn` is the step of the induction over the layers of a chunk: its
  hypothesis is its own conclusion after the release, and `BehindTurns` with
  `EachTurn` makes it a fact about whole chunks.

* `ReplayIsStep` needs to know what the older engine knows while a chain of launches is
  queued (`ChainKnows`): the position on the device is the number of tokens given, and
  the switches are those the capture asked for. With them every launch that depends on
  a position reads it from the device (`RecurrentSame`, `AttentionSame`), so the
  programs of both are equal (`ProgramsSame`), without a look at what they compute.

* `TilesHoldSequence` says where the rows and states are between two operations; the
  work is in a tile. Its invariant, `DeviceInv`, adds what makes it inductive: that a
  checkpoint's states are those of its own tokens (otherwise a resumption would install
  anything), that caches have their full length, and that the logits are those of the
  sequence. All of that is said under `sound`, the checkpoint's part under its own copy
  of it. Rows of a cache beyond the sequence may be stale, which is why a
  resumption needs no more than that the checkpoint is a prefix. `Places` adds where
  the storage stands in each phase of a call: at 0 while a cold prompt is prefilled, at
  the length of the resumed prefix during a suffix.

  A tile is followed launch by launch in `LayerProofs`. `Holds` says that the first rows
  of a buffer are one named quantity of a layer for each token of the tile. Each kernel
  has a lemma of the form "if its operands hold these quantities its output holds that
  one" (`ExecApply` and the lemmas after it), and each program a chain of them: which
  buffer holds what after every launch, including those that are overwritten in place,
  read through one of two Q8_1 layouts, or picked up by a kernel that depends on formats
  and positions (`AttentionForwardDoes`, `AttentionDecodeDoes`, `RecurrentHalfDoes`,
  `RecurrentForwardDoes`, `RecurrentDecodeDoes`). The convolution and the recurrence go
  through the tile token by token; `ScanDoes` does that without induction, by the
  least token at which they would fail. `RowsInOrder` is where the split-K facts enter:
  whichever attention kernel picks up a query, it reads the rows before it in order.
  `Reached` is the state of the device between two layers: the stream buffer holds the
  inputs of the next layer, the layers before have the whole tile in their caches and
  states and the others do not have it yet. `LayerReaches`, `BlockReaches` and
  `BlocksReach` carry it through a block and through all of them, again by a least
  counterexample, so the number of blocks does not matter.

  `TileAdvances` then serves all three actions that run a tile, because the position
  comes to the same value from the host, from the prefill record and from the decode
  record (`Tells`). The convolution is the exception: the host gives it the storage's
  position, and unless the tile is cut the position test and the slots come out as at
  the real one (`RingFits`, `TapsFound`). The host-driven loop is not among them: its step differs
  (the finding `host_decode`), and it has no part in `Spec`.

* `ProfiledLayersAgree` compares two programs in every buffer, including those whose
  content is nobody's quantity. The forward copy comes to the same program. The copy of
  the decode step does not: it takes the position from the host instead of the record
  on the device, and its attention may pick another split-K kernel. `DeviceInv` gives
  it the same position, `RowsInOrder` the same rows whichever kernel picks up the query
  (`HalfPlaced`), and from there on both programs are the same (`DecodeCopied`).

* For the refinement nothing more is needed: a tile is a `Feed` whose logits are those
  of the longer sequence, or no logits if it or an earlier one was cut; a reset or a
  resumption is a `Rewind` to a prefix, and taking a checkpoint or leaving a call a
  stutter.

* `StepsHoldSequence` is the same question of the older engine, where the kernels depend
  on the setup and the buffers on what earlier tokens left in them. Following every
  combination of switches is out of the question, so `StepProofs` proves rules. A *fact*
  says that a buffer holds a quantity of the layer, or a copy of one in some layout;
  `Leads(p, l, h, K, D, N)` says that the launches `p`, wherever the facts `K` hold,
  make the facts `N` and touch no buffer outside `D`. Each kind of launch has a rule,
  `Then` composes two, and each stage of `run()` has one rule whose facts are
  conditional on the switches that select its kernels (`GivenIf`): what a stage leaves
  for a later one under a switch is exactly what that stage asks for under it, and
  this is where `Coherent` is used. Nothing is ever assumed of a buffer
  that the token has not written, but for the ring, the state and the rows, so
  `OlderInv` has to say nothing of the others. `Passes` is what one layer hands to the
  next (its output, and under two switches the normalised output and its copy);
  `ThroughWalks` and `PrefixLeaves` carry it through all layers by a least
  counterexample. Resets and prefill by layers re-establish the invariant
  directly, and a launch of the graph is a step by `ProgramsSame`.

* The streams. `SentOnce` is the invariant behind `StreamedOnce`: what was sent on either
  channel lies before `at` in the text, in order, and on one channel; a turn of the loop
  only sends a stretch from `at` and moves `at` to the end of it or beyond (`Turn`).
  `NothingWithheld` follows from what `HeldBack` returns (`HeldIs`): a held suffix is the
  beginning of a marker, so it begins with `<` and has no `>` behind it.

  `ServeMatchesExtraction` compares a loop that saw the text in pieces with one that sees
  it whole, and both are compared with a third reading that is not a loop. `Thinks(t, i)`
  says that a thought was opened before `i` and not closed since, `Switch(t, q)` that the
  tag at `q` is the one awaited there; `Said(t, b)` and `Thought(t, b)` are then the
  positions before `b` outside such tags that are content or reasoning, line breaks
  aside. The invariant, `Reading`, says of the callback that its mode is `Thinks(text,
  at)`, that what it has sent is `Said(text, at)` and `Thought(text, at)`, and that no tag
  that matters lies across `at`, *nor will when the text grows* (`Border`): this is what
  holding text back is for, and why the mode, once chosen, stays right when later tokens
  complete a tag (`ReadingGrows`, `HeldBorder`). While a request with tools waits for a
  verdict nothing has been said, which is where `LeadingThoughtOnly` enters. On the other
  side `ExtractReads` shows by a descent from the end of the text (`DownTo`, one turn in
  `ExtractTurn`) that `extract_reasoning_and_content()` yields the same two sets in
  order. The flush sends what is left, or all of it if nothing was (`FlushMatches`).

  `TerminalMatchesOutput` goes the same way. `Visible(t, b)` are the positions before `b`
  that are in no thought, no call and no function, line breaks aside. A block counts from
  its first tag to the first tag that closes it, so that what is visible depends on text
  that is not there yet: after `<` nothing tells whether a block begins. The invariant,
  `TerminalInv`, therefore speaks of *every* orderly text `t` that the present one may
  become (`Becomes`): what has been printed is `Visible(t, taken)`, in order, and the mode
  says which block of `t` the stream stands in (`ShowsWell`). A new token only removes
  texts from those to be considered, and each action is examined against one fixed `t`;
  `TerminalMarkers` and `NothingHeld` say when the search in the present text finds
  what is in `t`. With tools the stream drops the rest of a call together with its
  piece, hence `CallsEndTokens` (`Late`). On the other side
  `OrderlyContent` reduces the extraction to the positions outside thoughts,
  `EraseIs` shows by induction on the blocks left that erasing them one at a time from
  an ever shorter text leaves what is outside all of them (`EraseBlock`: taking out the
  first block does not change what is outside the others), and `OutputIs` applies it
  twice, for calls and for functions; that a function within a call goes with the call is
  `FunctionsKept`.

TLC checked `TypeInv`, `SafeInv`, `ConvInv`, `DeviceInv`, `OlderInv`, `Reading`, all
parts of `IInv`, and `ShowsWell` of the text as it stands, on instances before they were
proved.

*Model-checked only.* Liveness (`CallReturns`, `EveryConnectionEnds`,
`ShutdownCompletes`), which is out of the proof system's reach, and the three findings,
which are counterexamples. Every safety property of a passing run is a theorem.

## 5. Not modelled

Floating-point content of any buffer (the history stands for it); quantised KV
modes; hash collisions of session file names, and files of another model in the
same directory; authentication and routes beyond "answered on the spot with 200
or 4xx"; JSON; weight loading; profiling of the model; the sizes and offsets of
the workspace arena. `chat` has no `/reset` command in the code, although its
documentation names one, so the checkpoint is cleared only by a restart and the
model has no such action.

Most lines of the repository are not state machines and have no counterpart
here: the kernels (`gfx906/`, compared only through the operands they read), the
benches under `bench/` and the audit and bake-off tools under `tools/` (some
24 000 lines of measurement), the CPU reference of the dense model, the format
readers, and the recorded experiments. The older GPU pipeline
(`qwen35_gpu_pipeline.hpp`) is modelled as far as a chunk goes from layer to layer:
routes, rows handed over and whose weights are used, and launch by launch for one
token. The launches of its batch programs are not, nor the routes taken without
layer-major prefill. In the token step the switches between kernels that read and
write the same operands are left out (LDS staging, storing the decay or not, the
copies for direct output), as are the traces and the token the device samples; the
gate and up matrices are never Q6_K, because their constructor refuses that.

## 6. Plan

Next, extending the model: the batch programs of the older pipeline, launch by
launch, against the reference its token step is compared with; the clamping of token
limits with its integer widths; the raw KV layout of a session file and its round
trip; repeated failures in `capture()`.

Next, proving more: the batch programs, once they are modelled, with the rules of
`StepProofs`; what the terminal shows of texts that are not orderly, once the code says
what it should be.
