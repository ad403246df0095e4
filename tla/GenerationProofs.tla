-------------------------- MODULE GenerationProofs --------------------------
(***************************************************************************)
(* Theorems about Generation for every vocabulary, capacity, tile, prompt  *)
(* set and option set.                                                     *)
(*                                                                         *)
(* Type correctness needs that prompts fit.  The safety theorems are about *)
(* callers that keep to the discipline of the command line: they check the *)
(* context limit, reset on the cold path, label a checkpoint with the whole*)
(* prompt and, if any call reuses prefixes, checkpoint after every call.   *)
(* Processes may die, files may be cut short and saving them may fail;     *)
(* device calls do not throw.  The host-driven loop computes logits that   *)
(* belong to nothing; checkpoints and session files are proved to survive  *)
(* it, and what is said of the tokens is about the decode graph.  Without  *)
(* session files (chat, run, and serve without session_dir) generate()     *)
(* implements Completion for callers of the graph: checkpoint and tiles    *)
(* are invisible to them.  With every fault allowed, device failures,      *)
(* stale checkpoints and careless callers still cannot reach the tokens of *)
(* a cold call, or tear a checkpoint while a suffix is prefilled.          *)
(***************************************************************************)
EXTENDS Generation, SequenceTheorems, WellFoundedInduction, TLAPS

USE DEF Blank, Rows, BlankRows, Prefix

-----------------------------------------------------------------------------
(* Lemmas about sequences and histories.                                   *)

\* A nonempty set of naturals below a bound has a largest element.
LEMMA LargestExists ==
    ASSUME NEW S \in SUBSET Nat, NEW b \in Nat, S # {},
           \A x \in S : x <= b
    PROVE  \E x \in S : \A y \in S : y <= x
<1> DEFINE T == {b - x : x \in S}
<1>1. T \subseteq Nat /\ T # {}
      <2>1. \A x \in S : b - x \in Nat
            OBVIOUS
      <2>2. PICK x \in S : TRUE
            OBVIOUS
      <2>3. b - x \in T
            OBVIOUS
      <2> QED BY <2>1, <2>3
<1> DEFINE R == OpToRel(<, Nat)
<1> HIDE DEF R
<1>2. IsWellFoundedOn(R, Nat)
      BY NatLessThanWellFounded DEF R
<1>3. PICK z \in T : \A y \in T : <<y, z>> \notin R
      <2> HIDE DEF T
      <2> QED BY <1>1, <1>2, WFMin
<1>4. \A y \in T : ~(y < z)
      BY <1>1, <1>3 DEF OpToRel, R
<1>5. PICK x \in S : z = b - x
      BY <1>3
<1>6. \A y \in S : y <= x
      <2> TAKE y \in S
      <2>1. b - y \in T /\ ~(b - y < z)
            BY <1>4
      <2> QED BY <2>1, <1>5
<1> QED BY <1>6

\* A prefix is a sequence of the length asked for.
LEMMA PrefixType ==
    ASSUME NEW s \in Seq(Token), NEW n \in 0 .. Len(s)
    PROVE  /\ Prefix(s, n) \in Seq(Token)
           /\ Len(Prefix(s, n)) = n
           /\ \A i \in 1 .. n : Prefix(s, n)[i] = s[i]
<1>1. \A i \in 1 .. n : s[i] \in Token
      BY ElementOfSeq
<1> QED BY <1>1, SubSeqProperties

\* The tokens of a tile.
LEMMA TileType ==
    ASSUME NEW s \in Seq(Token), NEW m \in Nat, NEW n \in Nat, m + n <= Len(s)
    PROVE  /\ SubSeq(s, m + 1, m + n) \in Seq(Token)
           /\ Len(SubSeq(s, m + 1, m + n)) = n
<1>1. \A i \in m + 1 .. m + n : s[i] \in Token
      BY ElementOfSeq
<1> QED BY <1>1, SubSeqProperties

\* A spoilt buffer is told apart from every history.
LEMMA GarbageIsNoSequence == Garbage \notin Seq(Token)
BY HistoriesAssumption

\* A launch turns histories into histories.
LEMMA AdvancedType ==
    ASSUME NEW gdn \in History, NEW rows, NEW base \in Nat,
           NEW tokens \in Seq(Token)
    PROVE  LET out == Advanced(gdn, rows, base, tokens) IN
           /\ out \in History
           /\ out # Garbage => out \in Seq(Token) /\ Len(out) = base + Len(tokens)
<1>1. CASE Coherent(gdn, rows, base) /\ base + Len(tokens) <= Capacity
      <2>1. gdn \in Seq(Token) /\ Len(gdn) = base
            BY <1>1 DEF Coherent, History
      <2> QED BY <1>1, <2>1, ConcatProperties DEF Advanced, History
<1>2. CASE ~(Coherent(gdn, rows, base) /\ base + Len(tokens) <= Capacity)
      BY <1>2 DEF Advanced, History
<1> QED BY <1>1, <1>2

\* The rows after a launch are histories again, the overwritten ones included.
LEMMA StoredRowsType ==
    ASSUME NEW rows \in [Rows -> History], NEW base \in Nat, NEW count \in Nat,
           NEW out \in History, out # Garbage => Len(out) = base + count
    PROVE  StoredRows(rows, base, count, out) \in [Rows -> History]
<1>1. ASSUME NEW i \in base + 1 .. base + count, out # Garbage
      PROVE  Prefix(out, i) \in History
      BY <1>1, PrefixType DEF History
<1> QED BY <1>1 DEF StoredRows, History

-----------------------------------------------------------------------------
(* Type correctness.                                                       *)

\* Callers check the context limit, or no prompt is longer than the cache.
PromptsFit == Checked \/ \A p \in Prompt : Len(p) <= Capacity

\* TypeOK with what makes it inductive: where a phase finds the position, the
\* generated tokens and the selected file, and how long the rows of a file are.
CallInContext == call # NoCall => Len(call.prompt) <= Capacity

PositionInPrompt ==
    /\ pc \in {"idle", "match", "find", "loadGdn", "loadKv", "restore", "cold"} => pos = 0
    /\ pc = "prefill" => pos < Len(call.prompt)

FileSelected ==
    pc \in {"loadGdn", "loadKv"} => Matching(call.prompt) # {}

FilesSized ==
    /\ \A t \in DOMAIN sessionDir : Len(sessionDir[t].kv) = Len(t)
    /\ tempFile # NoFile => Len(tempFile.content.kv) = Len(tempFile.name)

TypeInv ==
    /\ TypeOK
    /\ CallInContext
    /\ PositionInPrompt
    /\ pc = "decode" => generated # <<>>
    /\ FileSelected
    /\ pc = "rename" => tempFile # NoFile
    /\ FilesSized

\* The prompt and the options of the call in progress.
LEMMA CallType ==
    ASSUME TypeInv, pc # "idle"
    PROVE  /\ call # NoCall
           /\ call \in Calls
           /\ call.prompt \in Seq(Token)
           /\ call.prompt # <<>>
           /\ Len(call.prompt) \in Nat \ {0}
           /\ Len(call.prompt) <= Capacity
           /\ call.opt \in OptionRecord
<1>1. call \in Calls /\ call # NoCall
      BY DEF TypeInv, TypeOK
<1>2. call.prompt \in Prompt /\ call.opt \in Options
      BY <1>1 DEF Calls
<1>3. call.prompt \in Seq(Token) /\ call.prompt # <<>> /\ call.opt \in OptionRecord
      BY <1>2, GenerationAssumption
<1>4. Len(call.prompt) \in Nat \ {0}
      BY <1>3, EmptySeq
<1> QED BY <1>1, <1>3, <1>4 DEF TypeInv, CallInContext

\* find_matching_session() returns one of the matching files.
LEMMA SelectedType ==
    ASSUME TypeInv, pc \in {"loadGdn", "loadKv"}
    PROVE  /\ Selected \in Matching(call.prompt)
           /\ Selected \in DOMAIN sessionDir
           /\ Selected \in Seq(Token)
           /\ sessionDir[Selected] \in Sessions
           /\ Len(sessionDir[Selected].kv) = Len(Selected)
           /\ Len(Selected) <= Len(call.prompt)
           /\ Prefix(call.prompt, Len(Selected)) = Selected
           /\ Selected # <<>>
<1> DEFINE M == Matching(call.prompt)
           L == {Len(t) : t \in M}
<1>1. M # {} /\ \A t \in M : /\ t \in DOMAIN sessionDir
                             /\ t \in Seq(Token)
                             /\ Len(t) <= Len(call.prompt)
      BY DEF TypeInv, TypeOK, FileSelected, Matching
<1>2. Len(call.prompt) \in Nat
      BY CallType
<1>3. L \in SUBSET Nat /\ L # {} /\ \A x \in L : x <= Len(call.prompt)
      <2>1. \A t \in M : Len(t) \in Nat
            BY <1>1, LenProperties
      <2>2. PICK t \in M : TRUE
            BY <1>1
      <2>3. Len(t) \in L
            OBVIOUS
      <2> QED BY <1>1, <2>1, <2>3
<1>4. PICK x \in L : \A y \in L : y <= x
      <2> HIDE DEF L
      <2> QED BY <1>2, <1>3, LargestExists
<1>5. \E t \in M : \A u \in M : Len(u) <= Len(t)
      <2>1. PICK t \in M : x = Len(t)
            OBVIOUS
      <2>2. \A u \in M : Len(u) \in L
            OBVIOUS
      <2> QED BY <1>4, <2>1, <2>2
<1>6. Selected \in M
      BY <1>5 DEF Selected, BestMatch
<1> QED BY <1>1, <1>6 DEF TypeInv, TypeOK, FilesSized, Matching

\* The next tile is not empty, no wider than a tile and inside the prompt.
LEMMA ChunkType ==
    ASSUME TypeInv, pc = "prefill"
    PROVE  /\ Chunk \in 1 .. Tile
           /\ pos + Chunk <= Len(call.prompt)
           /\ SubSeq(call.prompt, pos + 1, pos + Chunk) \in Seq(Token)
           /\ Len(SubSeq(call.prompt, pos + 1, pos + Chunk)) = Chunk
<1>1. pos \in Nat /\ pos < Len(call.prompt) /\ Len(call.prompt) \in Nat
      BY CallType DEF TypeInv, TypeOK, PositionInPrompt
<1>2. Chunk \in 1 .. Tile /\ pos + Chunk <= Len(call.prompt)
      BY <1>1, HistoriesAssumption DEF Chunk, Min2
<1> QED BY <1>1, <1>2, CallType, TileType

\* The checkpoint is labelled with a nonempty prefix of the prompt.
LEMMA SavedType ==
    ASSUME TypeInv, pc # "idle"
    PROVE  /\ SaveLen \in 1 .. Len(call.prompt)
           /\ Saved \in Seq(Token)
           /\ Len(Saved) = SaveLen
<1>1. call.opt.cacheLen \in Nat
      BY CallType DEF OptionRecord
<1>2. SaveLen \in 1 .. Len(call.prompt)
      BY <1>1, CallType DEF SaveLen, Min2
<1> QED BY <1>2, CallType, PrefixType DEF Saved

\* Leaving generate() puts the locals back, whatever else happens.
LEMMA ReturnType ==
    ASSUME TypeInv, NEW o \in Outcomes, Return(o),
           recurrentStates' \in History,
           kvCaches' \in [Rows -> History],
           reusableContext' \in Contexts,
           UNCHANGED tempFile,
           \A t \in DOMAIN sessionDir' :
               /\ t \in Seq(Token)
               /\ sessionDir'[t] \in Sessions
               /\ Len(sessionDir'[t].kv) = Len(t)
    PROVE  TypeInv'
<1>1. <<>> \in History /\ <<>> \in Seq(Token)
      BY EmptySeq DEF History
<1> QED
    <2>1. TypeOK'
          BY <1>1, HistoriesAssumption DEF Return, TypeInv, TypeOK, Phases
    <2>2. FilesSized'
          BY DEF TypeInv, FilesSized
    <2> QED
        BY <2>1, <2>2
        DEF Return, TypeInv, CallInContext, PositionInPrompt, FileSelected

\* The unchanged directory satisfies what ReturnType asks for.
LEMMA DirectoryType ==
    ASSUME TypeInv, UNCHANGED storage
    PROVE  /\ UNCHANGED tempFile
           /\ \A t \in DOMAIN sessionDir' :
                 /\ t \in Seq(Token)
                 /\ sessionDir'[t] \in Sessions
                 /\ Len(sessionDir'[t].kv) = Len(t)
BY DEF TypeInv, TypeOK, FilesSized, storage

\* save() keeps the checkpoint well typed.
LEMMA SaveContextType ==
    ASSUME NEW tokens \in Seq(Token), NEW gdn \in History, SaveContext(tokens, gdn)
    PROVE  reusableContext' \in Contexts
<1>1. <<>> \in Seq(Token)
      BY EmptySeq
<1> QED BY <1>1 DEF SaveContext, EmptyContext, Contexts, History

\* A fresh engine is well typed.
LEMMA RestartType ==
    ASSUME recurrentStates' = Blank, kvCaches' = BlankRows,
           reusableContext' = EmptyContext
    PROVE  /\ recurrentStates' \in History
           /\ kvCaches' \in [Rows -> History]
           /\ reusableContext' \in Contexts
<1>1. <<>> \in Seq(Token)
      BY EmptySeq
<1> QED BY <1>1 DEF EmptyContext, Contexts, History

\* A launch at the position of a call keeps the device well typed.
LEMMA RunType ==
    ASSUME TypeInv, NEW base \in Nat, NEW tokens \in Seq(Token), Run(base, tokens)
    PROVE  /\ recurrentStates' \in History
           /\ kvCaches' \in [Rows -> History]
<1> DEFINE out == Advanced(recurrentStates, kvCaches, base, tokens)
<1>1. out \in History /\ (out # Garbage => Len(out) = base + Len(tokens))
      BY AdvancedType DEF TypeInv, TypeOK
<1>2. Len(tokens) \in Nat
      BY LenProperties
<1>3. StoredRows(kvCaches, base, Len(tokens), out) \in [Rows -> History]
      <2> HIDE DEF out
      <2> QED BY <1>1, <1>2, StoredRowsType DEF TypeInv, TypeOK
<1> QED BY <1>1, <1>3 DEF Run, Leaves

\* A decode launch of either loop stores the row of its own position only.
LEMMA DecodeStores ==
    ASSUME TypeInv, Decode
    PROVE  /\ DecodePosition \in Nat
           /\ recurrentStates' \in History
           /\ kvCaches' \in [Rows -> History]
           /\ \E out : kvCaches' = StoredRows(kvCaches, DecodePosition, 1, out)
<1> DEFINE last == <<generated[Len(generated)]>>
<1>1. generated \in Seq(Token) /\ Len(generated) \in Nat \ {0}
      BY EmptySeq, LenProperties DEF Decode, TypeInv, TypeOK
<1>2. generated[Len(generated)] \in Token
      BY <1>1, ElementOfSeq
<1>3. last \in Seq(Token) /\ Len(last) = 1
      BY <1>2
<1>4. DecodePosition \in Nat
      BY <1>1, CallType DEF Decode, DecodePosition
<1>5. CASE call.opt.graph
      <2>1. Run(DecodePosition, last)
            BY <1>5 DEF Decode
      <2>2. recurrentStates' \in History /\ kvCaches' \in [Rows -> History]
            <3> HIDE DEF last
            <3> QED BY <1>3, <1>4, <2>1, RunType
      <2>3. \E out : kvCaches' = StoredRows(kvCaches, DecodePosition, 1, out)
            <3> HIDE DEF last
            <3> QED BY <1>3, <2>1 DEF Run, Leaves
      <2> QED BY <1>4, <2>2, <2>3
<1>6. CASE ~call.opt.graph
      <2>1. Leaves(DecodePosition, 1, Garbage)
            BY <1>6 DEF Decode
      <2>2. Garbage \in History
            BY DEF History
      <2>3. StoredRows(kvCaches, DecodePosition, 1, Garbage) \in [Rows -> History]
            BY <1>4, <2>2, StoredRowsType DEF TypeInv, TypeOK
      <2> QED BY <1>4, <2>1, <2>2, <2>3 DEF Leaves
<1> QED BY <1>5, <1>6

\* The initial states satisfy the inductive invariant.
LEMMA TypeInit == Init => TypeInv
<1>1. <<>> \in History /\ <<>> \in Seq(Token)
      BY EmptySeq DEF History
<1> QED
    BY <1>1, HistoriesAssumption
    DEF Init, FreshEngine, EmptyContext, Contexts, TypeInv, TypeOK, Phases, Outcomes,
        CallInContext, PositionInPrompt, FileSelected, FilesSized

\* Every step of a call, every fault and every stutter preserves it.
LEMMA TypeNext ==
    ASSUME PromptsFit, TypeInv, [Next]_vars
    PROVE  TypeInv'
<1> USE DEF device, host, storage, locals, Goto
<1>1. ASSUME NEW p \in Prompt, NEW m \in 1 .. MaxNew, NEW o \in Options,
             Generate(p, m, o)
      PROVE  TypeInv'
      <2>1. call' \in Calls /\ call' # NoCall /\ call'.prompt = p
            BY <1>1, GenerationAssumption DEF Generate, Calls
      <2>2. Len(p) <= Capacity
            <3>1. Len(p) \in Nat
                  BY GenerationAssumption, LenProperties
            <3> QED BY <1>1, <3>1, HistoriesAssumption DEF PromptsFit, Generate, WithinContext
      <2> QED
          BY <1>1, <2>1, <2>2 DEF Generate, TypeInv, TypeOK, Phases, Outcomes, CallInContext,
                            PositionInPrompt, FileSelected, FilesSized
<1>2. CASE MatchMemory
      BY <1>2 DEF MatchMemory, TypeInv, TypeOK, Phases, CallInContext,
                  PositionInPrompt, FileSelected, FilesSized
<1>3. CASE MissMemory
      BY <1>3 DEF MissMemory, TypeInv, TypeOK, Phases, CallInContext,
                  PositionInPrompt, FileSelected, FilesSized
<1>4. CASE FindSession
      BY <1>4 DEF FindSession, Matching, TypeInv, TypeOK, Phases, CallInContext,
                  PositionInPrompt, FileSelected, FilesSized
<1>5. CASE LoadGdn
      <2>1. sessionDir[Selected].gdn \in History
            BY <1>5, SelectedType DEF LoadGdn, Sessions
      <2> QED
          BY <1>5, <2>1 DEF LoadGdn, Matching, TypeInv, TypeOK, Phases, CallInContext,
                            PositionInPrompt, FileSelected, FilesSized
<1>6. CASE LoadKv
      <2>1. Selected \in Seq(Token)
            /\ Len(Selected) \in Nat
            /\ Len(sessionDir[Selected].kv) = Len(Selected)
            /\ sessionDir[Selected].kv \in Seq(History)
            BY <1>6, SelectedType, LenProperties DEF LoadKv, Sessions
      <2>2. \A i \in 1 .. Len(Selected) : sessionDir[Selected].kv[i] \in History
            BY <2>1, ElementOfSeq
      <2>3. [i \in Rows |-> IF i <= Len(Selected) THEN sessionDir[Selected].kv[i]
                                                  ELSE kvCaches[i]] \in [Rows -> History]
            BY <2>1, <2>2 DEF TypeInv, TypeOK
      <2>4. kvCaches' \in [Rows -> History]
            BY <1>6, <2>3 DEF LoadKv, TypeInv, TypeOK
      <2>5. reusableContext' \in Contexts
            <3>1. SaveContext(Selected, recurrentStates) \/ UNCHANGED reusableContext
                  BY <1>6 DEF LoadKv
            <3> QED
                BY <2>1, <3>1, SaveContextType DEF TypeInv, TypeOK
      <2> QED
          BY <1>6, <2>4, <2>5 DEF LoadKv, TypeInv, TypeOK, Phases, CallInContext,
                            PositionInPrompt, FileSelected, FilesSized
<1>7. CASE Restore
      <2>1. reusableContext.gdn \in History /\ Len(reusableContext.tokens) \in Nat
            BY LenProperties DEF TypeInv, TypeOK, Contexts
      <2> QED
          BY <1>7, <2>1 DEF Restore, TypeInv, TypeOK, Phases, CallInContext,
                            PositionInPrompt, FileSelected, FilesSized
<1>8. CASE ColdStart
      <2>1. <<>> \in History
            BY EmptySeq DEF History
      <2>2. Len(call.prompt) \in Nat \ {0}
            BY <1>8, CallType DEF ColdStart
      <2> QED
          BY <1>8, <2>1, <2>2 DEF ColdStart, TypeInv, TypeOK, Phases, CallInContext,
                                  PositionInPrompt, FileSelected, FilesSized
<1>9. CASE PrefillTile
      <2>1. recurrentStates' \in History /\ kvCaches' \in [Rows -> History]
            BY <1>9, ChunkType, RunType DEF PrefillTile, TypeInv, TypeOK
      <2>2. /\ pos' \in Nat /\ lastChunk' \in 0 .. Tile
            /\ pc' \in {"save", "prefill"}
            /\ pc' = "prefill" => pos' < Len(call.prompt)
            <3>1. pos \in Nat
                  BY DEF TypeInv, TypeOK
            <3>2. Len(call.prompt) \in Nat /\ pos + Chunk <= Len(call.prompt)
                  BY <1>9, ChunkType, CallType DEF PrefillTile
            <3>3. Chunk \in 1 .. Tile
                  BY <1>9, ChunkType DEF PrefillTile
            <3> HIDE DEF Chunk
            <3> QED
                BY <1>9, <3>1, <3>2, <3>3, HistoriesAssumption DEF PrefillTile, PrefillDone
      <2> QED
          BY <1>9, <2>1, <2>2 DEF PrefillTile, TypeInv, TypeOK, Phases, CallInContext,
                                  PositionInPrompt, FileSelected, FilesSized
<1>10. CASE SaveCheckpoint
      <2>1. reusableContext' \in Contexts
            <3>1. Saved \in Seq(Token)
                  BY <1>10, SavedType DEF SaveCheckpoint
            <3>2. SaveContext(Saved, recurrentStates) \/ UNCHANGED reusableContext
                  BY <1>10 DEF SaveCheckpoint
            <3> QED
                BY <3>1, <3>2, SaveContextType DEF TypeInv, TypeOK
      <2> QED
          BY <1>10, <2>1 DEF SaveCheckpoint, TypeInv, TypeOK, Phases, CallInContext,
                             PositionInPrompt, FileSelected, FilesSized
<1>11. CASE WriteSession
      <2>1. Saved \in Seq(Token) /\ Len(Saved) \in Nat /\ Len(Saved) <= Capacity
            <3>1. pc # "idle"
                  BY <1>11 DEF WriteSession
            <3> QED BY <3>1, SavedType, CallType, HistoriesAssumption
      <2>2. [i \in 1 .. Len(Saved) |-> kvCaches[i]] \in Seq(History)
            BY <2>1, HistoriesAssumption DEF TypeInv, TypeOK
      <2>3. Len([i \in 1 .. Len(Saved) |-> kvCaches[i]]) = Len(Saved)
            BY <2>1
      <2>4. tempFile' \in Files /\ Len(tempFile'.content.kv) = Len(tempFile'.name)
            BY <1>11, <2>1, <2>2, <2>3
            DEF WriteSession, WriteTemp, Content, Files, Sessions, Extents, TypeInv, TypeOK
      <2>5. tempFile' # NoFile
            BY <2>4, PersistAssumption
      <2> QED
          BY <1>11, <2>4, <2>5 DEF WriteSession, WriteTemp, TypeInv, TypeOK, Phases,
                    CallInContext, PositionInPrompt, FileSelected, FilesSized
<1>12. CASE RenameSession
      <2>1. tempFile \in Files /\ Len(tempFile.content.kv) = Len(tempFile.name)
            BY <1>12 DEF RenameSession, TypeInv, TypeOK, FilesSized
      <2>2. \A t \in DOMAIN sessionDir' : /\ t \in Seq(Token)
                                          /\ sessionDir'[t] \in Sessions
                                          /\ Len(sessionDir'[t].kv) = Len(t)
            BY <1>12, <2>1
            DEF RenameSession, RenameTemp, Files, TypeInv, TypeOK, FilesSized
      <2> QED
          BY <1>12, <2>2 DEF RenameSession, RenameTemp, TypeInv, TypeOK, Phases,
                    CallInContext, PositionInPrompt, FileSelected, FilesSized
<1>13. CASE SaveSessionFails
      BY <1>13 DEF SaveSessionFails, TypeInv, TypeOK, Phases, CallInContext,
                   PositionInPrompt, FileSelected, FilesSized
<1>14. CASE ComputeLogits
      <2>1. dLogits' \in History
            BY <1>14 DEF ComputeLogits, History, TypeInv, TypeOK
      <2> QED
          BY <1>14, <2>1 DEF ComputeLogits, TypeInv, TypeOK, Phases, CallInContext,
                             PositionInPrompt, FileSelected, FilesSized
<1>15. CASE SampleStop \/ SampleCancelled \/ SampleLast \/ DecodeFull
      <2>1. PICK o \in Outcomes : Return(o)
            BY <1>15 DEF SampleStop, SampleCancelled, SampleLast, DecodeFull, Outcomes
      <2>2. UNCHANGED <<device, host, storage>>
            BY <1>15 DEF SampleStop, SampleCancelled, SampleLast, DecodeFull
      <2> QED BY <2>1, <2>2, ReturnType, DirectoryType DEF TypeInv, TypeOK
<1>16. ASSUME NEW t \in Token, SampleToken(t)
      PROVE  TypeInv'
      <2>1. generated' \in Seq(Token) /\ generated' # <<>>
            BY <1>16, AppendProperties DEF SampleToken, TypeInv, TypeOK
      <2> QED
          BY <1>16, <2>1 DEF SampleToken, TypeInv, TypeOK, Phases, CallInContext,
                             PositionInPrompt, FileSelected, FilesSized
<1>17. CASE Decode
      <2>1. recurrentStates' \in History /\ kvCaches' \in [Rows -> History]
            BY <1>17, DecodeStores
      <2>2. dLogits' \in History /\ pc' = "sample"
            /\ UNCHANGED <<host, storage, call, pos, lastChunk, generated, outcome>>
            BY <1>17, <2>1 DEF Decode
      <2> QED
          BY <1>17, <2>1, <2>2 DEF Decode, TypeInv, TypeOK, Phases, CallInContext,
                             PositionInPrompt, FileSelected, FilesSized
<1>18. CASE Fail
      <2>1. Return("failed") /\ UNCHANGED storage
            BY <1>18 DEF Fail
      <2>2. Garbage \in History
            BY DEF History
      <2>3. Spoilt(RowsBeingWritten) \in [Rows -> History]
            BY <2>2 DEF Spoilt, TypeInv, TypeOK
      <2>4. [reusableContext EXCEPT !.gdn = Garbage] \in Contexts
            BY <2>2 DEF Contexts, TypeInv, TypeOK
      <2>5. /\ recurrentStates' \in History
            /\ kvCaches' \in [Rows -> History]
            /\ reusableContext' \in Contexts
            BY <1>18, <2>2, <2>3, <2>4 DEF Fail, TypeInv, TypeOK
      <2> QED BY <2>1, <2>5, ReturnType, DirectoryType DEF Outcomes
<1>19. CASE Crash \/ PowerLoss
      <2>1. /\ Return("none")
            /\ recurrentStates' \in History
            /\ kvCaches' \in [Rows -> History]
            /\ reusableContext' \in Contexts
            BY <1>19, EmptySeq, RestartType DEF Crash, PowerLoss, Restart
      <2>2. /\ UNCHANGED tempFile
            /\ \A t \in DOMAIN sessionDir' :
                  /\ t \in Seq(Token)
                  /\ sessionDir'[t] \in Sessions
                  /\ Len(sessionDir'[t].kv) = Len(t)
            <3>1. CASE Crash
                  BY <3>1, DirectoryType DEF Crash
            <3>2. CASE PowerLoss
                  BY <3>2 DEF PowerLoss, Sessions, TypeInv, TypeOK, FilesSized
            <3> QED BY <1>19, <3>1, <3>2
      <2> QED BY <2>1, <2>2, ReturnType DEF Outcomes
<1>20. CASE UNCHANGED vars
      BY <1>20 DEF vars, TypeInv, TypeOK, CallInContext, PositionInPrompt,
                   FileSelected, Matching, FilesSized
<1> QED
    BY <1>1, <1>2, <1>3, <1>4, <1>5, <1>6, <1>7, <1>8, <1>9, <1>10, <1>11, <1>12,
       <1>13, <1>14, <1>15, <1>16, <1>17, <1>18, <1>19, <1>20
    DEF Next, GenerateStep

\* Every buffer of the engine, the checkpoint, the session files and the locals
\* of generate() keep their shape in every behaviour, for any vocabulary,
\* capacity, tile, prompts and options, faults included.
THEOREM TypeCorrect == ASSUME PromptsFit PROVE Spec => []TypeOK
<1>1. TypeInv /\ [Next]_vars => TypeInv'
      BY TypeNext
<1>2. TypeInv => TypeOK
      BY DEF TypeInv
<1> QED BY <1>1, <1>2, TypeInit, PTL DEF Spec

-----------------------------------------------------------------------------
(* What a call computes.                                                   *)
HIDE DEF Blank, Rows, BlankRows, Prefix

CheckpointAlways == \A o \in Options : o.cache

SafeCallers ==
    /\ Checked
    /\ "fail" \notin Faults
    /\ \A o \in Options : /\ o.reset
                          /\ o.cacheLen = 0
                          /\ o.reuse => CheckpointAlways

\* The engine stands after the first n tokens of s.
EngineAt(s, n) ==
    /\ recurrentStates = Prefix(s, n)
    /\ RowsHold(kvCaches, s, n)

\* The checkpoint stands for its label and its rows are in the live cache.
ContextResumable ==
    HasValidPrefix => /\ reusableContext.gdn = reusableContext.tokens
                      /\ RowsHold(kvCaches, reusableContext.tokens,
                                  Len(reusableContext.tokens))

\* The checkpoint is the one this call took.
ContextIsPrompt ==
    reusableContext = [valid |-> TRUE, tokens |-> call.prompt, gdn |-> call.prompt]

-----------------------------------------------------------------------------
(* Lemmas about prefixes.                                                  *)

\* A prefix of a prefix is a prefix.
LEMMA PrefixOfPrefix ==
    ASSUME NEW s \in Seq(Token), NEW n \in 0 .. Len(s), NEW i \in 0 .. n
    PROVE  Prefix(Prefix(s, n), i) = Prefix(s, i)
<1>1. CASE i = 0
      BY <1>1, SubSeqEmpty DEF Prefix
<1>2. CASE i > 0
      <2>1. 1 \in 1 .. Len(s) /\ n \in 1 .. Len(s)
            BY <1>2
      <2>2. 1 \in 1 .. n /\ i \in 1 .. n
            BY <1>2
      <2>3. Prefix(s, n) \in Seq(Token)
            BY PrefixType
      <2> QED BY <2>1, <2>2, SubSeqOfSubSeq DEF Prefix
<1> QED BY <1>1, <1>2

\* The prefix of full length is the sequence.
LEMMA PrefixWhole ==
    ASSUME NEW s \in Seq(Token)
    PROVE  Prefix(s, Len(s)) = s
BY SubSeqFull DEF Prefix

\* What follows a sequence does not change its prefixes.
LEMMA PrefixOfConcat ==
    ASSUME NEW s \in Seq(Token), NEW t \in Seq(Token), NEW i \in 0 .. Len(s)
    PROVE  Prefix(s \o t, i) = Prefix(s, i)
<1>1. s \o t \in Seq(Token) /\ Len(s \o t) = Len(s) + Len(t)
      BY ConcatProperties
<1>2. i \in 0 .. Len(s \o t)
      BY <1>1, LenProperties
<1>3. Prefix(s \o t, i) \in Seq(Token) /\ Len(Prefix(s \o t, i)) = i
      /\ \A j \in 1 .. i : Prefix(s \o t, i)[j] = (s \o t)[j]
      BY <1>1, <1>2, PrefixType
<1>4. Prefix(s, i) \in Seq(Token) /\ Len(Prefix(s, i)) = i
      /\ \A j \in 1 .. i : Prefix(s, i)[j] = s[j]
      BY PrefixType
<1>5. \A j \in 1 .. i : (s \o t)[j] = s[j]
      BY ConcatProperties, LenProperties
<1> QED BY <1>3, <1>4, <1>5, SeqEqual

\* A token added to a concatenation is added to its second part.
LEMMA ConcatOne ==
    ASSUME NEW s \in Seq(Token), NEW t \in Seq(Token), NEW x \in Token
    PROVE  (s \o t) \o <<x>> = s \o (t \o <<x>>)
<1>1. <<x>> \in Seq(Token)
      OBVIOUS
<1>2. /\ s \o t \in Seq(Token) /\ t \o <<x>> \in Seq(Token)
      /\ Len(s) \in Nat /\ Len(t) \in Nat
      BY <1>1, ConcatProperties, LenProperties
<1> DEFINE l == (s \o t) \o <<x>>
           r == s \o (t \o <<x>>)
<1>3. l \in Seq(Token) /\ r \in Seq(Token) /\ Len(l) = Len(r)
      BY <1>1, <1>2, ConcatProperties
<1>4. \A i \in 1 .. Len(l) : l[i] = r[i]
      BY <1>1, <1>2, ConcatProperties
<1> HIDE DEF l, r
<1> QED BY <1>3, <1>4, SeqEqual

\* The next tile extends a prefix.
LEMMA PrefixExtend ==
    ASSUME NEW s \in Seq(Token), NEW m \in Nat, NEW n \in Nat, m + n <= Len(s)
    PROVE  Prefix(s, m) \o SubSeq(s, m + 1, m + n) = Prefix(s, m + n)
<1>1. 1 \in 1 .. Len(s) + 1 /\ m \in 1 - 1 .. Len(s) /\ m + n \in m .. Len(s)
      BY LenProperties
<1> QED BY <1>1, ConcatAdjacentSubSeq DEF Prefix

\* Rows that hold a sequence hold every sequence that begins like it.
LEMMA RowsHoldPrefix ==
    ASSUME NEW rows, NEW s \in Seq(Token), NEW t \in Seq(Token), NEW n \in Nat,
           n <= Len(s), n <= Len(t), Prefix(s, n) = Prefix(t, n), RowsHold(rows, s, n)
    PROVE  RowsHold(rows, t, n)
<1>1. ASSUME NEW i \in 1 .. n
      PROVE  rows[i] = Prefix(t, i)
      <2>1. Prefix(s, i) = Prefix(Prefix(s, n), i) /\ Prefix(t, i) = Prefix(Prefix(t, n), i)
            BY PrefixOfPrefix, LenProperties
      <2> QED BY <2>1 DEF RowsHold
<1> QED BY <1>1 DEF RowsHold

\* Rows that hold the first n tokens hold the first m of them.
LEMMA RowsHoldFewer ==
    ASSUME NEW rows, NEW s, NEW n \in Nat, NEW m \in 0 .. n, RowsHold(rows, s, n)
    PROVE  RowsHold(rows, s, m)
BY HistoriesAssumption DEF RowsHold

\* One launch of forward() or decode() over the tokens that come next moves
\* the engine forward along the sequence.
LEMMA LaunchAdvances ==
    ASSUME NEW s \in Seq(Token), NEW m \in Nat, NEW n \in Nat,
           m + n <= Len(s), m + n <= Capacity,
           EngineAt(s, m), Run(m, SubSeq(s, m + 1, m + n))
    PROVE  /\ recurrentStates' = Prefix(s, m + n)
           /\ RowsHold(kvCaches', s, m + n)
<1> DEFINE tokens == SubSeq(s, m + 1, m + n)
           out == Advanced(recurrentStates, kvCaches, m, tokens)
<1>1. tokens \in Seq(Token) /\ Len(tokens) = n
      BY TileType
<1>2. /\ Prefix(s, m) \in Seq(Token) /\ Len(Prefix(s, m)) = m
      /\ Prefix(s, m + n) \in Seq(Token) /\ Len(Prefix(s, m + n)) = m + n
      BY PrefixType, LenProperties
<1>3. RowsHold(kvCaches, Prefix(s, m), m)
      <2>1. Prefix(Prefix(s, m), m) = Prefix(s, m)
            BY PrefixOfPrefix, LenProperties
      <2> QED BY <1>2, <2>1, RowsHoldPrefix, LenProperties DEF EngineAt
<1>4. Coherent(recurrentStates, kvCaches, m)
      <2> QED BY <1>2, <1>3, GarbageIsNoSequence DEF EngineAt, Coherent
<1>5. out = Prefix(s, m + n)
      <2>1. Prefix(s, m) \o tokens = Prefix(s, m + n)
            BY PrefixExtend
      <2> HIDE DEF tokens
      <2> QED BY <1>1, <1>4, <2>1 DEF EngineAt, Advanced
<1>6. out # Garbage
      <2> HIDE DEF out
      <2> QED BY <1>2, <1>5, GarbageIsNoSequence
<1>7. kvCaches' = StoredRows(kvCaches, m, n, out) /\ recurrentStates' = out
      <2> HIDE DEF out
      <2> QED BY <1>1 DEF Run, Leaves, out
<1>8. ASSUME NEW i \in 1 .. m + n
      PROVE  kvCaches'[i] = Prefix(s, i)
      <2> HIDE DEF out, tokens
      <2>1. i \in Rows
            BY HistoriesAssumption DEF Rows
      <2>2. CASE i \in m + 1 .. m + n
            <3>1. kvCaches'[i] = Prefix(out, i)
                  BY <1>6, <1>7, <2>1, <2>2 DEF StoredRows
            <3>2. Prefix(Prefix(s, m + n), i) = Prefix(s, i)
                  BY PrefixOfPrefix, LenProperties
            <3> QED BY <1>5, <3>1, <3>2
      <2>3. CASE i \notin m + 1 .. m + n
            <3>1. i + Capacity \notin m + 1 .. m + n /\ i \in 1 .. m
                  BY <2>3, HistoriesAssumption
            <3>2. kvCaches'[i] = kvCaches[i]
                  BY <1>7, <2>1, <2>3, <3>1 DEF StoredRows
            <3> QED BY <3>1, <3>2 DEF EngineAt, RowsHold
      <2> QED BY <2>2, <2>3
<1> HIDE DEF out
<1> QED BY <1>5, <1>7, <1>8 DEF RowsHold

-----------------------------------------------------------------------------
(* The inductive invariant, by phase.                                      *)

TempCoherent ==
    pc = "rename" => /\ tempFile.content.gdn = tempFile.name
                     /\ RowsHold(tempFile.content.kv, tempFile.name, Len(tempFile.name))

CallBounded ==
    pc # "idle" => /\ WithinContext(call.prompt, call.maxNew)
                   /\ Len(generated) < call.maxNew

NothingGenerated ==
    pc \notin {"decode", "sample"} => generated = <<>>

ReuseAsked ==
    pc \in {"find", "loadGdn", "loadKv"} => call.opt.reuse

\* Until a call overwrites the live cache, the checkpoint can be resumed.
ContextKept ==
    CheckpointAlways /\ pc \in {"idle", "match", "find", "loadGdn", "loadKv"} =>
        ContextResumable

LoadedGdn == pc = "loadKv" => recurrentStates = Selected

Restorable ==
    pc = "restore" => ContextResumable /\ ExactMatch(call.prompt)

EngineFollows ==
    /\ pc = "prefill" => EngineAt(call.prompt, pos)
    /\ pc \in {"save", "write", "rename", "logits", "sampleFirst"} =>
          EngineAt(call.prompt, Len(call.prompt))
    /\ pc \in {"decode", "sample"} => RowsHold(kvCaches, call.prompt, Len(call.prompt))
    /\ call.opt.graph /\ pc = "decode" => EngineAt(Context, Len(Context) - 1)
    /\ call.opt.graph /\ pc = "sample" => EngineAt(Context, Len(Context))

ContextTaken ==
    CheckpointAlways
        /\ pc \in {"write", "rename", "logits", "sampleFirst", "decode", "sample"} =>
            ContextIsPrompt

LogitsFollow ==
    /\ pc = "sampleFirst" /\ lastChunk > 0 => dLogits = call.prompt
    /\ call.opt.graph /\ pc = "sample" => dLogits = Context

SafeInv ==
    /\ SessionsCoherent
    /\ TempCoherent
    /\ CallBounded
    /\ NothingGenerated
    /\ ReuseAsked
    /\ CheckpointMatchesLabel
    /\ ContextKept
    /\ LoadedGdn
    /\ Restorable
    /\ EngineFollows
    /\ ContextTaken
    /\ LogitsFollow

-----------------------------------------------------------------------------
(* Lemmas about the phases.                                                *)

\* The options of a call, and the label of its checkpoint.
LEMMA OptionsFact ==
    ASSUME SafeCallers, TypeInv, pc # "idle"
    PROVE  /\ call.opt.reset
           /\ call.opt.reuse => CheckpointAlways
           /\ CheckpointAlways => call.opt.cache
           /\ Saved = call.prompt
<1>1. call.opt \in Options
      BY CallType DEF Calls
<1>2. call.opt.reset /\ call.opt.cacheLen = 0
      /\ (call.opt.reuse => CheckpointAlways) /\ (CheckpointAlways => call.opt.cache)
      BY <1>1 DEF SafeCallers, CheckpointAlways
<1>3. SaveLen = Len(call.prompt)
      BY <1>2 DEF SaveLen
<1>4. call.prompt \in Seq(Token)
      BY CallType
<1>5. Saved = call.prompt
      BY <1>3, <1>4, PrefixWhole DEF Saved
<1> QED BY <1>2, <1>5

\* The tokens given to the model so far are a sequence that starts with the
\* prompt.
LEMMA ContextFact ==
    ASSUME TypeInv, pc # "idle"
    PROVE  /\ Context \in Seq(Token)
           /\ Len(Context) = Len(call.prompt) + Len(generated)
           /\ Len(generated) \in Nat
           /\ Prefix(Context, Len(call.prompt)) = call.prompt
<1>1. call.prompt \in Seq(Token) /\ generated \in Seq(Token)
      BY CallType DEF TypeInv, TypeOK
<1>2. Len(call.prompt) \in 0 .. Len(call.prompt)
      BY <1>1, LenProperties
<1>3. Prefix(call.prompt \o generated, Len(call.prompt)) = Prefix(call.prompt, Len(call.prompt))
      BY <1>1, <1>2, PrefixOfConcat
<1> QED
    BY <1>1, <1>3, PrefixWhole, ConcatProperties, LenProperties DEF Context

\* A tile moves the engine forward through the prompt.
LEMMA PrefillAdvances ==
    ASSUME TypeInv, PrefillTile, EngineAt(call.prompt, pos)
    PROVE  /\ EngineAt(call.prompt, pos)'
           /\ pc' = "save" => EngineAt(call.prompt, Len(call.prompt))'
<1>1. /\ call.prompt \in Seq(Token) /\ Len(call.prompt) \in Nat
      /\ Len(call.prompt) <= Capacity
      BY CallType DEF PrefillTile
<1>2. pos \in Nat /\ Chunk \in Nat /\ pos + Chunk <= Len(call.prompt)
      BY ChunkType, HistoriesAssumption DEF PrefillTile, TypeInv, TypeOK
<1>3. Run(pos, SubSeq(call.prompt, pos + 1, pos + Chunk))
      BY DEF PrefillTile
<1>4. pos + Chunk <= Capacity
      BY <1>1, <1>2, HistoriesAssumption
<1>5. /\ recurrentStates' = Prefix(call.prompt, pos + Chunk)
      /\ RowsHold(kvCaches', call.prompt, pos + Chunk)
      BY <1>1, <1>2, <1>3, <1>4, LaunchAdvances
<1>6. pos' = pos + Chunk /\ call' = call
      BY DEF PrefillTile
<1>7. EngineAt(call.prompt, pos)'
      BY <1>5, <1>6 DEF EngineAt
<1>8. pc' = "save" => pos + Chunk = Len(call.prompt)
      BY <1>1, <1>2 DEF PrefillTile, PrefillDone, Goto
<1>9. pc' = "save" => EngineAt(call.prompt, Len(call.prompt))'
      BY <1>5, <1>6, <1>8 DEF EngineAt
<1> QED BY <1>7, <1>9

\* A sampled token makes the context one token longer.
LEMMA SampleLengthens ==
    ASSUME TypeInv, NEW t \in Token, SampleToken(t)
    PROVE  generated' # <<>> /\ Len(Context') = Len(Context) + 1
<1>1. /\ call.prompt \in Seq(Token) /\ Len(call.prompt) \in Nat
      /\ generated \in Seq(Token) /\ Len(generated) \in Nat
      BY CallType, LenProperties DEF SampleToken, TypeInv, TypeOK
<1>2. call' = call /\ generated' = Append(generated, t)
      BY DEF SampleToken
<1>3. generated' \in Seq(Token) /\ Len(generated') = Len(generated) + 1
      BY <1>1, <1>2, AppendProperties
<1>4. generated' # <<>>
      BY <1>1, <1>2, AppendProperties
<1>5. ASSUME NEW s \in Seq(Token), NEW u \in Seq(Token), NEW v \in Seq(Token),
             Len(v) = Len(u) + 1
      PROVE  Len(s \o v) = Len(s \o u) + 1
      <2>1. Len(s \o v) = Len(s) + Len(v) /\ Len(s \o u) = Len(s) + Len(u)
            BY <1>5, ConcatProperties
      <2> QED BY <1>5, <2>1, LenProperties
<1>6. Len(call.prompt \o generated') = Len(call.prompt \o generated) + 1
      BY <1>1, <1>3, <1>5
<1> QED BY <1>2, <1>4, <1>6 DEF Context

\* A sampled token is the one the engine has not been given yet.
LEMMA SampleAdvances ==
    ASSUME TypeInv, NEW t \in Token, SampleToken(t), EngineAt(Context, Len(Context))
    PROVE  EngineAt(Context, Len(Context) - 1)'
<1>1. /\ call.prompt \in Seq(Token) /\ generated \in Seq(Token)
      /\ pc # "idle"
      BY CallType DEF SampleToken, TypeInv, TypeOK
<1>2. generated' = generated \o <<t>> /\ call' = call /\ UNCHANGED device
      BY <1>1, AppendProperties, AppendIsConcat DEF SampleToken
<1>3. <<t>> \in Seq(Token) /\ Len(<<t>>) = 1
      OBVIOUS
<1>4. Context' = Context \o <<t>>
      <2>1. (call.prompt \o generated) \o <<t>> = call.prompt \o (generated \o <<t>>)
            BY <1>1, ConcatOne
      <2> QED BY <1>2, <2>1 DEF Context
<1>5. Context \in Seq(Token) /\ Len(Context) \in Nat
      BY <1>1, ContextFact, LenProperties
<1>6. Context' \in Seq(Token) /\ Len(Context') = Len(Context) + 1
      BY <1>3, <1>4, <1>5, ConcatProperties
<1>7. Prefix(Context', Len(Context)) = Prefix(Context, Len(Context))
      <2>1. Len(Context) \in 0 .. Len(Context)
            BY <1>5
      <2> QED BY <1>3, <1>4, <1>5, <2>1, PrefixOfConcat
<1>8. RowsHold(kvCaches, Context', Len(Context))
      <2>1. Len(Context) <= Len(Context) /\ Len(Context) <= Len(Context')
            BY <1>5, <1>6
      <2> QED BY <1>5, <1>6, <1>7, <2>1, RowsHoldPrefix DEF EngineAt
<1>9. Len(Context') - 1 = Len(Context)
      BY <1>5, <1>6
<1> QED BY <1>2, <1>7, <1>8, <1>9 DEF EngineAt, device

\* A decode launch of either loop within the capacity leaves the rows of the
\* prompt alone.
LEMMA DecodeKeepsPrompt ==
    ASSUME TypeInv, Decode, Len(Context) <= Capacity,
           RowsHold(kvCaches, call.prompt, Len(call.prompt))
    PROVE  RowsHold(kvCaches, call.prompt, Len(call.prompt))'
<1> DEFINE n == Len(call.prompt)
<1>1. /\ n \in Nat /\ Len(generated) \in Nat \ {0}
      /\ n + Len(generated) <= Capacity
      BY CallType, ContextFact, EmptySeq, LenProperties DEF Decode, TypeInv, TypeOK
<1>2. DecodePosition = n - 1 + Len(generated)
      BY DEF DecodePosition
<1>3. PICK out : kvCaches' = StoredRows(kvCaches, DecodePosition, 1, out)
      BY DecodeStores
<1>4. ASSUME NEW i \in 1 .. n
      PROVE  kvCaches'[i] = kvCaches[i]
      <2>1. i \in Rows
            BY <1>1, HistoriesAssumption DEF Rows
      <2>2. /\ i \notin DecodePosition + 1 .. DecodePosition + 1
            /\ i + Capacity \notin DecodePosition + 1 .. DecodePosition + 1
            BY <1>1, <1>2, HistoriesAssumption
      <2> QED BY <1>3, <2>1, <2>2 DEF StoredRows
<1>5. call' = call
      BY DEF Decode
<1> QED BY <1>4, <1>5 DEF RowsHold

\* A launch of the decode graph over the token sampled last, within the capacity,
\* gives the logits of everything so far.
LEMMA DecodeAdvances ==
    ASSUME TypeInv, Decode, call.opt.graph, Len(Context) <= Capacity,
           EngineAt(Context, Len(Context) - 1)
    PROVE  EngineAt(Context, Len(Context))' /\ dLogits' = Context'
<1> DEFINE n == Len(call.prompt) + Len(generated)
<1>1. /\ call.prompt \in Seq(Token) /\ Len(call.prompt) \in Nat
      /\ generated \in Seq(Token) /\ Len(generated) \in Nat \ {0}
      BY CallType, LenProperties, EmptySeq DEF Decode, TypeInv, TypeOK
<1>2. Context \in Seq(Token) /\ Len(Context) = n
      BY ContextFact DEF Decode
<1>3. n \in Nat \ {0} /\ n - 1 \in Nat /\ n - 1 + 1 = n /\ DecodePosition = n - 1
      BY <1>1 DEF DecodePosition
<1>4. SubSeq(Context, n, n) = <<generated[Len(generated)]>>
      <2>1. Context[n] = generated[Len(generated)]
            BY <1>1, ConcatProperties DEF Context
      <2>2. n \in 1 .. Len(Context) /\ n \in n .. Len(Context)
            BY <1>2, <1>3
      <2>3. SubSeq(Context, n, n) = <<Context[n]>> \o SubSeq(Context, n + 1, n)
            BY <1>2, <2>2, SubSeqRecursiveFirst
      <2>4. SubSeq(Context, n + 1, n) = <<>>
            BY <1>3, SubSeqEmpty
      <2>5. <<Context[n]>> \in Seq(Token)
            BY <1>2, <2>2, ElementOfSeq
      <2>6. <<Context[n]>> \o <<>> = <<Context[n]>>
            BY <2>5, ConcatEmptySeq
      <2> QED BY <2>1, <2>3, <2>4, <2>6
<1>5. EngineAt(Context, n - 1) /\ Run(n - 1, SubSeq(Context, (n - 1) + 1, (n - 1) + 1))
      BY <1>2, <1>3, <1>4 DEF Decode
<1>6. recurrentStates' = Prefix(Context, n) /\ RowsHold(kvCaches', Context, n)
      <2>1. (n - 1) + 1 <= Len(Context) /\ (n - 1) + 1 <= Capacity
            BY <1>2, <1>3
      <2> HIDE DEF n
      <2> QED BY <1>2, <1>3, <1>5, <2>1, LaunchAdvances
<1>7. Context' = Context /\ Len(Context') = n
      BY <1>2 DEF Decode, Context
<1> QED BY <1>2, <1>6, <1>7, PrefixWhole DEF Decode, EngineAt

\* When a call ends, the checkpoint it took can be resumed: decoding wrote
\* rows beyond those of the prompt only.
LEMMA EndsResumable ==
    ASSUME TypeInv, SafeInv, CheckpointAlways, pc \in {"sampleFirst", "decode", "sample"}
    PROVE  ContextResumable
<1> DEFINE n == Len(call.prompt)
<1>1. RowsHold(kvCaches, call.prompt, n)
      BY DEF SafeInv, EngineFollows, EngineAt
<1>2. ContextIsPrompt
      BY DEF SafeInv, ContextTaken
<1> QED BY <1>1, <1>2 DEF ContextResumable, ContextIsPrompt, HasValidPrefix

\* Leaving generate() keeps the invariant if what it leaves behind is sound.
LEMMA ReturnSafe ==
    ASSUME NEW o, Return(o), SessionsCoherent', CheckpointMatchesLabel',
           CheckpointAlways => ContextResumable'
    PROVE  SafeInv'
BY DEF Return, SafeInv, TempCoherent, CallBounded, NothingGenerated, ReuseAsked,
       ContextKept, LoadedGdn, Restorable, EngineFollows, ContextTaken, LogitsFollow

\* A step that leaves sessions and checkpoint alone leaves them sound.
LEMMA StorageSafe ==
    ASSUME SafeInv, UNCHANGED <<host, storage>>
    PROVE  SessionsCoherent' /\ CheckpointMatchesLabel'
BY DEF SafeInv, SessionsCoherent, CheckpointMatchesLabel, HasValidPrefix, host, storage

-----------------------------------------------------------------------------
(* The invariant is inductive.                                             *)

\* A fresh engine over an empty directory satisfies it.
LEMMA SafeInit == Init => SafeInv
BY DEF Init, FreshEngine, EmptyContext, HasValidPrefix, ContextResumable, SafeInv,
       SessionsCoherent, TempCoherent, CallBounded, NothingGenerated, ReuseAsked,
       CheckpointMatchesLabel, ContextKept, LoadedGdn, Restorable, EngineFollows,
       ContextTaken, LogitsFollow

\* Every step of a call, a crash or a power failure preserves it.
LEMMA SafeNext ==
    ASSUME SafeCallers, TypeInv, SafeInv, [Next]_vars
    PROVE  SafeInv'
<1> USE DEF device, host, storage, locals, Goto,
            SafeInv, TempCoherent, CallBounded, NothingGenerated, ReuseAsked,
            ContextKept, LoadedGdn, Restorable, EngineFollows, ContextTaken, LogitsFollow
<1>1. ASSUME NEW p \in Prompt, NEW m \in 1 .. MaxNew, NEW o \in Options,
             Generate(p, m, o)
      PROVE  SafeInv'
      <2>1. SessionsCoherent' /\ CheckpointMatchesLabel'
            BY <1>1, StorageSafe DEF Generate
      <2>2. CheckpointAlways => ContextResumable'
            BY <1>1 DEF Generate, ContextResumable, HasValidPrefix
      <2>3. call' = [prompt |-> p, maxNew |-> m, opt |-> o] /\ WithinContext(p, m)
            BY <1>1 DEF Generate, SafeCallers
      <2>4. generated' = <<>> /\ Len(generated') < m
            BY <1>1 DEF Generate
      <2> QED BY <1>1, <2>1, <2>2, <2>3, <2>4 DEF Generate
<1>2. CASE MatchMemory
      <2>1. SessionsCoherent' /\ CheckpointMatchesLabel'
            BY <1>2, StorageSafe DEF MatchMemory
      <2>2. CheckpointAlways
            BY <1>2, OptionsFact DEF MatchMemory, MemoryHit
      <2>3. ContextResumable' /\ ExactMatch(call.prompt)'
            BY <1>2, <2>2
            DEF MatchMemory, MemoryHit, ContextResumable, ExactMatch, HasValidPrefix
      <2> QED BY <1>2, <2>1, <2>3 DEF MatchMemory
<1>3. CASE MissMemory
      <2>1. SessionsCoherent' /\ CheckpointMatchesLabel'
            BY <1>3, StorageSafe DEF MissMemory
      <2>2. CheckpointAlways => ContextResumable'
            BY <1>3 DEF MissMemory, ContextResumable, HasValidPrefix
      <2> QED BY <1>3, <2>1, <2>2 DEF MissMemory
<1>4. CASE FindSession
      <2>1. SessionsCoherent' /\ CheckpointMatchesLabel'
            BY <1>4, StorageSafe DEF FindSession
      <2>2. CheckpointAlways => ContextResumable'
            BY <1>4 DEF FindSession, ContextResumable, HasValidPrefix
      <2> QED BY <1>4, <2>1, <2>2 DEF FindSession
<1>5. CASE LoadGdn
      <2>1. SessionsCoherent' /\ CheckpointMatchesLabel'
            BY <1>5, StorageSafe DEF LoadGdn
      <2>2. CheckpointAlways => ContextResumable'
            BY <1>5 DEF LoadGdn, ContextResumable, HasValidPrefix
      <2>3. sessionDir[Selected].gdn = Selected
            BY <1>5, SelectedType DEF LoadGdn, SessionsCoherent
      <2>4. Selected' = Selected
            BY <1>5 DEF LoadGdn, Selected, BestMatch, Matching
      <2> HIDE DEF SafeInv
      <2>5. /\ TempCoherent' /\ CallBounded' /\ NothingGenerated' /\ ReuseAsked'
            /\ ContextKept' /\ Restorable' /\ EngineFollows' /\ ContextTaken'
            /\ LogitsFollow'
            BY <1>5, <2>2 DEF LoadGdn, SafeInv
      <2>6. LoadedGdn'
            BY <1>5, <2>3, <2>4 DEF LoadGdn
      <2> QED BY <2>1, <2>5, <2>6 DEF SafeInv
<1>6. CASE LoadKv
      <2>1. /\ Selected \in Seq(Token) /\ Selected # <<>>
            /\ Len(Selected) <= Len(call.prompt)
            /\ Prefix(call.prompt, Len(Selected)) = Selected
            /\ sessionDir[Selected].gdn = Selected
            /\ RowsHold(sessionDir[Selected].kv, Selected, Len(Selected))
            BY <1>6, SelectedType DEF LoadKv, SessionsCoherent
      <2>2. SessionsCoherent'
            BY <1>6 DEF LoadKv, SessionsCoherent
      <2>3. CASE sessionDir[Selected].extent = "gdn"
            <3>1. CheckpointMatchesLabel'
                  BY <1>6, <2>3, StorageSafe DEF LoadKv
            <3> QED BY <1>6, <2>2, <2>3, <3>1 DEF LoadKv
      <2>4. CASE sessionDir[Selected].extent # "gdn"
            <3>1. reusableContext' = [valid |-> TRUE, tokens |-> Selected, gdn |-> Selected]
                  BY <1>6, <2>1, <2>4 DEF LoadKv, SaveContext
            <3>2. RowsHold(kvCaches', Selected, Len(Selected))
                  <4>1. Len(Selected) \in Nat
                        BY <2>1, LenProperties
                  <4>2. kvCaches' = [i \in Rows |-> IF i <= Len(Selected)
                                     THEN sessionDir[Selected].kv[i] ELSE kvCaches[i]]
                        BY <1>6, <2>4 DEF LoadKv
                  <4> QED BY <2>1, <4>1, <4>2, HistoriesAssumption DEF RowsHold, Rows
            <3>3. ContextResumable' /\ CheckpointMatchesLabel'
                  BY <3>1, <3>2 DEF ContextResumable, CheckpointMatchesLabel, HasValidPrefix
            <3>4. ExactMatch(call.prompt)'
                  BY <1>6, <2>1, <3>1 DEF LoadKv, ExactMatch, HasValidPrefix
            <3> QED BY <1>6, <2>2, <2>4, <3>3, <3>4 DEF LoadKv
      <2> QED BY <2>3, <2>4
<1>7. CASE Restore
      <2>1. SessionsCoherent' /\ CheckpointMatchesLabel'
            BY <1>7, StorageSafe DEF Restore
      <2> DEFINE n == Len(reusableContext.tokens)
      <2>2. /\ reusableContext.gdn = Prefix(call.prompt, n)
            /\ RowsHold(kvCaches, reusableContext.tokens, n)
            /\ n \in Nat /\ n <= Len(call.prompt)
            /\ reusableContext.tokens = Prefix(call.prompt, n)
            BY <1>7, LenProperties
            DEF Restore, ContextResumable, ExactMatch, TypeInv, TypeOK, Contexts
      <2>3. call.prompt \in Seq(Token)
            BY <1>7, CallType DEF Restore
      <2>4. reusableContext.tokens \in Seq(Token)
            BY DEF TypeInv, TypeOK, Contexts
      <2>5. RowsHold(kvCaches, call.prompt, n)
            BY <2>2, <2>3, <2>4, RowsHoldPrefix, PrefixWhole
      <2>6. EngineAt(call.prompt, pos)'
            BY <1>7, <2>2, <2>5 DEF Restore, EngineAt
      <2>7. pc' = "save" => pos' = Len(call.prompt)
            <3>1. Len(call.prompt) \in Nat
                  BY <2>3, LenProperties
            <3> QED BY <1>7, <2>2, <3>1 DEF Restore
      <2>8. pc' = "save" => EngineAt(call.prompt, Len(call.prompt))'
            BY <1>7, <2>6, <2>7 DEF Restore, EngineAt
      <2> QED BY <1>7, <2>1, <2>6, <2>8 DEF Restore
<1>8. CASE ColdStart
      <2>1. SessionsCoherent' /\ CheckpointMatchesLabel'
            BY <1>8, StorageSafe DEF ColdStart
      <2>2. recurrentStates' = <<>> /\ pos' = 0
            BY <1>8, OptionsFact DEF ColdStart, Blank, TypeInv, PositionInPrompt
      <2>3. Prefix(call.prompt, 0) = <<>>
            BY SubSeqEmpty DEF Prefix
      <2>4. RowsHold(kvCaches', call.prompt, 0)
            BY HistoriesAssumption DEF RowsHold
      <2>5. EngineAt(call.prompt, pos)'
            BY <1>8, <2>2, <2>3, <2>4 DEF ColdStart, EngineAt
      <2> QED BY <1>8, <2>1, <2>5 DEF ColdStart
<1>9. CASE PrefillTile
      <2>1. SessionsCoherent' /\ CheckpointMatchesLabel'
            BY <1>9, StorageSafe DEF PrefillTile
      <2>2. EngineAt(call.prompt, pos)
            BY <1>9 DEF PrefillTile
      <2>3. /\ EngineAt(call.prompt, pos)'
            /\ pc' = "save" => EngineAt(call.prompt, Len(call.prompt))'
            BY <1>9, <2>2, PrefillAdvances
      <2> QED BY <1>9, <2>1, <2>3 DEF PrefillTile
<1>10. CASE SaveCheckpoint
      <2>1. SessionsCoherent'
            BY <1>10 DEF SaveCheckpoint, SessionsCoherent
      <2>2. /\ call.prompt \in Seq(Token) /\ call.prompt # <<>>
            /\ Saved = call.prompt
            /\ CheckpointAlways => call.opt.cache
            BY <1>10, CallType, OptionsFact DEF SaveCheckpoint
      <2>3. EngineAt(call.prompt, Len(call.prompt)) /\ recurrentStates = call.prompt
            BY <1>10, <2>2, PrefixWhole DEF SaveCheckpoint, EngineAt
      <2>4. EngineAt(call.prompt, Len(call.prompt))'
            BY <1>10, <2>3 DEF SaveCheckpoint, EngineAt
      <2>5. CASE call.opt.cache
            <3>1. ContextIsPrompt'
                  BY <1>10, <2>2, <2>3, <2>5 DEF SaveCheckpoint, SaveContext, ContextIsPrompt
            <3>2. CheckpointMatchesLabel'
                  BY <3>1 DEF ContextIsPrompt, CheckpointMatchesLabel
            <3> QED BY <1>10, <2>1, <2>4, <3>1, <3>2 DEF SaveCheckpoint
      <2>6. CASE ~call.opt.cache
            <3>1. CheckpointMatchesLabel'
                  BY <1>10, <2>6 DEF SaveCheckpoint, CheckpointMatchesLabel, HasValidPrefix
            <3> QED BY <1>10, <2>1, <2>2, <2>4, <2>6, <3>1 DEF SaveCheckpoint
      <2> QED BY <2>5, <2>6
<1>11. CASE WriteSession
      <2>1. SessionsCoherent' /\ CheckpointMatchesLabel'
            BY <1>11 DEF WriteSession, WriteTemp, SessionsCoherent, CheckpointMatchesLabel,
                         HasValidPrefix
      <2>2. call.prompt \in Seq(Token) /\ Len(call.prompt) \in Nat /\ Saved = call.prompt
            BY <1>11, CallType, OptionsFact DEF WriteSession
      <2>3. recurrentStates = call.prompt /\ RowsHold(kvCaches, call.prompt, Len(call.prompt))
            BY <1>11, <2>2, PrefixWhole DEF WriteSession, EngineAt
      <2>4. tempFile' = [name |-> call.prompt,
                         content |-> Content(call.prompt, kvCaches, Len(call.prompt))]
            BY <1>11, <2>2, <2>3 DEF WriteSession, WriteTemp
      <2>5. TempCoherent'
            BY <2>2, <2>3, <2>4 DEF Content, RowsHold
      <2>6. EngineAt(call.prompt, Len(call.prompt))' /\ (ContextIsPrompt => ContextIsPrompt')
            BY <1>11 DEF WriteSession, EngineAt, ContextIsPrompt
      <2> HIDE DEF TempCoherent
      <2> QED BY <1>11, <2>1, <2>5, <2>6 DEF WriteSession
<1>12. CASE RenameSession
      <2>1. CheckpointMatchesLabel'
            BY <1>12 DEF RenameSession, CheckpointMatchesLabel, HasValidPrefix
      <2>2. SessionsCoherent'
            BY <1>12 DEF RenameSession, RenameTemp, SessionsCoherent
      <2>3. EngineAt(call.prompt, Len(call.prompt))' /\ (ContextIsPrompt => ContextIsPrompt')
            BY <1>12 DEF RenameSession, EngineAt, ContextIsPrompt
      <2> QED BY <1>12, <2>1, <2>2, <2>3 DEF RenameSession
<1>13. CASE SaveSessionFails
      <2>1. SessionsCoherent' /\ CheckpointMatchesLabel'
            BY <1>13, StorageSafe DEF SaveSessionFails
      <2>2. EngineAt(call.prompt, Len(call.prompt))' /\ (ContextIsPrompt => ContextIsPrompt')
            BY <1>13 DEF SaveSessionFails, EngineAt, ContextIsPrompt
      <2> QED BY <1>13, <2>1, <2>2 DEF SaveSessionFails
<1>14. CASE ComputeLogits
      <2>1. SessionsCoherent' /\ CheckpointMatchesLabel'
            BY <1>14, StorageSafe DEF ComputeLogits
      <2>2. EngineAt(call.prompt, Len(call.prompt))' /\ (ContextIsPrompt => ContextIsPrompt')
            BY <1>14 DEF ComputeLogits, EngineAt, ContextIsPrompt
      <2>3. recurrentStates = call.prompt
            BY <1>14, CallType, PrefixWhole DEF ComputeLogits, EngineAt
      <2>4. lastChunk' > 0 => dLogits' = call'.prompt
            BY <1>14, <2>3 DEF ComputeLogits
      <2> QED BY <1>14, <2>1, <2>2, <2>4 DEF ComputeLogits
<1>15. CASE SampleStop \/ SampleCancelled \/ SampleLast \/ DecodeFull
      <2>1. /\ UNCHANGED <<device, host, storage>>
            /\ \E o \in Outcomes : Return(o)
            /\ pc \in {"sampleFirst", "decode", "sample"}
            BY <1>15 DEF SampleStop, SampleCancelled, SampleLast, DecodeFull, Outcomes
      <2>2. SessionsCoherent' /\ CheckpointMatchesLabel'
            BY <2>1, StorageSafe
      <2>3. CheckpointAlways => ContextResumable
            BY <2>1, EndsResumable
      <2>4. CheckpointAlways => ContextResumable'
            BY <2>1, <2>3 DEF ContextResumable, HasValidPrefix
      <2> QED BY <2>1, <2>2, <2>4, ReturnSafe
<1>16. ASSUME NEW t \in Token, SampleToken(t)
      PROVE  SafeInv'
      <2>1. SessionsCoherent' /\ CheckpointMatchesLabel'
            BY <1>16, StorageSafe DEF SampleToken
      <2>2. Len(generated') < call'.maxNew
            <3>1. generated \in Seq(Token) /\ generated' = Append(generated, t)
                  BY <1>16 DEF SampleToken, TypeInv, TypeOK
            <3> QED BY <1>16, <3>1, AppendProperties DEF SampleToken
      <2>3. ASSUME call.opt.graph
            PROVE  EngineAt(Context, Len(Context) - 1)'
            <3>1. CASE pc = "sample"
                  BY <1>16, <2>3, <3>1, SampleAdvances
            <3>2. CASE pc = "sampleFirst"
                  <4>1. EngineAt(Context, Len(Context))
                        BY <3>2, ContextFact DEF Context
                  <4> QED BY <1>16, <4>1, SampleAdvances
            <3> QED BY <1>16, <3>1, <3>2 DEF SampleToken
      <2>4. RowsHold(kvCaches, call.prompt, Len(call.prompt))'
            <3>1. RowsHold(kvCaches, call.prompt, Len(call.prompt))
                  BY <1>16 DEF SampleToken, EngineAt
            <3> QED BY <1>16, <3>1 DEF SampleToken, RowsHold
      <2>5. ContextIsPrompt => ContextIsPrompt'
            BY <1>16 DEF SampleToken, ContextIsPrompt
      <2> QED BY <1>16, <2>1, <2>2, <2>3, <2>4, <2>5 DEF SampleToken
<1>17. CASE Decode
      <2>1. SessionsCoherent' /\ CheckpointMatchesLabel'
            BY <1>17, StorageSafe DEF Decode
      <2>2. Len(Context) <= Capacity
            <3>1. /\ call.maxNew \in Nat /\ Len(generated) < call.maxNew
                  /\ Len(call.prompt) \in Nat
                  /\ call.maxNew <= Capacity - Len(call.prompt)
                  BY <1>17, CallType, GenerationAssumption DEF Decode, Calls, WithinContext
            <3> QED BY <1>17, <3>1, ContextFact, HistoriesAssumption DEF Decode
      <2>3. ASSUME call.opt.graph
            PROVE  EngineAt(Context, Len(Context))' /\ dLogits' = Context'
            <3>1. EngineAt(Context, Len(Context) - 1)
                  BY <1>17, <2>3 DEF Decode
            <3> QED BY <1>17, <2>2, <2>3, <3>1, DecodeAdvances
      <2>4. RowsHold(kvCaches, call.prompt, Len(call.prompt))'
            <3>1. RowsHold(kvCaches, call.prompt, Len(call.prompt))
                  BY <1>17 DEF Decode
            <3> QED BY <1>17, <2>2, <3>1, DecodeKeepsPrompt
      <2>5. ContextIsPrompt => ContextIsPrompt'
            BY <1>17 DEF Decode, ContextIsPrompt
      <2> QED BY <1>17, <2>1, <2>3, <2>4, <2>5 DEF Decode
<1>18. CASE Fail
      BY <1>18 DEF Fail, SafeCallers
<1>19. CASE Crash \/ PowerLoss
      <2>1. Return("none") /\ reusableContext' = EmptyContext
            BY <1>19 DEF Crash, PowerLoss, Restart
      <2>2. CheckpointMatchesLabel' /\ ContextResumable'
            BY <2>1 DEF EmptyContext, CheckpointMatchesLabel, ContextResumable, HasValidPrefix
      <2>3. SessionsCoherent'
            <3>1. CASE Crash
                  BY <3>1 DEF Crash, SessionsCoherent
            <3>2. CASE PowerLoss
                  BY <3>2 DEF PowerLoss, SessionsCoherent, TypeInv, TypeOK, Sessions
            <3> QED BY <1>19, <3>1, <3>2
      <2> QED BY <2>1, <2>2, <2>3, ReturnSafe
<1>20. CASE UNCHANGED vars
      <2>1. SessionsCoherent' /\ CheckpointMatchesLabel'
            BY <1>20, StorageSafe DEF vars
      <2>2. Selected' = Selected
            BY <1>20 DEF vars, Selected, BestMatch, Matching
      <2>3. /\ ContextResumable' <=> ContextResumable
            /\ ExactMatch(call.prompt)' <=> ExactMatch(call.prompt)
            /\ ContextIsPrompt' <=> ContextIsPrompt
            BY <1>20 DEF vars, ContextResumable, ExactMatch, ContextIsPrompt, HasValidPrefix
      <2>4. EngineFollows'
            BY <1>20 DEF vars, EngineAt, RowsHold, Context
      <2>5. LogitsFollow' /\ TempCoherent' /\ CallBounded' /\ NothingGenerated' /\ ReuseAsked'
            BY <1>20 DEF vars, Context
      <2>6. ContextKept' /\ LoadedGdn' /\ Restorable' /\ ContextTaken'
            BY <1>20, <2>2, <2>3 DEF vars
      <2> HIDE DEF TempCoherent, CallBounded, NothingGenerated, ReuseAsked, ContextKept,
                   LoadedGdn, Restorable, EngineFollows, ContextTaken, LogitsFollow
      <2> QED BY <2>1, <2>4, <2>5, <2>6
<1> HIDE DEF SafeInv
<1> QED
    BY <1>1, <1>2, <1>3, <1>4, <1>5, <1>6, <1>7, <1>8, <1>9, <1>10, <1>11, <1>12,
       <1>13, <1>14, <1>15, <1>16, <1>17, <1>18, <1>19, <1>20
    DEF Next, GenerateStep

-----------------------------------------------------------------------------
(* The theorems.                                                           *)

\* The typed invariant holds in every behaviour of safe callers.
LEMMA SafeAlways == ASSUME SafeCallers PROVE Spec => [](TypeInv /\ SafeInv)
<1>1. TypeInv /\ SafeInv /\ [Next]_vars => TypeInv' /\ SafeInv'
      BY TypeNext, SafeNext DEF SafeCallers, PromptsFit
<1> QED BY <1>1, TypeInit, SafeInit, PTL DEF Spec

\* Every call decodes through the graph, as all commands do by default.
GraphDecoding == \A o \in Options : o.graph

\* Every token is sampled from the logits of exactly the prompt of its call and
\* the tokens generated so far, whether the prompt was prefilled from nothing,
\* from the checkpoint or from a session file, and whatever calls and crashes
\* came before (generate() with the decode graph).
THEOREM LogitsCorrect ==
    ASSUME SafeCallers, GraphDecoding
    PROVE  Spec => []LogitsFollowContext
<1>1. TypeInv /\ SafeInv => LogitsFollowContext
      <2> SUFFICES ASSUME TypeInv, SafeInv, pc \in {"sampleFirst", "sample"}, lastChunk > 0
                   PROVE  dLogits = Context
          BY DEF LogitsFollowContext
      <2>1. CASE pc = "sample"
            BY <2>1, CallType DEF Calls, GraphDecoding, SafeInv, LogitsFollow
      <2>2. CASE pc = "sampleFirst"
            <3>1. dLogits = call.prompt /\ generated = <<>>
                  BY <2>2 DEF SafeInv, LogitsFollow, NothingGenerated
            <3>2. call.prompt \in Seq(Token)
                  BY <2>2, CallType
            <3> QED BY <3>1, <3>2, ConcatEmptySeq DEF Context
      <2> QED BY <2>1, <2>2
<1> QED BY <1>1, SafeAlways, PTL

\* Every section a session file reaches belongs to the tokens that name it,
\* across crashes in the middle of a save and files cut short (save_to_file()).
THEOREM SessionsCorrect == ASSUME SafeCallers PROVE Spec => []SessionsCoherent
<1>1. SafeInv => SessionsCoherent
      BY DEF SafeInv
<1> QED BY <1>1, SafeAlways, PTL

\* The checkpoint always stands for the tokens it is labelled with, provided
\* cache_prefix_len is left at 0 (save()).
THEOREM LabelCorrect == ASSUME SafeCallers PROVE Spec => []CheckpointMatchesLabel
<1>1. SafeInv => CheckpointMatchesLabel
      BY DEF SafeInv
<1> QED BY <1>1, SafeAlways, PTL

\* When every call takes a checkpoint, the one found between two calls can be
\* resumed: the rows it does not own are still in the live cache, although the
\* decode steps after it went on writing there.
THEOREM CheckpointCorrect ==
    ASSUME SafeCallers, CheckpointAlways
    PROVE  Spec => []CheckpointResumable
<1>1. SafeInv => CheckpointResumable
      BY DEF SafeInv, ContextKept, ContextResumable, CheckpointResumable,
             CheckpointInCache
<1> QED BY <1>1, SafeAlways, PTL

-----------------------------------------------------------------------------
(* Callers without a session directory.  With one a session may cover the  *)
(* whole prompt, no tile is run, and the first token is sampled from       *)
(* logits that belong to nothing.                                          *)

NoSessions == \A o \in Options : ~o.dir

-----------------------------------------------------------------------------
(* A tile is run before the logits are computed.                           *)

NoLoading == pc \notin {"find", "loadGdn", "loadKv"}

SuffixLeft ==
    pc = "restore" => Len(reusableContext.tokens) < Len(call.prompt)

TileRun ==
    pc \in {"save", "write", "rename", "logits", "sampleFirst"} => lastChunk > 0

IdleBlank == pc = "idle" => dLogits = Blank

HiddenInv == NoLoading /\ SuffixLeft /\ TileRun /\ IdleBlank

\* The initial states satisfy it.
LEMMA HiddenInit == Init => HiddenInv
BY DEF Init, FreshEngine, HiddenInv, NoLoading, SuffixLeft, TileRun, IdleBlank

\* Every step preserves it: the memory path excludes a checkpoint of the whole
\* prompt and both prefill loops end with a tile.
LEMMA HiddenNext ==
    ASSUME NoSessions, TypeInv, HiddenInv, [Next]_vars
    PROVE  HiddenInv'
<1> USE DEF device, host, storage, locals, Goto, Blank,
            HiddenInv, NoLoading, SuffixLeft, TileRun, IdleBlank
<1>1. CASE \E p \in Prompt, m \in 1 .. MaxNew, o \in Options : Generate(p, m, o)
      BY <1>1 DEF Generate
<1>2. CASE MatchMemory
      BY <1>2 DEF MatchMemory, MemoryHit
<1>3. CASE MissMemory
      <2>1. ~call.opt.dir
            BY <1>3, CallType DEF MissMemory, Calls, NoSessions
      <2> QED BY <1>3, <2>1 DEF MissMemory
<1>4. CASE FindSession \/ LoadGdn \/ LoadKv
      BY <1>4 DEF FindSession, LoadGdn, LoadKv
<1>5. CASE Restore
      BY <1>5 DEF Restore
<1>6. CASE ColdStart
      BY <1>6 DEF ColdStart
<1>7. CASE PrefillTile
      <2>1. lastChunk' > 0
            BY <1>7, ChunkType, HistoriesAssumption DEF PrefillTile
      <2> QED BY <1>7, <2>1 DEF PrefillTile
<1>8. CASE SaveCheckpoint
      BY <1>8 DEF SaveCheckpoint
<1>9. CASE WriteSession \/ RenameSession \/ SaveSessionFails
      BY <1>9 DEF WriteSession, RenameSession, SaveSessionFails
<1>10. CASE ComputeLogits
      BY <1>10 DEF ComputeLogits
<1>11. CASE SampleStop \/ SampleCancelled \/ SampleLast \/ DecodeFull
      BY <1>11 DEF SampleStop, SampleCancelled, SampleLast, DecodeFull, Return
<1>12. CASE \E t \in Token : SampleToken(t)
      BY <1>12 DEF SampleToken
<1>13. CASE Decode
      BY <1>13 DEF Decode
<1>14. CASE Fail \/ Crash \/ PowerLoss
      BY <1>14 DEF Fail, Crash, PowerLoss, Restart, Return
<1>15. CASE UNCHANGED vars
      BY <1>15 DEF vars
<1> HIDE DEF HiddenInv
<1> QED
    BY <1>1, <1>2, <1>3, <1>4, <1>5, <1>6, <1>7, <1>8, <1>9, <1>10, <1>11, <1>12,
       <1>13, <1>14, <1>15
    DEF Next, GenerateStep

\* Without session files the logits are never computed from a hidden vector
\* that does not exist: compute_logits() is reached with last_chunk > 0.
THEOREM HiddenCorrect ==
    ASSUME PromptsFit, NoSessions
    PROVE  Spec => []LogitsHaveHidden
<1>1. TypeInv /\ HiddenInv /\ [Next]_vars => TypeInv' /\ HiddenInv'
      BY TypeNext, HiddenNext
<1>2. HiddenInv => LogitsHaveHidden
      BY DEF HiddenInv, TileRun, LogitsHaveHidden
<1> QED BY <1>1, <1>2, TypeInit, HiddenInit, PTL DEF Spec

-----------------------------------------------------------------------------
(* Step simulation.                                                        *)

\* A return, a crash or a power failure ends the request, if there is one.
LEMMA ReturnEnds ==
    ASSUME NEW o, Return(o), TypeInv, SafeInv, HiddenInv
    PROVE  Stateless!Next \/ UNCHANGED Stateless!vars
<1>1. CASE call = NoCall
      <2>1. pc = "idle"
            BY <1>1 DEF TypeInv, TypeOK
      <2> QED
          BY <1>1, <2>1
          DEF Return, SafeInv, NothingGenerated, HiddenInv, IdleBlank, Stateless!vars
<1>2. CASE call # NoCall
      BY <1>2 DEF Return, Stateless!Next, Stateless!End
<1> QED BY <1>1, <1>2

\* Every step of generate() is a step of Completion or invisible in it.
LEMMA CompletionStep ==
    ASSUME GraphDecoding, TypeInv, SafeInv, SafeInv', HiddenInv, [Next]_vars
    PROVE  Stateless!Next \/ UNCHANGED Stateless!vars
<1> USE DEF locals, Stateless!vars
<1>1. CASE \E p \in Prompt, m \in 1 .. MaxNew, o \in Options : Generate(p, m, o)
      <2>1. call = NoCall /\ call' \in Calls /\ UNCHANGED <<dLogits, generated>>
            BY <1>1 DEF Generate, Calls, TypeInv, TypeOK
      <2> QED BY <2>1 DEF Stateless!Next, Stateless!Submit
<1>2. CASE \/ MatchMemory \/ MissMemory \/ FindSession \/ LoadGdn \/ LoadKv
           \/ Restore \/ ColdStart \/ PrefillTile
           \/ SaveCheckpoint \/ WriteSession \/ RenameSession \/ SaveSessionFails
      BY <1>2 DEF MatchMemory, MissMemory, FindSession, LoadGdn, LoadKv, Restore,
                  ColdStart, PrefillTile, SaveCheckpoint, WriteSession, RenameSession,
                  SaveSessionFails
<1>3. CASE ComputeLogits
      <2>1. /\ call # NoCall /\ call' = call
            /\ call.prompt \in Seq(Token)
            /\ generated = <<>> /\ generated' = generated
            BY <1>3, CallType DEF ComputeLogits, SafeInv, NothingGenerated
      <2>2. dLogits' = call.prompt
            <3>1. lastChunk > 0 /\ pc' = "sampleFirst" /\ lastChunk' = lastChunk
                  BY <1>3 DEF ComputeLogits, Goto, HiddenInv, TileRun
            <3> QED BY <2>1, <3>1 DEF SafeInv, LogitsFollow
      <2>3. dLogits' = call.prompt \o generated
            BY <2>1, <2>2, ConcatEmptySeq
      <2> QED BY <2>1, <2>3 DEF Stateless!Next, Stateless!Predict
<1>4. CASE SampleStop \/ SampleCancelled \/ SampleLast \/ DecodeFull
      BY <1>4, ReturnEnds DEF SampleStop, SampleCancelled, SampleLast, DecodeFull
<1>5. ASSUME NEW t \in Token, SampleToken(t)
      PROVE  Stateless!Next
      <2>1. /\ call # NoCall /\ call' = call
            /\ call.prompt \in Seq(Token)
            /\ UNCHANGED dLogits
            BY <1>5, CallType DEF SampleToken
      <2>2. dLogits = call.prompt \o generated
            <3>1. CASE pc = "sample"
                  BY <3>1, CallType DEF Calls, GraphDecoding, SafeInv, LogitsFollow, Context
            <3>2. CASE pc = "sampleFirst"
                  <4>1. dLogits = call.prompt /\ generated = <<>>
                        BY <3>2 DEF SafeInv, LogitsFollow, NothingGenerated, HiddenInv, TileRun
                  <4> QED BY <2>1, <4>1, ConcatEmptySeq
            <3> QED BY <1>5, <3>1, <3>2 DEF SampleToken
      <2> QED BY <1>5, <2>1, <2>2 DEF SampleToken, Stateless!Next, Stateless!Emit
<1>6. CASE Decode
      <2>1. call # NoCall /\ UNCHANGED <<call, generated>> /\ pc' = "sample"
            BY <1>6, CallType DEF Decode, Goto
      <2>2. dLogits' = call.prompt \o generated
            <3>1. call.opt.graph
                  BY <1>6, CallType DEF Decode, Calls, GraphDecoding
            <3> QED BY <2>1, <3>1 DEF SafeInv, LogitsFollow, Context
      <2> QED BY <2>1, <2>2 DEF Stateless!Next, Stateless!Predict
<1>7. CASE Fail \/ Crash \/ PowerLoss
      BY <1>7, ReturnEnds DEF Fail, Crash, PowerLoss, Restart
<1>8. CASE UNCHANGED vars
      BY <1>8 DEF vars
<1> QED
    BY <1>1, <1>2, <1>3, <1>4, <1>5, <1>6, <1>7, <1>8 DEF Next, GenerateStep

\* generate() with the decode graph is a completion of its prompt: what the caller
\* sees does not depend on what the engine still knows of earlier calls.
THEOREM GenerateImplementsCompletion ==
    ASSUME SafeCallers, NoSessions, GraphDecoding
    PROVE  Spec => ImplementsCompletion
<1>1. Init => Stateless!Init
      BY DEF Init, FreshEngine, Stateless!Init
<1>2. /\ TypeInv /\ SafeInv /\ HiddenInv /\ [Next]_vars
      => TypeInv' /\ SafeInv' /\ HiddenInv' /\ (Stateless!Next \/ UNCHANGED Stateless!vars)
      BY TypeNext, SafeNext, HiddenNext, CompletionStep DEF SafeCallers, PromptsFit
<1>3. TypeInv /\ SafeInv /\ HiddenInv /\ [Next]_vars =>
          TypeInv' /\ SafeInv' /\ HiddenInv' /\ [Stateless!Next]_(Stateless!vars)
      BY <1>2
<1> QED
    BY <1>1, <1>3, TypeInit, SafeInit, HiddenInit, PTL
    DEF Spec, ImplementsCompletion, Stateless!Spec

-----------------------------------------------------------------------------
(* Faults.  Device calls may throw anywhere and callers need not check the *)
(* context; they only have to submit prompts that fit the cache.           *)

\* Calls that do not reuse ask for reset_state(), as the one without a
\* checkpoint has nothing else to start from.
ColdCallsReset == \A o \in Options : ~o.reuse => o.reset

\* Every caller in the command line sets reset_state_before.
EveryCallResets == \A o \in Options : o.reset

-----------------------------------------------------------------------------
(* Cold calls.                                                             *)

\* Where a call that does not reuse stands, phase by phase.  Decoding is followed
\* through the graph, as long as nothing was written past the capacity.
ColdFollows ==
    /\ pc \notin {"find", "loadGdn", "loadKv", "restore"}
    /\ pc = "prefill" => EngineAt(call.prompt, pos)
    /\ pc \in {"save", "write", "rename", "logits", "sampleFirst"} =>
          EngineAt(call.prompt, Len(call.prompt))
    /\ pc \in {"save", "write", "rename", "logits"} => lastChunk > 0
    /\ pc = "sampleFirst" => dLogits = call.prompt
    /\ pc \in {"decode", "sample"} => generated # <<>>
    /\ call.opt.graph /\ pc = "decode" /\ Len(Context) <= Capacity =>
          EngineAt(Context, Len(Context) - 1)
    /\ call.opt.graph /\ pc = "sample" /\ Len(Context) <= Capacity =>
          EngineAt(Context, Len(Context)) /\ dLogits = Context

ColdInv ==
    /\ NothingGenerated
    /\ pc # "idle" /\ ~call.opt.reuse => ColdFollows

\* Between calls there is nothing to say.
LEMMA ColdIdle == ASSUME pc' = "idle", generated' = <<>> PROVE ColdInv'
BY DEF ColdInv, NothingGenerated

\* A step that changes neither the call nor the device leaves the engine where it
\* is.
LEMMA EngineStays ==
    ASSUME UNCHANGED <<device, call, generated>>
    PROVE  /\ EngineAt(call.prompt, Len(call.prompt)) =>
                  EngineAt(call.prompt, Len(call.prompt))'
           /\ Context' = Context
BY DEF device, EngineAt, Context

\* Every step, failures and crashes included, preserves it.
LEMMA ColdNext ==
    ASSUME PromptsFit, ColdCallsReset, TypeInv, ColdInv, [Next]_vars
    PROVE  ColdInv'
<1> USE DEF device, host, storage, locals, Goto, ColdInv, ColdFollows, NothingGenerated
<1>1. ASSUME NEW p \in Prompt, NEW m \in 1 .. MaxNew, NEW o \in Options,
             Generate(p, m, o)
      PROVE  ColdInv'
      BY <1>1 DEF Generate, TypeInv, TypeOK, FreshEngine
<1>2. CASE MatchMemory \/ MissMemory
      BY <1>2 DEF MatchMemory, MissMemory, MemoryHit
<1>3. CASE FindSession \/ LoadGdn \/ LoadKv \/ Restore
      BY <1>3 DEF FindSession, LoadGdn, LoadKv, Restore
<1>4. CASE ColdStart
      <2>1. pos = 0 /\ call \in Calls
            BY <1>4, CallType DEF ColdStart, TypeInv, PositionInPrompt
      <2>2. CASE ~call.opt.reuse
            <3>1. call.opt.reset
                  BY <2>1, <2>2 DEF Calls, ColdCallsReset
            <3>2. EngineAt(call.prompt, pos)'
                  BY <1>4, <2>1, <3>1, SubSeqEmpty, HistoriesAssumption
                  DEF ColdStart, EngineAt, RowsHold, Prefix, Blank
            <3> QED BY <1>4, <3>2 DEF ColdStart
      <2>3. CASE call.opt.reuse
            BY <1>4, <2>3 DEF ColdStart
      <2> QED BY <2>2, <2>3
<1>5. CASE PrefillTile
      <2>1. call' = call /\ generated' = generated /\ pc' \in {"save", "prefill"}
            BY <1>5 DEF PrefillTile
      <2>2. lastChunk' > 0
            BY <1>5, ChunkType, HistoriesAssumption DEF PrefillTile
      <2>3. CASE ~call.opt.reuse
            <3>1. EngineAt(call.prompt, pos)
                  BY <1>5, <2>3 DEF PrefillTile
            <3>2. /\ EngineAt(call.prompt, pos)'
                  /\ pc' = "save" => EngineAt(call.prompt, Len(call.prompt))'
                  BY <1>5, <3>1, PrefillAdvances
            <3> QED BY <1>5, <2>1, <2>2, <3>2 DEF PrefillTile
      <2>4. CASE call.opt.reuse
            BY <1>5, <2>1, <2>4 DEF PrefillTile
      <2> QED BY <2>3, <2>4
<1>6. CASE SaveCheckpoint \/ WriteSession \/ RenameSession \/ SaveSessionFails
      <2>1. /\ UNCHANGED <<device, call, generated, lastChunk>>
            /\ pc \in {"save", "write", "rename"} /\ pc' \in {"write", "rename", "logits"}
            BY <1>6 DEF SaveCheckpoint, WriteSession, RenameSession, SaveSessionFails
      <2> QED BY <2>1, EngineStays
<1>7. CASE ComputeLogits
      <2>1. /\ UNCHANGED <<device, call, generated>>
            /\ pc = "logits" /\ pc' = "sampleFirst"
            /\ dLogits' = IF lastChunk = 0 THEN Garbage ELSE recurrentStates
            BY <1>7 DEF ComputeLogits
      <2>2. CASE ~call.opt.reuse
            <3>1. recurrentStates = call.prompt /\ lastChunk # 0
                  BY <2>1, <2>2, CallType, PrefixWhole DEF EngineAt
            <3> QED BY <2>1, <2>2, <3>1, EngineStays
      <2>3. CASE call.opt.reuse
            BY <2>1, <2>3
      <2> QED BY <2>2, <2>3
<1>8. CASE SampleStop \/ SampleCancelled \/ SampleLast \/ DecodeFull \/ Fail
           \/ Crash \/ PowerLoss
      <2>1. \E o \in Outcomes : Return(o)
            BY <1>8 DEF SampleStop, SampleCancelled, SampleLast, DecodeFull, Fail, Crash,
                        PowerLoss, Restart, Outcomes
      <2> QED BY <2>1, ColdIdle DEF Return
<1>9. ASSUME NEW t \in Token, SampleToken(t)
      PROVE  ColdInv'
      <2>1. call' = call /\ pc' = "decode" /\ pc \in {"sampleFirst", "sample"}
            BY <1>9 DEF SampleToken
      <2>2. generated' # <<>> /\ Len(Context') = Len(Context) + 1
            BY <1>9, SampleLengthens
      <2>3. CASE ~call.opt.reuse /\ call.opt.graph /\ Len(Context') <= Capacity
            <3>1. EngineAt(Context, Len(Context))
                  <4>1. Len(Context) <= Capacity
                        BY <2>1, <2>2, <2>3, ContextFact, CallType, HistoriesAssumption
                  <4>2. CASE pc = "sample"
                        BY <2>3, <4>1, <4>2
                  <4>3. CASE pc = "sampleFirst"
                        BY <2>3, <4>3, CallType, ConcatEmptySeq DEF Context
                  <4> QED BY <2>1, <4>2, <4>3
            <3>2. EngineAt(Context, Len(Context) - 1)'
                  BY <1>9, <3>1, SampleAdvances
            <3> QED BY <2>1, <2>2, <3>2
      <2>4. CASE ~(~call.opt.reuse /\ call.opt.graph /\ Len(Context') <= Capacity)
            BY <2>1, <2>2, <2>4
      <2> QED BY <2>3, <2>4
<1>10. CASE Decode
      <2>1. /\ call' = call /\ generated' = generated /\ Context' = Context
            /\ pc' = "sample" /\ pc = "decode"
            BY <1>10 DEF Decode, Context
      <2>2. CASE ~call.opt.reuse /\ call.opt.graph /\ Len(Context) <= Capacity
            <3>1. EngineAt(Context, Len(Context) - 1)
                  BY <2>1, <2>2
            <3>2. EngineAt(Context, Len(Context))' /\ dLogits' = Context'
                  BY <1>10, <2>2, <3>1, DecodeAdvances
            <3> QED BY <2>1, <3>2
      <2>3. CASE ~(~call.opt.reuse /\ call.opt.graph /\ Len(Context) <= Capacity)
            BY <2>1, <2>3
      <2> QED BY <2>2, <2>3
<1>11. CASE UNCHANGED vars
      BY <1>11 DEF vars, EngineAt, Context
<1> QED
    BY <1>1, <1>2, <1>3, <1>4, <1>5, <1>6, <1>7, <1>8, <1>9, <1>10, <1>11
    DEF Next, GenerateStep

\* A call that does not reuse samples its first token from its own prompt, whatever
\* failures, overflows and host loops of earlier calls left in the states, the rows
\* and the checkpoint, and although nobody asked whether prompt and output fit; with
\* the decode graph it goes on so for as long as the context fits.
THEOREM ColdCallsCorrect ==
    ASSUME PromptsFit, ColdCallsReset
    PROVE  Spec => []ColdCallsIndependent
<1>1. Init => ColdInv
      BY DEF Init, FreshEngine, ColdInv, NothingGenerated
<1>2. TypeInv /\ ColdInv /\ [Next]_vars => TypeInv' /\ ColdInv'
      BY TypeNext, ColdNext
<1>3. TypeInv /\ ColdInv => ColdCallsIndependent
      <2> SUFFICES ASSUME TypeInv, ColdInv, pc \in {"sampleFirst", "sample"},
                          ~call.opt.reuse,
                          generated = <<>> \/ (call.opt.graph /\ Len(Context) <= Capacity)
                   PROVE  dLogits = Context
          BY DEF ColdCallsIndependent
      <2>1. CASE pc = "sample"
            BY <2>1 DEF ColdInv, ColdFollows
      <2>2. CASE pc = "sampleFirst"
            BY <2>2, CallType, ConcatEmptySeq DEF ColdInv, ColdFollows, NothingGenerated, Context
      <2> QED BY <2>1, <2>2
<1> QED BY <1>1, <1>2, <1>3, TypeInit, PTL DEF Spec

-----------------------------------------------------------------------------
(* Failures while a suffix is prefilled.                                   *)

\* During prefill the rows of the checkpoint lie below the tile being written;
\* if they do not, this is a cold call, and the cache has been zeroed since.
RowsBelowTile ==
    pc = "prefill" /\ HasValidPrefix =>
        \/ Len(reusableContext.tokens) <= pos
        \/ \A i \in Rows : i > pos => kvCaches[i] \in {Blank, Garbage}

\* A zeroed row is not the last row of any checkpoint.
LEMMA BelowTile ==
    ASSUME TypeInv, RowsBelowTile, pc = "prefill", CheckpointInCache
    PROVE  Len(reusableContext.tokens) <= pos
<1> DEFINE tokens == reusableContext.tokens
           n == Len(tokens)
<1>1. tokens \in Seq(Token) /\ tokens # <<>> /\ n \in Nat /\ n # 0
      BY EmptySeq, LenProperties
      DEF TypeInv, TypeOK, Contexts, CheckpointInCache, HasValidPrefix
<1>2. n \in Rows /\ kvCaches[n] = tokens
      <2>1. n <= Capacity /\ n \in 1 .. n /\ kvCaches[n] = Prefix(tokens, n)
            BY <1>1 DEF CheckpointInCache, RowsHold
      <2> QED BY <1>1, <2>1, PrefixWhole, HistoriesAssumption DEF Rows
<1>3. kvCaches[n] \notin {Blank, Garbage}
      BY <1>1, <1>2, GarbageIsNoSequence DEF Blank
<1>4. pos \in Nat
      BY DEF TypeInv, TypeOK
<1> QED BY <1>1, <1>2, <1>3, <1>4 DEF RowsBelowTile, CheckpointInCache

\* Only a tile and the two ways into prefill matter.
LEMMA BelowNext ==
    ASSUME PromptsFit, EveryCallResets, TypeInv, RowsBelowTile, [Next]_vars
    PROVE  RowsBelowTile'
<1> USE DEF device, host, storage, locals, Goto
<1>1. CASE Restore
      <2>1. Len(reusableContext.tokens) \in Nat
            BY LenProperties DEF TypeInv, TypeOK, Contexts
      <2> QED BY <1>1, <2>1 DEF Restore, RowsBelowTile
<1>2. CASE ColdStart
      <2>1. call.opt.reset
            BY <1>2, CallType DEF ColdStart, Calls, EveryCallResets
      <2> QED BY <1>2, <2>1 DEF ColdStart, RowsBelowTile, BlankRows
<1>3. CASE PrefillTile
      <2>1. pos \in Nat /\ Chunk \in Nat /\ pos' = pos + Chunk
            BY <1>3, ChunkType, HistoriesAssumption DEF PrefillTile, TypeInv, TypeOK
      <2>2. \A i \in Rows : i > pos' => kvCaches'[i] \in {kvCaches[i], Garbage}
            <3>1. PICK out : kvCaches' = StoredRows(kvCaches, pos, Chunk, out)
                  BY <1>3, ChunkType DEF PrefillTile, Run, Leaves
            <3> QED BY <2>1, <3>1, HistoriesAssumption DEF StoredRows, Rows
      <2>3. Len(reusableContext.tokens) \in Nat /\ UNCHANGED reusableContext
            BY <1>3, LenProperties DEF PrefillTile, TypeInv, TypeOK, Contexts
      <2>4. pc = "prefill" /\ (HasValidPrefix' => HasValidPrefix)
            BY <1>3, <2>3 DEF PrefillTile, HasValidPrefix
      <2> QED BY <2>1, <2>2, <2>3, <2>4, HistoriesAssumption DEF RowsBelowTile, Rows
<1>4. CASE pc' # "prefill"
      BY <1>4 DEF RowsBelowTile
<1>5. CASE UNCHANGED vars
      BY <1>5 DEF vars, RowsBelowTile, HasValidPrefix
<1>6. Next => pc' # "prefill" \/ Restore \/ ColdStart \/ PrefillTile
      BY DEF Next, GenerateStep, Generate, MatchMemory, MissMemory, FindSession, LoadGdn,
             LoadKv, SaveCheckpoint, WriteSession, RenameSession, SaveSessionFails,
             ComputeLogits, SampleStop, SampleCancelled, SampleLast, SampleToken, Decode,
             DecodeFull, Fail, Crash, PowerLoss, Restart, Return
<1> QED BY <1>1, <1>2, <1>3, <1>4, <1>5, <1>6

\* A step from restore or prefill makes no checkpoint valid.
LEMMA HeldBefore ==
    ASSUME [Next]_vars, pc \in {"restore", "prefill"}, outcome' = "failed", HasValidPrefix'
    PROVE  HasValidPrefix
<1>1. Next => Restore \/ PrefillTile \/ Fail \/ outcome' = "none"
      BY DEF Next, GenerateStep, Generate, MatchMemory, MissMemory, FindSession, LoadGdn,
             LoadKv, ColdStart, SaveCheckpoint, WriteSession, RenameSession,
             SaveSessionFails, ComputeLogits, SampleStop, SampleCancelled, SampleLast,
             SampleToken, Decode, DecodeFull, Crash, PowerLoss, Restart, Return
<1>2. UNCHANGED reusableContext
      BY <1>1 DEF Restore, PrefillTile, Fail, host, vars
<1> QED BY <1>2 DEF HasValidPrefix

\* A step from restore or prefill that throws, or that follows a call that threw,
\* leaves the rows of the checkpoint alone.
LEMMA WarmStep ==
    ASSUME PromptsFit, TypeInv, RowsBelowTile, [Next]_vars,
           pc \in {"restore", "prefill"}, CheckpointInCache, outcome' = "failed"
    PROVE  CheckpointInCache'
<1> USE DEF device, host, storage, locals, Goto
<1> DEFINE tokens == reusableContext.tokens
<1>1. tokens \in Seq(Token) /\ Len(tokens) \in Nat /\ Len(tokens) <= Capacity
      BY LenProperties DEF TypeInv, TypeOK, Contexts, CheckpointInCache, RowsHold
<1>2. ASSUME UNCHANGED host, \A i \in 1 .. Len(tokens) : kvCaches'[i] = kvCaches[i]
      PROVE  CheckpointInCache'
      BY <1>1, <1>2 DEF CheckpointInCache, HasValidPrefix, RowsHold
<1>3. CASE Restore
      BY <1>2, <1>3 DEF Restore
<1>4. CASE PrefillTile
      <2>1. /\ pos \in Nat /\ Chunk \in Nat /\ pos + Chunk <= Capacity
            /\ Len(tokens) <= pos
            BY <1>4, BelowTile, ChunkType, CallType, HistoriesAssumption
            DEF PrefillTile, TypeInv, TypeOK
      <2>2. PICK out : kvCaches' = StoredRows(kvCaches, pos, Chunk, out)
            BY <1>4, ChunkType DEF PrefillTile, Run, Leaves
      <2>3. \A i \in 1 .. Len(tokens) : kvCaches'[i] = kvCaches[i]
            BY <1>1, <2>1, <2>2, HistoriesAssumption DEF StoredRows, Rows
      <2> QED BY <1>2, <1>4, <2>3 DEF PrefillTile
<1>5. CASE Fail
      <2>1. UNCHANGED host
            BY <1>5 DEF Fail
      <2>2. kvCaches' \in {kvCaches, Spoilt(RowsBeingWritten)}
            BY <1>5 DEF Fail
      <2>3. \A i \in 1 .. Len(tokens) : i \notin RowsBeingWritten
            <3>1. CASE pc = "restore"
                  BY <3>1 DEF RowsBeingWritten
            <3>2. CASE pc = "prefill"
                  <4>1. RowsBeingWritten = pos + 1 .. pos + Chunk
                        BY <3>2 DEF RowsBeingWritten
                  <4>2. pos \in Nat /\ Chunk \in Nat /\ Len(tokens) <= pos
                        BY <3>2, BelowTile, ChunkType, HistoriesAssumption DEF TypeInv, TypeOK
                  <4> QED BY <1>1, <4>1, <4>2
            <3> QED BY <3>1, <3>2
      <2>4. \A i \in 1 .. Len(tokens) : kvCaches'[i] = kvCaches[i]
            BY <1>1, <2>2, <2>3, HistoriesAssumption DEF Spoilt, Rows
      <2> QED BY <1>2, <2>1, <2>4
<1>6. CASE UNCHANGED vars
      BY <1>2, <1>6 DEF vars
<1>7. Next => Restore \/ PrefillTile \/ Fail \/ outcome' = "none"
      BY DEF Next, GenerateStep, Generate, MatchMemory, MissMemory, FindSession, LoadGdn,
             LoadKv, ColdStart, SaveCheckpoint, WriteSession, RenameSession,
             SaveSessionFails, ComputeLogits, SampleStop, SampleCancelled, SampleLast,
             SampleToken, Decode, DecodeFull, Crash, PowerLoss, Restart, Return
<1> QED BY <1>3, <1>4, <1>5, <1>6, <1>7

\* A failure while the suffix of a reused prefix is prefilled tears no checkpoint: one
\* that is valid afterwards has its rows in the cache.
THEOREM WarmFailureCorrect ==
    ASSUME PromptsFit, EveryCallResets
    PROVE  Spec => WarmFailureTearsNothing
<1>1. Init => RowsBelowTile
      BY DEF Init, FreshEngine, RowsBelowTile
<1>2. TypeInv /\ RowsBelowTile /\ [Next]_vars => TypeInv' /\ RowsBelowTile'
      BY TypeNext, BelowNext
<1>3. TypeInv /\ RowsBelowTile /\ [Next]_vars =>
          [(/\ pc \in {"restore", "prefill"}
            /\ HasValidPrefix => CheckpointInCache
            /\ outcome' = "failed"
            /\ HasValidPrefix') => CheckpointInCache']_vars
      <2> SUFFICES ASSUME TypeInv, RowsBelowTile, [Next]_vars,
                          pc \in {"restore", "prefill"},
                          HasValidPrefix => CheckpointInCache,
                          outcome' = "failed", HasValidPrefix'
                   PROVE  CheckpointInCache'
          OBVIOUS
      <2> QED BY HeldBefore, WarmStep
<1> QED BY <1>1, <1>2, <1>3, TypeInit, PTL DEF Spec, WarmFailureTearsNothing

=============================================================================
