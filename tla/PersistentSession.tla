-------------------------- MODULE PersistentSession --------------------------
(***************************************************************************)
(* PersistentSession: checkpoints on disk.  A session file is named by its *)
(* tokens (format_session_filename hashes them), carries header, tokens,   *)
(* GDN states and KV rows in that order, and is written to a ".tmp" file   *)
(* that is renamed when complete.  Model and quantization of every file in *)
(* the directory are taken to be the running engine's.                     *)
(***************************************************************************)
EXTENDS Histories

CONSTANTS MinPersist,  \* shortest prefix generate() persists (256)
          NoFile       \* no ".tmp" file / no session selected

VARIABLES sessionDir,  \* token prefix -> content, the "*.miinfer" files
          tempFile     \* the ".tmp" file last written, or NoFile

\* How far a file reaches: cut before the end of its tokens, of its GDN
\* states, of its KV rows, or complete.
Extents == {"header", "tokens", "gdn", "all"}

Sessions == [gdn : History, kv : Seq(History), extent : Extents]

\* A complete ".tmp" file and the name it will get.
Files == [name : Seq(Token), content : Sessions]

ASSUME PersistAssumption ==
    /\ MinPersist \in Nat \ {0}
    /\ NoFile \notin Files

Content(gdn, rows, n) ==
    [gdn |-> gdn, kv |-> [i \in 1 .. n |-> rows[i]], extent |-> "all"]

\* Mutant: the stored tokens are not compared with the prompt.
MatchingByLength(prompt) ==
    {t \in DOMAIN sessionDir :
        sessionDir[t].extent # "header" /\ t # <<>> /\ Len(t) <= Len(prompt)}

\* inspect_file() and the comparison loop of find_matching_session().
Matching(prompt) ==
    {t \in DOMAIN sessionDir :
        /\ sessionDir[t].extent # "header"
        /\ t # <<>>
        /\ Len(t) <= Len(prompt)
        /\ Prefix(prompt, Len(t)) = t}

\* find_matching_session(): the longest match.
BestMatch(prompt) ==
    CHOOSE t \in Matching(prompt) :
        \A u \in Matching(prompt) : Len(u) <= Len(t)

\* save_to_file() up to and including out.close(): only the ".tmp" file.
WriteTemp(tokens, gdn, rows) ==
    /\ tempFile' = [name |-> tokens, content |-> Content(gdn, rows, Len(tokens))]
    /\ UNCHANGED sessionDir

\* rename(temp_path, final_path)
RenameTemp ==
    /\ sessionDir' = [t \in DOMAIN sessionDir \cup {tempFile.name} |->
                        IF t = tempFile.name THEN tempFile.content ELSE sessionDir[t]]
    /\ tempFile' = NoFile

=============================================================================
