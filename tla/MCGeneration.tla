---------------------------- MODULE MCGeneration ----------------------------
(***************************************************************************)
(* Small instances of Generation: two tokens, prompts that extend one      *)
(* another and one that diverges, tiles of two tokens.                     *)
(***************************************************************************)
EXTENDS Generation

CONSTANTS a, b

\* A conversation <<a>>, <<a,b>>, <<a,b,a>> and a divergent one.
Conversation == {<<a>>, <<a, b>>, <<a, b, a>>, <<b, b>>}

\* Every prompt of up to four tokens: two full tiles.
AllPrompts == UNION {[1 .. n -> Token] : n \in 1 .. 4}

\* A prompt, its continuation and a shorter divergent one, too short to persist.
ThreePrompts == {<<a, b>>, <<a, b, a>>, <<b>>}

Opt(reset, graph, reuse, cache, len, dir) ==
    [reset |-> reset, graph |-> graph, reuse |-> reuse, cache |-> cache,
     cacheLen |-> len, dir |-> dir]

\* cmd_chat, and cmd_serve with session reuse but no session directory.
ChatOptions == {Opt(TRUE, TRUE, TRUE, TRUE, 0, FALSE)}

\* cmd_serve with session reuse and a session directory.
ServeOptions == {Opt(TRUE, TRUE, TRUE, TRUE, 0, TRUE)}

\* cmd_run: neither reuse nor caching, by default with the decode graph and
\* with MIINFER_HIP_GRAPH=0 through the host loop.
RunOptions == {Opt(TRUE, graph, FALSE, FALSE, 0, FALSE) : graph \in BOOLEAN}

\* Both side by side: cold calls between calls that reuse.
FaultOptions == RunOptions \cup ServeOptions

=============================================================================
