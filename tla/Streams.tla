------------------------------- MODULE Streams -------------------------------
(***************************************************************************)
(* One generation read by both of its consumers: the streaming callback of *)
(* cmd_serve and the terminal stream of chat.  The pieces are what tokens  *)
(* decode to, so a marker may arrive whole, in parts, or several at once.  *)
(***************************************************************************)
EXTENDS ServeStream, TerminalStream

CONSTANTS
    Pieces,         \* what one token may decode to
    MaxTokens       \* bound on the number of tokens

ASSUME PiecesAssumption == Pieces \subseteq (Seq(STRING) \ {<<>>}) /\ MaxTokens \in Nat

VARIABLE tokens     \* tokens generated, to bound the run

vars == <<text, tokens, serveVars, terminalVars>>

Init == text = <<>> /\ tokens = 0 /\ ServeInit /\ TerminalInit

Token ==
    \E piece \in Pieces :
        /\ tokens < MaxTokens
        /\ tokens' = tokens + 1
        /\ text' = text \o piece
        /\ Push
        /\ OnToken

\* The order of the two consumers does not matter, since they share only the
\* text: the terminal goes first.
Step ==
    \/ Token
    \/ TerminalWork /\ UNCHANGED <<text, tokens, serveVars>>
    \/ tstate = "idle" /\ ServeWork /\ UNCHANGED <<text, tokens, terminalVars>>
    \/ tstate = "idle" /\ LoseClient /\ UNCHANGED <<text, tokens, terminalVars>>
    \/ Finish /\ Flush /\ UNCHANGED <<text, tokens>>

Ended == state \in {"done", "lost"} /\ tstate # "finish" /\ UNCHANGED vars

Next == Step \/ Ended

Spec == Init /\ [][Next]_vars

-----------------------------------------------------------------------------
\* The words the properties are stated with.

Solid(positions) == {positions[i] : i \in DOMAIN positions} \ {i \in DOMAIN text : text[i] = "n"}

Increasing(s) == \A i, j \in DOMAIN s : i < j => s[i] < s[j]

\* The positions in order, each once, line breaks aside.
Matches(sent, whole) == Increasing(sent) /\ Solid(sent) = Solid(whole)

\* Every thinking tag is closed where its name ends.
TagsComplete ==
    \A i \in 1 .. Len(text) - 1 :
        text[i] = "<" /\ text[i + 1] \in {"k", "/k"}
            => i + 2 <= Len(text) /\ text[i + 2] = ">"

NoTools == \A i \in DOMAIN text : text[i] \notin {"t", "/t", "f", "/f"}

LeadingThoughtOnly ==
    Cardinality({i \in DOMAIN text : StartsAt(text, i, <<"<", "k">>)}) <= 1
    /\ \A i \in DOMAIN text : StartsAt(text, i, <<"<", "k">>) => i = 1

\* What the server streams is what extract_reasoning_and_content() makes of
\* the whole text at once (the answer of a request without stream): each
\* symbol once, in order and in the right channel, however the tokens cut the
\* markers, line breaks next to tags aside.  With tools on offer this takes a
\* thought that comes first.
ServeMatchesExtraction ==
    state = "done" /\ TagsComplete /\ NoTools /\ (defer => LeadingThoughtOnly) =>
        /\ Matches(content, Extract(text).content)
        /\ Matches(reasoning, Extract(text).reasoning)

\* Nothing that has been streamed is streamed again or taken back while the
\* text grows, and the two channels never carry the same symbol.
StreamedOnce ==
    state \in {"idle", "work"} =>
        /\ Increasing(content) /\ Increasing(reasoning)
        /\ \A i \in DOMAIN content, j \in DOMAIN reasoning : content[i] # reasoning[j]

\* Only the beginning of a marker, or a marker whose end is not there yet, is
\* kept from a client that waits for content or reasoning.
NothingWithheld ==
    state = "idle" /\ at < End /\ (mode = "THINKING" \/ check = "IS_CONTENT") =>
        text[at] = "<" /\ \A i \in at + 1 .. Len(text) : text[i] # ">"

-----------------------------------------------------------------------------
\* The tag came before i, and what closes it did not come since.
IsOpen(t, tag, close, i) ==
    \E p \in 1 .. i - 1 : t[p] = tag /\ \A q \in p .. i - 1 : t[q] # close

Tags == {"k", "/k", "t", "/t", "f", "/f"}

\* Texts whose tags are complete and nest as a model is taught to write them:
\* thoughts, functions, and calls around functions.
Orderly(t) ==
    LET Thinking(i) == IsOpen(t, "k", "/k", i)
        Calling(i) == IsOpen(t, "t", "/t", i)
        Naming(i) == IsOpen(t, "f", "/f", i)
    IN  \A i \in DOMAIN t :
          /\ t[i] = "<" => \/ \E tag \in Tags : StartsAt(t, i, <<"<", tag, ">">>)
                           \/ StartsAt(t, i, <<"<", "f", "a", ">">>)
          /\ t[i] \in Tags => i > 1 /\ t[i - 1] = "<"
          /\ t[i] \in {"k", "t", "f"} => ~Thinking(i) /\ ~Naming(i)
          /\ t[i] \in {"k", "t"} => ~Calling(i)
          /\ t[i] = "/k" => Thinking(i)
          /\ t[i] = "/f" => Naming(i)
          /\ t[i] = "/t" => Calling(i) /\ ~Naming(i)

\* </tool_call> is the end of the token it comes in: the tokenizer has one
\* token for it.
CallsEndTokens == \A piece \in Pieces : \A i \in DOMAIN piece : piece[i] = "/t" => i = Len(piece) - 1

\* What the terminal printed while the text grew is what terminal_output()
\* makes of the whole text, line breaks next to tags aside, however the tokens
\* cut the markers.
TerminalMatchesOutput ==
    tstate = "done" /\ Orderly(text) => Matches(shown, TerminalOutput(text))

=============================================================================
