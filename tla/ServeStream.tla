---------------------------- MODULE ServeStream ----------------------------
(***************************************************************************)
(* The on_token callback of a streaming request in cmd_serve: it separates *)
(* reasoning, content and tool calls while the text arrives token by       *)
(* token.  One step is one turn of its loop.                               *)
(***************************************************************************)
EXTENDS GeneratedText

CONSTANTS
    BlankLimit      \* white space after which a text is taken for content

ASSUME BlankLimitAssumption == BlankLimit \in Nat

VARIABLES           \* accumulated_text is text
    at,             \* processed_pos: the first symbol not dealt with
    mode,           \* stream_mode
    check,          \* tool_check_state
    checkFrom,      \* tool_check_start_pos
    defer,          \* defer_tool_output: the request offers tools
    content,        \* positions sent as content
    reasoning,      \* positions sent as reasoning_content
    calls,          \* tool calls were sent
    state           \* "idle", "work" (in the callback), "done", "lost"

serveVars == <<at, mode, check, checkFrom, defer, content, reasoning, calls, state>>

ServeInit ==
    /\ at = 1
    /\ mode = "CONTENT"
    /\ defer \in BOOLEAN
    /\ check = IF defer THEN "CHECKING" ELSE "IS_CONTENT"
    /\ checkFrom = 1
    /\ content = <<>> /\ reasoning = <<>>
    /\ calls = FALSE
    /\ state = "idle"

SendContent(a, b) == content' = content \o Span(a, b)
SendReasoning(a, b) == reasoning' = reasoning \o Span(a, b)

\* The callback is entered with one more piece in the text.
OnToken ==
    /\ state = "idle"
    /\ state' = "work"
    /\ UNCHANGED <<at, mode, check, checkFrom, defer, content, reasoning, calls>>

\* The loop ends when everything is dealt with.
LoopEnds ==
    /\ state = "work" /\ at = End
    /\ state' = "idle"
    /\ UNCHANGED <<at, mode, check, checkFrom, defer, content, reasoning, calls>>

-----------------------------------------------------------------------------
\* Content mode.

ThinkOpens ==
    LET start == Find(text, OpenThink, at)
    IN  Found(text, start) /\ TagEnd(text, start) # NoEnd

OpenTag ==
    /\ state = "work" /\ at < End /\ mode = "CONTENT" /\ ThinkOpens
    /\ LET start == Find(text, OpenThink, at)
       IN  /\ IF check = "IS_CONTENT" THEN SendContent(at, start) ELSE UNCHANGED content
           /\ at' = TagEnd(text, start)
    /\ mode' = "THINKING"
    /\ UNCHANGED <<check, checkFrom, defer, reasoning, calls, state>>

\* Mutant: nothing is held back.
SafeContentWhole == End

\* Everything but what may be the beginning of a thinking tag.
SafeContent == End - HeldBack(text, at, {<<"<", "k", ">">>})

ToolTag == <<"<", "t", ">">>
JsonTag == <<"q", "j">>
IsPrefixOf(s, t) == Len(s) <= Len(t) /\ SubSeq(t, 1, Len(s)) = s

\* What the text since checkFrom is taken for.
Verdict ==
    LET first == SkipNewlines(text, checkFrom)
        candidate == SubSeq(text, first, Len(text))
    IN  IF Found(text, first)
          THEN IF IsPrefixOf(OpenCall, candidate) \/ IsPrefixOf(JsonTag, candidate)
                 THEN "IS_TOOL_CALL"
               ELSE IF IsPrefixOf(candidate, ToolTag) \/ IsPrefixOf(candidate, JsonTag)
                 THEN "CHECKING"
               ELSE "IS_CONTENT"
        ELSE IF End - checkFrom > BlankLimit THEN "IS_CONTENT" ELSE "CHECKING"

PassContent ==
    /\ state = "work" /\ at < End /\ mode = "CONTENT" /\ ~ThinkOpens
    /\ state' = "idle"
    /\ LET now == IF check = "CHECKING" /\ SafeContent > at THEN Verdict ELSE check
       IN  /\ check' = now
           /\ at' = IF now = "CHECKING" \/ SafeContent <= at THEN at ELSE SafeContent
           /\ IF now = "IS_CONTENT" THEN SendContent(at, SafeContent) ELSE UNCHANGED content
    /\ UNCHANGED <<mode, checkFrom, defer, reasoning, calls>>

-----------------------------------------------------------------------------
\* Thinking mode.

CloseAt == Find(text, CloseThink, at)
ThinkCloses == Found(text, CloseAt) /\ TagEnd(text, CloseAt) # NoEnd
ToolAt == Find(text, OpenTool, at)
ToolComesFirst == Found(text, ToolAt) /\ (ThinkCloses => ToolAt < CloseAt)

ToolWhileThinking ==
    /\ state = "work" /\ at < End /\ mode = "THINKING" /\ ToolComesFirst
    /\ SendReasoning(at, ToolAt)
    /\ at' = ToolAt
    /\ mode' = "CONTENT"
    /\ check' = "IS_TOOL_CALL" /\ checkFrom' = ToolAt
    /\ UNCHANGED <<defer, content, calls, state>>

CloseTag ==
    /\ state = "work" /\ at < End /\ mode = "THINKING" /\ ~ToolComesFirst /\ ThinkCloses
    /\ SendReasoning(at, CloseAt)
    /\ at' = TagEnd(text, CloseAt)
    /\ mode' = "CONTENT"
    /\ check' = IF defer THEN "CHECKING" ELSE "IS_CONTENT"
    /\ checkFrom' = TagEnd(text, CloseAt)
    /\ UNCHANGED <<defer, content, calls, state>>

\* Mutant: any "<" in the last three symbols is held back.
SafeReasoningTimid ==
    IF End - 2 >= at /\ text[End - 2] = "<" THEN End - 2
    ELSE End - HeldBack(text, at, {<<"<", "/k", ">">>, ToolTag, OpenFunction})

SafeReasoning ==
    End - HeldBack(text, at, {<<"<", "/k", ">">>, ToolTag, OpenFunction})

\* Mutant: what was sent is not marked as dealt with.
PassReasoningAgain ==
    /\ state = "work" /\ at < End /\ mode = "THINKING" /\ ~ToolComesFirst /\ ~ThinkCloses
    /\ state' = "idle"
    /\ SendReasoning(at, SafeReasoning)
    /\ UNCHANGED <<at, mode, check, checkFrom, defer, content, calls>>

PassReasoning ==
    /\ state = "work" /\ at < End /\ mode = "THINKING" /\ ~ToolComesFirst /\ ~ThinkCloses
    /\ state' = "idle"
    /\ SendReasoning(at, SafeReasoning)
    /\ at' = IF SafeReasoning > at THEN SafeReasoning ELSE at
    /\ UNCHANGED <<mode, check, checkFrom, defer, content, calls>>

-----------------------------------------------------------------------------
\* After generate(): what was held back, then the tool calls or, when none
\* could be parsed, the content of the whole text.
Flush ==
    /\ state = "idle"
    /\ state' = "done"
    /\ IF mode = "THINKING" THEN SendReasoning(at, End) ELSE UNCHANGED reasoning
    /\ content' = content
           \o (IF mode = "CONTENT" /\ check = "IS_CONTENT" THEN Span(at, End) ELSE <<>>)
           \o (IF defer /\ ~HasCalls(text) /\ check # "IS_CONTENT"
                 THEN Extract(text).content ELSE <<>>)
    /\ calls' = (defer /\ HasCalls(text))
    /\ UNCHANGED <<at, mode, check, checkFrom, defer>>

\* A write fails: the callback returns false, the call is cancelled and nothing
\* more is written.
LoseClient ==
    /\ state \in {"idle", "work"}
    /\ state' = "lost"
    /\ UNCHANGED <<at, mode, check, checkFrom, defer, content, reasoning, calls>>

ServeWork ==
    \/ OpenTag \/ PassContent
    \/ ToolWhileThinking \/ CloseTag \/ PassReasoning
    \/ LoopEnds
=============================================================================
