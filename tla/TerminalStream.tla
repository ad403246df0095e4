--------------------------- MODULE TerminalStream ---------------------------
(***************************************************************************)
(* TerminalTextStream: what run and chat print while a generation streams. *)
(* pending_ is always the end of the text, from `taken' on.  One step is   *)
(* one turn of the loop of process().                                      *)
(***************************************************************************)
EXTENDS GeneratedText

VARIABLES
    taken,          \* the first symbol of pending_
    tmode,          \* mode_
    outerTool,      \* outer_tool_
    resume,         \* resume_thinking_
    shown,          \* positions printed
    tstate          \* "idle", "push", "finish" (in process()), "done"

terminalVars == <<taken, tmode, outerTool, resume, shown, tstate>>

TerminalInit ==
    /\ taken = 1
    /\ tmode = "content"
    /\ outerTool = FALSE /\ resume = FALSE
    /\ shown = <<>>
    /\ tstate = "idle"

Processing == tstate \in {"push", "finish"}

Push == tstate = "idle" /\ tstate' = "push"
             /\ UNCHANGED <<taken, tmode, outerTool, resume, shown>>
Finish == tstate = "idle" /\ tstate' = "finish"
             /\ UNCHANGED <<taken, tmode, outerTool, resume, shown>>

\* process() returns: finish() drops what is still pending, push() keeps what
\* may be the beginning of a marker.
Return(kept) ==
    /\ taken' = IF tstate = "finish" THEN End ELSE kept
    /\ tstate' = IF tstate = "finish" THEN "done" ELSE "idle"
    /\ UNCHANGED <<tmode, outerTool, resume>>

NothingPending ==
    /\ Processing /\ taken = End
    /\ Return(taken)
    /\ UNCHANGED shown

Safe(markers) == End - HeldBack(text, taken, markers)

-----------------------------------------------------------------------------
ContentMarkers == OpenThink \union OpenTool

ShowContent ==
    LET mark == Find(text, ContentMarkers, taken)
    IN  /\ Processing /\ taken < End /\ tmode = "content"
        /\ Found(text, mark) => TagEnd(text, mark) = NoEnd
        /\ LET stop == IF Found(text, mark) THEN mark ELSE Safe(ContentMarkers)
           IN  shown' = shown \o Span(taken, stop) /\ Return(stop)

LeaveContent ==
    LET mark == Find(text, ContentMarkers, taken)
    IN  /\ Processing /\ taken < End /\ tmode = "content"
        /\ Found(text, mark) /\ TagEnd(text, mark) # NoEnd
        /\ shown' = shown \o Span(taken, mark)
        /\ taken' = TagEnd(text, mark)
        /\ tmode' = IF StartsAt(text, mark, <<"<", "k">>) THEN "thinking" ELSE "tool"
        /\ outerTool' = StartsAt(text, mark, OpenCall)
        /\ UNCHANGED <<resume, tstate>>

-----------------------------------------------------------------------------
ThinkingMarkers == CloseThink \union OpenTool

SkipThinking ==
    LET mark == Find(text, ThinkingMarkers, taken)
    IN  /\ Processing /\ taken < End /\ tmode = "thinking"
        /\ Found(text, mark) => TagEnd(text, mark) = NoEnd
        /\ Return(IF Found(text, mark) THEN mark ELSE Safe(ThinkingMarkers))
        /\ UNCHANGED shown

LeaveThinking ==
    LET mark == Find(text, ThinkingMarkers, taken)
        tool == \E m \in OpenTool : StartsAt(text, mark, m)
    IN  /\ Processing /\ taken < End /\ tmode = "thinking"
        /\ Found(text, mark) /\ TagEnd(text, mark) # NoEnd
        /\ taken' = TagEnd(text, mark)
        /\ tmode' = IF tool THEN "tool" ELSE "content"
        /\ resume' = (resume \/ tool)
        /\ outerTool' = IF tool THEN StartsAt(text, mark, OpenCall) ELSE outerTool
        /\ UNCHANGED <<shown, tstate>>

-----------------------------------------------------------------------------
\* Mutant: the end of a function ends the call around it.
ToolEndsAny == {CloseCall, CloseFunction}

ToolEnds == IF outerTool THEN {CloseCall} ELSE {CloseCall, CloseFunction}

SkipTool ==
    /\ Processing /\ taken < End /\ tmode = "tool"
    /\ ~Found(text, Find(text, ToolEnds, taken))
    /\ Return(Safe({CloseCall, CloseFunction}))
    /\ UNCHANGED shown

\* Behind </tool_call> the code looks for one more ">" before it goes on.
LeaveTool ==
    LET mark == Find(text, ToolEnds, taken)
        bracket == Find(text, {<<">">>}, mark + 3)
    IN  /\ Processing /\ taken < End /\ tmode = "tool"
        /\ Found(text, mark)
        /\ taken' = IF StartsAt(text, mark, CloseCall) /\ Found(text, bracket)
                      THEN bracket + 1 ELSE mark + 3
        /\ tmode' = IF resume THEN "thinking" ELSE "content"
        /\ resume' = FALSE
        /\ UNCHANGED <<outerTool, shown, tstate>>

TerminalWork ==
    \/ NothingPending
    \/ ShowContent \/ LeaveContent
    \/ SkipThinking \/ LeaveThinking
    \/ SkipTool \/ LeaveTool
=============================================================================
