------------------------------- MODULE Markup -------------------------------
(***************************************************************************)
(* Generated text and its markup.  A text is a sequence of symbols; a      *)
(* symbol is a part of a marker that the code can meet on its own, because *)
(* tokens cut markers anywhere:                                            *)
(*    "<" "k"         <think, <thought      "<" "/k"       </think, ...    *)
(*    "<" "t"         <tool_call            "<" "/t" ">"   </tool_call>    *)
(*    "<" "f"         <function=            "<" "/f" ">"   </function>     *)
(* "n" is white space, "q" "j" is a fenced json block, "a" anything else.  *)
(* A result is a sequence of positions of the text, so that what is lost,  *)
(* repeated or misplaced can be told.                                      *)
(***************************************************************************)
EXTENDS Naturals, Sequences, FiniteSets

OpenThink == {<<"<", "k">>}
CloseThink == {<<"<", "/k">>}
OpenCall == <<"<", "t">>
OpenFunction == <<"<", "f">>
OpenTool == {OpenCall, OpenFunction}
CloseCall == <<"<", "/t", ">">>
CloseFunction == <<"<", "/f", ">">>

StartsAt(text, p, marker) ==
    /\ p + Len(marker) - 1 <= Len(text)
    /\ SubSeq(text, p, p + Len(marker) - 1) = marker

\* text.find(): the first place from `from' on where a marker starts, or just
\* past the end of the text.
Find(text, markers, from) ==
    LET found == {p \in from .. Len(text) : \E m \in markers : StartsAt(text, p, m)}
    IN  IF found = {} THEN Len(text) + 1
        ELSE CHOOSE p \in found : \A q \in found : p <= q

Found(text, p) == p <= Len(text)

SkipNewlines(text, p) ==
    CHOOSE q \in p .. Len(text) + 1 :
        /\ \A i \in p .. q - 1 : text[i] = "n"
        /\ q <= Len(text) => text[q] # "n"

NoEnd == 0

\* Where the text goes on after the tag at p: behind the next ">", or, when
\* there is none, behind the end of the line; NoEnd while neither has come.
TagEnd(text, p) ==
    LET bracket == Find(text, {<<">">>}, p)
        newline == Find(text, {<<"n">>}, p)
    IN  IF Found(text, bracket) THEN SkipNewlines(text, bracket + 1)
        ELSE IF Found(text, newline) THEN SkipNewlines(text, newline)
        ELSE NoEnd

\* The positions from a up to but not including b.
Span(a, b) == [i \in 1 .. (IF b > a THEN b - a ELSE 0) |-> a + i - 1]

\* How many symbols from `from' on have to be held back because they may be
\* the beginning of a marker.
HeldBack(text, from, markers) ==
    LET rest == Len(text) + 1 - from
        Ends(n) == \E m \in markers :
                        /\ n < Len(m)
                        /\ SubSeq(text, Len(text) - n + 1, Len(text)) = SubSeq(m, 1, n)
        held == {n \in 1 .. rest : Ends(n)}
    IN  IF held = {} THEN 0 ELSE CHOOSE n \in held : \A i \in held : i <= n

-----------------------------------------------------------------------------
\* extract_reasoning_and_content(): the whole text at once.
Extract(text) ==
    LET end == Len(text) + 1
        After(p) == IF TagEnd(text, p) = NoEnd THEN end ELSE TagEnd(text, p)
        from[p \in 1 .. end] ==
            LET start == Find(text, OpenThink, p)
                body == After(start)
                close == Find(text, CloseThink, body)
                tool == Find(text, OpenTool, body)
                stop == IF tool < close THEN tool ELSE close
                next == IF tool < close THEN tool
                        ELSE IF Found(text, close) THEN After(close) ELSE end
            IN  IF ~Found(text, start)
                  THEN [content |-> Span(p, end), reasoning |-> <<>>]
                ELSE [content |-> Span(p, start) \o from[next].content,
                      reasoning |-> Span(body, stop) \o from[next].reasoning]
    IN  from[1]

\* One turn of the loop in terminal_output(): erases the first block from open
\* to close, or all that follows an open one, and goes on searching there.
EraseFirst(text, s, open, close) ==
    LET symbols == [i \in DOMAIN s.shown |-> text[s.shown[i]]]
        start == Find(symbols, {open}, s.search)
        end == Find(symbols, {close}, start)
    IN  [shown |-> SubSeq(s.shown, 1, start - 1)
                       \o SubSeq(s.shown, end + Len(close), Len(s.shown)),
         search |-> start]

\* Each turn but the last erases something.
Erase(text, shown, open, close) ==
    LET after[n \in 0 .. Len(shown) + 1] ==
            IF n = 0 THEN [shown |-> shown, search |-> 1]
            ELSE EraseFirst(text, after[n - 1], open, close)
    IN  after[Len(shown) + 1].shown

\* terminal_output(): what a terminal shows of a whole text.
TerminalOutput(text) ==
    Erase(text, Erase(text, Extract(text).content, OpenCall, CloseCall),
          OpenFunction, CloseFunction)

\* parse_generated_tool_calls(), reduced to whether it finds a call: a function
\* with a name and an end.  The first malformed one ends the search.
HasCalls(text) ==
    LET open == Find(text, {OpenFunction}, 1)
        name == Find(text, {<<">">>}, open + 2)
    IN  /\ Found(text, open) /\ Found(text, name)
        /\ name > open + 2
        /\ Found(text, Find(text, {CloseFunction}, name + 1))
=============================================================================
