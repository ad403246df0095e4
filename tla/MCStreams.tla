------------------------------ MODULE MCStreams ------------------------------
(***************************************************************************)
(* Tokens for Streams: ordinary text, white space, whole tags, tags cut    *)
(* behind "<" or before ">", and the beginning and end of a call at once.  *)
(***************************************************************************)
EXTENDS Streams

Whole(tag) == <<"<", tag, ">">>

Cuts ==
    {<<"a">>, <<"n">>, Whole("k"), Whole("/k"), <<"<">>, <<"k", ">">>, <<"/k">>, <<">">>,
     Whole("f"), Whole("/f"), Whole("t") \o <<"<", "f", "a", ">">>, Whole("/f") \o Whole("/t")}

\* What TerminalMatchesCorrect (StreamProofs) takes from the tokenizer.
ASSUME InstanceCallsEndTokens == CallsEndTokens

=============================================================================
