--------------------------- MODULE ReusableContext ---------------------------
(***************************************************************************)
(* ReusableContext: the one in-memory prefix checkpoint.  It owns a copy   *)
(* of the 48 GDN states and the tokens they are said to stand for; the KV  *)
(* rows of those tokens are NOT copied, they are expected to still be in   *)
(* the live cache when the checkpoint is restored.                         *)
(***************************************************************************)
EXTENDS Histories

VARIABLE reusableContext   \* [valid, tokens, gdn]

EmptyContext == [valid |-> FALSE, tokens |-> <<>>, gdn |-> Blank]

Contexts == [valid : BOOLEAN, tokens : Seq(Token), gdn : History]

\* has_valid_prefix()
HasValidPrefix == reusableContext.valid /\ reusableContext.tokens # <<>>

\* save(): capture the live states, then relabel.
SaveContext(tokens, gdn) ==
    reusableContext' =
        IF tokens = <<>> THEN EmptyContext
        ELSE [valid |-> TRUE, tokens |-> tokens, gdn |-> gdn]

\* Mutant: only the length is compared.
ExactMatchByLength(prompt) ==
    HasValidPrefix /\ Len(reusableContext.tokens) <= Len(prompt)

\* check_match() = ExactMatch.  Model, quantization and layout version are
\* those of the one engine the checkpoint lives in, so they always agree.
ExactMatch(prompt) ==
    /\ HasValidPrefix
    /\ Len(reusableContext.tokens) <= Len(prompt)
    /\ Prefix(prompt, Len(reusableContext.tokens)) = reusableContext.tokens

=============================================================================
