------------------------- MODULE ReferenceGeneration -------------------------
(***************************************************************************)
(* What generation computes, whatever runs it: the model is given tokens,  *)
(* and its logits are the reference's for the whole sequence so far.  It   *)
(* can be taken back to an earlier prefix, whose logits are not kept, and  *)
(* tokens can be given without asking for logits.                          *)
(***************************************************************************)
EXTENDS Quantities

VARIABLES seq,   \* the tokens given so far
          logits \* the logits after the last of them

vars == <<seq, logits>>

NoLogits == LogitsOf(<<>>)

Init ==
    /\ seq = <<>>
    /\ logits = NoLogits

\* Give the model some more tokens.
Feed ==
    /\ Len(seq') > Len(seq)
    /\ IsPrefix(seq, seq')
    /\ logits' \in {NoLogits, LogitsOf(seq')}

\* Return to a prefix; its logits are not kept.
Rewind ==
    /\ IsPrefix(seq', seq)
    /\ logits' = NoLogits

Next == Feed \/ Rewind

Spec == Init /\ [][Next]_vars

=============================================================================
