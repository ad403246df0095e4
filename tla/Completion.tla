----------------------------- MODULE Completion -----------------------------
(***************************************************************************)
(* What a caller of generate() relies on: each call completes its own      *)
(* prompt and nothing else.  There is no cache, no checkpoint and no       *)
(* session here; the next token is always drawn from a distribution that   *)
(* belongs to the prompt followed by the tokens already emitted.           *)
(***************************************************************************)
EXTENDS Naturals, Sequences

CONSTANTS Token,     \* the vocabulary
          Request,   \* requests, records with a prompt and a maxNew field
          NoRequest, \* nothing being completed
          Blank      \* no distribution computed

VARIABLES request,   \* the request being completed, or NoRequest
          basis,     \* token sequence the current distribution belongs to
          emitted    \* tokens drawn so far

vars == <<request, basis, emitted>>

Init ==
    /\ request = NoRequest
    /\ basis = Blank
    /\ emitted = <<>>

Submit ==
    /\ request = NoRequest
    /\ request' \in Request
    /\ UNCHANGED <<basis, emitted>>

Predict ==
    /\ request # NoRequest
    /\ basis' = request.prompt \o emitted
    /\ UNCHANGED <<request, emitted>>

\* Only a distribution for the current context may be sampled, and never more
\* tokens than asked for are handed on.
Emit ==
    /\ request # NoRequest
    /\ basis = request.prompt \o emitted
    /\ Len(emitted) + 1 < request.maxNew
    /\ \E t \in Token : emitted' = Append(emitted, t)
    /\ UNCHANGED <<request, basis>>

\* The last token, a stop token, a cancellation, an exception or a crash.
End ==
    /\ request # NoRequest
    /\ request' = NoRequest
    /\ basis' = Blank
    /\ emitted' = <<>>

Next == Submit \/ Predict \/ Emit \/ End

Spec == Init /\ [][Next]_vars

=============================================================================
