--------------------------- MODULE MCLegacySession ---------------------------
(***************************************************************************)
(* Conversations for LegacySession: branches that part on, behind and far  *)
(* behind a boundary of eight tokens, one prompt before it, and tails of   *)
(* every kind; and the processes they are held with.                       *)
(***************************************************************************)
EXTENDS LegacySession

Times(n, token) == [i \in 1 .. n |-> token]

Branches ==
    {Times(7, "a"),
     Times(13, "a"),
     Times(8, "a") \o Times(19, "b"),
     Times(16, "a") \o <<"b">>,
     Times(20, "a") \o <<"b">>,
     Times(16, "a") \o Times(11, "b"),
     Times(26, "b")}

Kinds == <<"recurrent", "attention", "recurrent">>

\* The projections of an attention layer are the larger ones, and the last layer
\* has one matrix in a wider format.
Bytes ==
    <<[projections |-> 1, ffn |-> 1], [projections |-> 2, ffn |-> 1],
      [projections |-> 1, ffn |-> 2]>>

Environment(scheduler, chunk, resident) ==
    [scheduler |-> scheduler, chunk |-> chunk, resident |-> resident]

\* Every scheduler with all weights on the device, chunks of another length,
\* and weights that are uploaded layer by layer.
Processes ==
    {Environment(s, Full, Groups) :
        s \in {"default", "remainder", "b64", "compose", "partial"}}
    \union {Environment(s, c, Groups) :
               s \in {"default", "remainder"}, c \in {Wide, Wide + Batch}}
    \union {Environment("default", Full, {"ffn"}), Environment("default", Full, {})}

=============================================================================
