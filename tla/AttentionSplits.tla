--------------------------- MODULE AttentionSplits ---------------------------
(***************************************************************************)
(* How the split-K attention kernels divide the rows of the KV cache: each *)
(* of `splits` work groups takes a chunk of equal length, and a second     *)
(* kernel merges the partial softmax sums of all of them.  Rows count from *)
(* 0; `length` is the number of rows a query attends to.                   *)
(***************************************************************************)
EXTENDS Naturals, Sequences

Smaller(a, b) == IF a <= b THEN a ELSE b

Chunk(length, splits) == (length + splits - 1) \div splits

\* The rows of work group s.
SplitRows(length, splits, s) ==
    {r \in 0 .. length - 1 :
        /\ s * Chunk(length, splits) <= r
        /\ r < Smaller(s * Chunk(length, splits) + Chunk(length, splits), length)}

\* The fragment kernel serves a block of queries, first_length .. last_length,
\* with one loop over the rows of its work group ...
BlockRows(first, last, splits, s) ==
    {r \in 0 .. last - 1 :
        /\ s * Chunk(first, splits) <= r
        /\ r < Smaller(s * Chunk(last, splits) + Chunk(last, splits), last)}

\* ... and masks every query to its own split.
FragmentRows(first, last, length, splits, s) ==
    BlockRows(first, last, splits, s) \cap SplitRows(length, splits, s)

=============================================================================
