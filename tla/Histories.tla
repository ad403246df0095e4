------------------------------ MODULE Histories ------------------------------
(***************************************************************************)
(* What the device buffers of PrefillV2Model hold, named by the tokens     *)
(* that produced them.                                                     *)
(*                                                                         *)
(* The recurrent (GDN) states after n tokens, the key/value row of the     *)
(* n-th token and the logits for the next token are all functions of the   *)
(* first n tokens of the sequence, PROVIDED every input they were computed *)
(* from belongs to that same sequence.  Such a value is represented by the *)
(* sequence itself, its "history"; a value computed from inputs that do    *)
(* not belong together is Garbage.                                         *)
(***************************************************************************)
EXTENDS Naturals, Sequences

CONSTANTS Token,     \* the vocabulary
          Garbage,   \* a buffer whose content belongs to no token sequence
          Capacity,  \* kv_capacity_: rows of each attention KV cache
          Tile       \* kPrefillV2MacroTile: tokens per prefill tile

ASSUME HistoriesAssumption ==
    /\ Garbage \notin Seq(Token)
    /\ Capacity \in Nat \ {0}
    /\ Tile \in Nat \ {0}

History == Seq(Token) \cup {Garbage}

\* The state after reset_state(): zeroed GDN states and zeroed KV rows.
Blank == <<>>

Rows == 1 .. Capacity

BlankRows == [i \in Rows |-> Blank]

Prefix(s, n) == SubSeq(s, 1, n)

\* The rows hold the keys and values of the first n tokens of s.
RowsHold(rows, s, n) ==
    /\ n <= Capacity
    /\ \A i \in 1 .. n : rows[i] = Prefix(s, i)

\* forward()/decode() at base_position: the recurrent states must stand at
\* that position and attention reads every earlier row.
Coherent(gdn, rows, base) ==
    /\ gdn # Garbage
    /\ Len(gdn) = base
    /\ RowsHold(rows, gdn, base)

\* The history all outputs of running `tokens` at `base` carry.  The rows are
\* stored before attention reads them, so a row past the capacity counts.
Advanced(gdn, rows, base, tokens) ==
    IF Coherent(gdn, rows, base) /\ base + Len(tokens) <= Capacity
    THEN gdn \o tokens
    ELSE Garbage

\* The rows after running `count` tokens at `base` with result `out`.  Row
\* `Capacity + i` of one head is row i of the next head, so a row written past
\* the capacity spoils row i.
StoredRows(rows, base, count, out) ==
    [i \in Rows |->
        IF i \in base + 1 .. base + count
        THEN IF out = Garbage THEN Garbage ELSE Prefix(out, i)
        ELSE IF i + Capacity \in base + 1 .. base + count
        THEN Garbage
        ELSE rows[i]]

=============================================================================
