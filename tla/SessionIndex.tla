---------------------------- MODULE SessionIndex ----------------------------
(***************************************************************************)
(* The radix tree of the older engine's session cache (SessionPrefixNode). *)
(*                                                                         *)
(* A node is named by the tokens on the way to it, the root by none: the   *)
(* edge that leads to it is what its name has beyond that of its parent.   *)
(* A node has its children by the first token of their edges, and the      *)
(* checkpoint of its tokens, 0 for none.                                   *)
(***************************************************************************)
EXTENDS Naturals, Sequences, SequencesExt

Node(children, checkpoint) == [children |-> children, checkpoint |-> checkpoint]
Leaf(checkpoint) == Node([token \in {} |-> <<>>], checkpoint)

Root == [node \in {<<>>} |-> Leaf(0)]

From(tokens, n) == SubSeq(tokens, n + 1, Len(tokens))

\* How many tokens two sequences share from the front.
Shared(s, t) ==
    LET differ == {i \in DOMAIN s : i \notin DOMAIN t \/ s[i] # t[i]}
    IN  IF differ = {} THEN Len(s) ELSE Min(differ) - 1

-----------------------------------------------------------------------------
\* The way down for some tokens: from a node to the child for the next one of
\* them, as long as the whole edge of the child agrees with them.

HasChild(tree, node, tokens) ==
    Len(node) < Len(tokens) /\ tokens[Len(node) + 1] \in DOMAIN tree[node].children

Child(tree, node, tokens) == tree[node].children[tokens[Len(node) + 1]]

GoesOn(tree, node, tokens) ==
    /\ HasChild(tree, node, tokens)
    /\ IsPrefix(Child(tree, node, tokens), tokens)

\* One turn. On the way the checkpoint of the last node that has one and leaves a
\* token of the prompt is kept.
Turn(tree, at, tokens) ==
    LET child == Child(tree, at.node, tokens)
        marked == tree[child].checkpoint # 0 /\ Len(child) < Len(tokens)
    IN  IF GoesOn(tree, at.node, tokens)
        THEN [node |-> child, best |-> IF marked THEN tree[child].checkpoint ELSE at.best]
        ELSE at

\* There are no more turns than tokens.
Descent(tree, tokens) ==
    LET after[n \in 0 .. Len(tokens)] ==
            IF n = 0 THEN [node |-> <<>>, best |-> 0]
            ELSE Turn(tree, after[n - 1], tokens)
    IN  after[Len(tokens)]

-----------------------------------------------------------------------------
\* The child, a new node, takes its place among the children of the parent.
Attach(tree, parent, child, node) ==
    LET first == child[Len(parent) + 1]
        others == tree[parent].children
        children == [token \in DOMAIN others \union {first} |->
                        IF token = first THEN child ELSE others[token]]
    IN  [n \in DOMAIN tree \union {child} |->
            IF n = child THEN node
            ELSE IF n = parent THEN Node(children, tree[n].checkpoint) ELSE tree[n]]

\* An edge that the tokens leave becomes two, with a node where they leave it.
Split(tree, parent, child, fork) ==
    Attach(tree, parent, fork, Node([token \in {child[Len(fork) + 1]} |-> child], 0))

Mark(tree, node, checkpoint) ==
    [n \in DOMAIN tree |->
        IF n = node THEN Node(tree[n].children, checkpoint) ELSE tree[n]]

\* insert_session_prefix()
Insert(tree, tokens, checkpoint) ==
    LET end == Descent(tree, tokens).node
        child == Child(tree, end, tokens)
        leaves == HasChild(tree, end, tokens)
        node == IF leaves THEN SubSeq(child, 1, Shared(child, tokens)) ELSE end
        open == IF leaves THEN Split(tree, end, child, node) ELSE tree
    IN  IF node = tokens THEN Mark(open, node, checkpoint)
        ELSE Attach(open, node, tokens, Leaf(checkpoint))

\* longest_session_checkpoint(): the checkpoint the descent kept, and how many
\* tokens of the prompt agree with any edge.
Longest(tree, prompt) ==
    LET end == Descent(tree, prompt)
        child == Child(tree, end.node, prompt)
    IN  [checkpoint |-> end.best,
         common |-> IF HasChild(tree, end.node, prompt)
                    THEN Shared(child, prompt) ELSE Len(end.node)]

\* rebuild_session_prefix_index() over the stored prefixes in order.
Rebuilt(prefixes) ==
    LET upTo[i \in 0 .. Len(prefixes)] ==
            IF i = 0 THEN Root ELSE Insert(upTo[i - 1], prefixes[i], i)
    IN  upTo[Len(prefixes)]
=============================================================================
