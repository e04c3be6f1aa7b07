--------------------------- MODULE DerivationTree ---------------------------
(***************************************************************************)
(* The derivation tree of rvm-cap (derivation.rs): a node for each slot of *)
(* the capability table, with first-child and next-sibling links, and the  *)
(* two walks a revocation makes of it.                                     *)
(*                                                                         *)
(* No operation unlinks a sibling.  A dead node keeps its next_sibling     *)
(* until its slot is taken again, when it carries the links of its new     *)
(* user while still standing in the list of its old one.                   *)
(***************************************************************************)
EXTENDS Integers, Sequences, FiniteSets

CONSTANTS
  N,               \* slots of the table and nodes of the tree
  U32MAX           \* largest u32: the "none" index and the generation limit

VARIABLE nodes     \* DerivationTree.nodes

Slot == 0 .. N - 1
NIL == U32MAX

LiveNodes == {i \in Slot : nodes[i].is_valid}

\* The k-th entry of the sibling list under node i, NIL past its end.
SiblingHop(i) ==
  LET hop[k \in 0 .. N] ==
        IF k = 0 THEN nodes[i].first_child
        ELSE IF hop[k - 1] = NIL THEN NIL ELSE nodes[hop[k - 1]].next_sibling
  IN  hop

\* A list of more than N entries visits some node twice and never ends.
CircularSiblings(i) == SiblingHop(i)[N] # NIL

LiveChildren(i, live) ==
  SelectSeq([k \in 1 .. N |-> SiblingHop(i)[k - 1]], LAMBDA c : c \in live)

\* The stack and the result hold N entries; what does not fit is dropped.
FirstN(s) == IF Len(s) > N THEN SubSeq(s, 1, N) ELSE s

\* One round of the loop both walks share: pop a node and, if it is live, record
\* it and push its live children.  The revoking walk marks the node dead before
\* it looks at the children; the collecting walk marks nothing.
Visit(w, marking) ==
  LET top  == w.stack[Len(w.stack)]
      rest == SubSeq(w.stack, 1, Len(w.stack) - 1)
      live == IF marking THEN w.live \ {top} ELSE w.live
  IN  IF w.stack = <<>> \/ w.circular THEN w
      ELSE IF top \notin w.live THEN [w EXCEPT !.stack = rest]
      ELSE [stack |-> FirstN(rest \o LiveChildren(top, live)),
            out |-> FirstN(Append(w.out, top)), live |-> live,
            circular |-> CircularSiblings(top)]

\* A graph without a cycle has at most 2^(N-1) paths from a node: a walk with
\* more rounds than that never ends.
MaxRounds == 2 ^ N + N

Walk(i, marking) ==
  LET w[k \in 0 .. MaxRounds] ==
        IF k = 0
        THEN [stack |-> IF nodes[i].is_valid THEN <<i>> ELSE <<>>, out |-> <<>>,
              live |-> LiveNodes, circular |-> FALSE]
        ELSE Visit(w[k - 1], marking)
  IN  w[MaxRounds]

\* collect_subtree and revoke_subtree: the indices they return and invalidate.
Terminates(i) == LET w == Walk(i, FALSE) IN w.stack = <<>> /\ ~w.circular
CollectSubtree(i) == LET w == Walk(i, FALSE) IN {w.out[k] : k \in DOMAIN w.out}
RevokeSubtree(i) == LiveNodes \ Walk(i, TRUE).live
=============================================================================
