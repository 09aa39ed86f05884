------------------------------- MODULE Expansion -------------------------------
(***************************************************************************)
(* sb/browse by reference (src/commands.rs): the hierarchical expansion of *)
(* a node of the probe tree, with one budget for the whole reply.          *)
(***************************************************************************)
EXTENDS Browse

(***************************************************************************)
(* refs_of: the children of a node in order, each taking one from the      *)
(* shared budget; an inner node is expanded while depth remains and        *)
(* carries no `refs` otherwise; a leaf carries an empty list.  The result  *)
(* threads the budget and the truncated mark through the expansion.        *)
(***************************************************************************)
Kids(tree, k) == SelectSeq(Indices(tree), LAMBDA j : tree[j].parent = tree[k].id)

RECURSIVE RefsOf(_, _, _, _)
RefsOf(tree, k, depth, before) ==
  LET visit(acc, child) ==
        IF acc.budget = 0 THEN [acc EXCEPT !.truncated = TRUE]
        ELSE LET spent == [acc EXCEPT !.budget = @ - 1]
             IN  IF Kids(tree, child) = <<>>
                 THEN [spent EXCEPT !.refs = Append(@, [node |-> child, refs |-> Some(<<>>)])]
                 ELSE IF depth > 1
                 THEN LET inner == RefsOf(tree, child, depth - 1, spent)
                      IN  [inner EXCEPT !.refs =
                             Append(acc.refs, [node |-> child, refs |-> Some(inner.refs)])]
                 ELSE [spent EXCEPT !.refs = Append(@, [node |-> child, refs |-> None])]
  IN  FoldLeft(visit, [before EXCEPT !.refs = <<>>], Kids(tree, k))

(* browse_model_hierarchical, for a node of the tree; "root" is RootNodeId. *)
Expand(tree, id, depth, maxRefs) ==
  LET at == CHOOSE k \in 1..Len(tree) :
              tree[k].id = id /\ \A j \in 1..(k - 1) : tree[j].id # id
  IN  RefsOf(tree, at, Clamp(depth, 1, 4),
             [refs |-> <<>>, budget |-> Clamp(maxRefs, 1, 1000), truncated |-> FALSE])
=============================================================================
