--------------------------------- MODULE Browse ---------------------------------
(***************************************************************************)
(* sb/browse over a cached probe model (src/commands.rs): the paged walk   *)
(* with its generation-bound cursors.  The hierarchical form is Expansion. *)
(*                                                                         *)
(* The reply's columns that only copy a node's attributes are represented  *)
(* by the node's index in the tree.                                        *)
(***************************************************************************)
EXTENDS Selection

Indices(tree) == [k \in 1..Len(tree) |-> k]

(***************************************************************************)
(* served_provenance: each served data item with its strongest claim.      *)
(***************************************************************************)
ServedItems(set) == {set.signals[i].signal.item : i \in 1..Len(set.signals)}

ServedProvenance(set) ==
  [item \in ServedItems(set) |->
     IF \E i \in 1..Len(set.signals) : /\ set.signals[i].signal.item = item
                                       /\ set.signals[i].provenance = "configured"
     THEN "configured" ELSE "discovered"]

(***************************************************************************)
(* configured_flags: the bound data items, then one reverse pass that      *)
(* raises each flagged node's parent.  A parent is found by id, the last   *)
(* node with that id.                                                      *)
(***************************************************************************)
IndexOfId(tree, id) == Max({k \in 1..Len(tree) : tree[k].id = id})

(* Mutant: only components raise their parent. *)
RaiseParentOfComponent(tree, k, flags) ==
  IF flags[k] /\ tree[k].parent # NoParent /\ ~IsItem(tree[k])
  THEN [flags EXCEPT ![IndexOfId(tree, tree[k].parent)] = TRUE]
  ELSE flags

RaiseParent(tree, k, flags) ==
  IF flags[k] /\ tree[k].parent # NoParent
  THEN [flags EXCEPT ![IndexOfId(tree, tree[k].parent)] = TRUE]
  ELSE flags

ConfiguredFlags(tree, bound) ==
  FoldRight(LAMBDA k, flags : RaiseParent(tree, k, flags),
            Indices(tree),
            [k \in 1..Len(tree) |-> IsItem(tree[k]) /\ DataItemId(tree[k]) \in bound])

(***************************************************************************)
(* parse_cursor and browse_model_paged.  A cursor is [gen, at], at the     *)
(* number of entries already served; `max` entries are answered, and a     *)
(* cursor while entries remain.                                            *)
(***************************************************************************)
Clamp(x, lo, hi) == Max({lo, Min({x, hi})})

(* Mutant: only the probe digest of the view generation is compared. *)
CursorStartByModel(cursor, gen) ==
  IF cursor = None THEN Some(0)
  ELSE IF cursor[1].gen[1] # gen[1] THEN None
  ELSE Some(cursor[1].at)

CursorStart(cursor, gen) ==
  IF cursor = None THEN Some(0)
  ELSE IF cursor[1].gen # gen THEN None
  ELSE Some(cursor[1].at)

Entries(tree, set) ==
  LET flags == ConfiguredFlags(tree, ServedItems(set))
  IN  [k \in 1..Len(tree) |-> [node |-> tree[k], configured |-> flags[k]]]

Page(tree, set, gen, start, max) ==
  LET next == Min({Len(tree), start + Clamp(max, 1, 1000)})
  IN  [entries |-> SubSeq(Entries(tree, set), start + 1, next),
       cursor  |-> IF next < Len(tree) THEN Some([gen |-> gen, at |-> next]) ELSE None]
=============================================================================
