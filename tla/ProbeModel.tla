------------------------------ MODULE ProbeModel ------------------------------
(***************************************************************************)
(* The projection of one probed <Device> (src/mtconnect/model.rs): the     *)
(* nodes of the pre-ordered browse tree and the data items found by id.    *)
(* How a description becomes such a tree is ProbeWalk's subject.           *)
(***************************************************************************)
EXTENDS Naturals, Sequences, SequencesExt

Categories == {"SAMPLE", "EVENT", "CONDITION"}

(***************************************************************************)
(* Browse ids: mtc:/component/<path> for the device and its components,    *)
(* mtc:/item/<dataItemId> for data items.                                  *)
(***************************************************************************)
ComponentId(path) == <<"component", path>>
ItemNodeId(id)    == <<"item", <<id>>>>
RootNodeId        == ComponentId(<<>>)
NoParent          == <<"none", <<>>>>

RootNode == [id |-> RootNodeId, parent |-> NoParent, path |-> <<>>, depth |-> 0,
             kind |-> "DEVICE", cat |-> "NONE"]

ItemNode(item, path, depth) ==
  [id |-> ItemNodeId(item.id), parent |-> ComponentId(path), path |-> path,
   depth |-> depth, kind |-> "DATA_ITEM", cat |-> item.cat]

ComponentNode(path, depth) ==
  [id |-> ComponentId(path), parent |-> ComponentId(Front(path)), path |-> path,
   depth |-> depth, kind |-> "COMPONENT", cat |-> "NONE"]

IsItem(node) == node.kind = "DATA_ITEM"
DataItemId(node) == node.id[2][1]

(* The ids in model.items. *)
ItemIds(tree) == {DataItemId(tree[k]) : k \in {j \in 1..Len(tree) : IsItem(tree[j])}}

(* model.item(id): the map keeps the last element inserted under an id. *)
Meta(tree, id) == tree[Max({k \in 1..Len(tree) : IsItem(tree[k]) /\ DataItemId(tree[k]) = id})]

(* items_in_tree_order: every item node, looked up in the map. *)
ItemsInTreeOrder(tree) ==
  LET nodes == SelectSeq(tree, IsItem)
  IN  [k \in 1..Len(nodes) |-> Meta(tree, DataItemId(nodes[k]))]
=============================================================================
