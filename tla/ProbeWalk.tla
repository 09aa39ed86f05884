------------------------------- MODULE ProbeWalk -------------------------------
(***************************************************************************)
(* From a device's description to its browse tree (src/mtconnect/model.rs).*)
(*                                                                         *)
(* A document is the device's element tree with its text gone: an element  *)
(* is [seg, items, kids], where seg stands for the path segment            *)
(* `Name[name]` of a component, items are its <DataItem>s in document      *)
(* order and kids its child components.  A <DataItem> is [id, cat]; one    *)
(* without an id or with a category the adapter cannot read has the        *)
(* category "NONE".  The sha256 of the canonical subtree is represented    *)
(* by the document itself: equal documents, equal digests.                 *)
(***************************************************************************)
EXTENDS ProbeModel

(***************************************************************************)
(* walk: an element's own readable data items first, then each child       *)
(* component followed by its subtree, in document order.                   *)
(***************************************************************************)
RECURSIVE Walk(_, _, _)
Walk(elem, path, depth) ==
  LET readable == SelectSeq(elem.items, LAMBDA i : i.cat \in Categories)
      own      == [k \in 1..Len(readable) |-> ItemNode(readable[k], path, depth)]
      below(kid) == LET p == Append(path, kid.seg)
                    IN  <<ComponentNode(p, depth)>> \o Walk(kid, p, depth + 1)
  IN  own \o FlattenSeq([k \in 1..Len(elem.kids) |-> below(elem.kids[k])])

(* ProbeModel::from_device_element. *)
Tree(doc) == <<RootNode>> \o Walk(doc, <<>>, 1)
=============================================================================
