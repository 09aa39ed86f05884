------------------------------ MODULE MCSelection ------------------------------
(***************************************************************************)
(* The pure functions of Selection and Browse over a bounded space of      *)
(* probes and signal configurations, against reference definitions.        *)
(*                                                                         *)
(* The state is the pair the functions are applied to, and what they       *)
(* yield; a step probes the device again or reloads the configuration.     *)
(***************************************************************************)
EXTENDS Expansion, ProbeWalk

VARIABLES
  doc,     \* the device as the agent describes it
  conf,    \* the signal configuration in force
  tree,    \* the cached probe model
  set      \* the served set compiled from both

vars == <<doc, conf, tree, set>>

(***************************************************************************)
(* Probes: a device with up to one item of its own and up to two           *)
(* components, the first of which may have a component below it.  Item "A" *)
(* sanitizes to the token of "a", item "a2" to the spelling its suffix     *)
(* would have; "u" has no category the adapter reads.                      *)
(***************************************************************************)
Item(id, cat) == [id |-> id, cat |-> cat]
a == Item("a", "SAMPLE")      \* sanitizes to a
A == Item("A", "EVENT")       \* sanitizes to a as well
a2 == Item("a2", "SAMPLE")    \* sanitizes to a-2
c == Item("c", "CONDITION")
d == Item("d", "CONDITION")
u == Item("u", "NONE")

Elem(seg, items, kids) == [seg |-> seg, items |-> items, kids |-> kids]

Leaves == {Elem(seg, items, <<>>) : seg \in {"L", "R"},
                                    items \in {<<A, c>>, <<a2>>, <<d, u>>}}
Nests  == {Elem("L", items, <<leaf>>) : items \in {<<>>, <<c>>}, leaf \in Leaves}

RECURSIVE ItemsOf(_)
ItemsOf(elem) == elem.items \o FlattenSeq([k \in 1..Len(elem.kids) |-> ItemsOf(elem.kids[k])])

DistinctIds(elem) == IsInjective([k \in 1..Len(ItemsOf(elem)) |-> ItemsOf(elem)[k].id])

Docs == {device \in
          {Elem("Device", items, kids) :
             items \in {<<>>, <<a>>},
             kids \in {<<>>} \union {<<l>> : l \in Leaves \union Nests}
                      \union {<<k, l>> : k \in Leaves \union Nests, l \in Leaves}} :
          DistinctIds(device)}

(***************************************************************************)
(* Configurations: no explicit entry, one that leaves all to the           *)
(* selection, two on one item of which one overrides; and a selection of   *)
(* each mode, two caps and three channel budgets.                          *)
(***************************************************************************)
Entry(id, item, binding) ==
  [id |-> id, item |-> item, channel |-> None, binding |-> binding, publish |-> None]

Explicits == {<<>>,
              <<Entry(<<"a">>, "c", None)>>,
              <<Entry(<<"X">>, "A", Some(<<>>)), Entry(<<"c">>, "A", None)>>}

AnyItem    == [cat |-> None, ids |-> None, path |-> None]
Selection(mode, include, exclude, max, budget) ==
  [mode |-> mode, include |-> include, exclude |-> exclude, max |-> max,
   autoBind |-> TRUE, publish |-> "batched", budget |-> budget]

Budgets == {[tokens |-> 2, bytes |-> 99],    \* two levels at most
            [tokens |-> 9, bytes |-> 5],     \* one level for most ids
            [tokens |-> 9, bytes |-> 2]}     \* `a-2` does not fit at all

Selections == {None} \union
  {Some(s) : s \in
    {t \in {Selection(mode, include, exclude, max, budget) :
              mode \in {"explicit", "include", "all"},
              include \in {<<>>, <<[AnyItem EXCEPT !.path = Some(<<"**", "R">>)],
                                   [AnyItem EXCEPT !.cat = Some("SAMPLE")]>>},
              exclude \in {<<>>, <<[AnyItem EXCEPT !.ids = Some({"a2", "d"})]>>},
              max \in {1, 9}, budget \in Budgets} : ValidSelection(t)}}

Compile(device, signals) ==
  /\ doc' = device
  /\ conf' = signals
  /\ tree' = Tree(device)
  /\ set' = ServedSet(signals.explicit, signals.selection, tree')

Bare == [explicit |-> <<>>, selection |-> None]

Init == /\ doc \in Docs
        /\ conf = Bare
        /\ tree = Tree(doc)
        /\ set = ServedSet(<<>>, None, tree)
Reprobe == conf = Bare /\ \E device \in Docs : Compile(device, conf)
Reload  == conf = Bare /\ \E explicit \in Explicits, selection \in Selections :
             Compile(doc, [explicit |-> explicit, selection |-> selection])
Next == Reprobe \/ Reload
Spec == Init /\ [][Next]_vars

Wanted ==
  IF conf.selection = None \/ conf.selection[1].mode = "explicit" THEN <<>>
  ELSE SelectSeq(ItemsInTreeOrder(tree), LAMBDA m :
         /\ Selected(conf.selection[1], m)
         /\ \A i \in 1..Len(conf.explicit) : conf.explicit[i].item # DataItemId(m))

States(given, served) == given = None \/ served = given

ServedRight ==
  LET n      == Len(conf.explicit)
      wanted == Wanted
      kept   == IF wanted = <<>> THEN 0 ELSE Min({Len(wanted), conf.selection[1].max})
  IN  /\ Len(set.signals) = n + kept
      /\ set.truncated = Len(wanted) - kept
      /\ \A i \in 1..n :
           /\ set.signals[i].provenance = "configured"
           /\ set.signals[i].signal.id = conf.explicit[i].id
           /\ set.signals[i].signal.item = conf.explicit[i].item
           /\ States(conf.explicit[i].binding, set.signals[i].signal.binding)
           /\ States(conf.explicit[i].channel, set.signals[i].signal.channel)
      /\ \A i \in 1..kept : set.signals[n + i].signal.item = DataItemId(wanted[i])
      /\ \A i, j \in 1..Len(set.signals) : i # j =>
           /\ set.signals[i].signal.id # set.signals[j].signal.id
           /\ set.signals[i].signal.channel = set.signals[j].signal.channel =>
                set.signals[i].signal.channel = None

ChannelCost(channel) ==
  FoldLeft(LAMBDA acc, t : acc + TokenBytes(t), 0, channel[1]) + TokenBytes(channel[2]) - 1

InBudget(channel, budget) ==
  Len(channel[1]) + 1 <= budget.tokens /\ ChannelCost(channel) <= budget.bytes

ChannelsFit ==
  conf.selection # None =>
    LET budget == conf.selection[1].budget
        derived == {i \in 1..Len(set.signals) : set.signals[i].signal.channel # None}
        channel(i) == set.signals[i].signal.channel[1]
        path(i) == Meta(tree, set.signals[i].signal.item).path
        longer(i) == <<LastSegments(path(i), Len(channel(i)[1]) + 1), channel(i)[2]>>
    IN  /\ Cardinality({i \in derived : ~InBudget(channel(i), budget)}) = set.unfit
        /\ \A i \in derived : Len(channel(i)[1]) < Len(path(i)) =>
             ~InBudget(longer(i), budget)

(***************************************************************************)
(* The served set, by its meaning: the entries of the configuration, in    *)
(* their places and with what they state untouched; then, in tree order,   *)
(* the first `max` selected items that no entry binds.  All the ids are    *)
(* distinct, and so are the channels of the derived half, however much of  *)
(* the path a channel had to drop.  A derived channel fits the instance's  *)
(* topic budget unless not even the id fits, which is what `unfit` counts, *)
(* and it drops no more of the path than it must.                          *)
(***************************************************************************)
ServedSound == ServedRight /\ ChannelsFit

(***************************************************************************)
(* Paging: whatever the page size, the pages of one view laid end to end   *)
(* are the tree, and the flag of a node says that a served item is at or   *)
(* below it (siblings of one name share an id: see the README).            *)
(***************************************************************************)
RECURSIVE PagesFrom(_, _)
PagesFrom(start, max) ==
  LET page == Page(tree, set, "g", start, max)
  IN  page.entries \o (IF page.cursor = None THEN <<>>
                       ELSE PagesFrom(CursorStart(page.cursor, "g")[1], max))

DistinctNodes == IsInjective([k \in 1..Len(tree) |-> tree[k].id])

BoundBelow(node) ==
  \E m \in 1..Len(tree) : /\ IsItem(tree[m])
                          /\ DataItemId(tree[m]) \in ServedItems(set)
                          /\ IF IsItem(node) THEN tree[m].id = node.id
                                             ELSE IsPrefix(node.path, tree[m].path)

PagesAreTheTree ==
  DistinctNodes => \A max \in {0, 1, 2, 7} :
    LET pages == PagesFrom(0, max)
    IN  /\ [k \in 1..Len(pages) |-> pages[k].node] = tree
        /\ \A k \in 1..Len(pages) : pages[k].configured = BoundBelow(pages[k].node)

(***************************************************************************)
(* Expansion: a reply holds at most maxRefs references, every one a child  *)
(* of the node it is under, and says `truncated` exactly when some node    *)
(* within the depth asked for is missing from it.                          *)
(***************************************************************************)
RECURSIVE Shown(_)
Shown(refs) == FlattenSeq([k \in 1..Len(refs) |->
                 <<refs[k].node>> \o (IF refs[k].refs = None THEN <<>>
                                      ELSE Shown(refs[k].refs[1]))])

RECURSIVE Within(_, _)
Within(k, depth) ==
  IF depth = 0 THEN {}
  ELSE UNION {{j} \union Within(j, depth - 1) :
                j \in {i \in 1..Len(tree) : tree[i].parent = tree[k].id}}

ExpansionBounded ==
  DistinctNodes => \A depth \in 1..3, max \in {1, 2, 3, 9} :
    LET reply == Expand(tree, RootNodeId, depth, max)
        shown == Shown(reply.refs)
    IN  /\ Len(shown) <= max
        /\ IsInjective(shown)
        /\ Range(shown) \subseteq Within(1, depth)
        /\ reply.truncated <=> Range(shown) # Within(1, depth)

\* What sb/browse serves is the tree, paged or expanded.
BrowseFaithful == PagesAreTheTree /\ ExpansionBounded

(***************************************************************************)
(* docs/reference/configuration.md:137: "Each derived non-condition signal *)
(* binds the CONDITION data items of **its own component**".  Two sibling  *)
(* components of one element name and no name attribute have one path, and *)
(* each binds the other's conditions as well.                              *)
(***************************************************************************)
RECURSIVE OwnItems(_)
OwnItems(elem) == {{elem.items[k].id : k \in 1..Len(elem.items)}}
                  \union UNION {OwnItems(elem.kids[k]) : k \in 1..Len(elem.kids)}

BindsItsOwnComponent ==
  \A i \in 1..Len(set.signals) :
    set.signals[i].provenance = "discovered" =>
      \E own \in OwnItems(doc) : /\ set.signals[i].signal.item \in own
                                 /\ Range(set.signals[i].signal.binding[1]) \subseteq own
=============================================================================
