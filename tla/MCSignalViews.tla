----------------------------- MODULE MCSignalViews -----------------------------
(***************************************************************************)
(* A machine whose probe comes in two shapes, a probe of one shape beside  *)
(* it, and reloads that touch one instance, both, none, or must be         *)
(* refused.                                                                *)
(***************************************************************************)
EXTENDS SignalViews, ProbeWalk

Elem(seg, items, kids) == [seg |-> seg, items |-> items, kids |-> kids]
Item(id, cat) == [id |-> id, cat |-> cat]

Plain  == Elem("Device", <<Item("a", "SAMPLE")>>, <<>>)
Rich   == Elem("Device", <<Item("c", "CONDITION")>>,
               <<Elem("L", <<Item("A", "EVENT"), Item("a", "SAMPLE")>>, <<>>)>>)

SanitizeToken == [x \in {"a", "A", "c", "L"} |-> IF x = "A" THEN <<"a">> ELSE <<x>>]
PartWidth     == [x \in {"a", "c", "L", "X", "2"} |-> 1]

All(max) == [mode |-> "all", include |-> <<>>, exclude |-> <<>>, max |-> max,
             autoBind |-> TRUE, publish |-> "batched",
             budget |-> [tokens |-> 4, bytes |-> 40]]
Entry(id, item) == [id |-> id, item |-> item, channel |-> None, binding |-> None,
                    publish |-> None]

One     == [explicit |-> <<>>, selection |-> Some(All(1))]
Named   == [explicit |-> <<Entry(<<"X">>, "A")>>, selection |-> Some(All(9))]
Broken  == [explicit |-> <<>>, selection |-> Some(All(0))]
Only    == [explicit |-> <<Entry(<<"a">>, "a")>>, selection |-> None]
Nothing == [explicit |-> <<>>, selection |-> None]

Descriptions   == [plain |-> Tree(Plain), rich |-> Tree(Rich)]
Configurations == [one |-> One, named |-> Named, broken |-> Broken, only |-> Only,
                   nothing |-> Nothing]

TwoInstances == <<"i1", "i2">>
TwoDocs == [i1 |-> {"plain", "rich"}, i2 |-> {"plain"}]
Start   == [agents |-> 0, conf |-> [i1 |-> "one", i2 |-> "only"]]
SomeCandidates ==
  {[agents |-> 0, conf |-> [i1 |-> x, i2 |-> y]] :
     x \in {"one", "named"}, y \in {"only", "nothing", "broken"}}
  \union {[agents |-> 0, conf |-> [i1 |-> "named"]],
          [agents |-> 1, conf |-> [i1 |-> "named", i2 |-> "nothing"]]}
=============================================================================
