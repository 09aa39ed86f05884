------------------------------ MODULE MCDocuments ------------------------------
(***************************************************************************)
(* Documents and Observations over a bounded space of documents: what an   *)
(* agent means, how it writes it down, and what is read back.  A step      *)
(* writes a document, or describes the device anew.                        *)
(***************************************************************************)
EXTENDS Observations

VARIABLES
  tree,     \* the document: an element's attributes are [key, value] in writing order
  style,    \* how it is written down
  said,     \* what a Streams document reports
  read      \* what the adapter parsed, an option

vars == <<tree, style, said, read>>

(***************************************************************************)
(* Writing.  A style says how the text is cut (whole, or a symbol at a     *)
(* time, in CDATA sections and with comments between), whether an element without content is one  *)
(* event, whether names carry a prefix, whether children are indented.     *)
(***************************************************************************)
Node(name, attrs, text, kids) == [name |-> name, attrs |-> attrs, text |-> text, kids |-> kids]
At(key, value) == [key |-> key, value |-> value]

Styles == [cut : {"whole", "pieces"}, short : BOOLEAN, prefix : BOOLEAN, indent : BOOLEAN]
Plainly == [cut |-> "whole", short |-> TRUE, prefix |-> FALSE, indent |-> FALSE]
Oddly == [cut |-> "pieces", short |-> FALSE, prefix |-> TRUE, indent |-> TRUE]

Comment == [kind |-> "other"]
Text(text) == [kind |-> "text", text |-> text]
CData(text) == [kind |-> "cdata", text |-> text]
Start(kind, n, s) == [kind |-> kind, name |-> IF s.prefix THEN <<"m", n.name>> ELSE <<n.name>>,
                      attrs |-> n.attrs]

TextEvents(text, s) ==
  IF text = <<>> THEN <<>>
  ELSE IF s.cut = "whole" THEN <<Text(text)>>
  ELSE InAll(text, LAMBDA symbol : <<Comment, IF symbol \in References THEN Text(<<symbol>>)
                                              ELSE CData(<<symbol>>)>>)

RECURSIVE Written(_, _)
Written(n, s) ==
  LET space == IF s.indent /\ n.text = <<>> THEN <<Text(<<Blank>>)>> ELSE <<>>
      half == Len(n.text) \div 2       \* the rest of the text comes after the first child
      kid(i) == Written(n.kids[i], s)
                  \o (IF i = 1 THEN TextEvents(SubSeq(n.text, half + 1, Len(n.text)), s) ELSE <<>>)
                  \o space
  IN IF n.kids = <<>> /\ n.text = <<>> /\ s.short THEN <<Start("empty", n, s)>>
     ELSE <<Start("start", n, s)>>
            \o (IF n.kids = <<>> THEN TextEvents(n.text, s)
                ELSE TextEvents(SubSeq(n.text, 1, half), s) \o space)
            \o Joined(Len(n.kids), kid)
            \o <<[kind |-> "end"]>>

Prolog == <<Comment, Text(<<Blank>>)>>
Events(n, s) == Prolog \o Written(n, s) \o <<Text(<<Blank>>)>>

(***************************************************************************)
(* Any tree: every shape of attributes and of text on an element and on    *)
(* its child, a chain and a row on either side of their caps.              *)
(***************************************************************************)
Names == <<"k", "l", "n", "o", "p", "q">>
AttrLists ==
  {<<>>, <<At("k", <<"w">>)>>, <<At("k", <<"w">>), At("k", <<"&amp;", "&x;">>)>>,
   <<At("xmlns", <<"urn:1.3">>)>>, <<At("xmlns", <<"urn:other">>), At("xmlns:m", <<"urn:1.2">>)>>,
   <<At("xmlns", <<"urn:odd">>), At("xmlns:m", <<"urn:1.2">>)>>,
   [i \in 1..5 |-> At(Names[i], <<"w">>)], [i \in 1..6 |-> At(Names[i], <<"w">>)]}
Texts == {<<>>, <<"w", Blank, "v">>, <<Blank, "w", "&amp;", "v", Blank>>, <<"&x;", "&#32;">>}

Leaf(attrs, text) == Node("leaf", attrs, text, <<>>)
Alone == Leaf(<<>>, <<>>)
RECURSIVE Chain(_)
Chain(depth) == Node("leaf", <<>>, <<>>, IF depth = 1 THEN <<>> ELSE <<Chain(depth - 1)>>)
Row(n) == Node("row", <<>>, <<>>, [i \in 1..n |-> Alone])

Trees == {Node("root", attrs, text, kids) :
            attrs \in AttrLists, text \in Texts,
            kids \in {<<>>} \union {<<Leaf(a, t)>> : a \in AttrLists, t \in Texts}}
         \union {Chain(MaxDepth), Chain(MaxDepth + 1), Row(MaxNodes - 1), Row(MaxNodes)}

(***************************************************************************)
(* A document read back is the tree that was written, its references       *)
(* resolved and its texts trimmed, unless it breaks a cap or the version   *)
(* it declares first is below the floor, however it was written.           *)
(***************************************************************************)
RECURSIVE Plain(_)
Plain(n) ==
  Elem(n.name,
       [key \in {n.attrs[i].key : i \in DOMAIN n.attrs} |->
          Unescaped(Last(SelectSeq(n.attrs, LAMBDA at : at.key = key)).value)],
       Trimmed(Unescaped(n.text)), [i \in DOMAIN n.kids |-> Plain(n.kids[i])])

RECURSIVE Nodes(_), Depth(_)
Nodes(n) == <<n>> \o InAll(n.kids, Nodes)
Depth(n) == 1 + (IF n.kids = <<>> THEN 0 ELSE Max({Depth(n.kids[i]) : i \in DOMAIN n.kids}))

Fits(n) == /\ Depth(n) <= MaxDepth /\ Len(Nodes(n)) <= MaxNodes
           /\ \A i \in DOMAIN Nodes(n) : Len(Nodes(n)[i].attrs) <= MaxAttributes

Declared(n) ==
  SelectSeq(InAll(Nodes(n), LAMBDA x : x.attrs), LAMBDA at : at.key \in Declarations /\ at.value[1] \in DOMAIN VersionIn)
Stated(n) == IF Declared(n) = <<>> THEN None ELSE VersionIn[Declared(n)[1].value[1]]

Literal(n) == Inert(InAll(Nodes(n), LAMBDA x : x.text \o InAll(x.attrs, LAMBDA at : at.value)))

DocumentsAsWritten ==
  read = IF ~Fits(tree) \/ (Stated(tree) # None /\ Below(Stated(tree)[1], MinVersion)) THEN None
         ELSE Some([root |-> Plain(tree), version |-> Stated(tree), dropped |-> Literal(tree)])

(***************************************************************************)
(* Streams documents: what an agent reports of a data item, the element it *)
(* says it with, and what was meant.  `lag` is no item of the model.       *)
(***************************************************************************)
Meta(category, type, units, representation) ==
  [category |-> category, type |-> type, units |-> units, representation |-> representation,
   sub_type |-> None, name |-> Some(<<"named">>), component_path |-> <<"Axes">>]

Model == (<<"pos">>  :> Meta("SAMPLE", "POSITION", TRUE, "VALUE"))
      @@ (<<"mode">> :> Meta("EVENT", "MODE", FALSE, "VALUE"))
      @@ (<<"line">> :> Meta("EVENT", "LINE", FALSE, "VALUE"))
      @@ (<<"load">> :> Meta("EVENT", "LOAD", TRUE, "VALUE"))
      @@ (<<"vars">> :> Meta("EVENT", "VARIABLE", FALSE, "DATA_SET"))
      @@ (<<"tab">>  :> Meta("EVENT", "TABLES", FALSE, "TABLE"))
      @@ (<<"sys">>  :> Meta("CONDITION", "SYSTEM", FALSE, "VALUE"))

GroupOf(category) == CHOOSE g \in Groups : Group[g] = category

Identity(item) == <<At("dataItemId", <<item>>), At("sequence", <<"2">>), At("timestamp", <<"T1">>)>>

\* A report is an element in a group, with what it means: a value, its quality, its extras.
Report(group, elem, value, quality, extra) ==
  [group |-> group, elem |-> elem, value |-> value, quality |-> quality, extra |-> extra]
Sample(item, text, value) ==
  Report("Samples", Node("Sampled", Identity(item), text, <<>>), value, "GOOD", <<>>)
Event(item, text, value) ==
  Report("Events", Node("Happened", Identity(item), text, <<>>), value, "GOOD", <<>>)
Structured(item, attrs, kids, value) ==
  Report("Events", Node("Set", Identity(item) \o attrs, <<>>, kids), <<"object", value>>, "GOOD", <<>>)
Asserted(name, attrs, text, quality, extra) ==
  Report("Condition", Node(name, Identity("sys") \o attrs, text, <<>>),
         IF quality[2] THEN Str(<<name>>) ELSE Null, quality[1], extra)
Missing(group, elem) == [Report(group, elem, Null, "BAD", <<>>) EXCEPT !.value = Null]
Refused(attrs) == Report("Samples", Node("Sampled", attrs, <<"1">>, <<>>), Null, "REFUSED", <<>>)

EntryOf(key, text) == Node("Entry", <<At("key", key)>>, text, <<>>)
Gone(key) == Node("Entry", <<At("key", key), At("removed", <<"true">>)>>, <<>>, <<>>)
Keyless == Node("Entry", <<>>, <<"1">>, <<>>)
RowOf(key, cells) == Node("Entry", <<At("key", key)>>, <<>>, cells)
CellAt(key, text) == Node("Cell", <<At("key", key)>>, text, <<>>)

Values ==
  {Sample("pos", <<Blank, "0.5">>, Num(<<"0.5">>)),
   Sample("pos", <<"1", Blank, Blank, "2">>, <<"array", <<Num(<<"1">>), Num(<<"2">>)>>>>),
   Sample("pos", <<"1", Blank, "w">>, Str(<<"1", Blank, "w">>)),
   Sample("pos", <<>>, Str(<<>>)),
   Event("mode", <<"1">>, Str(<<"1">>)),
   Event("mode", <<"w", "&amp;", "v">>, Str(<<"w", "&", "v">>)),
   Event("line", <<"1", "&#32;">>, Num(<<"1">>)),
   Event("line", <<"1", Blank, "2">>, Str(<<"1", Blank, "2">>)),
   Event("load", <<"0.5">>, Num(<<"0.5">>)),
   Event("lag", <<"1">>, Str(<<"1">>)),
   Sample("lag", <<"1">>, Num(<<"1">>)),
   Structured("vars", <<>>, <<>>, <<>>),
   Structured("vars", <<>>, <<EntryOf(<<"a">>, <<"w">>), Keyless, Gone(<<"b">>), EntryOf(<<"a">>, <<"1">>)>>,
              (<<"a">> :> Num(<<"1">>)) @@ (<<"b">> :> Null)),
   Structured("tab", <<>>, <<RowOf(<<"r">>, <<CellAt(<<"c">>, <<"1">>), CellAt(<<"d">>, <<"w">>)>>), Gone(<<"s">>)>>,
              (<<"r">> :> <<"object", (<<"c">> :> Num(<<"1">>)) @@ (<<"d">> :> Str(<<"w">>))>>)
                @@ (<<"s">> :> Null)),
   Structured("lag", <<At("representation", <<Blank, "DATA_SET">>)>>, <<EntryOf(<<"a">>, <<"1">>)>>,
              <<"a">> :> Num(<<"1">>))}

Silences == {Missing("Samples", Node("Sampled", Identity("pos"), <<Blank, "UNAVAILABLE">>, <<>>)),
             Missing("Events", Node("Set", Identity("vars"), <<"UNAVAILABLE">>, <<>>))}

Conditions ==
  {Asserted("Fault", <<At("conditionId", <<"id">>), At("nativeCode", <<"1">>)>>, <<Blank, "w">>,
            <<"BAD", TRUE>>, [conditionId |-> Str(<<"id">>), nativeCode |-> Str(<<"1">>),
                              conditionText |-> Str(<<"w">>), activeConditions |-> 1]),
   Asserted("Warning", <<>>, <<>>, <<"UNCERTAIN", TRUE>>, [activeConditions |-> 1]),
   Asserted("Normal", <<>>, <<>>, <<"GOOD", TRUE>>, [activeConditions |-> 0]),
   Asserted("Unavailable", <<>>, <<>>, <<"BAD", FALSE>>, [activeConditions |-> 0]),
   Asserted("Odd", <<>>, <<>>, <<"BAD", FALSE>>, [activeConditions |-> 0])}

Extras == {[Report("Events", Node("Happened", Identity("mode") \o <<At("duration", <<"0.5">>),
                                                                     At("resetTriggered", <<"w">>)>>,
                                  <<"w">>, <<>>), Str(<<"w">>), "GOOD", <<>>)
            EXCEPT !.extra = [duration |-> Num(<<"0.5">>), resetTriggered |-> Str(<<"w">>)]]}

Unusable ==
  {Refused(<<At("sequence", <<"2">>), At("timestamp", <<"T1">>)>>),
   Refused(<<At("dataItemId", <<"pos">>), At("timestamp", <<"T1">>)>>),
   Refused(<<At("dataItemId", <<"pos">>), At("sequence", <<"0">>), At("timestamp", <<"T1">>)>>),
   Refused(<<At("dataItemId", <<"pos">>), At("sequence", <<"w">>), At("timestamp", <<"T1">>)>>),
   Refused(<<At("dataItemId", <<"pos">>), At("sequence", <<"2">>), At("timestamp", <<Blank>>)>>)}

Reports == Values \union Silences \union Conditions \union Extras \union Unusable

\* What is not known may stand anywhere, and hold what would be an observation elsewhere.
Odd == Node("Odd", <<>>, <<>>, <<Node("Samples", <<>>, <<>>, <<Node("Sampled", Identity("pos"), <<"3">>, <<>>)>>)>>)
Beside(foreign, kids) == IF foreign THEN <<Odd>> \o kids ELSE kids

HeaderNode == Node("Header", <<At("instanceId", <<"2">>), At("firstSequence", <<"1">>),
                               At("nextSequence", <<"3">>)>>, <<>>, <<>>)
Root(name, kids) == Node(name, <<At("xmlns", <<"urn:1.3">>)>>, <<>>, <<HeaderNode>> \o kids)

Streams(reports, foreign) ==
  LET groups == [i \in DOMAIN reports |-> Node(reports[i].group, <<>>, <<>>, <<reports[i].elem>>)]
      component == Node("ComponentStream", <<At("component", <<"Linear">>)>>, <<>>, Beside(foreign, groups))
      device == Node("DeviceStream", <<At("uuid", <<"dev">>)>>, <<>>, Beside(foreign, <<component>>))
  IN Root("MTConnectStreams", Beside(foreign, <<Node("Streams", <<>>, <<>>, Beside(foreign, <<device>>))>>))

Saying(reports, foreign) == [reports |-> reports, foreign |-> foreign]
Nothing == Saying(<<>>, FALSE)

(***************************************************************************)
(* What is published of a document is what its reports mean, one sample    *)
(* each and in their order, stamped with the agent's time and with the     *)
(* arrival beside it; a report that does not identify itself is refused    *)
(* and counted, and so is everything foreign, without a trace of either.   *)
(***************************************************************************)
Signal == [id |-> "sig", name |-> None, channel |-> None]

Published(arrival) ==
  LET entries == streams_from_doc(read[1])[1].device_streams[1].entries
      obs == Observed(entries, Model)
  IN  [i \in DOMAIN obs |-> update(<<reading_from_observation(obs[i], Signal, Model, arrival)>>)]

Meant(report, arrival) ==
  LET item == report.elem.attrs[1].value
      known == item \in DOMAIN Model IN
  [signal_id |-> "sig", name |-> IF known THEN Some(<<"named">>) ELSE None, channel |-> None,
   componentPath |-> IF known THEN Some(<<"Axes">>) ELSE None,
   samples |-> <<[value |-> report.value, quality |-> report.quality, server_ts |-> Some(<<"T1">>),
                  extra |-> report.extra @@ ("sequence" :> 2)
                              @@ (IF arrival = <<"T1">> THEN <<>> ELSE "receivedTs" :> arrival)]>>]

StreamsAsSent ==
  LET whole == SelectSeq(said.reports, LAMBDA r : r.quality # "REFUSED")
      streams == streams_from_doc(read[1])[1]
      entries == streams.device_streams[1].entries
  IN  /\ \A arrival \in {<<"T1">>, <<"T2">>} :
           Published(arrival) = [i \in DOMAIN whole |-> Meant(whole[i], arrival)]
      /\ Rejected(entries) = Len(said.reports) - Len(whole)
      /\ streams.unknown = IF said.foreign THEN 4 ELSE 0
      /\ streams.header = [instance_id |-> 2, first |-> Some(1), next |-> Some(3)]
      /\ is_heartbeat(streams) <=> said.reports = <<>>

(***************************************************************************)
(* Errors documents: one Error under the root (1.x), or wrapped (2.x).     *)
(***************************************************************************)
Error(code) == Node("Error", <<At("errorCode", code)>>, <<"w">>, <<>>)
ErrorNodes == {<<>>, <<Error(<<"OUT_OF_RANGE">>)>>, <<Error(<<"NO_DEVICE">>)>>,
               <<Error(<<"NO_DEVICE">>), Error(<<"OUT_OF_RANGE">>)>>}
ErrorTrees == {Root("MTConnectError", errors) : errors \in ErrorNodes}
              \union {Root("MTConnectErrors", <<Node("Errors", <<>>, <<>>, errors)>>) : errors \in ErrorNodes}

OverrunIsSeen ==
  out_of_range(errors_from_doc(read[1])[1]) =
    IF \E i \in DOMAIN Nodes(tree) : Nodes(tree)[i] = Error(<<"OUT_OF_RANGE">>) THEN Some(1) ELSE None

(***************************************************************************)
(* Devices documents: a device as it is described, and what may change.    *)
(***************************************************************************)
Known == {"DataItems", "DataItem", "Components"}
Described == [at : {<<>>, <<At("name", <<"w">>)>>, <<At("name", <<"w">>), At("uuid", <<"dev">>)>>,
                    <<At("uuid", <<"dev">>), At("name", <<"w">>)>>},
              note : {<<>>, <<"w">>}, schema : {"urn:1.3", "urn:odd"},
              shape : {"flat", "nested", "odd"}]

DeviceOf(d) ==
  LET items == Node("DataItems", <<>>, <<>>, <<Node("DataItem", <<>>, d.note, <<>>)>>)
      axes(kids) == Node("Axes", <<>>, <<>>, kids)
      below == CASE d.shape = "flat" -> <<axes(<<>>), items>>
                 [] d.shape = "nested" -> <<axes(<<items>>)>>
                 [] d.shape = "odd" -> <<axes(<<Node("Odd", <<>>, <<>>, <<items>>)>>)>>
  IN Node("Device", d.at \o <<At("xmlns", <<d.schema>>)>>, <<>>, <<Node("Components", <<>>, <<>>, below)>>)

DevicesDocument(d) == Root("MTConnectDevices", <<Node("Devices", <<>>, <<>>, <<DeviceOf(d)>>)>>)
DeviceTrees == {DevicesDocument(d) : d \in Described}

DeviceOfTree(t) == t.kids[2].kids[1]

DevicesAsSent ==
  LET doc == parse_devices(read[1], Known)[1] IN
  /\ doc.devices = <<Plain(DeviceOfTree(tree))>>
  /\ doc.unknown = Len(SelectSeq(Nodes(tree), LAMBDA n : n.name = "Odd"))

IsStreams == tree.name = "MTConnectStreams"
IsErrors == tree.name \in {"MTConnectError", "MTConnectErrors"}
IsDevices == tree.name = "MTConnectDevices"

ReportsAsSent == /\ IsStreams => StreamsAsSent
                 /\ IsErrors => OverrunIsSeen
                 /\ IsDevices => DevicesAsSent

(***************************************************************************)
(* The digest of a device changes with its model and with nothing else     *)
(* (model.rs:335): not with the order of attributes, with the namespace or *)
(* with the way the document is written.                                   *)
(***************************************************************************)
RECURSIVE SameModel(_, _)
SameModel(m, n) ==
  LET about(x) == {x.attrs[i] : i \in {j \in DOMAIN x.attrs : x.attrs[j].key \notin Plumbing}} IN
  /\ m.name = n.name /\ about(m) = about(n) /\ Len(m.kids) = Len(n.kids)
  /\ \A i \in DOMAIN m.kids : SameModel(m.kids[i], n.kids[i])

Digest == canonicalize(parse_devices(read[1], Known)[1].devices[1])

DigestMoves ==
  IsDevices /\ IsDevices' =>
    (Digest' = Digest <=> SameModel(DeviceOfTree(tree), DeviceOfTree(tree)'))

(***************************************************************************)
(* The agent writes a document; it describes its device anew.              *)
(***************************************************************************)
Unwritten == tree = Alone

Write(n, s, reports) ==
  /\ tree' = n
  /\ style' = s
  /\ said' = reports
  /\ read' = parse_document(Events(n, s))

Init == /\ tree = Alone /\ style = Plainly /\ said = Nothing
        /\ read = parse_document(Events(Alone, Plainly))

WriteAny == Unwritten /\ \E n \in Trees, s \in Styles : Write(n, s, Nothing)
WriteStreams ==
  /\ Unwritten
  /\ \E one \in {<<>>} \union {<<r>> : r \in Reports},
        other \in {<<>>} \union {<<r>> : r \in Conditions \union Unusable},
        foreign \in BOOLEAN, s \in {Plainly, Oddly} :
       Write(Streams(one \o other, foreign), s, Saying(one \o other, foreign))
WriteErrors ==
  Unwritten /\ \E n \in ErrorTrees, s \in {Plainly, Oddly} : Write(n, s, Nothing)
Describe ==
  /\ Unwritten \/ IsDevices
  /\ \E n \in DeviceTrees, s \in {Plainly, Oddly} : Write(n, s, Nothing)

Next == WriteAny \/ WriteStreams \/ WriteErrors \/ Describe
Spec == Init /\ [][Next]_vars
=============================================================================
