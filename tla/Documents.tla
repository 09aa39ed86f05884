----------------------------- MODULE Documents -----------------------------
(***************************************************************************)
(* What the adapter reads in a document of the agent                       *)
(* (src/mtconnect/xml.rs): the tokenizer's events, folded into a tree      *)
(* within fixed bounds, and the tree read as a Devices, a Streams or an    *)
(* Errors document; and the digest of a device's subtree (model.rs).       *)
(*                                                                         *)
(* A text is a sequence of symbols: a symbol stands for a word (in any     *)
(* case), for the blank between two, or for a reference (`&amp;`) in what  *)
(* the agent wrote.  Bytes, encodings and the length of an attribute are   *)
(* left out.                                                               *)
(***************************************************************************)
EXTENDS Naturals, Sequences, SequencesExt, FiniteSetsExt

CONSTANTS
  MaxDepth,      \* MAX_DEPTH
  MaxAttributes, \* MAX_ATTRIBUTES
  MaxNodes,      \* MAX_NODES
  MinVersion,    \* MIN_VERSION, a pair
  References,    \* the symbols that are references
  Resolved,      \* [those XML itself defines -> the symbol they stand for]
  Declarations,  \* the keys `xmlns` and `xmlns:...`
  Plumbing,      \* these and the keys `...:schemaLocation`
  VersionIn,     \* [MTConnect's namespace URIs -> the version each states, an option]
  Unsigned       \* [symbols that parse as u64 -> the number]

Blank == " "

None == <<>>
Some(x) == <<x>>
OrElse(option, default) == IF option = None THEN default ELSE option[1]

\* The first element of s that T holds of, if any.
FirstOf(s, T(_)) == LET hits == SelectSeq(s, T) IN
                    IF hits = <<>> THEN None ELSE Some(Head(hits))

(***************************************************************************)
(* An element of the tree.  Its attributes are a function of their keys.   *)
(***************************************************************************)
Elem(name, attrs, text, kids) == [name |-> name, attrs |-> attrs, text |-> text, kids |-> kids]

attr(e, key) == IF key \in DOMAIN e.attrs THEN Some(e.attrs[key]) ELSE None
child(e, name) == FirstOf(e.kids, LAMBDA c : c.name = name)
children_named(e, name) == SelectSeq(e.kids, LAMBDA c : c.name = name)

Solid(text) == {i \in DOMAIN text : text[i] # Blank}
Trimmed(text) == IF Solid(text) = {} THEN <<>>
                 ELSE SubSeq(text, Min(Solid(text)), Max(Solid(text)))

\* unescape_inert: a reference XML does not define stays as written, and is counted.
Unescaped(text) == [i \in DOMAIN text |->
                      IF text[i] \in DOMAIN Resolved THEN Resolved[text[i]] ELSE text[i]]
Inert(text) == Cardinality({i \in DOMAIN text : text[i] \in References \ DOMAIN Resolved})

\* What F yields of the first, then of the second...
Joined(n, F(_)) ==
  LET upTo[i \in 0..n] == IF i = 0 THEN <<>> ELSE upTo[i - 1] \o F(i) IN upTo[n]
InAll(elems, F(_)) == Joined(Len(elems), LAMBDA i : F(elems[i]))

Below(v, w) == v[1] < w[1] \/ (v[1] = w[1] /\ v[2] < w[2])

(***************************************************************************)
(* parse_document: one event of the tokenizer after another, over the open *)
(* elements, the root closed last, the namespace declared first, and what  *)
(* was counted.  An event is a start or an empty element (its name with    *)
(* its prefix, its attributes as written), an end, a text, a CDATA or another.         *)
(***************************************************************************)
Unread == [stack |-> <<>>, root |-> None, uri |-> None, nodes |-> 0, dropped |-> 0, ok |-> TRUE]

Refuse(p) == [p EXCEPT !.ok = FALSE]

\* The first MTConnect declaration is the document's, whatever it states.
Latched(p, attrs) ==
  IF p.uri # None THEN p.uri
  ELSE LET ours == FirstOf(attrs, LAMBDA at : /\ at.key \in Declarations
                                              /\ Unescaped(at.value) \in {<<u>> : u \in DOMAIN VersionIn})
       IN  IF ours = None THEN None ELSE Some(Unescaped(ours[1].value)[1])

\* A key that is written twice keeps its last value.
Attributes(attrs) ==
  [key \in {attrs[i].key : i \in DOMAIN attrs} |->
     Unescaped(attrs[Max({i \in DOMAIN attrs : attrs[i].key = key})].value)]

InertIn(attrs) == Inert(InAll(attrs, LAMBDA at : at.value))

Opened(p, e) ==
  IF \/ Len(e.attrs) > MaxAttributes
     \/ Len(p.stack) + 1 > MaxDepth
     \/ p.nodes + 1 > MaxNodes
  THEN Refuse(p)
  ELSE [p EXCEPT !.stack = Append(@, Elem(Last(e.name), Attributes(e.attrs), <<>>, <<>>)),
                 !.nodes = @ + 1, !.uri = Latched(p, e.attrs), !.dropped = @ + InertIn(e.attrs)]

\* close_element: the text is trimmed once, when the element is whole.
Closed(p) ==
  LET done == [Last(p.stack) EXCEPT !.text = Trimmed(@)]
      rest == Front(p.stack) IN
  IF p.stack = <<>> THEN p
  ELSE IF rest = <<>> THEN [p EXCEPT !.stack = <<>>, !.root = Some(done)]
  ELSE [p EXCEPT !.stack = Front(rest) \o <<[Last(rest) EXCEPT !.kids = Append(@, done)]>>]

Push(p, text) ==
  IF p.stack = <<>> THEN p
  ELSE [p EXCEPT !.stack = Front(@) \o <<[Last(@) EXCEPT !.text = @ \o text]>>]

\* Mutation: every piece of text is trimmed as it comes.
WroteTrimmed(p, text) == [Push(p, Trimmed(Unescaped(text))) EXCEPT !.dropped = @ + Inert(text)]

\* Text outside the root is no element's; a reference there is counted all the same.
Wrote(p, text) == [Push(p, Unescaped(text)) EXCEPT !.dropped = @ + Inert(text)]

Take(p, e) ==
  IF ~p.ok THEN p
  ELSE CASE e.kind = "start" -> Opened(p, e)
         [] e.kind = "empty" -> LET opened == Opened(p, e) IN
                                IF opened.ok THEN Closed(opened) ELSE opened
         [] e.kind = "end"   -> Closed(p)
         [] e.kind = "text"  -> Wrote(p, e.text)
         [] e.kind = "cdata" -> Push(p, e.text)
         [] e.kind = "other" -> p        \* a comment, an instruction, a DTD
         [] e.kind = "error" -> Refuse(p)

Version(p) == IF p.uri = None THEN None ELSE VersionIn[p.uri[1]]

\* The one element of a set: the choice makes TLC evaluate it once.
Sole(S) == CHOOSE x \in S : TRUE

\* One event after another: those of the first half, then the others, which keeps
\* TLC's evaluation shallow.
RECURSIVE TakeAll(_, _)
TakeAll(p, events) ==
  LET half == Len(events) \div 2 IN
  CASE events = <<>>    -> p
    [] Len(events) = 1  -> Take(p, events[1])
    [] Len(events) > 1  -> Sole({TakeAll(q, SubSeq(events, half + 1, Len(events))) :
                                   q \in {TakeAll(p, SubSeq(events, 1, half))}})

parse_document(events) ==
  LET p == TakeAll(Unread, events) IN
  IF \/ ~p.ok \/ p.stack # <<>> \/ p.root = None
     \/ (Version(p) # None /\ Below(Version(p)[1], MinVersion))
  THEN None
  ELSE Some([root |-> p.root[1], version |-> Version(p), dropped |-> p.dropped])

(***************************************************************************)
(* The documents.  Whatever a reader does not know is skipped and counted. *)
(***************************************************************************)
document_kind(name) ==
  CASE name = "MTConnectDevices" -> "devices"
    [] name = "MTConnectStreams" -> "streams"
    [] name \in {"MTConnectError", "MTConnectErrors"} -> "errors"
    [] OTHER -> "unknown"

Number(text) == IF Len(text) = 1 /\ text[1] \in DOMAIN Unsigned THEN Some(Unsigned[text[1]]) ELSE None

\* from_elem: what of the header the adapter goes by; an instance that is missing reads as zero.
Header(root) ==
  LET header == child(root, "Header")
      num(key) == IF header = None \/ attr(header[1], key) = None THEN None
                  ELSE Number(attr(header[1], key)[1]) IN
  [instance_id |-> OrElse(num("instanceId"), 0), first |-> num("firstSequence"),
   next |-> num("nextSequence")]

\* How many of the elements are not named one of these.
Others(elems, names) == Len(SelectSeq(elems, LAMBDA c : c.name \notin names))

Total(elems, F(_)) == FoldLeft(LAMBDA n, c : n + F(c), 0, elems)

Group == [Samples |-> "SAMPLE", Events |-> "EVENT", Condition |-> "CONDITION"]
Groups == DOMAIN Group

\* One component's observations: name, or else component, says whose.
ComponentEntries(cs) ==
  LET entries(group) ==
        [i \in DOMAIN group.kids |->
           [category |-> Group[group.name], elem |-> group.kids[i],
            component |-> IF attr(cs, "name") # None THEN attr(cs, "name")
                          ELSE attr(cs, "component")]]
  IN InAll(SelectSeq(cs.kids, LAMBDA g : g.name \in Groups), entries)

device_stream(ds) ==
  [uuid |-> OrElse(attr(ds, "uuid"), <<>>),
   entries |-> InAll(children_named(ds, "ComponentStream"), ComponentEntries)]

UnknownInDevice(ds) ==
  Others(ds.kids, {"ComponentStream"})
    + Total(children_named(ds, "ComponentStream"), LAMBDA cs : Others(cs.kids, Groups))

streams_from_doc(doc) ==
  IF document_kind(doc.root.name) # "streams" THEN None
  ELSE LET streams == children_named(doc.root, "Streams")
           devices == InAll(streams, LAMBDA s : children_named(s, "DeviceStream")) IN
       Some([header |-> Header(doc.root),
             device_streams |-> [i \in DOMAIN devices |-> device_stream(devices[i])],
             unknown |-> doc.dropped + Others(doc.root.kids, {"Header", "Streams"})
                           + Total(streams, LAMBDA s : Others(s.kids, {"DeviceStream"}))
                           + Total(devices, UnknownInDevice)])

is_heartbeat(streams) == \A i \in DOMAIN streams.device_streams :
                            streams.device_streams[i].entries = <<>>

\* 1.x puts one Error under the root, 2.x wraps them.
errors_from_doc(doc) ==
  IF document_kind(doc.root.name) # "errors" THEN None
  ELSE LET wrapped == children_named(doc.root, "Errors")
           all == InAll(doc.root.kids, LAMBDA c : IF c.name = "Error" THEN <<c>>
                                                   ELSE IF c.name = "Errors" THEN children_named(c, "Error")
                                                   ELSE <<>>) IN
       Some([header |-> Header(doc.root),
             codes |-> [i \in DOMAIN all |-> OrElse(attr(all[i], "errorCode"), <<"UNKNOWN">>)],
             unknown |-> doc.dropped + Others(doc.root.kids, {"Header", "Error", "Errors"})
                           + Total(wrapped, LAMBDA w : Others(w.kids, {"Error"}))])

out_of_range(errors) ==
  IF <<"OUT_OF_RANGE">> \in ToSet(errors.codes) THEN Some(OrElse(errors.header.first, 0)) ELSE None

RECURSIVE UnknownBelow(_, _, _)
UnknownBelow(e, inComponents, known) ==
  (IF inComponents THEN 0 ELSE Others(e.kids, known))
    + Total(e.kids, LAMBDA c : UnknownBelow(c, c.name = "Components", known))

\* Below Components any name is a component's.
parse_devices(doc, known) ==
  IF document_kind(doc.root.name) # "devices" THEN None
  ELSE LET lists == children_named(doc.root, "Devices")
           devices == InAll(lists, LAMBDA l : children_named(l, "Device")) IN
       Some([header |-> Header(doc.root), devices |-> devices,
             unknown |-> doc.dropped + Others(doc.root.kids, {"Header", "Devices"})
                           + Total(lists, LAMBDA l : Others(l.kids, {"Device"}))
                           + Total(devices, LAMBDA d : UnknownBelow(d, FALSE, known))])

(***************************************************************************)
(* digest_of: elements and attributes in canonical order; neither text nor *)
(* the document's plumbing is part of it.  The hash is what it is of.      *)
(***************************************************************************)
\* Mutation: where an element ends is not written down.
RECURSIVE canonicalize_Unclosed(_)
canonicalize_Unclosed(e) ==
  <<e.name, [key \in DOMAIN e.attrs \ Plumbing |-> e.attrs[key]]>> \o InAll(e.kids, canonicalize_Unclosed)

RECURSIVE canonicalize(_)
canonicalize(e) ==
  <<e.name, [key \in DOMAIN e.attrs \ Plumbing |-> e.attrs[key]]>>
    \o InAll(e.kids, canonicalize) \o <<"end">>
=============================================================================
