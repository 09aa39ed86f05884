----------------------------- MODULE Observations -----------------------------
(***************************************************************************)
(* From an entry of a Streams document to what is published of it:         *)
(* observations.rs decodes it against the device model, device.rs makes it *)
(* the reading of a signal, app.rs the sample of an update.                *)
(*                                                                         *)
(* A JSON value is a pair of its type and its content; two spellings of    *)
(* one number are two numbers.                                             *)
(***************************************************************************)
EXTENDS Documents

CONSTANTS
  Numerals,     \* the symbols that parse as a finite number
  NumericTypes  \* NUMERIC_EVENT_TYPES

Null == <<"null", None>>
Str(text) == <<"string", text>>

(***************************************************************************)
(* Numbers, and what may be one.                                           *)
(***************************************************************************)
Words(text) ==
  LET Split(words, s) == IF s = Blank THEN Append(words, <<>>)
                         ELSE Append(Front(words), Append(Last(words), s))
  IN  SelectSeq(FoldLeft(Split, <<<<>>>>, text), LAMBDA w : w # <<>>)

IsNumber(text) == Len(text) = 1 /\ text[1] \in Numerals
Num(text) == <<"number", text[1]>>

numeric_or_string(text) ==
  IF IsNumber(Trimmed(text)) THEN Num(Trimmed(text)) ELSE Str(Trimmed(text))

\* One number, or a vector of them; anything else is no number at all.
numeric_vector(text) ==
  LET words == Words(text) IN
  IF words = <<>> \/ \E i \in DOMAIN words : ~IsNumber(words[i]) THEN None
  ELSE IF Len(words) = 1 THEN Some(Num(words[1]))
  ELSE Some(<<"array", [i \in DOMAIN words |-> Num(words[i])]>>)

(***************************************************************************)
(* Values.  A data set or a table is its entries, so an empty text says    *)
(* nothing of it; an entry without a key is skipped, a later one of the    *)
(* same key replaces an earlier one, a removed one is an explicit null.    *)
(***************************************************************************)
Unavailable == <<"unavailable", None>>
Scalar(v) == <<"scalar", v>>
Condition(state) == <<"condition", state>>

Object(elems, Value(_)) ==
  LET Put(object, e) == IF attr(e, "key") = None THEN object
                        ELSE (attr(e, "key")[1] :> Value(e)) @@ object
  IN  <<"object", FoldLeft(Put, <<>>, elems)>>

CellOf(cell) == numeric_or_string(cell.text)

decode_entries(e, repr) ==
  LET Entry(entry) ==
        IF attr(entry, "removed") = Some(<<"true">>) THEN Null
        ELSE IF repr = "TABLE" THEN Object(children_named(entry, "Cell"), CellOf)
        ELSE numeric_or_string(entry.text)
  IN  Object(children_named(e, "Entry"), Entry)

\* Mutation: the empty text is looked at before the representation.
decode_value_TextFirst(e, category, repr, meta) ==
  LET text == Trimmed(e.text) IN
  CASE text = <<"UNAVAILABLE">> -> Unavailable
    [] text = <<>> -> Scalar(Str(<<>>))
    [] OTHER -> Scalar(IF category = "SAMPLE" THEN OrElse(numeric_vector(text), Str(text))
                       ELSE Str(text))

decode_value(e, category, repr, meta) ==
  LET text == Trimmed(e.text)
      numeric == /\ meta # None
                 /\ meta[1].units \/ meta[1].type \in NumericTypes
  IN CASE text = <<"UNAVAILABLE">> -> Unavailable
       [] text # <<"UNAVAILABLE">> /\ repr \in {"DATA_SET", "TABLE"} ->
            Scalar(decode_entries(e, repr))
       [] OTHER ->
            Scalar(CASE text = <<>> -> Str(<<>>)
                     [] text # <<>> /\ category = "SAMPLE" -> OrElse(numeric_vector(text), Str(text))
                     [] text # <<>> /\ category = "EVENT" ->
                          IF numeric /\ IsNumber(text) THEN Num(text) ELSE Str(text))

CondState(name) == IF name \in {"Normal", "Warning", "Fault"} THEN name ELSE "Unavailable"

(***************************************************************************)
(* Additive fields.  A condition's are kept as they are.                   *)
(***************************************************************************)
ConditionExtras == {"conditionId", "nativeCode", "nativeSeverity", "qualifier"}
ValueExtras == {"resetTriggered", "duration", "nativeCode", "sampleRate", "statistic"}

Kept(e, keys, Value(_)) == [key \in keys \intersect DOMAIN e.attrs |-> Value(e.attrs[key])]

extras(entry) ==
  IF entry.category # "CONDITION" THEN Kept(entry.elem, ValueExtras, numeric_or_string)
  ELSE Kept(entry.elem, ConditionExtras, Str)
         @@ (IF entry.elem.text = <<>> THEN <<>> ELSE "conditionText" :> Str(entry.elem.text))

(***************************************************************************)
(* decode: what identifies an observation is required, never invented.     *)
(* The device model may not know the item, which then reads as text.       *)
(***************************************************************************)
Representation(text) ==
  IF Trimmed(text) \in {<<"DATA_SET">>, <<"TABLE">>, <<"TIME_SERIES">>, <<"DISCRETE">>}
  THEN Trimmed(text)[1] ELSE "VALUE"

Sequence(e) == IF attr(e, "sequence") = None THEN None ELSE Number(Trimmed(e.attrs["sequence"]))

Decodable(e) ==
  /\ attr(e, "dataItemId") # None
  /\ Sequence(e) # None /\ Sequence(e)[1] >= 1
  /\ attr(e, "timestamp") # None /\ Trimmed(e.attrs["timestamp"]) # <<>>

Of(meta, field) == IF meta = None THEN None ELSE meta[1][field]

decode(entry, meta) ==
  LET e == entry.elem
      repr == IF meta # None THEN meta[1].representation
              ELSE Representation(OrElse(attr(e, "representation"), <<>>))
  IN  [data_item_id |-> e.attrs["dataItemId"],
       sequence  |-> OrElse(Sequence(e), 0),
       timestamp |-> e.attrs["timestamp"],
       value     |-> IF entry.category = "CONDITION" THEN Condition(CondState(e.name))
                     ELSE decode_value(e, entry.category, repr, meta),
       extras    |-> extras(entry),
       element   |-> e.name,
       name      |-> attr(e, "name"),
       sub_type  |-> IF attr(e, "subType") # None THEN attr(e, "subType") ELSE Of(meta, "sub_type"),
       category  |-> IF meta # None THEN meta[1].category ELSE entry.category]

\* ingest_streams_doc: the observations of one device, and how many were refused.
MetaOf(model, e) ==
  LET id == attr(e, "dataItemId") IN
  IF id = None \/ id[1] \notin DOMAIN model THEN None ELSE Some(model[id[1]])

Observed(entries, model) ==
  LET whole == SelectSeq(entries, LAMBDA entry : Decodable(entry.elem)) IN
  [i \in DOMAIN whole |-> decode(whole[i], MetaOf(model, whole[i].elem))]

Rejected(entries) == Len(SelectSeq(entries, LAMBDA entry : ~Decodable(entry.elem)))

(***************************************************************************)
(* reading_from_observation, for a signal that binds no condition and a    *)
(* condition that is the only activation of its item (the others are in    *)
(* Conditions).  The agent's stamp is the capture, the document's arrival  *)
(* the receipt.                                                            *)
(***************************************************************************)
Quality(value) ==
  CASE value = Unavailable \/ value = Condition("Unavailable") -> "BAD"
    [] value = Condition("Fault")   -> "BAD"
    [] value = Condition("Warning") -> "UNCERTAIN"
    [] OTHER -> "GOOD"

ValueOf(value) ==
  CASE value[1] = "scalar" -> Some(value[2])
    [] value[1] = "condition" /\ value[2] # "Unavailable" -> Some(Str(<<value[2]>>))
    [] OTHER -> None

ActiveIn(value) == IF value[1] # "condition" THEN <<>>
                   ELSE "activeConditions" :> (IF value[2] \in {"Warning", "Fault"} THEN 1 ELSE 0)

reading_from_observation(obs, sig, model, arrival) ==
  LET known == obs.data_item_id \in DOMAIN model IN
  [signal_id   |-> sig.id,
   name        |-> IF sig.name # None THEN sig.name
                   ELSE IF obs.name # None \/ ~known THEN obs.name
                   ELSE model[obs.data_item_id].name,
   value       |-> ValueOf(obs.value),
   quality     |-> Quality(obs.value),
   capture_ts  |-> Some(obs.timestamp),
   received_ts |-> Some(arrival),
   extra       |-> obs.extras @@ ActiveIn(obs.value) @@ ("sequence" :> obs.sequence),
   channel     |-> sig.channel,
   component_path |-> IF known THEN Some(model[obs.data_item_id].component_path) ELSE None]

(***************************************************************************)
(* The sample of a reading, and the update its readings make: one name,    *)
(* channel and path for them all, those of the first.                      *)
(***************************************************************************)
server_ts(r) == IF r.capture_ts # None THEN r.capture_ts ELSE r.received_ts

received_extra(r) ==
  IF r.received_ts # None /\ server_ts(r) # r.received_ts
  THEN "receivedTs" :> r.received_ts[1] ELSE <<>>

build_sample(r) ==
  [value |-> IF r.value = None THEN Null ELSE r.value[1], quality |-> r.quality,
   server_ts |-> server_ts(r), extra |-> r.extra @@ received_extra(r)]

update(readings) ==
  [signal_id |-> readings[1].signal_id, name |-> readings[1].name,
   channel |-> readings[1].channel,
   componentPath |-> readings[1].component_path,
   samples |-> [i \in DOMAIN readings |-> build_sample(readings[i])]]
=============================================================================
