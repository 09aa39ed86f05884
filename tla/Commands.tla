------------------------------ MODULE Commands ------------------------------
(***************************************************************************)
(* The verbs of the command surface (src/src/commands.rs) from the request *)
(* to the reply: which device is addressed, what the handler answers from  *)
(* published state, what it asks of the device's task, what a session and  *)
(* the agent make of that (device.rs, mtconnect/mod.rs, client.rs), and    *)
(* the code an operator reads in the end (mtconnect/error.rs).             *)
(*                                                                         *)
(* One handler at a time; how commands of several handlers share a task's  *)
(* channel is Lifecycle's subject, the pages of a probe tree are Browse's. *)
(* A text is the sequence of the words that something later looks for.     *)
(***************************************************************************)
EXTENDS Naturals, Sequences, FiniteSets, SequencesExt, Functions, Picking

CONSTANTS
  Simulators,   \* the instances of the template simulator
  Ours,         \* the instances of MTConnect devices
  Configs,      \* the signal sets a reload may put in force
  Models,       \* the descriptions of a device
  Unprobed,     \* no description yet
  Explicit,     \* [Configs -> sequences of signals [id, name, item]]
  Discovered,      \* [Models -> the signals of the selection]
  Items,        \* [Models -> sets of data items]
  Requests,     \* what may be asked: [verb, addressed, refs, keys, ref]
  Responses,    \* what the agent may answer: [status, body]
  MaxCommands,  \* bound: commands asked
  MaxChanges    \* bound: reloads, drifts, lost links and the like beside them

Instances == Simulators \cup Ours
None == << >>

ASSUME KindsApart        == Simulators \cap Ours = {}
ASSUME UnprobedIsNoModel == Unprobed \notin Models
ASSUME ListsOfSignals ==
  /\ \A c \in Configs : Explicit[c] \in Seq(Range(Explicit[c]))
  /\ \A m \in Models : Discovered[m] \in Seq(Range(Discovered[m]))
\* A derived signal is one of the model's data items (served_set).
ASSUME DiscoveredAreBound ==
  \A m \in Models : \A s \in Range(Discovered[m]) : s.item \in Items[m]

VARIABLES
  config,    \* [Ours -> the signal set in force]
  model,     \* [Ours -> the cached model]
  adopted,   \* [Ours -> the model the session compiled against]
  link,      \* [Instances -> "online", "down", "gone"]
  paused,    \* the instances that are paused
  call,      \* the command in progress
  rows,      \* what it recorded: <<verb, ok>>
  spent      \* bounds: [commands, changes]

world == <<config, model, adopted, link, paused>>
vars  == <<world, call, rows, spent>>

---------------------------------------------------------------------------
(* MtcError: its rendering, its class, its code.                           *)

Err(kind, words) == [kind |-> kind, words |-> words, status |-> 0]

Lead ==
  [Http |-> <<"http">>, Timeout |-> <<"timed out">>, Transport |-> << >>,
   Tls |-> <<"tls error">>, Auth |-> <<"authentication error">>, TooLarge |-> << >>,
   Xml |-> <<"xml error">>, UnsupportedVersion |-> << >>, NoSuchDevice |-> << >>,
   AgentError |-> <<"agent error">>]
Display(e) == Lead[e.kind] \o e.words

Transient(e) ==
  \/ e.kind = "Http" /\ (e.status >= 500 \/ e.status \in {408, 429})
  \/ e.kind \in {"Timeout", "Transport", "TooLarge", "Xml", "AgentError"}

Codes ==
  [Http |-> "HTTP", Timeout |-> "TIMEOUT", Transport |-> "UNREACHABLE", Tls |-> "TLS",
   Auth |-> "AUTH", TooLarge |-> "TOO_LARGE", Xml |-> "PARSE",
   UnsupportedVersion |-> "UNSUPPORTED_VERSION", NoSuchDevice |-> "NO_SUCH_DEVICE"]
code(e) == IF e.kind = "AgentError" THEN e.words[1] ELSE Codes[e.kind]

\* to_device_error, as the text that the control channel carries.
DeviceText(e) == <<IF Transient(e) THEN "transient" ELSE "permanent">> \o Display(e)
Disconnected  == <<"device is disconnected">>

Mentions(text, word) == word \in Range(text)

\* agent_failure_code: the words it looks for, in its order.
AgentsCode(text) ==
  LET at == SelectInSeq(text, LAMBDA w : w = "agent error") IN
  IF at = 0 THEN None ELSE SubSeq(text, at + 1, at + 1)
Hints ==
  <<<<"timed out", "TIMEOUT">>, <<"http", "HTTP">>, <<"tls error", "TLS">>,
    <<"authentication error", "AUTH">>>>
HintedCode(text) ==
  LET hit == SelectSeq(Hints, LAMBDA h : Mentions(text, h[1])) IN
  IF hit = << >> THEN "UNREACHABLE" ELSE hit[1][2]

agent_failure_code(text) ==
  IF Mentions(text, "no dataitem") THEN <<"MTC_NO_SUCH_DATAITEM">>
  ELSE IF AgentsCode(text) # None THEN <<"MTC_AGENT_ERROR", AgentsCode(text)[1]>>
  ELSE IF Mentions(text, "xml error") THEN <<"MTC_PARSE">>
  ELSE <<"MTC_AGENT_ERROR", HintedCode(text)>>

---------------------------------------------------------------------------
(* The exchange with the agent: get_text, check_status and parse_current;  *)
(* the error a response ends in, if any.                                   *)

check_status(n) ==
  IF n \in 200..299 THEN None
  ELSE <<IF n \in {401, 403} THEN Err("Auth", <<"http">>)
         ELSE [Err("Http", << >>) EXCEPT !.status = n]>>

\* The client names the address when it cannot connect.
map_transport_error(how) ==
  CASE how = "timeout" -> Err("Timeout", << >>)
    [] how = "connect" -> Err("Transport", <<"http">>)
    [] how = "reset"   -> Err("Transport", << >>)

Refused ==
  [tooLarge |-> Err("TooLarge", << >>), notUtf8 |-> Err("Xml", << >>),
   malformed |-> Err("Xml", << >>), tooOld |-> Err("UnsupportedVersion", << >>),
   refusal |-> Err("AgentError", <<"UNAUTHORIZED">>), others |-> Err("NoSuchDevice", << >>)]

Failure(r) ==
  IF r.status = 0 THEN <<map_transport_error(r.body)>>
  ELSE IF check_status(r.status) # None THEN check_status(r.status)
  ELSE IF r.body \in DOMAIN Refused THEN <<Refused[r.body]>> ELSE None

---------------------------------------------------------------------------
(* A session's signals and readings.                                       *)

\* served_set: the explicit signals, and with a model the derived ones.
ServedUnder(c, m) == Explicit[c] \o (IF m = Unprobed THEN << >> ELSE Discovered[m])
\* The validator refuses an id given twice, served_set derives free ones only.
ASSUME IdsApart ==
  \A c \in Configs, m \in Models : LET served == ServedUnder(c, m) IN
    \A j, k \in DOMAIN served : served[j].id = served[k].id => j = k
Inventory ==
  <<[id |-> "temperature", name |-> "Ambient", item |-> "t"],
    [id |-> "pressure", name |-> "Line", item |-> "p"]>>
SignalsOf(i) == IF i \in Simulators THEN Inventory ELSE ServedUnder(config[i], model[i])

Reading(id, quality, raw) == [id |-> id, quality |-> quality, raw |-> raw]
SimReadings == <<Reading("temperature", "GOOD", "OK"), Reading("pressure", "BAD", "SENSOR_FAULT")>>

Served(i) == ServedUnder(config[i], adopted[i])
Unbound(i) ==
  LET mine == Explicit[config[i]]
      lost == Picked(mine, {s \in Range(mine) : s.item \notin Items[adopted[i]]}) IN
  [k \in DOMAIN lost |-> Reading(lost[k].id, "BAD", "MTC_NO_SUCH_DATAITEM")]

\* What an agent may say of a device: some items, each with or without a value.
Reports == LET all == UNION Range(Items) IN
           UNION {[S -> {"MTC_OK", "UNAVAILABLE"}] : S \in SUBSET all}

\* snapshot keeps the wanted items, map_batch gives them to their signals.
Observed(i, report, wanted) ==
  LET seen == Picked(Served(i), {s \in Range(Served(i)) : s.item \in wanted \cap DOMAIN report}) IN
  [k \in DOMAIN seen |->
     LET raw == report[seen[k].item] IN
     Reading(seen[k].id, IF raw = "MTC_OK" THEN "GOOD" ELSE "BAD", raw)]

Wanted(i, ids) == {s.item : s \in {t \in Range(Served(i)) : t.id \in ids}}
OfIds(readings, ids) == Picked(readings, {r \in Range(readings) : r.id \in ids})

---------------------------------------------------------------------------
(* Addressing and references.                                              *)

\* resolve: the device, or the code of the refusal.
Resolved(addressed) ==
  IF addressed \in Instances THEN {addressed}
  ELSE IF addressed = "unaddressed" /\ Cardinality(Instances) = 1 THEN Instances ELSE {}
Unresolved(addressed) == IF addressed = "unaddressed" THEN "BAD_ARGS" ELSE "NO_SUCH_INSTANCE"

\* resolve_ref: `by` an id, a name, or neither.
Named(i, name) == SelectSeq(SignalsOf(i), LAMBDA s : s.name = name)
resolve_ref(i, r) ==
  CASE r.by = "id" -> [ok |-> TRUE, label |-> r.of]
    [] r.by = "name" /\ Named(i, r.of) # << >> -> [ok |-> TRUE, label |-> Named(i, r.of)[1].id]
    [] r.by = "name" /\ Named(i, r.of) = << >> -> [ok |-> FALSE, label |-> r.of]
    [] r.by = "neither" -> [ok |-> FALSE, label |-> "<invalid ref>"]
Plan(i, refs) == [k \in DOMAIN refs |-> resolve_ref(i, refs[k])]
PlannedIds(plan) == {plan[k].label : k \in {n \in DOMAIN plan : plan[n].ok}}

---------------------------------------------------------------------------
(* Replies.                                                                *)

Reply(c) == [code |-> c, reads |-> << >>, n |-> 0]

\* Mutation: of two readings with one id the first is answered.
X_ById(readings) ==
  [id \in {readings[k].id : k \in DOMAIN readings} |->
     readings[CHOOSE k \in DOMAIN readings :
                readings[k].id = id /\ \A n \in DOMAIN readings : readings[n].id = id => k <= n]]

\* The readings collected into a map: the last of an id stays.
ById(readings) ==
  [id \in {readings[k].id : k \in DOMAIN readings} |->
     readings[CHOOSE k \in DOMAIN readings :
                readings[k].id = id /\ \A n \in DOMAIN readings : readings[n].id = id => n <= k]]

bad_read(label, raw) == Reading(label, "BAD", raw)
read_quality_raw(r) ==
  Reading(r.id, r.quality, IF r.raw = "UNAVAILABLE" THEN <<"MTC_UNAVAILABLE">> ELSE <<r.raw>>)

\* The entries of a read: `failure` is the code of the agent's, if it failed.
Reads(plan, readings, failure) ==
  [k \in DOMAIN plan |->
     IF ~plan[k].ok THEN bad_read(plan[k].label, <<"UNRESOLVED_REF">>)
     ELSE IF plan[k].label \in DOMAIN ById(readings)
          THEN read_quality_raw(ById(readings)[plan[k].label])
     ELSE bad_read(plan[k].label, IF failure = None THEN <<"NO_DATA">> ELSE failure)]

Idle == [at |-> "idle", of |-> "none", req |-> [verb |-> "none"], plan |-> << >>,
         reply |-> Reply("NONE"), cause |-> None, saw |-> None]

Answer(reply, recorded) ==
  /\ call' = [call EXCEPT !.at = "answered", !.reply = reply]
  /\ rows' = recorded
Recorded(ok)     == <<<<call.req.verb, ok>>>>
Unavailable(row) == Answer(Reply("DEVICE_UNAVAILABLE"), row)

Init ==
  /\ config \in [Ours -> Configs]
  /\ model = [i \in Ours |-> Unprobed] /\ adopted = [i \in Ours |-> Unprobed]
  /\ link = [i \in Instances |-> "down"] /\ paused = {}
  /\ call = Idle /\ rows = << >>
  /\ spent = [commands |-> 0, changes |-> 0]

---------------------------------------------------------------------------
(* The handler, up to the reply or the control channel.                    *)

Asking(req) ==
  /\ call.at \in {"idle", "answered"} /\ spent.commands < MaxCommands
  /\ spent' = [spent EXCEPT !.commands = @ + 1]
  /\ UNCHANGED world

At(req, i) == [Idle EXCEPT !.at = "asked", !.of = i, !.req = req]
Answers(req, i, reply, recorded) ==
  /\ call' = [At(req, i) EXCEPT !.at = "answered", !.reply = reply] /\ rows' = recorded
Ends(req, i, c, ok) == Answers(req, i, Reply(c), <<<<req.verb, ok>>>>)

\* Sent to the device's task, if there is one.
Send(req, i, plan) ==
  IF link[i] = "gone"
  THEN Answers(req, i, Reply("DEVICE_UNAVAILABLE"),
               IF req.verb \in {"sb/read", "sb/browse"} THEN <<<<req.verb, FALSE>>>> ELSE << >>)
  ELSE call' = [At(req, i) EXCEPT !.at = "sent", !.plan = plan] /\ rows' = << >>

Misaddressed(req) ==
  /\ Asking(req) /\ Resolved(req.addressed) = {}
  /\ Answers(req, "none", Reply(Unresolved(req.addressed)), << >>)

\* status and signals, from what is published; write, refused unread.
status(req, i)  == req.verb = "sb/status"  /\ Ends(req, i, "OK", TRUE)
signals(req, i) == req.verb = "sb/signals" /\ Ends(req, i, "OK", TRUE)
write(req, i)   == req.verb = "sb/write"   /\ Ends(req, i, "WRITE_NOT_ALLOWED", FALSE)

read(req, i) ==
  /\ req.verb = "sb/read"
  /\ IF req.refs = None THEN Answers(req, i, Reply("BAD_ARGS"), << >>)
     ELSE LET plan == Plan(i, req.refs[1]) IN
          IF PlannedIds(plan) = {}
          THEN /\ call' = [At(req, i) EXCEPT !.at = "answered", !.plan = plan,
                             !.reply = [Reply("OK") EXCEPT !.reads = Reads(plan, << >>, None)]]
               /\ rows' = <<<<"sb/read", TRUE>>>>
          ELSE Send(req, i, plan)

\* browse: two request forms; the model in the cache, or the seam.
Hierarchical == {"ref", "depth", "maxRefs"}
Paged        == {"cursor", "max"}
browse(req, i) ==
  /\ req.verb = "sb/browse"
  /\ IF \/ req.keys \cap Hierarchical # {} /\ req.keys \cap Paged # {}
        \/ req.keys \cap Hierarchical # {} /\ "ref" \notin req.keys
     THEN Ends(req, i, "BAD_ARGS", FALSE)
     ELSE IF i \in Ours
          THEN IF model[i] = Unprobed THEN Ends(req, i, "BROWSE_FAILED", FALSE)
               ELSE Ends(req, i, "OK", TRUE)
     ELSE IF "ref" \in req.keys /\ req.ref = "" THEN Ends(req, i, "BAD_ARGS", FALSE)
     ELSE Send(req, i, << >>)

pause(req, i)     == req.verb = "sb/pause"  /\ Send(req, i, << >>)
resume(req, i)    == req.verb = "sb/resume" /\ Send(req, i, << >>)
reconnect(req, i) == req.verb = "reconnect" /\ Send(req, i, << >>)
repoll(req, i) ==
  /\ req.verb = "repoll"
  /\ IF i \in paused THEN Ends(req, i, "PAUSED", FALSE) ELSE Send(req, i, << >>)

Handle(req, i) ==
  /\ Asking(req) /\ i \in Resolved(req.addressed)
  /\ \/ status(req, i) \/ signals(req, i) \/ write(req, i) \/ read(req, i)
     \/ browse(req, i) \/ pause(req, i) \/ resume(req, i) \/ reconnect(req, i) \/ repoll(req, i)
Ask == \E req \in Requests : Misaddressed(req) \/ \E i \in Instances : Handle(req, i)

---------------------------------------------------------------------------
(* The task's answer.  A reply once sent cannot be lost, and the handler   *)
(* looks at nothing else afterwards: taking it is one with giving it.      *)

Serving(verb) == call.at = "sent" /\ call.req.verb = verb /\ UNCHANGED spent

FailsWith(text) ==
  [Reply("OK") EXCEPT !.reads = Reads(call.plan, << >>, agent_failure_code(text))]
Gives(readings, report) ==
  /\ call' = [call EXCEPT !.at = "answered", !.saw = report,
                          !.reply = [Reply("OK") EXCEPT !.reads = Reads(call.plan, readings, None)]]
  /\ rows' = Recorded(TRUE)

\* What a session reads with, kept beside the answer.
Saw(i, report) == <<[signals |-> Served(i), bound |-> Items[adopted[i]], report |-> report]>>

\* read_named of an MTConnect session.
ReadNamed ==
  /\ Serving("sb/read") /\ call.of \in Ours /\ link[call.of] = "online"
  /\ LET i == call.of   ids == PlannedIds(call.plan)   wanted == Wanted(call.of, ids) IN
     IF wanted = {} THEN Gives(OfIds(Unbound(i), ids), Saw(i, << >>))
     ELSE \E r \in Responses :
            IF Failure(r) # None
            THEN /\ call' = [call EXCEPT !.at = "answered", !.cause = Failure(r),
                                         !.reply = FailsWith(DeviceText(Failure(r)[1]))]
                 /\ rows' = Recorded(FALSE)
            ELSE \E report \in Reports :
                   Gives(OfIds(Observed(i, report, wanted) \o Unbound(i), ids), Saw(i, report))
  /\ UNCHANGED world

\* The default read_named: everything is read and filtered.
ReadSim ==
  /\ Serving("sb/read") /\ call.of \in Simulators /\ link[call.of] = "online"
  /\ Gives(OfIds(SimReadings, PlannedIds(call.plan)), None)
  /\ UNCHANGED world

\* SimSession::browse has one page; a hierarchical request walks it.
BrowseSim ==
  /\ Serving("sb/browse") /\ link[call.of] = "online"
  /\ IF "ref" \notin call.req.keys \/ call.req.ref \in {"root"} \cup {s.id : s \in Range(Inventory)}
     THEN Answer([Reply("OK") EXCEPT !.n = IF call.req.ref = "root" THEN Len(Inventory) ELSE 0],
                 Recorded(TRUE))
     ELSE Answer(Reply("BAD_ARGS"), Recorded(FALSE))
  /\ UNCHANGED world

SetPaused(verb, now) ==
  /\ Serving(verb) /\ link[call.of] # "gone"
  /\ paused' = now
  /\ Answer([Reply("OK") EXCEPT !.n = IF paused = now THEN 0 ELSE 1], Recorded(TRUE))
  /\ UNCHANGED <<config, model, adopted, link>>
Pause  == call.at = "sent" /\ SetPaused("sb/pause", paused \cup {call.of})
Resume == call.at = "sent" /\ SetPaused("sb/resume", paused \ {call.of})

\* A session is made against the model that its agent serves now.
Connects(i) ==
  /\ link' = [link EXCEPT ![i] = "online"]
  /\ IF i \in Simulators THEN UNCHANGED <<model, adopted>>
     ELSE \E m \in IF model[i] = Unprobed THEN Models ELSE {model[i]} :
            model' = [model EXCEPT ![i] = m] /\ adopted' = [adopted EXCEPT ![i] = m]

Reconnect ==
  /\ Serving("reconnect") /\ link[call.of] # "gone"
  /\ \/ Connects(call.of) /\ Answer(Reply("OK"), Recorded(TRUE))
     \/ /\ link' = [link EXCEPT ![call.of] = "down"] /\ UNCHANGED <<model, adopted>>
        /\ Answer(Reply("RECONNECT_FAILED"), Recorded(FALSE))
  /\ UNCHANGED <<config, paused>>

\* What a repoll's text makes of it.
RepollCode(text) == IF Mentions(text, "paused") THEN "PAUSED" ELSE "DEVICE_UNAVAILABLE"
RepollFails(text) == Answer(Reply(RepollCode(text)), Recorded(FALSE))
Polled(n) == Answer([Reply("OK") EXCEPT !.n = n], Recorded(TRUE)) /\ UNCHANGED link

Repoll ==
  /\ Serving("repoll") /\ link[call.of] = "online"
  /\ LET i == call.of IN
     IF i \in paused THEN RepollFails(<<"paused">>) /\ UNCHANGED link
     ELSE IF i \in Simulators THEN Polled(Len(SimReadings))
     ELSE IF Served(i) = << >> THEN Polled(Len(Unbound(i)))
     ELSE \E r \in Responses :
            IF Failure(r) # None
            THEN /\ RepollFails(DeviceText(Failure(r)[1]))
                 /\ link' = [link EXCEPT ![i] = "down"]
            ELSE \E report \in Reports :
                   Polled(Len(Observed(i, report, {s.item : s \in Range(Served(i))}) \o Unbound(i)))
  /\ UNCHANGED <<config, model, adopted, paused>>

\* serve_while_down: what needs the session is answered "disconnected".
Refuse ==
  /\ call.at = "sent" /\ link[call.of] = "down" /\ UNCHANGED spent
  /\ \/ /\ call.req.verb = "sb/read"
        /\ Answer(FailsWith(Disconnected), Recorded(FALSE))
     \/ call.req.verb = "repoll" /\ RepollFails(Disconnected)
     \/ call.req.verb = "sb/browse" /\ Answer(Reply("BROWSE_FAILED"), Recorded(FALSE))
  /\ UNCHANGED world

\* The task ends with the command in its channel or its hand.
Dropped ==
  /\ call.at = "sent" /\ link[call.of] = "gone" /\ UNCHANGED spent
  /\ Unavailable(IF call.req.verb \in {"sb/read", "sb/browse"} THEN Recorded(FALSE) ELSE << >>)
  /\ UNCHANGED world

---------------------------------------------------------------------------
(* The world beside the command.                                           *)

Change == spent.changes < MaxChanges /\ spent' = [spent EXCEPT !.changes = @ + 1]
          /\ UNCHANGED <<call, rows>>

Reload(i) == Change /\ (\E c \in Configs : config' = [config EXCEPT ![i] = c])
             /\ UNCHANGED <<model, adopted, link, paused>>
Drift(i)  == Change /\ model[i] # Unprobed /\ (\E m \in Models : model' = [model EXCEPT ![i] = m])
             /\ UNCHANGED <<config, adopted, link, paused>>
Adopt(i)  == Change /\ link[i] = "online" /\ adopted' = [adopted EXCEPT ![i] = model[i]]
             /\ UNCHANGED <<config, model, link, paused>>
Connect(i) == Change /\ link[i] = "down" /\ Connects(i) /\ UNCHANGED <<config, paused>>
LoseLink(i) == Change /\ link[i] = "online" /\ link' = [link EXCEPT ![i] = "down"]
               /\ UNCHANGED <<config, model, adopted, paused>>
TaskEnds(i) == Change /\ link' = [link EXCEPT ![i] = "gone"]
               /\ UNCHANGED <<config, model, adopted, paused>>

Serve  == ReadNamed \/ ReadSim \/ BrowseSim \/ Pause \/ Resume \/ Reconnect \/ Repoll
          \/ Refuse \/ Dropped
Beside == \/ \E i \in Ours : Reload(i) \/ Drift(i) \/ Adopt(i)
          \/ \E i \in Instances : Connect(i) \/ LoseLink(i) \/ TaskEnds(i)
Next == Ask \/ Serve \/ Beside
Spec == Init /\ [][Next]_vars

---------------------------------------------------------------------------
(* Properties.                                                             *)

ReadAnswered == call.at = "answered" /\ call.req.verb = "sb/read" /\ call.reply.code = "OK"

\* What one reference of a served read must say: the label the request is
\* answered under, and what the session's signals and the agent's report
\* make of it, whatever was reloaded since the request was resolved.
Says(id, saw) ==
  LET mine == {s \in Range(saw.signals) : s.id = id} IN
  IF mine = {} THEN "NO_DATA"
  ELSE LET item == (CHOOSE s \in mine : TRUE).item IN
       IF item \notin saw.bound THEN "MTC_NO_SUCH_DATAITEM"
       ELSE IF item \notin DOMAIN saw.report THEN "NO_DATA"
       ELSE IF saw.report[item] = "UNAVAILABLE" THEN "MTC_UNAVAILABLE" ELSE "MTC_OK"

\* sb/read answers every reference in its place and under its own label:
\* one that names nothing is unresolved, a failure of the agent is on every
\* other, and else each says what its own signal is worth, GOOD only with a
\* value (read, read_named, snapshot, map_batch and unbound_readings).
ReadAnswersEach ==
  ReadAnswered =>
    /\ DOMAIN call.reply.reads = DOMAIN call.req.refs[1]
    /\ \A k \in DOMAIN call.plan :
         LET entry == call.reply.reads[k]  planned == call.plan[k] IN
         /\ entry.id = planned.label
         /\ entry.quality = "GOOD" => entry.raw \in {<<"MTC_OK">>, <<"OK">>}
         /\ ~planned.ok => entry.raw = <<"UNRESOLVED_REF">>
         /\ planned.ok /\ call.cause # None =>
              entry.quality = "BAD" /\ entry.raw[1] # "NO_DATA"
         /\ planned.ok /\ call.saw # None => entry.raw = <<Says(planned.label, call.saw[1])>>

\* mtconnect/error.rs:88 of MtcError::code: "the short, stable code an
\* operator sees: the <c> of MTC_AGENT_ERROR:<c>".  The code of an entry is recovered
\* from the words of the error's text (commands.rs:1435), and is not always that one.
ReadCodeIsErrorCode ==
  ReadAnswered /\ call.cause # None =>
    \A k \in DOMAIN call.reply.reads :
      LET raw == call.reply.reads[k].raw IN
      raw[1] = "MTC_AGENT_ERROR" => raw[2] = code(call.cause[1])
=============================================================================
