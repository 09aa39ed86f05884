------------------------------- MODULE Session -------------------------------
(***************************************************************************)
(* A session's view of one device: the agent's log, the acquisition task   *)
(* that turns documents into events, the two lanes of the instance queue,  *)
(* and MtcSession, which drains them, folds the condition observations     *)
(* into its ledger and publishes the value bound to that condition.        *)
(*                                                                         *)
(* Sources: src/mtconnect/mod.rs (ingest_streams_doc, snapshot_cycle,      *)
(* service_attach_snapshots, attach, drain), src/mtconnect/sequence.rs,    *)
(* src/device.rs (MtcSession).  How acquisition moves between its states   *)
(* is Acquisition's matter, how full a lane is InstanceQueue's; here the   *)
(* device has one value and one condition data item, bound to it, and a    *)
(* send to the loss-intolerant lane may run out of its budget.  What send  *)
(* answers is taken at its word (InstanceQueue: DeliveredIsLanded).        *)
(***************************************************************************)
EXTENDS Conditions, SequencesExt

CONSTANTS
  Setups,   \* the agents and bounds to consider, each [streaming, identifies,
            \* ascending, observations, breaks, attaches, serves, drops]:
            \* acquisition streams or only polls; the agent identifies its
            \* activations; it writes them in sequence order; bounds on its
            \* observations, on streams broken or overrun and snapshots
            \* failed, on sessions, on served reads, and on events dropped
  MaxPart   \* bound: observations of one stream part

ASSUME SetupsTyped ==
  Setups \subseteq [streaming : BOOLEAN, identifies : BOOLEAN, ascending : BOOLEAN,
                    observations : Nat \ {0, 1}, breaks : Nat, attaches : Nat, serves : Nat,
                    drops : Nat]
ASSUME PartsBounded == MaxPart \in Nat

VARIABLES
  setup,     \* the member of Setups this behaviour is of
  log,       \* the agent's observations; the index is the sequence number
  agent,     \* what stands at the agent after each: [key -> Asserted or Clear]
  next,      \* SequenceState::next
  floor,     \* SequenceState::last_published of the two data items
  doc,       \* the document being dispatched: [kind, obs, full]
  owed,      \* attach_pending names the device
  attached,  \* the device has a sink
  critical,  \* the loss-intolerant lane, its batches run together
  data,      \* the data lane
  ledger,    \* MtcSession::conditions
  shown,     \* the last reading published of the value: [seq, q]
  reply,     \* a served snapshot on its way to the session
  drained,   \* history: [key -> last observation of it the flow brought]
  whole,     \* history: the session was given all that stood at some moment,
             \* and nothing sent to it since was dropped
  exact,     \* history: all since, and nothing before, was streamed to it
  spent      \* how much of the bounds is used: [breaks, attaches, serves, drops]

vars == <<setup, log, agent, next, floor, doc, owed, attached, critical, data, ledger,
          shown, reply, drained, whole, exact, spent>>

(***************************************************************************)
(* The agent.  A value observation is told from a condition's by `key`.    *)
(***************************************************************************)
Value == "value"
ASSUME ValueIsNoKey == Value \notin Keys

Item(obs)      == IF obs.key = Value THEN "value" ELSE "condition"
IsCondition(o) == Item(o) = "condition"

ValueObs(n) == [seq |-> n, key |-> Value, state |-> "GOOD"]
Boot        == <<ValueObs(1), [seq |-> 2, key |-> NoIdent, state |-> "NORMAL"]>>

Quiet == [k \in Keys |-> Clear]
Now == agent[Len(agent)]

After(o) == IF o.key = Value THEN Now
            ELSE IF o.key = NoIdent /\ o.state \notin Asserted THEN Quiet
            ELSE [Now EXCEPT ![o.key] = IF o.state \in Asserted THEN o.state ELSE Clear]

(* What the agent may report of its condition next: a change.  An agent that
   identifies its activations identifies each it asserts; a Normal may end
   one or all. *)
Reports == {o \in [seq : {Len(log) + 1}, key : Keys, state : CondStates] :
              /\ o.state = "UNAVAILABLE" => o.key = NoIdent
              /\ o.state \in Asserted    => (o.key # NoIdent) = setup.identifies
              /\ After(o) # Now \/ o.state = "UNAVAILABLE"}

Observe ==
  /\ Len(log) < setup.observations
  /\ \E o \in Reports \cup {ValueObs(Len(log) + 1)} :
       /\ log' = Append(log, o)
       /\ agent' = Append(agent, After(o))
  /\ UNCHANGED <<setup, next, floor, doc, owed, attached, critical, data, ledger, shown, reply,
                 drained, whole, exact, spent>>

(***************************************************************************)
(* A document lists a device's values before its conditions.  A stream     *)
(* part carries a range of the log; /current carries the latest value and  *)
(* every activation that stands, each with the sequence that asserted it,  *)
(* or the last report when none does.                                      *)
(***************************************************************************)
Activations == {n \in DOMAIN log : IsCondition(log[n])}

Standing == {Max({n \in Activations : log[n].key = k}) : k \in {k \in Keys : Now[k] # Clear}}
Reported == IF Standing = {} THEN {Max(Activations)} ELSE Standing

Rank(n, S)  == Cardinality({m \in S : m < n})
Rising(S)   == [i \in 1..Cardinality(S) |-> CHOOSE n \in S : Rank(n, S) = i - 1]

Entries(from, places) == [i \in DOMAIN places |-> from[places[i]]]
Taken(from, S)        == Entries(from, Rising(S))

Current ==
  LET standing == IF setup.ascending THEN Rising(Reported) ELSE Reverse(Rising(Reported))
  IN  Entries(log, <<Max(DOMAIN log \ Activations)>> \o standing)
Part(m, n) == Taken(log, (m..n) \ Activations) \o Taken(log, (m..n) \cap Activations)

(***************************************************************************)
(* should_publish, over a document's entries in order: a data item's floor *)
(* rises with each entry let through.                                      *)
(***************************************************************************)
Passes(entries, floors, i) ==
  /\ entries[i].seq > floors[Item(entries[i])]
  /\ \A j \in 1..(i - 1) : Item(entries[j]) = Item(entries[i]) =>
                             entries[j].seq < entries[i].seq

FreshOf(entries, floors) == Taken(entries, {i \in DOMAIN entries : Passes(entries, floors, i)})

Greatest(S) == CHOOSE n \in S : \A m \in S : m <= n
Raised(floors, entries) ==
  [item \in DOMAIN floors |->
     Greatest({floors[item]} \cup {entries[i].seq : i \in {j \in DOMAIN entries :
                                                           Item(entries[j]) = item}})]

NoFloors == [item \in {"value", "condition"} |-> 0]
NoDoc    == [kind |-> "none", obs |-> <<>>, full |-> FALSE]

NoReply  == [obs |-> <<>>, publish |-> FALSE]

(***************************************************************************)
(* ingest_streams_doc: only an attached device is measured, and what is    *)
(* fresh is dispatched before the next document is read.                   *)
(***************************************************************************)
Ingest(kind, entries, floors) ==
  LET fresh == IF attached THEN FreshOf(entries, floors) ELSE <<>>
  IN  /\ doc' = IF fresh = <<>> /\ kind = "part" THEN NoDoc
                ELSE [kind |-> kind, obs |-> fresh, full |-> fresh = entries]
      /\ floor' = Raised(floors, fresh)

Idle == doc.kind = "none"

StreamPart ==
  /\ setup.streaming /\ Idle
  /\ next <= Len(log)
  /\ \E n \in next..Len(log) :
       /\ n < next + MaxPart
       /\ Ingest("part", Part(next, n), floor)
       /\ next' = n + 1
  /\ UNCHANGED <<setup, log, agent, owed, attached, critical, data, ledger, shown, reply,
                 drained, whole, exact, spent>>

(***************************************************************************)
(* snapshot_cycle.  With the floors standing it is the poll, and the head  *)
(* of a stream that is opened again; with the floors reset it recovers     *)
(* from an overrun, and its batch is a Snapshot.  The cursor moves past    *)
(* the log: what /current does not show is never streamed.                 *)
(***************************************************************************)
Cycle(kind, floors) ==
  /\ Idle
  /\ Ingest(kind, Current, floors)
  /\ next' = Len(log) + 1
  /\ exact' = FALSE
  /\ UNCHANGED <<setup, log, agent, owed, attached, critical, data, ledger, shown, reply,
                 drained, whole>>

Broken == /\ setup.streaming /\ spent.breaks < setup.breaks
          /\ spent' = [spent EXCEPT !.breaks = @ + 1]

Poll    == ~setup.streaming /\ Cycle("cycle", floor) /\ UNCHANGED spent
Reopen  == Broken /\ Cycle("cycle", floor)
Recover == Broken /\ next <= Len(log) /\ Cycle("snapshot", NoFloors)

(***************************************************************************)
(* dispatch: flow one observation at a time, each to the lane it earns; a  *)
(* re-baseline as one event.  With no sink there is nobody to tell.  What  *)
(* was measured is measured, whether or not it lands: the floors have      *)
(* risen when the document was read, and ingest asks dispatch for no       *)
(* answer.                                                                 *)
(***************************************************************************)
ToCritical(batch) == IF attached THEN critical' = critical \o batch ELSE UNCHANGED critical
ToData(batch)     == IF attached THEN data' = data \o batch ELSE UNCHANGED data

DispatchObs ==
  /\ doc.kind \in {"part", "cycle"} /\ doc.obs # <<>>
  /\ LET o == Head(doc.obs)
     IN  IF IsCondition(o) THEN ToCritical(<<o>>) /\ UNCHANGED data
                           ELSE ToData(<<o>>) /\ UNCHANGED critical
  /\ doc' = IF doc.kind = "part" /\ Len(doc.obs) = 1 THEN NoDoc
            ELSE [doc EXCEPT !.obs = Tail(@)]
  /\ UNCHANGED <<setup, log, agent, next, floor, owed, attached, ledger, shown, reply,
                 drained, whole, exact, spent>>

DispatchSnapshot ==
  /\ doc.kind = "snapshot" /\ doc.obs # <<>>
  /\ ToCritical(doc.obs)
  /\ doc' = [doc EXCEPT !.obs = <<>>]
  /\ UNCHANGED <<setup, log, agent, next, floor, owed, attached, data, ledger, shown,
                 reply, drained, whole, exact, spent>>

(* send_critical: the budget ends on a lane still full, and the event is
   dropped.  The lane fills with what is left out here too: the conditions of
   other data items, and the agent's own events. *)
BudgetEnds ==
  /\ attached
  /\ spent.drops < setup.drops
  /\ spent' = [spent EXCEPT !.drops = @ + 1]

DropObs ==
  /\ doc.kind \in {"part", "cycle"} /\ doc.obs # <<>>
  /\ IsCondition(Head(doc.obs))
  /\ BudgetEnds
  /\ doc' = IF doc.kind = "part" /\ Len(doc.obs) = 1 THEN NoDoc
            ELSE [doc EXCEPT !.obs = Tail(@), !.full = FALSE]
  /\ whole' = FALSE /\ exact' = FALSE
  /\ UNCHANGED <<setup, log, agent, next, floor, owed, attached, critical, data, ledger, shown,
                 reply, drained>>

DropSnapshot ==
  /\ doc.kind = "snapshot" /\ doc.obs # <<>>
  /\ BudgetEnds
  /\ doc' = [doc EXCEPT !.obs = <<>>, !.full = FALSE]
  /\ whole' = FALSE /\ exact' = FALSE
  /\ UNCHANGED <<setup, log, agent, next, floor, owed, attached, critical, data, ledger, shown,
                 reply, drained>>

(* A cycle ends by clearing attach_pending, whoever attached meanwhile. *)
CycleDone ==
  /\ doc.kind \in {"cycle", "snapshot"} /\ doc.obs = <<>>
  /\ owed' = FALSE
  /\ whole' = (whole \/ doc.full)
  /\ doc' = NoDoc
  /\ UNCHANGED <<setup, log, agent, next, floor, attached, critical, data, ledger, shown,
                 reply, drained, exact, spent>>

(* Mutant: the attach snapshot leaves the floors as they are. *)
ServeAttachNoFloors ==
  /\ setup.streaming /\ Idle /\ owed
  /\ owed' = FALSE
  /\ IF attached
     THEN /\ ToCritical(Current)
          /\ whole' = TRUE
          /\ exact' = (ledger = Unknown /\ critical = <<>> /\ reply = NoReply)
     ELSE UNCHANGED <<critical, whole, exact>>
  /\ UNCHANGED <<setup, log, agent, next, floor, doc, attached, data, ledger, shown, reply, drained,
                 spent>>

(***************************************************************************)
(* service_attach_snapshots: /current past the floors, which rise once it  *)
(* is delivered.  A snapshot that is not, and a fetch that fails, leave    *)
(* nothing owed.                                                           *)
(***************************************************************************)
ServeAttach ==
  /\ setup.streaming /\ Idle /\ owed
  /\ owed' = FALSE
  /\ IF attached
     THEN /\ ToCritical(Current)
          /\ floor' = Raised(floor, Current)
          /\ whole' = TRUE
          /\ exact' = (ledger = Unknown /\ critical = <<>> /\ reply = NoReply)
     ELSE UNCHANGED <<critical, floor, whole, exact>>
  /\ UNCHANGED <<setup, log, agent, next, doc, attached, data, ledger, shown, reply, drained, spent>>

ServeAttachUndelivered ==
  /\ setup.streaming /\ Idle /\ owed
  /\ BudgetEnds
  /\ owed' = FALSE
  /\ UNCHANGED <<setup, log, agent, next, floor, doc, attached, critical, data, ledger, shown,
                 reply, drained, whole, exact>>

ServeAttachFailed ==
  /\ Broken /\ Idle /\ owed
  /\ owed' = FALSE
  /\ UNCHANGED <<setup, log, agent, next, floor, doc, attached, critical, data, ledger, shown,
                 reply, drained, whole, exact>>

(***************************************************************************)
(* The session: attached with an empty ledger, closed, and its queue       *)
(* dropped with it.                                                        *)
(***************************************************************************)
NothingYet == [seq |-> 0, q |-> "none"]

Attach ==
  /\ ~attached /\ spent.attaches < setup.attaches
  /\ attached' = TRUE /\ owed' = TRUE
  /\ ledger' = Unknown
  /\ drained' = [k \in Keys |-> 0]
  /\ whole' = FALSE /\ exact' = FALSE
  /\ doc' = [doc EXCEPT !.full = FALSE]
  /\ spent' = [spent EXCEPT !.attaches = @ + 1]
  /\ UNCHANGED <<setup, log, agent, next, floor, critical, data, shown, reply>>

Detach ==
  /\ attached /\ reply = NoReply
  /\ spent.attaches < setup.attaches
  /\ attached' = FALSE
  /\ critical' = <<>> /\ data' = <<>>
  /\ UNCHANGED <<setup, log, agent, next, floor, doc, owed, ledger, shown, reply, drained, whole,
                 exact, spent>>

(***************************************************************************)
(* map_batch: the ledger takes every condition of the batch first; the     *)
(* values are then published against it.                                   *)
(***************************************************************************)
Conditions_(batch) == Taken(batch, {i \in DOMAIN batch : IsCondition(batch[i])})
Values_(batch)     == Taken(batch, {i \in DOMAIN batch : ~IsCondition(batch[i])})

FoldIn(batch) == ledger' = Folded(ledger, Conditions_(batch), Len(Conditions_(batch)))

Degraded(l) == Worse("GOOD", condition_quality(aggregate(l)))

(* Mutant: the values are published as the batch is read. *)
PublishFirst(batch) ==
  shown' = IF Values_(batch) = <<>> THEN shown
           ELSE [seq |-> Last(Values_(batch)).seq, q |-> Degraded(ledger)]

Publish(batch) ==
  shown' = IF Values_(batch) = <<>> THEN shown
           ELSE [seq |-> Last(Values_(batch)).seq, q |-> Degraded(ledger')]

(* read_signals: the loss-intolerant lane first. *)
Read ==
  /\ attached /\ reply = NoReply
  /\ critical \o data # <<>>
  /\ FoldIn(critical \o data)
  /\ Publish(critical \o data)
  /\ drained' = [k \in Keys |->
                   Greatest({drained[k]} \cup {o.seq : o \in {c \in ToSet(Conditions_(critical)) :
                                                               Concerns(c, k)}})]
  /\ critical' = <<>> /\ data' = <<>>
  /\ UNCHANGED <<setup, log, agent, next, floor, doc, owed, attached, reply, whole, exact, spent>>

(***************************************************************************)
(* read_named and snapshot_now: /current, of the data items asked for,     *)
(* served between two documents; folded in when the reply arrives.  A      *)
(* repoll asks for everything and publishes it; of the reads, one of the   *)
(* condition.                                                              *)
(***************************************************************************)
Ask ==
  /\ attached /\ Idle /\ reply = NoReply
  /\ spent.serves < setup.serves
  /\ \/ reply' = [obs |-> Conditions_(Current), publish |-> FALSE]
     \/ reply' = [obs |-> Current, publish |-> TRUE]
  /\ spent' = [spent EXCEPT !.serves = @ + 1]
  /\ UNCHANGED <<setup, log, agent, next, floor, doc, owed, attached, critical, data, ledger, shown,
                 drained, whole, exact>>

Served ==
  /\ reply # NoReply
  /\ FoldIn(reply.obs)
  /\ IF reply.publish THEN Publish(reply.obs) ELSE UNCHANGED shown
  /\ reply' = NoReply
  /\ UNCHANGED <<setup, log, agent, next, floor, doc, owed, attached, critical, data, drained,
                 whole, exact, spent>>

Init ==
  /\ setup \in Setups
  /\ log = Boot /\ agent = <<Quiet, Quiet>>
  /\ next = 1 /\ floor = NoFloors /\ doc = NoDoc
  /\ owed = FALSE /\ attached = FALSE
  /\ critical = <<>> /\ data = <<>>
  /\ ledger = Unknown /\ shown = NothingYet /\ reply = NoReply
  /\ drained = [k \in Keys |-> 0]
  /\ whole = FALSE /\ exact = FALSE
  /\ spent = [breaks |-> 0, attaches |-> 0, serves |-> 0, drops |-> 0]

Next == \/ Observe \/ StreamPart \/ Poll \/ Reopen \/ Recover
        \/ DispatchObs \/ DispatchSnapshot \/ DropObs \/ DropSnapshot \/ CycleDone
        \/ ServeAttach \/ ServeAttachUndelivered \/ ServeAttachFailed \/ Attach \/ Detach
        \/ Read \/ Ask \/ Served

Spec == Init /\ [][Next]_vars
================================================================================
