------------------------------ MODULE MCSession ------------------------------
(***************************************************************************)
(* Session on small instances, and what its view of a condition is worth.  *)
(***************************************************************************)
EXTENDS Session

Setup(streaming, identifies, ascending, bounds) ==
  [streaming |-> streaming, identifies |-> identifies, ascending |-> ascending,
   observations |-> bounds[1], breaks |-> bounds[2], attaches |-> bounds[3],
   serves |-> bounds[4], drops |-> bounds[5]]

(* A stream that breaks under one session, one that is attached twice, and a
   served read; then the agents that only poll, or identify nothing; and an
   event dropped with a stream that breaks after it, before an attach, and
   under a poll. *)
Orderly == {Setup(TRUE, TRUE, TRUE, <<5, 1, 1, 0, 0>>), Setup(TRUE, TRUE, TRUE, <<5, 0, 2, 0, 0>>),
            Setup(TRUE, TRUE, TRUE, <<4, 0, 1, 1, 0>>), Setup(TRUE, FALSE, TRUE, <<4, 1, 2, 0, 0>>),
            Setup(FALSE, TRUE, TRUE, <<5, 0, 1, 0, 0>>), Setup(FALSE, FALSE, TRUE, <<4, 0, 2, 1, 0>>),
            Setup(TRUE, TRUE, TRUE, <<4, 1, 1, 0, 1>>), Setup(TRUE, FALSE, TRUE, <<4, 0, 2, 0, 1>>),
            Setup(FALSE, TRUE, TRUE, <<4, 0, 1, 0, 1>>)}

(* One session, one unbroken stream, one event dropped. *)
Dropping == {Setup(TRUE, TRUE, TRUE, <<4, 0, 1, 0, 1>>)}

Alike == Permutations(Idents)

Observation == Condition \cup [seq : Nat, key : {Value}, state : {"GOOD"}]

(* What the agent has reported is numbered from one, a value and a condition first. *)
LogTypes ==
  /\ setup \in Setups
  /\ log \in Seq(Observation) /\ agent \in Seq([Keys -> Asserted \cup {Clear}])
  /\ Len(agent) = Len(log) /\ 2 <= Len(log) /\ Len(log) <= setup.observations
  /\ \A n \in 1..Len(log) : log[n].seq = n
  /\ ~IsCondition(log[1]) /\ IsCondition(log[2])

(* What is on its way to the session are observations the agent has made. *)
Made(q) == q \in Seq(Observation)
           /\ \A i \in 1..Len(q) : q[i].seq \in 1..Len(log) /\ q[i] = log[q[i].seq]

DocTypes ==
  /\ next \in 1..(Len(log) + 1)
  /\ floor \in [{"value", "condition"} -> 0..Len(log)]
  /\ doc \in [kind : {"none", "part", "cycle", "snapshot"}, obs : Seq(Observation),
              full : BOOLEAN]
  /\ doc.kind = "none" => doc.obs = <<>>
  /\ Made(doc.obs)

SessionTypes ==
  /\ owed \in BOOLEAN /\ attached \in BOOLEAN /\ whole \in BOOLEAN /\ exact \in BOOLEAN
  /\ Made(critical) /\ Made(data)
  /\ \A i \in 1..Len(data) : ~IsCondition(data[i])
  /\ ~attached => critical = <<>> /\ data = <<>>
  /\ ledger \in Ledger
  /\ drained \in [Keys -> 0..Len(log)]
  /\ shown \in [seq : Nat, q : {"none", "GOOD", "UNCERTAIN", "BAD"}]
  /\ reply \in [obs : Seq(Observation), publish : BOOLEAN] /\ Made(reply.obs)
  /\ spent \in [breaks : Nat, attaches : Nat, serves : Nat, drops : Nat]

(* Type correctness; every observation in a lane is one the agent made. *)
TypeOK == LogTypes /\ DocTypes /\ SessionTypes

(***************************************************************************)
(* Whatever the documents, the lanes and the served reads do, the session  *)
(* shows of each activation something the agent said, and its flow never   *)
(* takes an activation back to an earlier report.                          *)
(***************************************************************************)
View == INSTANCE ConditionView WITH
          Keys <- Keys, States <- Asserted \cup {Clear},
          said <- agent, on <- attached, behind <- drained, shows <- ledger.active

ShowsWhatWasSaid == View!Spec

(* Everything the agent has said has reached the session. *)
Quiesced == attached /\ Idle /\ critical \o data = <<>> /\ reply = NoReply /\ next > Len(log)

(***************************************************************************)
(* A session that was given a whole /current, and of what was sent to it   *)
(* since nothing was dropped, misses no alarm: once nothing is on its way, *)
(* every activation that stands at the agent stands in its ledger, through *)
(* breaks, recoveries and polls; and a whole /current makes up for what    *)
(* was dropped before it.                                                  *)
(***************************************************************************)
NoAlarmMissed ==
  whole /\ Quiesced => \A k \in Keys : Now[k] # Clear => ledger.active[k] = Now[k]

(***************************************************************************)
(* A session fed by one unbroken stream after its attach snapshot, with    *)
(* nothing dropped on its way, shows exactly what stands: nothing cleared  *)
(* is left standing either.                                                *)
(***************************************************************************)
ExactWhileStreaming ==
  exact /\ Quiesced => /\ ledger.active = Now
                       /\ ledger.unavailable = (log[Max(Activations)].state = "UNAVAILABLE")

(***************************************************************************)
(* While the stream is unbroken and nothing sent was dropped, a value      *)
(* observed after the part that brought a Fault, which still stands, is    *)
(* published BAD: no order in which the two lanes are filled and drained   *)
(* lets it out GOOD.                                                       *)
(***************************************************************************)
StandsThrough(k, n) == \A m \in n..Len(log) : agent[m][k] = "FAULT"

FaultDegradesWhatFollows ==
  [][exact /\ shown' # shown /\ shown'.seq > MaxPart =>
       ((\E k \in Keys : StandsThrough(k, shown'.seq - MaxPart)) => shown'.q = "BAD")]_vars

(***************************************************************************)
(* service_attach_snapshots: the floors say the instance has these         *)
(* already, and recording them against a dropped dispatch would suppress   *)
(* those observations forever.  An instance that is owed nothing has every *)
(* alarm its floor is past.  It does not hold of the documents of a        *)
(* stream, whose floors rise before they are dispatched (Setups <-         *)
(* Dropping).                                                              *)
(***************************************************************************)
Stands(k) == Max({n \in Activations : Concerns(log[n], k)})

FloorsAreTrue ==
  Quiesced /\ ~owed => \A k \in Keys : Now[k] # Clear /\ Stands(k) <= floor["condition"]
                                       => ledger.active[k] = Now[k]

(***************************************************************************)
(* service_attach_snapshots: leaving the floors unset costs one repeat on  *)
(* the next cycle.  What a session lacks above its floor is owed to it.    *)
(* It does not hold: the debt is gone, and a stream has no next cycle      *)
(* (Setups <- Dropping).                                                   *)
(***************************************************************************)
UnclaimedIsOwed ==
  Quiesced /\ ~owed => \A k \in Keys : Now[k] # Clear /\ Stands(k) > floor["condition"]
                                       => ledger.active[k] = Now[k]

(***************************************************************************)
(* README: a signal bound to a condition degrades to BAD at the moment the *)
(* condition's aggregate goes to Fault, and stays degraded.                *)
(***************************************************************************)
BoundDegrades ==
  attached /\ shown.seq > 0 /\ aggregate(ledger) = "FAULT" => shown.q = "BAD"

(***************************************************************************)
(* An activation that ends at the agent ends in the session too.           *)
(***************************************************************************)
ClearedIsCleared ==
  whole /\ Quiesced => \A k \in Keys : Now[k] = Clear => ledger.active[k] = Clear

(***************************************************************************)
(* device.rs: the sequence gives once-only ordering across reconnects.     *)
(* What a session ends up showing is the value's latest observation.       *)
(***************************************************************************)
EndsOnTheLatest == whole /\ Quiesced => shown.seq = Max(DOMAIN log \ Activations)
================================================================================
