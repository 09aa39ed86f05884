----------------------------- MODULE AgentState -----------------------------
(***************************************************************************)
(* AgentInfo, the state an agent's runtime publishes of it                 *)
(* (src/src/mtconnect/mod.rs): who marks it up and down, who edits the     *)
(* rest, what each attached instance is told, and the sessions that come   *)
(* and go by it (src/src/device.rs).                                       *)
(*                                                                         *)
(* update_info takes no lock: a task loads the state, edits its copy and   *)
(* stores it.  The acquisition task and every device task that probes do   *)
(* so in parallel, so the load and the store are two actions.  What the    *)
(* documents hold is Acquisition's subject, what a drift does to a session *)
(* SignalViews'; here the state is the connected flag and the digests.     *)
(***************************************************************************)
EXTENDS Naturals, Sequences, SequencesExt

CONSTANTS
  Devices,      \* the devices of the agent, each with its instance's task
  Acq,          \* the acquisition task
  StreakLimit,  \* CURRENT_ERROR_DOWN_STREAK
  MaxRevisions, \* bound: device descriptions the agent restarts with
  MaxChanges,   \* bound: times the agent changes its ways
  MaxFaults     \* bound: exchanges that fail though the agent is well

ASSUME AcqIsNoDevice == Acq \notin Devices
ASSUME StreakPositive == StreakLimit \in Nat \ {0}

Tasks == Devices \cup {Acq}

VARIABLES
  agent,     \* what the agent does: it delivers, refuses /current, or is dead
  revision,  \* the incarnation of the agent, and the description it probes as
  refused,   \* the agent's refusals since it last delivered
  info,      \* AgentRuntime::info: [connected, digests]
  streak,    \* consecutive_current_errors
  seen,      \* SequenceState::instance_id
  resync,    \* resync_needed
  models,    \* AgentRuntime::models: the revision each is of, 0 if none
  todo,      \* snapshot_cycle: the devices it has yet to re-probe
  task,      \* where each task is, and the update it is in the middle of
  sinks,     \* the attached devices
  told,      \* what each device's queue was last told of the agent
  spent      \* bounds: [changes, faults]

worldVars == <<agent, revision, refused>>
ownVars   == <<streak, seen, resync, todo>>
vars      == <<worldVars, info, ownVars, models, task, sinks, told, spent>>

NoDigests == [d \in Devices |-> 0]
Unlearned == [connected |-> FALSE, digests |-> NoDigests]
Resting(at) == [at |-> at, does |-> "nothing", was |-> FALSE, copy |-> Unlearned]

Init ==
  /\ agent \in {"delivers", "refuses", "dead"} /\ revision = 1 /\ refused = 0
  /\ info = Unlearned
  /\ streak = 0 /\ seen = 0 /\ resync = FALSE /\ todo = <<>>
  /\ models = NoDigests
  /\ task = [t \in Tasks |-> Resting(IF t = Acq THEN "cycle" ELSE "off")]
  /\ sinks = {} /\ told = [d \in Devices |-> "nothing"]
  /\ spent = [changes |-> 0, faults |-> 0]

----------------------------------------------------------------------------
(* The agent.                                                              *)

Change ==
  /\ spent.changes < MaxChanges /\ spent' = [spent EXCEPT !.changes = @ + 1]
  /\ agent' \in {"delivers", "refuses", "dead"} \ {agent}
  /\ UNCHANGED <<revision, refused, info, ownVars, models, task, sinks, told>>

Restart ==
  /\ revision < MaxRevisions /\ revision' = revision + 1
  /\ UNCHANGED <<agent, refused, info, ownVars, models, task, sinks, told, spent>>

\* An exchange fails because the agent is dead, or by itself.
Fails == \/ agent = "dead" /\ UNCHANGED spent
         \/ spent.faults < MaxFaults /\ spent' = [spent EXCEPT !.faults = @ + 1]

----------------------------------------------------------------------------
(* update_info and the two marks.                                          *)

Goes(t, at) == task' = [task EXCEPT ![t] = Resting(at)]

Begins(t, does, was) ==
  task' = [task EXCEPT ![t] = [Resting("load") EXCEPT !.does = does, !.was = was]]

\* Whether this mark is a transition is read before the flag is written.
mark_up(t)   == Begins(t, "up", ~info.connected)
mark_down(t) == Begins(t, "down", info.connected)

\* The device whose probe the task is publishing the digest of.
Probing(t) == IF t = Acq THEN Head(todo) ELSE t

Load(t) ==
  /\ task[t].at = "load"
  /\ task' = [task EXCEPT ![t].at = "store", ![t].copy = info]
  /\ UNCHANGED <<worldVars, info, ownVars, models, sinks, told, spent>>

Edited(t) ==
  LET copy == task[t].copy IN
  CASE task[t].does = "up"     -> [copy EXCEPT !.connected = TRUE]
    [] task[t].does = "down"   -> [copy EXCEPT !.connected = FALSE]
    [] task[t].does = "digest" -> [copy EXCEPT !.digests[Probing(t)] = models[Probing(t)]]

\* Where the task goes on once the update is published.
Onward(t) == IF t = Acq THEN IF task[t].does = "digest" THEN "reprobe" ELSE "cycle"
                        ELSE IF task[t].does = "digest" THEN "attach" ELSE "off"

Store(t) ==
  /\ task[t].at = "store"
  /\ info' = Edited(t)
  /\ IF task[t].was THEN task' = [task EXCEPT ![t].at = "tell"] ELSE Goes(t, Onward(t))
  /\ todo' = IF t = Acq /\ task[t].does = "digest" THEN Tail(todo) ELSE todo
  /\ UNCHANGED <<worldVars, streak, seen, resync, models, sinks, told, spent>>

\* broadcast, to the sinks of this moment.
Tell(t) ==
  /\ task[t].at = "tell"
  /\ told' = [d \in Devices |-> IF d \in sinks THEN task[t].does ELSE told[d]]
  /\ Goes(t, Onward(t))
  /\ UNCHANGED <<worldVars, info, ownVars, models, sinks, spent>>

----------------------------------------------------------------------------
(* The acquisition task: one cycle after another.                          *)

Asks == task[Acq].at = "fetch" \/ (task[Acq].at = "cycle" /\ ~resync)

\* snapshot_cycle with a resync pending: the models first, of the devices attached now.
BeginReprobe ==
  /\ task[Acq].at = "cycle" /\ resync
  /\ todo' = SetToSeq(sinks)
  /\ Goes(Acq, "reprobe")
  /\ UNCHANGED <<worldVars, info, streak, seen, resync, models, sinks, told, spent>>

\* refresh_model: the model is cached, then its digest published.
Reprobe ==
  /\ task[Acq].at = "reprobe" /\ todo # <<>> /\ agent # "dead"
  /\ models' = [models EXCEPT ![Head(todo)] = revision]
  /\ Begins(Acq, "digest", FALSE)
  /\ UNCHANGED <<worldVars, info, ownVars, sinks, told, spent>>

ReprobeFailed ==
  /\ task[Acq].at = "reprobe" /\ todo # <<>> /\ Fails
  /\ mark_down(Acq) /\ todo' = <<>>
  /\ UNCHANGED <<worldVars, info, streak, seen, resync, models, sinks, told>>

Reprobed ==
  /\ task[Acq].at = "reprobe" /\ todo = <<>>
  /\ resync' = FALSE
  /\ Goes(Acq, "fetch")
  /\ UNCHANGED <<worldVars, info, streak, seen, todo, models, sinks, told, spent>>

\* A Streams document, deferred or not, is delivery.
Delivered ==
  /\ Asks /\ agent = "delivers"
  /\ refused' = 0 /\ streak' = 0
  /\ seen' = revision /\ resync' = (resync \/ seen \notin {0, revision})
  /\ mark_up(Acq)
  /\ UNCHANGED <<agent, revision, info, todo, models, sinks, told, spent>>

\* note_current_error.  An agent that delivers refuses now and then, never persistently.
Refused ==
  /\ Asks
  /\ agent = "refuses" \/ (agent = "delivers" /\ refused < StreakLimit - 1)
  /\ refused' = IF refused < StreakLimit THEN refused + 1 ELSE refused
  /\ streak'  = IF streak < StreakLimit THEN streak + 1 ELSE streak
  /\ IF streak' >= StreakLimit THEN mark_down(Acq) ELSE Goes(Acq, "cycle")
  /\ UNCHANGED <<agent, revision, info, seen, resync, todo, models, sinks, told, spent>>

\* A request that fails, a served read's too, or a stream that ends.
Failed ==
  /\ Asks /\ Fails
  /\ mark_down(Acq)
  /\ UNCHANGED <<worldVars, info, ownVars, models, sinks, told>>

----------------------------------------------------------------------------
(* A device task: MtcBackend::connect, attach, and the session's drains.   *)

Connect(d) ==
  /\ task[d].at = "off" /\ info.connected
  /\ Goes(d, IF models[d] # 0 THEN "attach" ELSE "probe")
  /\ UNCHANGED <<worldVars, info, ownVars, models, sinks, told, spent>>

\* ensure_model, of a device never probed.
Probed(d) ==
  /\ task[d].at = "probe" /\ agent # "dead"
  /\ models' = [models EXCEPT ![d] = revision]
  /\ Begins(d, "digest", FALSE)
  /\ UNCHANGED <<worldVars, info, ownVars, sinks, told, spent>>

ProbeFailed(d) ==
  /\ task[d].at = "probe" /\ Fails
  /\ mark_down(d)
  /\ UNCHANGED <<worldVars, info, ownVars, models, sinks, told>>

\* attach: the queue is seeded, then put among the sinks.
Seed(d) ==
  /\ task[d].at = "attach"
  /\ told' = [told EXCEPT ![d] = IF info.connected THEN "up" ELSE "down"]
  /\ Goes(d, "seeded")
  /\ UNCHANGED <<worldVars, info, ownVars, models, sinks, spent>>

Attach(d) ==
  /\ task[d].at = "seeded"
  /\ sinks' = sinks \cup {d}
  /\ Goes(d, "on")
  /\ UNCHANGED <<worldVars, info, ownVars, models, told, spent>>

Leave(d) ==
  /\ sinks' = sinks \ {d}
  /\ Goes(d, "off")
  /\ UNCHANGED <<worldVars, info, ownVars, models, told, spent>>

\* Mutant: a session goes by the events of its queue.
ReadByEvents(d) == task[d].at = "on" /\ told[d] = "down" /\ Leave(d)

\* read_signals consults the published state at every drain.
Read(d) == task[d].at = "on" /\ ~info.connected /\ Leave(d)

----------------------------------------------------------------------------

Updating(t) == Load(t) \/ Store(t) \/ Tell(t)

AcquisitionStep ==
  \/ Updating(Acq) \/ BeginReprobe \/ Reprobe \/ ReprobeFailed \/ Reprobed
  \/ Delivered \/ Refused \/ Failed

DeviceStep(d) ==
  \/ Updating(d) \/ Connect(d) \/ Probed(d) \/ ProbeFailed(d) \/ Seed(d) \/ Attach(d) \/ Read(d)

Next == Change \/ Restart \/ AcquisitionStep \/ \E d \in Devices : DeviceStep(d)

Spec == Init /\ [][Next]_vars

\* The tasks are scheduled, every exchange ends, and a session's ticker ticks.
FairSpec == Spec /\ WF_vars(AcquisitionStep) /\ \A d \in Devices : WF_vars(DeviceStep(d))

----------------------------------------------------------------------------
(* Properties.                                                             *)

\* The type of the state.
TypeOK ==
  /\ agent \in {"delivers", "refuses", "dead"} /\ revision \in Nat
  /\ refused \in 0..StreakLimit /\ streak \in 0..StreakLimit
  /\ info \in [connected : BOOLEAN, digests : [Devices -> Nat]]
  /\ seen \in Nat /\ resync \in BOOLEAN /\ models \in [Devices -> Nat]
  /\ todo \in Seq(Devices) /\ sinks \subseteq Devices
  /\ task \in [Tasks -> [at : {"cycle", "reprobe", "fetch", "off", "probe", "attach", "seeded",
                               "on", "load", "store", "tell"},
                         does : {"nothing", "up", "down", "digest"}, was : BOOLEAN,
                         copy : [connected : BOOLEAN, digests : [Devices -> Nat]]]]
  /\ told \in [Devices -> {"nothing", "up", "down"}]

\* Whatever order the tasks' loads and stores fall in, every instance follows the agent:
\* in the end its session is up if the agent delivers, refusing now and then at most,
\* and down if it is dead or refuses persistently (device.rs, "ONE connectivity
\* authority, consulted EVERY drain").
InstancesFollow ==
  <>[](\A d \in Devices : task[d].at = "on" <=> agent = "delivers")

\* docs/reference/messaging-interface.md:242: "every field the agent teaches us is null
\* until it has": the digest of a device that has been probed ends up published.
DigestPublished == <>[](info.digests = models)

\* What an attached instance was told last is what is so, between two updates.
ToldTheTruth ==
  (\A t \in Tasks : task[t].at \notin {"load", "store", "tell"}) =>
    \A d \in sinks : told[d] = IF info.connected THEN "up" ELSE "down"
=============================================================================
