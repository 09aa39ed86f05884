------------------------------ MODULE Lifecycle ------------------------------
(***************************************************************************)
(* The instance tasks from start to stop: run_device and its two loops     *)
(* (src/src/driver.rs), the commands that reach them through their control *)
(* channels (commands.rs), and the staged teardown that ends them          *)
(* (app.rs, supervisor.rs).                                                *)
(*                                                                         *)
(* What a task does between two awaits is one action.  What a poll reads   *)
(* and publishes is DeviceTask's; here a tick only holds the link or loses *)
(* it.  sb/write is refused before it is sent, and a browse of the         *)
(* generated seam travels as a read does.                                  *)
(***************************************************************************)
EXTENDS Integers, Sequences, FiniteSets

CONSTANTS
  Devices,       \* the configured instances, each with its task
  Agents,        \* the acquisition tasks and the metric tickers
  Verbs,         \* the verbs they are asked
  Callers,       \* command handlers that may be in flight at once
  NoOne,         \* no caller
  ControlDepth,  \* capacity of a control channel
  DeviceBudget,  \* DEVICE_SHUTDOWN_BUDGET, in units of time
  AgentBudget,   \* AGENT_SHUTDOWN_BUDGET
  FlushBudget,   \* METRICS_FLUSH_BUDGET
  DeviceOrder,   \* the order device tasks are joined in
  AgentOrder     \* the order the agents' tasks are joined in

AllVerbs == {"pause", "resume", "reconnect", "repoll", "read"}

ASSUME SomeDevice     == Devices # {}
ASSUME NoOneIsOther   == NoOne \notin Callers
ASSUME VerbsKnown     == Verbs \subseteq AllVerbs
ASSUME DepthPositive  == ControlDepth \in Nat \ {0}
ASSUME BudgetsNat     == DeviceBudget \in Nat /\ AgentBudget \in Nat /\ FlushBudget \in Nat
ASSUME OrdersCoverAll == /\ DeviceOrder \in Seq(Devices) /\ AgentOrder \in Seq(Agents)
                         /\ \A d \in Devices : \E i \in DOMAIN DeviceOrder : DeviceOrder[i] = d
                         /\ \A a \in Agents : \E i \in DOMAIN AgentOrder : AgentOrder[i] = a
ASSUME FamiliesApart  == Devices \cap Agents = {}

VARIABLES
  task,      \* where each device task is
  session,   \* it holds a session, attached to its agent
  failing,   \* the local `attempt` is not zero
  link,      \* Health::link
  paused,    \* Health::paused
  alarm,     \* device-unreachable, as last raised or cleared on the wire
  hand,      \* the command in service, or the held reply of a reconnect
  control,   \* the control channel
  call,      \* each handler: what it asks, and of whom
  said,      \* history: the answer this step gave, if it gave one
  known,     \* history: the instance has been connected once
  agent,     \* the agents' tasks
  phase, clock, deadline,  \* the teardown, the time since it began, and what bounds its await
  joining,   \* the tasks it has yet to join
  report     \* ShutdownReport: the tasks it aborted

deviceVars   == <<task, session, failing, link, paused, alarm, hand, control, known>>
callVars     == <<call, said>>
teardownVars == <<agent, phase, clock, deadline, joining, report>>
vars == <<deviceVars, callVars, teardownVars>>

Replies == {"none", "ok", "refused"}  \* the error codes are not told apart
Links   == {"CONNECTING", "ONLINE", "BACKOFF"}
Phases  == {"up", "devices", "stop", "agents", "flush", "down"}

Empty   == [who |-> NoOne, changed |-> FALSE]

\* A handler at rest; `renewed` is history: a session of the instance it waits for
\* was established since it asked.
AnyDevice == CHOOSE d \in Devices : TRUE
AtRest == [pc |-> "idle", verb |-> "read", dev |-> AnyDevice, renewed |-> FALSE]

DevicesCancelled == phase # "up"
AgentsCancelled  == phase \notin {"up", "devices"}

\* A task that has returned, or whose abort has taken effect.
Gone == {"returned", "aborted"}

Init ==
  /\ task = [d \in Devices |-> "connect"] /\ session = [d \in Devices |-> FALSE]
  /\ failing = [d \in Devices |-> FALSE] /\ link = [d \in Devices |-> "CONNECTING"]
  /\ paused = [d \in Devices |-> FALSE] /\ alarm = [d \in Devices |-> FALSE]
  /\ hand = [d \in Devices |-> Empty] /\ control = [d \in Devices |-> <<>>]
  /\ known = [d \in Devices |-> FALSE]
  /\ call = [c \in Callers |-> AtRest] /\ said = "none"
  /\ agent = [a \in Agents |-> "running"]
  /\ phase = "up" /\ clock = 0 /\ deadline = 0 /\ joining = <<>> /\ report = {}

----------------------------------------------------------------------------
(* The command handlers (commands.rs).                                     *)

Answer(S, r) == /\ call' = [c \in Callers |-> IF c \in S THEN AtRest ELSE call[c]]
                /\ said' = IF S \cap Callers = {} THEN "none" ELSE r
Silent       == UNCHANGED call /\ said' = "none"

\* A handler starts.  repoll looks at the shared flag before it sends anything.
Ask(c, verb, d) ==
  /\ call[c].pc = "idle" /\ phase = "up"
  /\ IF verb = "repoll" /\ paused[d]
     THEN Answer({c}, "refused")
     ELSE /\ call' = [call EXCEPT ![c] =
                        [pc |-> "send", verb |-> verb, dev |-> d, renewed |-> FALSE]]
          /\ said' = "none"
  /\ UNCHANGED <<deviceVars, teardownVars>>

\* control.send: waits for room, fails once the receiver is gone.
Send(c) ==
  /\ call[c].pc = "send"
  /\ LET d == call[c].dev
     IN  IF task[d] \in Gone
         THEN Answer({c}, "refused") /\ UNCHANGED control
         ELSE /\ Len(control[d]) < ControlDepth
              /\ control' = [control EXCEPT ![d] = Append(@, c)]
              /\ call' = [call EXCEPT ![c].pc = "wait"]
              /\ said' = "none"
  /\ UNCHANGED <<task, session, failing, link, paused, alarm, hand, known,
                 teardownVars>>

----------------------------------------------------------------------------
(* run_device: connecting, and serving the channel while down.             *)

\* The head of the connect loop: the link's token says whether one has failed.
ToConnect(d, failed) ==
  /\ task' = [task EXCEPT ![d] = "connect"]
  /\ failing' = [failing EXCEPT ![d] = failed]
  /\ link' = [link EXCEPT ![d] = IF failed THEN "BACKOFF" ELSE "CONNECTING"]

\* The task ends: its receiver, what is in the channel and the reply it holds
\* are dropped, and whoever waits on one of them is told so.
Stranded(d) == {c \in Callers : c = hand[d].who \/ \E i \in DOMAIN control[d] : control[d][i] = c}

\* Mutant: only the reply in hand is settled.
EndForgetsChannel(d, how) ==
  /\ task' = [task EXCEPT ![d] = how]
  /\ Answer({hand[d].who}, "refused")
  /\ hand' = [hand EXCEPT ![d] = Empty]
  /\ control' = [control EXCEPT ![d] = <<>>]
  /\ failing' = [failing EXCEPT ![d] = FALSE]

End(d, how) ==
  /\ task' = [task EXCEPT ![d] = how]
  /\ Answer(Stranded(d), "refused")
  /\ hand' = [hand EXCEPT ![d] = Empty]
  /\ control' = [control EXCEPT ![d] = <<>>]
  /\ failing' = [failing EXCEPT ![d] = FALSE]

\* The attempt succeeds; a cancellation is looked at first.
ConnectOk(d) ==
  /\ task[d] = "connect" /\ ~DevicesCancelled
  /\ task' = [task EXCEPT ![d] = "announce"]
  /\ session' = [session EXCEPT ![d] = TRUE]
  /\ failing' = [failing EXCEPT ![d] = FALSE]
  /\ link' = [link EXCEPT ![d] = "ONLINE"]
  /\ known' = [known EXCEPT ![d] = TRUE]
  /\ call' = [c \in Callers |-> IF call[c].verb # "reconnect" \/ call[c].dev # d THEN call[c]
                                ELSE [call[c] EXCEPT !.renewed = TRUE]]
  /\ said' = "none"
  /\ UNCHANGED <<paused, alarm, hand, control, teardownVars>>

\* ...and once the events are out, the reconnect that asked for it is answered.
Announce(d) ==
  /\ task[d] = "announce"
  /\ alarm' = [alarm EXCEPT ![d] = FALSE]
  /\ Answer({hand[d].who}, "ok")
  /\ hand' = [hand EXCEPT ![d] = Empty]
  /\ task' = [task EXCEPT ![d] = "top"]
  /\ UNCHANGED <<session, failing, link, paused, control, known, teardownVars>>

\* The attempt fails: its reply is settled, and the task waits the backoff out.
ConnectFail(d) ==
  /\ task[d] = "connect" /\ ~DevicesCancelled
  /\ Answer({hand[d].who}, "refused")
  /\ hand' = [hand EXCEPT ![d] = Empty]
  /\ failing' = [failing EXCEPT ![d] = TRUE]
  /\ task' = [task EXCEPT ![d] = "down"]
  /\ UNCHANGED <<session, link, paused, alarm, control, known, teardownVars>>

Elapsed(d) ==
  /\ task[d] = "down" /\ ~DevicesCancelled
  /\ ToConnect(d, TRUE)
  /\ Silent
  /\ UNCHANGED <<session, paused, alarm, hand, control, known, teardownVars>>

\* Cancelled while connecting or backing off: nothing is buffered, it just stops.
StopWhileDown(d) ==
  /\ task[d] \in {"connect", "down"} /\ DevicesCancelled
  /\ End(d, "returned")
  /\ UNCHANGED <<session, link, paused, alarm, known, teardownVars>>

\* The next command is taken off the channel; pause and resume flip the flag.
\* A cancellation preempts it while down, and only races it while polling.
Take(d) ==
  /\ \/ task[d] = "poll"
     \/ task[d] = "down" /\ ~DevicesCancelled
  /\ control[d] # <<>>
  /\ LET c    == Head(control[d])
         verb == call[c].verb
         flag == CASE verb = "pause" -> TRUE [] verb = "resume" -> FALSE [] OTHER -> paused[d]
     IN  /\ hand' = [hand EXCEPT ![d] = [who |-> c, changed |-> flag # paused[d]]]
         /\ paused' = [paused EXCEPT ![d] = flag]
  /\ control' = [control EXCEPT ![d] = Tail(@)]
  /\ task' = [task EXCEPT ![d] = IF @ = "poll" THEN "serve" ELSE "refuse"]
  /\ Silent
  /\ UNCHANGED <<session, failing, link, alarm, known, teardownVars>>

Asked(d) == call[hand[d].who].verb

Reply(d, r) == Answer({hand[d].who}, r) /\ hand' = [hand EXCEPT ![d] = Empty]

\* serve_while_down: the flag verbs take effect, the others need a session...
Refuse(d) ==
  /\ task[d] = "refuse" /\ Asked(d) # "reconnect"
  /\ Reply(d, IF Asked(d) \in {"pause", "resume"} THEN "ok" ELSE "refused")
  /\ task' = [task EXCEPT ![d] = "down"]
  /\ UNCHANGED <<session, failing, link, paused, alarm, control, known, teardownVars>>

\* ...and a reconnect cuts the backoff short; its reply is held.
Hasten(d) ==
  /\ task[d] = "refuse" /\ Asked(d) = "reconnect"
  /\ ToConnect(d, FALSE)
  /\ Silent
  /\ UNCHANGED <<session, paused, alarm, hand, control, known, teardownVars>>

----------------------------------------------------------------------------
(* run_polling.                                                            *)

\* The head of the poll loop: a cancelled task stops on this iteration.
Top(d) ==
  /\ task[d] = "top"
  /\ task' = [task EXCEPT ![d] = IF DevicesCancelled THEN "stop" ELSE "poll"]
  /\ Silent
  /\ UNCHANGED <<session, failing, link, paused, alarm, hand, control, known,
                 teardownVars>>

\* The cancellation arm of the select.
Cancelled(d) ==
  /\ task[d] = "poll" /\ DevicesCancelled
  /\ task' = [task EXCEPT ![d] = "stop"]
  /\ Silent
  /\ UNCHANGED <<session, failing, link, paused, alarm, hand, control, known,
                 teardownVars>>

\* stop_cleanly: flush, publish, detach; the connection state is left as it is.
StopCleanly(d) ==
  /\ task[d] = "stop"
  /\ session' = [session EXCEPT ![d] = FALSE]
  /\ End(d, "returned")
  /\ UNCHANGED <<link, paused, alarm, known, teardownVars>>

\* The session is closed on the way out of the poll loop.
Drop(d) ==
  /\ session' = [session EXCEPT ![d] = FALSE]
  /\ link' = [link EXCEPT ![d] = "BACKOFF"]
  /\ task' = [task EXCEPT ![d] = "lost"]

\* A tick whose read breaks the connection.
LinkLost(d) ==
  /\ task[d] = "poll"
  /\ Drop(d)
  /\ Silent
  /\ UNCHANGED <<failing, paused, alarm, hand, control, known, teardownVars>>

\* Mutant: a drop that a command asked for is no incident.
RaiseUnlessAsked(d) ==
  /\ task[d] = "lost"
  /\ alarm' = [alarm EXCEPT ![d] = @ \/ hand[d].who = NoOne]
  /\ ToConnect(d, failing[d])
  /\ Silent
  /\ UNCHANGED <<session, paused, hand, control, known, teardownVars>>

\* A drop is an incident, whoever asked for it; then the connect loop again.
Raise(d) ==
  /\ task[d] = "lost"
  /\ alarm' = [alarm EXCEPT ![d] = TRUE]
  /\ ToConnect(d, failing[d])
  /\ Silent
  /\ UNCHANGED <<session, paused, hand, control, known, teardownVars>>

\* A command that leaves the session standing is answered from it.
Finish(d) ==
  /\ task[d] = "serve"
  /\ CASE Asked(d) \in {"pause", "resume"} -> Reply(d, "ok")
       [] Asked(d) = "read"                -> Reply(d, "ok") \/ Reply(d, "refused")
       [] Asked(d) = "repoll"              -> Reply(d, IF paused[d] THEN "refused" ELSE "ok")
       [] OTHER                            -> FALSE
  /\ task' = [task EXCEPT ![d] = IF Asked(d) = "resume" /\ hand[d].changed
                                 THEN "snapshot" ELSE "top"]
  /\ UNCHANGED <<session, failing, link, paused, alarm, control, known, teardownVars>>

\* The snapshot a resume owes is read once the resume has been answered.
Snapshot(d) ==
  /\ task[d] = "snapshot"
  /\ task' = [task EXCEPT ![d] = "top"]
  /\ Silent
  /\ UNCHANGED <<session, failing, link, paused, alarm, hand, control, known,
                 teardownVars>>

\* A repoll that cannot be served takes the link down with it.
RepollFailed(d) ==
  /\ task[d] = "serve" /\ Asked(d) = "repoll" /\ ~paused[d]
  /\ Reply(d, "refused")
  /\ Drop(d)
  /\ UNCHANGED <<failing, paused, alarm, control, known, teardownVars>>

\* Mutant: the reply goes out as soon as the old session is closed.
ReconnectAtOnce(d) ==
  /\ task[d] = "serve" /\ Asked(d) = "reconnect"
  /\ Reply(d, "ok")
  /\ Drop(d)
  /\ UNCHANGED <<failing, paused, alarm, control, known, teardownVars>>

\* A reconnect drops the session and leaves its reply to the next attempt.
Reconnect(d) ==
  /\ task[d] = "serve" /\ Asked(d) = "reconnect"
  /\ Drop(d)
  /\ Silent
  /\ UNCHANGED <<failing, paused, alarm, hand, control, known, teardownVars>>

----------------------------------------------------------------------------
(* The agents' tasks, and the teardown (shutdown_within).                  *)

AgentReturns(a) ==
  /\ agent[a] = "running" /\ AgentsCancelled
  /\ agent' = [agent EXCEPT ![a] = "returned"]
  /\ Silent
  /\ UNCHANGED <<deviceVars, phase, clock, deadline, joining, report>>

Returned(t) == IF t \in Devices THEN task[t] = "returned" ELSE agent[t] = "returned"

Enter(next, budget, tasks) ==
  /\ phase' = next /\ deadline' = clock + budget /\ joining' = tasks

\* The process is told to stop: the device family is cancelled first.
Shutdown ==
  /\ phase = "up"
  /\ Enter("devices", DeviceBudget, DeviceOrder)
  /\ Silent
  /\ UNCHANGED <<deviceVars, agent, clock, report>>

Joining == phase \in {"devices", "agents"} /\ joining # <<>>

\* join_all_by: in order, each against the one absolute deadline.  A task that has
\* returned by the time it is looked at is joined, however late that is...
Join ==
  /\ Joining /\ Returned(Head(joining))
  /\ joining' = Tail(joining)
  /\ Silent
  /\ UNCHANGED <<deviceVars, agent, phase, clock, deadline, report>>

\* Mutant: past the deadline the rest is left to itself.
AbandonRest ==
  /\ Joining /\ ~Returned(Head(joining)) /\ clock >= deadline
  /\ LET t == Head(joining)
     IN  IF t \in Devices THEN task' = [task EXCEPT ![t] = "aborting"] /\ UNCHANGED agent
                          ELSE agent' = [agent EXCEPT ![t] = "aborted"] /\ UNCHANGED task
  /\ report' = report \cup {Head(joining)}
  /\ joining' = <<>>
  /\ Silent
  /\ UNCHANGED <<session, failing, link, paused, alarm, hand, control, known, phase,
                 clock, deadline>>

\* Mutant: the agents' tasks are waited for without a deadline.
AbortDevicesOnly ==
  /\ Joining /\ ~Returned(Head(joining)) /\ clock >= deadline /\ phase = "devices"
  /\ task' = [task EXCEPT ![Head(joining)] = "aborting"] /\ UNCHANGED agent
  /\ report' = report \cup {Head(joining)}
  /\ joining' = Tail(joining)
  /\ Silent
  /\ UNCHANGED <<session, failing, link, paused, alarm, hand, control, known, phase,
                 clock, deadline>>

\* ...and one that has not by the deadline is aborted and named.
Abort ==
  /\ Joining /\ ~Returned(Head(joining)) /\ clock >= deadline
  /\ LET t == Head(joining)
     IN  IF t \in Devices THEN task' = [task EXCEPT ![t] = "aborting"] /\ UNCHANGED agent
                          ELSE agent' = [agent EXCEPT ![t] = "aborted"] /\ UNCHANGED task
  /\ report' = report \cup {Head(joining)}
  /\ joining' = Tail(joining)
  /\ Silent
  /\ UNCHANGED <<session, failing, link, paused, alarm, hand, control, known, phase,
                 clock, deadline>>

\* An abort takes effect at the task's next await; it detaches nothing.
AbortLands(d) ==
  /\ task[d] = "aborting"
  /\ End(d, "aborted")
  /\ UNCHANGED <<session, link, paused, alarm, known, teardownVars>>

\* Mutant: the agents are told to stop while the devices are still flushing.
CancelAgentsAtOnce ==
  /\ phase = "devices"
  /\ Enter("stop", AgentBudget, AgentOrder)
  /\ Silent
  /\ UNCHANGED <<deviceVars, agent, clock, report>>

\* Once every device task is joined, the agents are cancelled and told to stop;
\* one window holds both the acknowledgement and the joins.
CancelAgents ==
  /\ phase = "devices" /\ joining = <<>>
  /\ Enter("stop", AgentBudget, AgentOrder)
  /\ Silent
  /\ UNCHANGED <<deviceVars, agent, clock, report>>

\* agent.shutdown() of every agent answers, or the window closes on it.
StopAcknowledged ==
  /\ phase = "stop"
  /\ phase' = "agents"
  /\ Silent
  /\ UNCHANGED <<deviceVars, agent, clock, deadline, joining, report>>

StopUnanswered == clock >= deadline /\ StopAcknowledged

FlushMetrics ==
  /\ phase = "agents" /\ joining = <<>>
  /\ Enter("flush", FlushBudget, <<>>)
  /\ Silent
  /\ UNCHANGED <<deviceVars, agent, clock, report>>

Flushed ==
  /\ phase = "flush"
  /\ phase' = "down"
  /\ Silent
  /\ UNCHANGED <<deviceVars, agent, clock, deadline, joining, report>>

FlushUnanswered == clock >= deadline /\ Flushed

\* Time passes during the teardown, but not past a deadline that has fired.
Tick ==
  /\ phase \notin {"up", "down"} /\ clock < deadline
  /\ clock' = clock + 1
  /\ Silent
  /\ UNCHANGED <<deviceVars, agent, phase, deadline, joining, report>>

----------------------------------------------------------------------------

\* The instance's own progress, whatever the broker and the agent answer...
Serving(d) == Refuse(d) \/ Hasten(d) \/ Finish(d) \/ RepollFailed(d) \/ Reconnect(d)

Working(d) ==
  \/ ConnectOk(d) \/ ConnectFail(d) \/ Announce(d) \/ Elapsed(d) \/ StopWhileDown(d)
  \/ Top(d) \/ Cancelled(d) \/ StopCleanly(d) \/ Raise(d) \/ Snapshot(d)
  \/ Serving(d) \/ AbortLands(d)

DeviceStep(d) == Take(d) \/ LinkLost(d) \/ Working(d)

CallerStep(c) == Send(c) \/ \E verb \in Verbs, d \in Devices : Ask(c, verb, d)

\* ...and the teardown's, which waits on no task for longer than its window.
Teardown == Join \/ Abort \/ CancelAgents \/ StopUnanswered \/ FlushMetrics
            \/ FlushUnanswered \/ Tick

Next ==
  \/ \E d \in Devices : DeviceStep(d)
  \/ \E c \in Callers : CallerStep(c)
  \/ \E a \in Agents : AgentReturns(a)
  \/ Shutdown \/ Teardown \/ StopAcknowledged \/ Flushed

Spec == Init /\ [][Next]_vars

\* The scheduler runs the teardown and the timers.
TeardownFairness == WF_vars(Teardown)

\* A task whose awaits all answer; the backoff is drawn anew each time, and the
\* arms of the poll loop's select in random order, so a command in the channel
\* is not passed over for ever.
TaskFairness ==
  /\ \A d \in Devices : WF_vars(Working(d)) /\ SF_vars(Take(d))
  /\ \A c \in Callers : SF_vars(Send(c))

FairSpec == Spec /\ TeardownFairness

----------------------------------------------------------------------------
(* Properties.                                                             *)

TaskStates == {"connect", "announce", "down", "refuse", "top", "poll", "serve", "snapshot",
               "stop", "lost", "returned", "aborting", "aborted"}

\* The type of the state.
TypeOK ==
  /\ task \in [Devices -> TaskStates] /\ session \in [Devices -> BOOLEAN]
  /\ failing \in [Devices -> BOOLEAN] /\ link \in [Devices -> Links]
  /\ paused \in [Devices -> BOOLEAN] /\ alarm \in [Devices -> BOOLEAN]
  /\ known \in [Devices -> BOOLEAN]
  /\ hand \in [Devices -> [who : Callers \cup {NoOne}, changed : BOOLEAN]]
  /\ control \in [Devices -> Seq(Callers)]
  /\ \A d \in Devices : Len(control[d]) <= ControlDepth
  /\ call \in [Callers -> [pc : {"idle", "send", "wait"}, verb : AllVerbs, dev : Devices,
                           renewed : BOOLEAN]]
  /\ said \in Replies
  /\ agent \in [Agents -> {"running", "returned", "aborted"}]
  /\ phase \in Phases /\ clock \in Nat /\ deadline \in Nat
  /\ joining \in Seq(Devices \cup Agents) /\ report \subseteq Devices \cup Agents

\* A reconnect that reports success stands for a session established after it was
\* asked for: never for the one that was there (commands.rs, reconnect).
ReconnectMeansNew ==
  [][\A c \in Callers :
       call[c].verb = "reconnect" /\ call[c].pc = "wait" /\ call'[c].pc = "idle" /\ said' = "ok"
         => call[c].renewed]_vars

\* A waiting caller is in exactly one place: its command in the one channel it was
\* sent through, or in its task's hand.  No reply is held twice, or by nobody.
Held(c, d) == IF hand[d].who = c THEN 1 ELSE 0
HeldOnce ==
  \A c \in Callers : call[c].pc = "wait" =>
    LET d      == call[c].dev
        places == {i \in DOMAIN control[d] : control[d][i] = c}
    IN  Cardinality(places) + Held(c, d) = 1

\* device-unreachable is up exactly while an instance that has been connected is
\* without its session: cleared on restore, raised on every drop.
AlarmTellsOutage ==
  \A d \in Devices :
    task[d] \in {"poll", "connect", "down"} => (alarm[d] <=> known[d] /\ ~session[d])

\* The order of the teardown: no agent is stopped under a device task that is still
\* flushing, and a task that ended by itself has detached first.
DrainedBeforeAgents ==
  AgentsCancelled => \A d \in Devices : /\ task[d] \in Gone \cup {"aborting"}
                                        /\ session[d] => d \in report

\* However many tasks overrun, the teardown takes no more than its three budgets...
TeardownBounded == clock <= DeviceBudget + AgentBudget + FlushBudget

\* ...and at the end every task has returned, or is named as aborted: the report
\* accounts for all of them (shutdown_within, join_all_by).
NoneLeftRunning ==
  phase = "down" => \A t \in Devices \cup Agents : Returned(t) \/ t \in report

StopsInTime == TeardownBounded /\ NoneLeftRunning

\* The teardown ends, even if no task ever takes another step...
TeardownEnds == phase # "up" ~> phase = "down"

\* ...and every command gets an answer, by its task or by its task's end.
Answers == \A c \in Callers : call[c].pc # "idle" ~> call[c].pc = "idle"

NothingHangs == TeardownEnds /\ (TaskFairness => Answers)

\* The state token tells a first attempt from a failure (LinkState, app.rs:309-320).
LinkTokenTruthful ==
  \A d \in Devices : link[d] = "CONNECTING" => ~known[d] /\ ~failing[d]
=============================================================================
