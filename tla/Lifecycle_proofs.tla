--------------------------- MODULE Lifecycle_proofs ---------------------------
(***************************************************************************)
(* What the instance tasks, their commands and the teardown guarantee for  *)
(* every number of instances, agents and callers and for all budgets.      *)
(***************************************************************************)
EXTENDS Lifecycle, FiniteSetTheorems, TLAPS

USE SomeDevice, NoOneIsOther, VerbsKnown, DepthPositive, BudgetsNat, OrdersCoverAll, FamiliesApart

----------------------------------------------------------------------------
(* The types.                                                              *)

LEMMA AtRestTyped ==
  AtRest \in [pc : {"idle", "send", "wait"}, verb : AllVerbs, dev : Devices, renewed : BOOLEAN]
<1>1. AnyDevice \in Devices
  BY DEF AnyDevice
<1> QED BY <1>1 DEF AtRest, AllVerbs

LEMMA TypeInit == Init => TypeOK
BY AtRestTyped DEF Init, TypeOK, TaskStates, Links, Phases, Replies, Empty

\* Answering a set of callers keeps the types of the calls.
LEMMA AnswerTyped ==
  ASSUME TypeOK, NEW S, NEW r \in {"ok", "refused"}, Answer(S, r)
  PROVE  /\ call' \in [Callers -> [pc : {"idle", "send", "wait"}, verb : AllVerbs,
                                   dev : Devices, renewed : BOOLEAN]]
         /\ said' \in Replies
BY AtRestTyped DEF Answer, TypeOK, Replies

LEMMA SilentTyped ==
  ASSUME TypeOK, Silent
  PROVE  /\ call' \in [Callers -> [pc : {"idle", "send", "wait"}, verb : AllVerbs,
                                   dev : Devices, renewed : BOOLEAN]]
         /\ said' \in Replies
BY DEF Silent, TypeOK, Replies

\* The type of all the variables but those of the calls.
Shape ==
  /\ task \in [Devices -> TaskStates] /\ session \in [Devices -> BOOLEAN]
  /\ failing \in [Devices -> BOOLEAN] /\ link \in [Devices -> Links]
  /\ paused \in [Devices -> BOOLEAN] /\ alarm \in [Devices -> BOOLEAN]
  /\ known \in [Devices -> BOOLEAN]
  /\ hand \in [Devices -> [who : Callers \cup {NoOne}, changed : BOOLEAN]]
  /\ control \in [Devices -> Seq(Callers)]
  /\ \A d \in Devices : Len(control[d]) <= ControlDepth
  /\ agent \in [Agents -> {"running", "returned", "aborted"}]
  /\ phase \in Phases /\ clock \in Nat /\ deadline \in Nat
  /\ joining \in Seq(Devices \cup Agents) /\ report \subseteq Devices \cup Agents

Calls ==
  /\ call \in [Callers -> [pc : {"idle", "send", "wait"}, verb : AllVerbs, dev : Devices,
                           renewed : BOOLEAN]]
  /\ said \in Replies

LEMMA TypeIsBoth == TypeOK <=> Shape /\ Calls
BY DEF TypeOK, Shape, Calls

\* Whatever was asked, a command served from a session is answered once.
LEMMA FinishReplies ==
  ASSUME NEW d \in Devices, Finish(d)
  PROVE  \E r \in {"ok", "refused"} : Reply(d, r)
<1>1. CASE Asked(d) \in {"pause", "resume"}
  BY <1>1 DEF Finish, Reply
<1>2. CASE Asked(d) = "read"
  BY <1>2 DEF Finish, Reply
<1>3. CASE Asked(d) = "repoll" /\ paused[d]
  BY <1>3 DEF Finish, Reply
<1>4. CASE Asked(d) = "repoll" /\ ~paused[d]
  BY <1>4 DEF Finish, Reply
<1>5. CASE Asked(d) \notin {"pause", "resume", "read", "repoll"}
  BY <1>5 DEF Finish
<1> QED BY <1>1, <1>2, <1>3, <1>4, <1>5

\* ...and leaves the rest of the state alone.
LEMMA FinishFrame ==
  ASSUME NEW d \in Devices, Finish(d)
  PROVE  /\ task[d] = "serve" /\ Asked(d) # "reconnect"
         /\ \/ task' = [task EXCEPT ![d] = "snapshot"]
            \/ task' = [task EXCEPT ![d] = "top"]
         /\ UNCHANGED <<session, failing, link, paused, alarm, control, known, teardownVars>>
<1> DEFINE answered == CASE Asked(d) \in {"pause", "resume"} -> Reply(d, "ok")
       [] Asked(d) = "read"                -> Reply(d, "ok") \/ Reply(d, "refused")
       [] Asked(d) = "repoll"              -> Reply(d, IF paused[d] THEN "refused" ELSE "ok")
       [] OTHER                            -> FALSE
<1>1. /\ task[d] = "serve" /\ answered
      /\ task' = [task EXCEPT ![d] = IF Asked(d) = "resume" /\ hand[d].changed
                                     THEN "snapshot" ELSE "top"]
      /\ UNCHANGED <<session, failing, link, paused, alarm, control, known, teardownVars>>
  BY DEF Finish
<1>2. Asked(d) # "reconnect"
  <2>1. CASE Asked(d) = "reconnect"
    BY <1>1, <2>1
  <2> QED BY <2>1
<1> HIDE DEF answered
<1>3. CASE Asked(d) = "resume" /\ hand[d].changed
  BY <1>1, <1>2, <1>3
<1>4. CASE ~(Asked(d) = "resume" /\ hand[d].changed)
  BY <1>1, <1>2, <1>4
<1> QED BY <1>3, <1>4

\* What a task does when it takes a command: flag is what pause and resume make of
\* the shared flag.
LEMMA TakeFrame ==
  ASSUME TypeOK, NEW d \in Devices, Take(d)
  PROVE  /\ task[d] \in {"poll", "down"} /\ control[d] # <<>>
         /\ Head(control[d]) \in Callers
         /\ \E flag \in BOOLEAN :
              /\ hand' = [hand EXCEPT ![d] = [who |-> Head(control[d]), changed |-> flag # paused[d]]]
              /\ paused' = [paused EXCEPT ![d] = flag]
         /\ control' = [control EXCEPT ![d] = Tail(@)]
         /\ task[d] = "poll" => task' = [task EXCEPT ![d] = "serve"]
         /\ task[d] = "down" => task' = [task EXCEPT ![d] = "refuse"] /\ ~DevicesCancelled
         /\ UNCHANGED <<session, failing, link, alarm, known, teardownVars, call>> /\ said' = "none"
<1> DEFINE verb == call[Head(control[d])].verb
           flag == CASE verb = "pause" -> TRUE [] verb = "resume" -> FALSE [] OTHER -> paused[d]
<1>1. /\ task[d] \in {"poll", "down"} /\ control[d] # <<>>
      /\ hand' = [hand EXCEPT ![d] = [who |-> Head(control[d]), changed |-> flag # paused[d]]]
      /\ paused' = [paused EXCEPT ![d] = flag]
      /\ control' = [control EXCEPT ![d] = Tail(@)]
      /\ task' = [task EXCEPT ![d] = IF @ = "poll" THEN "serve" ELSE "refuse"]
      /\ task[d] = "down" => ~DevicesCancelled
      /\ UNCHANGED <<session, failing, link, alarm, known, teardownVars, call>> /\ said' = "none"
  BY DEF Take, Silent
<1>2. flag \in BOOLEAN
  <2>1. CASE verb = "pause"
    BY <2>1
  <2>2. CASE verb = "resume"
    BY <2>2
  <2>3. CASE verb \notin {"pause", "resume"}
    BY <2>3 DEF TypeOK
  <2> QED BY <2>1, <2>2, <2>3
<1>3. Head(control[d]) \in Callers
  BY <1>1 DEF TypeOK
<1> HIDE DEF flag
<1> QED BY <1>1, <1>2, <1>3

LEMMA ShapeDevice ==
  ASSUME TypeOK, NEW d \in Devices, DeviceStep(d)
  PROVE  Shape'
<1>0. Shape /\ Calls
  BY TypeIsBoth
<1>1. CASE Take(d)
  <2>1. PICK flag \in BOOLEAN :
          /\ hand' = [hand EXCEPT ![d] = [who |-> Head(control[d]), changed |-> flag # paused[d]]]
          /\ paused' = [paused EXCEPT ![d] = flag]
    BY <1>1, TakeFrame
  <2>2. /\ paused' \in [Devices -> BOOLEAN]
        /\ hand' \in [Devices -> [who : Callers \cup {NoOne}, changed : BOOLEAN]]
    BY <1>0, <1>1, <2>1, TakeFrame DEF Shape
  <2>3. /\ control' \in [Devices -> Seq(Callers)]
        /\ \A e \in Devices : Len(control'[e]) <= ControlDepth
    <3>1. control[d] \in Seq(Callers) /\ Len(Tail(control[d])) <= ControlDepth
      BY <1>0, <1>1, TakeFrame DEF Shape
    <3>2. control' = [control EXCEPT ![d] = Tail(control[d])] /\ Tail(control[d]) \in Seq(Callers)
      BY <1>1, <3>1, TakeFrame
    <3> QED BY <1>0, <3>1, <3>2 DEF Shape
  <2>4. task' \in [Devices -> TaskStates]
    <3>1. task' = [task EXCEPT ![d] = "serve"] \/ task' = [task EXCEPT ![d] = "refuse"]
      BY <1>1, TakeFrame
    <3> QED BY <1>0, <3>1 DEF Shape, TaskStates
  <2> QED
    BY <1>0, <1>1, <2>2, <2>3, <2>4, TakeFrame DEF Shape, teardownVars
<1>2. CASE LinkLost(d)
  BY <1>0, <1>2 DEF LinkLost, Drop, Shape, TaskStates, Links, teardownVars
<1>3. CASE ConnectOk(d)
  BY <1>0, <1>3 DEF ConnectOk, Shape, TaskStates, Links, teardownVars
<1>4. CASE ConnectFail(d)
  BY <1>0, <1>4 DEF ConnectFail, Shape, TaskStates, Empty, teardownVars
<1>5. CASE Announce(d)
  BY <1>0, <1>5 DEF Announce, Shape, TaskStates, Empty, teardownVars
<1>6. CASE Elapsed(d)
  BY <1>0, <1>6 DEF Elapsed, ToConnect, Shape, TaskStates, Links, teardownVars
<1>7. CASE StopWhileDown(d)
  BY <1>0, <1>7 DEF StopWhileDown, End, Shape, TaskStates, Empty, teardownVars
<1>8. CASE Top(d)
  BY <1>0, <1>8 DEF Top, Shape, TaskStates, teardownVars
<1>9. CASE Cancelled(d)
  BY <1>0, <1>9 DEF Cancelled, Shape, TaskStates, teardownVars
<1>10. CASE StopCleanly(d)
  BY <1>0, <1>10 DEF StopCleanly, End, Shape, TaskStates, Empty, teardownVars
<1>11. CASE Raise(d)
  BY <1>0, <1>11 DEF Raise, ToConnect, Shape, TaskStates, Links, teardownVars
<1>12. CASE Snapshot(d)
  BY <1>0, <1>12 DEF Snapshot, Shape, TaskStates, teardownVars
<1>13. CASE Refuse(d)
  BY <1>0, <1>13 DEF Refuse, Reply, Shape, TaskStates, Empty, teardownVars
<1>14. CASE Hasten(d)
  BY <1>0, <1>14 DEF Hasten, ToConnect, Shape, TaskStates, Links, teardownVars
<1>15. CASE Finish(d)
  <2>1. PICK r \in {"ok", "refused"} : Reply(d, r)
    BY <1>15, FinishReplies
  <2>2. hand' = [hand EXCEPT ![d] = Empty]
    BY <2>1 DEF Reply
  <2>3. task' \in [Devices -> TaskStates]
    BY <1>0, <1>15, FinishFrame DEF Shape, TaskStates
  <2> QED
    BY <1>0, <1>15, <2>2, <2>3, FinishFrame DEF Shape, Empty, teardownVars
<1>16. CASE RepollFailed(d)
  BY <1>0, <1>16 DEF RepollFailed, Reply, Drop, Shape, TaskStates, Links, Empty, teardownVars
<1>17. CASE Reconnect(d)
  BY <1>0, <1>17 DEF Reconnect, Drop, Shape, TaskStates, Links, teardownVars
<1>18. CASE AbortLands(d)
  BY <1>0, <1>18 DEF AbortLands, End, Shape, TaskStates, Empty, teardownVars
<1> QED
  BY <1>1, <1>2, <1>3, <1>4, <1>5, <1>6, <1>7, <1>8, <1>9, <1>10, <1>11, <1>12, <1>13, <1>14,
     <1>15, <1>16, <1>17, <1>18 DEF DeviceStep, Working, Serving

\* The callers' steps, the agents' and the teardown's.
LEMMA ShapeElsewhere ==
  ASSUME TypeOK,
         \/ \E c \in Callers : CallerStep(c)
         \/ \E a \in Agents : AgentReturns(a)
         \/ Shutdown \/ Teardown \/ StopAcknowledged \/ Flushed
  PROVE  Shape'
<1>0. Shape /\ Calls
  BY TypeIsBoth
<1>1. CASE \E c \in Callers : Send(c)
  <2>1. PICK c \in Callers : Send(c)
    BY <1>1
  <2>2. call[c].dev \in Devices
    BY <1>0 DEF Calls
  <2>3. CASE task[call[c].dev] \in Gone
    BY <1>0, <2>1, <2>2, <2>3 DEF Send, Shape, teardownVars
  <2>4. CASE task[call[c].dev] \notin Gone
    <3>1. control' = [control EXCEPT ![call[c].dev] = Append(@, c)]
      BY <2>1, <2>4 DEF Send
    <3>2. Len(control[call[c].dev]) < ControlDepth
      BY <2>1, <2>4 DEF Send
    <3>3. /\ control' \in [Devices -> Seq(Callers)]
          /\ \A e \in Devices : Len(control'[e]) <= ControlDepth
      <4>1. Append(control[call[c].dev], c) \in Seq(Callers)
            /\ Len(Append(control[call[c].dev], c)) <= ControlDepth
        BY <1>0, <2>2, <3>2 DEF Shape
      <4> QED BY <1>0, <2>2, <3>1, <4>1 DEF Shape
    <3> QED BY <1>0, <2>1, <3>3 DEF Send, Shape, teardownVars
  <2> QED BY <2>3, <2>4
<1>2. CASE \E c \in Callers, verb \in Verbs, d \in Devices : Ask(c, verb, d)
  BY <1>0, <1>2 DEF Ask, Shape, deviceVars, teardownVars
<1>3. CASE \E a \in Agents : AgentReturns(a)
  BY <1>0, <1>3 DEF AgentReturns, Shape, deviceVars
<1>4. CASE Shutdown
  BY <1>0, <1>4 DEF Shutdown, Enter, Shape, Phases, deviceVars
<1>5. CASE Join
  BY <1>0, <1>5 DEF Join, Joining, Shape, deviceVars
<1>6. CASE Abort
  <2>1. Head(joining) \in Devices \cup Agents /\ joining' \in Seq(Devices \cup Agents)
    BY <1>0, <1>6 DEF Abort, Joining, Shape
  <2>2. report' \subseteq Devices \cup Agents
    BY <1>0, <1>6, <2>1 DEF Abort, Shape
  <2>3. task' \in [Devices -> TaskStates] /\ agent' \in [Agents -> {"running", "returned", "aborted"}]
    BY <1>0, <1>6, <2>1 DEF Abort, Shape, TaskStates
  <2> QED BY <1>0, <1>6, <2>1, <2>2, <2>3 DEF Abort, Shape
<1>7. CASE CancelAgents
  BY <1>0, <1>7 DEF CancelAgents, Enter, Shape, Phases, deviceVars
<1>8. CASE StopAcknowledged
  BY <1>0, <1>8 DEF StopAcknowledged, Shape, Phases, deviceVars
<1>9. CASE FlushMetrics
  BY <1>0, <1>9 DEF FlushMetrics, Enter, Shape, Phases, deviceVars
<1>10. CASE Flushed
  BY <1>0, <1>10 DEF Flushed, Shape, Phases, deviceVars
<1>11. CASE Tick
  BY <1>0, <1>11 DEF Tick, Shape, deviceVars
<1> QED
  BY <1>1, <1>2, <1>3, <1>4, <1>5, <1>6, <1>7, <1>8, <1>9, <1>10, <1>11
     DEF CallerStep, Teardown, StopUnanswered, FlushUnanswered

\* Every step answers some callers, or none; Send and Ask move their own.
LEMMA CallsKept ==
  ASSUME TypeOK, Next
  PROVE  Calls'
<1>0. Shape /\ Calls
  BY TypeIsBoth
<1>1. CASE Silent
  BY <1>0, <1>1, SilentTyped DEF Calls
<1>2. ASSUME NEW S, NEW r \in {"ok", "refused"}, Answer(S, r) PROVE Calls'
  BY <1>2, AnswerTyped DEF Calls
<1>3. CASE \E d \in Devices : ConnectOk(d)
  <2>1. PICK d \in Devices : ConnectOk(d)
    BY <1>3
  <2>2. call' = [c \in Callers |-> IF call[c].verb # "reconnect" \/ call[c].dev # d THEN call[c]
                                   ELSE [call[c] EXCEPT !.renewed = TRUE]]
    BY <2>1 DEF ConnectOk
  <2>3. \A c \in Callers : call'[c] \in [pc : {"idle", "send", "wait"}, verb : AllVerbs,
                                         dev : Devices, renewed : BOOLEAN]
    <3> TAKE c \in Callers
    <3>1. call[c] \in [pc : {"idle", "send", "wait"}, verb : AllVerbs, dev : Devices,
                       renewed : BOOLEAN]
      BY <1>0 DEF Calls
    <3>2. call'[c] = call[c] \/ call'[c] = [call[c] EXCEPT !.renewed = TRUE]
      BY <2>2
    <3> QED BY <3>1, <3>2
  <2> QED BY <2>1, <2>2, <2>3 DEF ConnectOk, Calls, Replies
<1>4. CASE \E c \in Callers : Send(c)
  <2>1. PICK c \in Callers : Send(c)
    BY <1>4
  <2>2. CASE task[call[c].dev] \in Gone
    BY <1>2, <2>1, <2>2 DEF Send
  <2>3. CASE task[call[c].dev] \notin Gone
    <3>1. call' = [call EXCEPT ![c].pc = "wait"] /\ said' = "none"
      BY <2>1, <2>3 DEF Send
    <3>2. call[c] \in [pc : {"idle", "send", "wait"}, verb : AllVerbs, dev : Devices,
                       renewed : BOOLEAN]
      BY <1>0 DEF Calls
    <3>3. [call[c] EXCEPT !.pc = "wait"] \in [pc : {"idle", "send", "wait"}, verb : AllVerbs,
                                              dev : Devices, renewed : BOOLEAN]
      BY <3>2
    <3> QED BY <1>0, <3>1, <3>3 DEF Calls, Replies
  <2> QED BY <2>2, <2>3
<1>5. CASE \E c \in Callers, verb \in Verbs, d \in Devices : Ask(c, verb, d)
  <2>1. PICK c \in Callers, verb \in Verbs, d \in Devices : Ask(c, verb, d)
    BY <1>5
  <2>2. CASE verb = "repoll" /\ paused[d]
    BY <1>2, <2>1, <2>2 DEF Ask
  <2>3. CASE ~(verb = "repoll" /\ paused[d])
    <3>1. /\ call' = [call EXCEPT ![c] = [pc |-> "send", verb |-> verb, dev |-> d,
                                          renewed |-> FALSE]]
          /\ said' = "none"
      BY <2>1, <2>3 DEF Ask
    <3> QED BY <1>0, <3>1 DEF Calls, Replies
  <2> QED BY <2>2, <2>3
<1>6. ASSUME NEW d \in Devices, DeviceStep(d) PROVE Calls'
  <2>1. CASE Finish(d)
    BY <1>2, <2>1, FinishReplies DEF Reply
  <2>2. CASE Refuse(d)
    <3>1. CASE Asked(d) \in {"pause", "resume"}
      BY <1>2, <2>2, <3>1 DEF Refuse, Reply
    <3>2. CASE Asked(d) \notin {"pause", "resume"}
      BY <1>2, <2>2, <3>2 DEF Refuse, Reply
    <3> QED BY <3>1, <3>2
  <2>3. CASE Take(d) \/ LinkLost(d) \/ Elapsed(d) \/ Top(d) \/ Cancelled(d) \/ Raise(d)
             \/ Snapshot(d) \/ Hasten(d) \/ Reconnect(d)
    BY <1>1, <2>3 DEF Take, LinkLost, Elapsed, Top, Cancelled, Raise, Snapshot, Hasten, Reconnect
  <2>4. CASE ConnectFail(d) \/ Announce(d) \/ RepollFailed(d)
    BY <1>2, <2>4 DEF ConnectFail, Announce, RepollFailed, Reply
  <2>5. CASE StopWhileDown(d) \/ StopCleanly(d) \/ AbortLands(d)
    BY <1>2, <2>5 DEF StopWhileDown, StopCleanly, AbortLands, End
  <2> QED
    BY <1>3, <1>6, <2>1, <2>2, <2>3, <2>4, <2>5 DEF DeviceStep, Working, Serving
<1>7. CASE \/ \E a \in Agents : AgentReturns(a)
           \/ Shutdown \/ Teardown \/ StopAcknowledged \/ Flushed
  BY <1>1, <1>7 DEF AgentReturns, Shutdown, Teardown, StopAcknowledged, Flushed, Join, Abort,
     CancelAgents, StopUnanswered, FlushMetrics, FlushUnanswered, Tick
<1> QED BY <1>4, <1>5, <1>6, <1>7 DEF Next, CallerStep

\* Every state of the instances, of their commands and of the teardown is well typed.
THEOREM TypeCorrect == Spec => []TypeOK
<1>1. TypeOK /\ [Next]_vars => TypeOK'
  <2>1. ASSUME TypeOK, Next PROVE TypeOK'
    <3>1. Shape'
      BY <2>1, ShapeDevice, ShapeElsewhere DEF Next
    <3>2. Calls'
      BY <2>1, CallsKept
    <3> QED BY <3>1, <3>2 DEF TypeOK, Shape, Calls
  <2>2. ASSUME TypeOK, UNCHANGED vars PROVE TypeOK'
    BY <2>2 DEF TypeOK, vars, deviceVars, callVars, teardownVars
  <2> QED BY <2>1, <2>2
<1> QED BY TypeInit, <1>1, PTL DEF Spec

----------------------------------------------------------------------------
(* The alarm.                                                              *)

\* Where a task is tells whether it holds a session, has had one, and has the alarm up.
Standing(d) ==
  /\ task[d] \in {"announce", "top", "poll", "serve", "snapshot", "stop"} => session[d] /\ known[d]
  /\ task[d] \in {"top", "poll", "serve", "snapshot"} => ~alarm[d]
  /\ task[d] \in {"connect", "down", "refuse", "lost", "returned"} => ~session[d]
  /\ task[d] \in {"connect", "down", "refuse"} => (alarm[d] <=> known[d])
  /\ task[d] = "lost" => known[d]

DeviceInv == \A d \in Devices : Standing(d)

\* Any action of a task keeps its standing.
LEMMA StandingKept ==
  ASSUME TypeOK, NEW d \in Devices, Standing(d), DeviceStep(d)
  PROVE  Standing(d)'
<1>0. /\ task \in [Devices -> TaskStates] /\ session \in [Devices -> BOOLEAN]
      /\ alarm \in [Devices -> BOOLEAN] /\ known \in [Devices -> BOOLEAN]
  BY DEF TypeOK
<1>1. CASE Take(d)
  <2>1. /\ task[d] \in {"poll", "down"} /\ task'[d] \in {"serve", "refuse"}
        /\ task[d] = "poll" => task'[d] = "serve"
        /\ task[d] = "down" => task'[d] = "refuse"
        /\ UNCHANGED <<session, alarm, known>>
    BY <1>0, <1>1, TakeFrame
  <2> QED BY <2>1 DEF Standing
<1>2. CASE LinkLost(d)
  BY <1>0, <1>2 DEF LinkLost, Drop, Standing
<1>3. CASE ConnectOk(d)
  BY <1>0, <1>3 DEF ConnectOk, Standing
<1>4. CASE ConnectFail(d)
  BY <1>0, <1>4 DEF ConnectFail, Standing
<1>5. CASE Announce(d)
  BY <1>0, <1>5 DEF Announce, Standing
<1>6. CASE Elapsed(d)
  BY <1>0, <1>6 DEF Elapsed, ToConnect, Standing
<1>7. CASE StopWhileDown(d)
  BY <1>0, <1>7 DEF StopWhileDown, End, Standing
<1>8. CASE Top(d)
  BY <1>0, <1>8 DEF Top, Standing
<1>9. CASE Cancelled(d)
  BY <1>0, <1>9 DEF Cancelled, Standing
<1>10. CASE StopCleanly(d)
  BY <1>0, <1>10 DEF StopCleanly, End, Standing
<1>11. CASE Raise(d)
  BY <1>0, <1>11 DEF Raise, ToConnect, Standing
<1>12. CASE Snapshot(d)
  BY <1>0, <1>12 DEF Snapshot, Standing
<1>13. CASE Refuse(d)
  BY <1>0, <1>13 DEF Refuse, Standing
<1>14. CASE Hasten(d)
  BY <1>0, <1>14 DEF Hasten, ToConnect, Standing
<1>15. CASE Finish(d)
  BY <1>0, <1>15, FinishFrame DEF Standing
<1>16. CASE RepollFailed(d)
  BY <1>0, <1>16 DEF RepollFailed, Drop, Standing
<1>17. CASE Reconnect(d)
  BY <1>0, <1>17 DEF Reconnect, Drop, Standing
<1>18. CASE AbortLands(d)
  BY <1>0, <1>18 DEF AbortLands, End, Standing
<1> QED
  BY <1>1, <1>2, <1>3, <1>4, <1>5, <1>6, <1>7, <1>8, <1>9, <1>10, <1>11, <1>12, <1>13, <1>14,
     <1>15, <1>16, <1>17, <1>18 DEF DeviceStep, Working, Serving

\* A task's step touches its own task, session, alarm and history only.
LEMMA OwnStateOnly ==
  ASSUME TypeOK, NEW d \in Devices, DeviceStep(d)
  PROVE  /\ task' = [task EXCEPT ![d] = task'[d]] /\ session' = [session EXCEPT ![d] = session'[d]]
         /\ alarm' = [alarm EXCEPT ![d] = alarm'[d]] /\ known' = [known EXCEPT ![d] = known'[d]]
         /\ UNCHANGED teardownVars
<1>0. /\ task \in [Devices -> TaskStates] /\ session \in [Devices -> BOOLEAN]
      /\ alarm \in [Devices -> BOOLEAN] /\ known \in [Devices -> BOOLEAN]
  BY DEF TypeOK
<1>1. CASE Take(d)
  <2>1. \/ task' = [task EXCEPT ![d] = "serve"]
        \/ task' = [task EXCEPT ![d] = "refuse"]
    BY <1>1, TakeFrame
  <2>2. UNCHANGED <<session, alarm, known, teardownVars>>
    BY <1>1, TakeFrame
  <2> QED BY <1>0, <2>1, <2>2
<1>2. CASE Finish(d)
  BY <1>0, <1>2, FinishFrame
<1>3. CASE LinkLost(d) \/ Elapsed(d) \/ Raise(d) \/ Hasten(d) \/ RepollFailed(d) \/ Reconnect(d)
  BY <1>0, <1>3 DEF LinkLost, Elapsed, Raise, Hasten, RepollFailed, Reconnect, Drop, ToConnect
<1>4. CASE StopWhileDown(d) \/ StopCleanly(d) \/ AbortLands(d)
  BY <1>0, <1>4 DEF StopWhileDown, StopCleanly, AbortLands, End
<1>5. CASE ConnectOk(d) \/ ConnectFail(d) \/ Announce(d) \/ Top(d) \/ Cancelled(d) \/ Snapshot(d)
           \/ Refuse(d)
  BY <1>0, <1>5 DEF ConnectOk, ConnectFail, Announce, Top, Cancelled, Snapshot, Refuse
<1> QED
  BY <1>1, <1>2, <1>3, <1>4, <1>5 DEF DeviceStep, Working, Serving

\* The rest of the system leaves the devices' state alone, but for an abort.
LEMMA DevicesUntouched ==
  ASSUME TypeOK,
         \/ \E c \in Callers : CallerStep(c)
         \/ \E a \in Agents : AgentReturns(a)
         \/ Shutdown \/ Teardown \/ StopAcknowledged \/ Flushed
  PROVE  /\ UNCHANGED <<session, alarm, known, hand>>
         /\ \/ task' = task
            \/ \E t \in Devices : task' = [task EXCEPT ![t] = "aborting"]
<1>1. CASE \E c \in Callers : CallerStep(c)
  <2>1. ASSUME NEW c \in Callers, Send(c)
        PROVE  UNCHANGED <<task, session, alarm, known, hand>>
    BY <2>1 DEF Send
  <2>2. ASSUME NEW c \in Callers, NEW verb \in Verbs, NEW d \in Devices, Ask(c, verb, d)
        PROVE  UNCHANGED <<task, session, alarm, known, hand>>
    BY <2>2 DEF Ask, deviceVars
  <2> QED BY <1>1, <2>1, <2>2 DEF CallerStep
<1>2. CASE Abort
  <2>1. UNCHANGED <<session, alarm, known, hand>>
    BY <1>2 DEF Abort
  <2>2. CASE Head(joining) \in Devices
    BY <1>2, <2>1, <2>2 DEF Abort
  <2>3. CASE Head(joining) \notin Devices
    BY <1>2, <2>1, <2>3 DEF Abort
  <2> QED BY <2>2, <2>3
<1>3. CASE \/ \E a \in Agents : AgentReturns(a)
           \/ Shutdown \/ StopAcknowledged \/ Flushed
  BY <1>3 DEF AgentReturns, Shutdown, StopAcknowledged, Flushed, deviceVars
<1>4. CASE Join \/ CancelAgents \/ StopUnanswered \/ FlushMetrics \/ FlushUnanswered \/ Tick
  BY <1>4 DEF Join, CancelAgents, StopAcknowledged, StopUnanswered, FlushMetrics, Flushed,
     FlushUnanswered, Tick, deviceVars
<1> QED BY <1>1, <1>2, <1>3, <1>4 DEF Teardown

LEMMA DeviceInvKept ==
  ASSUME TypeOK, DeviceInv, [Next]_vars
  PROVE  DeviceInv'
<1>0. /\ task \in [Devices -> TaskStates] /\ session \in [Devices -> BOOLEAN]
      /\ alarm \in [Devices -> BOOLEAN] /\ known \in [Devices -> BOOLEAN]
  BY DEF TypeOK
<1>1. ASSUME NEW d \in Devices, DeviceStep(d) PROVE DeviceInv'
  <2>1. ASSUME NEW e \in Devices, e # d PROVE Standing(e)'
    BY <1>0, <1>1, <2>1, OwnStateOnly DEF DeviceInv, Standing
  <2> QED BY <1>1, <2>1, StandingKept DEF DeviceInv
<1>2. CASE \/ \E c \in Callers : CallerStep(c)
           \/ \E a \in Agents : AgentReturns(a)
           \/ Shutdown \/ Teardown \/ StopAcknowledged \/ Flushed
  BY <1>0, <1>2, DevicesUntouched DEF DeviceInv, Standing
<1>3. CASE UNCHANGED vars
  BY <1>3 DEF vars, deviceVars, DeviceInv, Standing
<1> QED BY <1>1, <1>2, <1>3 DEF Next

LEMMA DeviceInvHolds == Spec => []DeviceInv
<1>1. Init => DeviceInv
  BY DEF Init, DeviceInv, Standing
<1> QED BY <1>1, TypeCorrect, DeviceInvKept, PTL DEF Spec

\* At the points where an operator can look, device-unreachable is up exactly while an
\* instance that has been connected is without its session.
THEOREM AlarmIsRight == Spec => []AlarmTellsOutage
<1>1. TypeOK /\ DeviceInv => AlarmTellsOutage
  BY DEF DeviceInv, Standing, AlarmTellsOutage, TypeOK
<1> QED BY <1>1, TypeCorrect, DeviceInvHolds, PTL

----------------------------------------------------------------------------
(* The teardown.                                                           *)

\* The deadline of each phase, and how far the clock can have run.
Clocked ==
  /\ phase = "up" => clock = 0
  /\ phase # "up" => clock <= deadline
  /\ phase = "devices" => deadline <= DeviceBudget
  /\ phase \in {"stop", "agents"} => deadline <= DeviceBudget + AgentBudget
  /\ phase \in {"flush", "down"} => deadline <= DeviceBudget + AgentBudget + FlushBudget

LEMMA ClockedKept ==
  ASSUME TypeOK, Clocked, [Next]_vars
  PROVE  Clocked'
<1>0. phase \in Phases /\ clock \in Nat /\ deadline \in Nat
  BY DEF TypeOK
<1>1. ASSUME UNCHANGED <<phase, clock, deadline>> PROVE Clocked'
  BY <1>1 DEF Clocked
<1>2. ASSUME NEW d \in Devices, DeviceStep(d) PROVE Clocked'
  BY <1>1, <1>2, OwnStateOnly DEF teardownVars
<1>3. ASSUME NEW c \in Callers, CallerStep(c) PROVE Clocked'
  BY <1>1, <1>3 DEF CallerStep, Send, Ask, teardownVars
<1>4. ASSUME NEW a \in Agents, AgentReturns(a) PROVE Clocked'
  BY <1>1, <1>4 DEF AgentReturns
<1>5. CASE Join \/ Abort
  BY <1>1, <1>5 DEF Join, Abort
<1>6. CASE Shutdown
  BY <1>0, <1>6 DEF Shutdown, Enter, Clocked
<1>7. CASE CancelAgents
  BY <1>0, <1>7 DEF CancelAgents, Enter, Clocked
<1>8. CASE StopAcknowledged
  BY <1>0, <1>8 DEF StopAcknowledged, Clocked
<1>9. CASE FlushMetrics
  BY <1>0, <1>9 DEF FlushMetrics, Enter, Clocked
<1>10. CASE Flushed
  BY <1>0, <1>10 DEF Flushed, Clocked
<1>11. CASE Tick
  BY <1>0, <1>11 DEF Tick, Clocked
<1>12. CASE UNCHANGED vars
  BY <1>1, <1>12 DEF vars, teardownVars
<1> QED
  BY <1>2, <1>3, <1>4, <1>5, <1>6, <1>7, <1>8, <1>9, <1>10, <1>11, <1>12
     DEF Next, Teardown, StopUnanswered, FlushUnanswered

LEMMA ClockedHolds == Spec => []Clocked
<1>1. Init => Clocked
  BY DEF Init, Clocked
<1> QED BY <1>1, TypeCorrect, ClockedKept, PTL DEF Spec

\* However many tasks overrun, the teardown takes no more than its three budgets.
THEOREM ThreeBudgets == Spec => []TeardownBounded
<1>1. TypeOK /\ Clocked => TeardownBounded
  BY DEF TypeOK, Phases, Clocked, TeardownBounded
<1> QED BY <1>1, TypeCorrect, ClockedHolds, PTL

\* A device task that will take no further step of its own.
Settled(d) == task[d] \in Gone \cup {"aborting"}

\* What is not settled is still to be joined; what was aborted is reported.
Joined ==
  /\ phase = "devices" =>
       /\ joining \in Seq(Devices)
       /\ \A d \in Devices : Settled(d) \/ \E i \in DOMAIN joining : joining[i] = d
  /\ phase \in {"stop", "agents", "flush", "down"} => \A d \in Devices : Settled(d)
  /\ phase \in {"stop", "agents"} =>
       /\ joining \in Seq(Agents)
       /\ \A a \in Agents : agent[a] # "running" \/ \E i \in DOMAIN joining : joining[i] = a
  /\ phase \in {"flush", "down"} => \A a \in Agents : agent[a] # "running"

Reported ==
  /\ \A d \in Devices : task[d] \in {"aborting", "aborted"} => d \in report
  /\ \A a \in Agents : agent[a] = "aborted" => a \in report

\* Taking the first of a sequence leaves all the others in it.
LEMMA RestKept ==
  ASSUME NEW T, NEW s \in Seq(T), s # <<>>, NEW i \in DOMAIN s
  PROVE  /\ Head(s) \in T /\ Tail(s) \in Seq(T)
         /\ s[i] = Head(s) \/ \E j \in DOMAIN Tail(s) : Tail(s)[j] = s[i]
<1>1. Len(s) \in Nat \ {0} /\ DOMAIN s = 1..Len(s)
  OBVIOUS
<1>2. CASE i = 1
  BY <1>1, <1>2
<1>3. CASE i # 1
  <2>1. i - 1 \in 1..Len(Tail(s)) /\ Tail(s)[i - 1] = s[i]
    BY <1>1, <1>3
  <2>2. DOMAIN Tail(s) = 1..Len(Tail(s))
    OBVIOUS
  <2> QED BY <2>1, <2>2
<1> QED BY <1>2, <1>3

\* A settled task only ever goes from aborting to aborted, and is not aborted otherwise.
LEMMA SettledStays ==
  ASSUME TypeOK, NEW d \in Devices, DeviceStep(d)
  PROVE  /\ Settled(d) => task[d] = "aborting" /\ task'[d] = "aborted"
         /\ task'[d] # "aborting"
         /\ task'[d] = "aborted" => task[d] = "aborting"
<1>0. task \in [Devices -> TaskStates]
  BY DEF TypeOK
<1>1. CASE Take(d)
  <2>1. \/ task' = [task EXCEPT ![d] = "serve"]
        \/ task' = [task EXCEPT ![d] = "refuse"]
    BY <1>1, TakeFrame
  <2>2. task[d] \in {"poll", "down"}
    BY <1>1, TakeFrame
  <2> QED BY <1>0, <2>1, <2>2 DEF Settled, Gone
<1>2. CASE Finish(d)
  BY <1>0, <1>2, FinishFrame DEF Settled, Gone
<1>3. CASE LinkLost(d) \/ Elapsed(d) \/ Raise(d) \/ Hasten(d) \/ RepollFailed(d) \/ Reconnect(d)
  BY <1>0, <1>3 DEF LinkLost, Elapsed, Raise, Hasten, RepollFailed, Reconnect, Drop, ToConnect,
     Settled, Gone
<1>4. CASE StopWhileDown(d) \/ StopCleanly(d) \/ AbortLands(d)
  BY <1>0, <1>4 DEF StopWhileDown, StopCleanly, AbortLands, End, Settled, Gone
<1>5. CASE ConnectOk(d) \/ ConnectFail(d) \/ Announce(d) \/ Top(d) \/ Cancelled(d) \/ Snapshot(d)
           \/ Refuse(d)
  BY <1>0, <1>5 DEF ConnectOk, ConnectFail, Announce, Top, Cancelled, Snapshot, Refuse,
     Settled, Gone
<1> QED
  BY <1>1, <1>2, <1>3, <1>4, <1>5 DEF DeviceStep, Working, Serving

LEMMA TeardownKept ==
  ASSUME TypeOK, Joined, Reported, [Next]_vars
  PROVE  Joined' /\ Reported'
<1>0. /\ task \in [Devices -> TaskStates] /\ agent \in [Agents -> {"running", "returned", "aborted"}]
      /\ phase \in Phases /\ joining \in Seq(Devices \cup Agents)
  BY DEF TypeOK
<1>1. ASSUME UNCHANGED <<task, agent, phase, joining, report>> PROVE Joined' /\ Reported'
  BY <1>1 DEF Joined, Reported, Settled
<1>2. ASSUME NEW d \in Devices, DeviceStep(d) PROVE Joined' /\ Reported'
  <2>1. UNCHANGED <<agent, phase, joining, report>>
    BY <1>2, OwnStateOnly DEF teardownVars
  <2>2. \A e \in Devices : e # d => task'[e] = task[e]
    BY <1>0, <1>2, OwnStateOnly
  <2>3. \A e \in Devices : Settled(e) => Settled(e)'
    BY <1>2, <2>2, SettledStays DEF Settled, Gone
  <2>4. Joined'
    BY <2>1, <2>3 DEF Joined
  <2>5. Reported'
    BY <1>2, <2>1, <2>2, SettledStays DEF Reported
  <2> QED BY <2>4, <2>5
<1>3. ASSUME NEW c \in Callers, CallerStep(c) PROVE Joined' /\ Reported'
  <2>1. CASE Send(c)
    BY <1>1, <2>1 DEF Send, teardownVars
  <2>2. CASE \E verb \in Verbs, d \in Devices : Ask(c, verb, d)
    BY <1>1, <2>2 DEF Ask, deviceVars, teardownVars
  <2> QED BY <1>3, <2>1, <2>2 DEF CallerStep
<1>4. ASSUME NEW a \in Agents, AgentReturns(a) PROVE Joined' /\ Reported'
  <2>1. /\ agent' = [agent EXCEPT ![a] = "returned"]
        /\ UNCHANGED <<task, phase, joining, report>>
    BY <1>4 DEF AgentReturns, deviceVars
  <2> QED BY <1>0, <2>1 DEF Joined, Reported, Settled
<1>5. CASE Shutdown
  <2>1. phase = "up" /\ phase' = "devices" /\ joining' = DeviceOrder
        /\ UNCHANGED <<task, agent, report>>
    BY <1>5 DEF Shutdown, Enter, deviceVars
  <2> QED BY <2>1 DEF Joined, Reported, Settled
<1>6. CASE Join \/ Abort
  <2> DEFINE t == Head(joining)
  <2>1. /\ phase \in {"devices", "agents"} /\ phase' = phase /\ joining # <<>>
        /\ joining' = Tail(joining)
    BY <1>6 DEF Join, Abort, Joining
  <2>2. phase = "devices" => t \in Devices /\ joining' \in Seq(Devices)
    BY <2>1, RestKept DEF Joined
  <2>3. phase = "agents" => t \in Agents /\ t \notin Devices /\ joining' \in Seq(Agents)
    BY <2>1, RestKept DEF Joined
  <2>4. \A i \in DOMAIN joining : joining[i] = t \/ \E j \in DOMAIN joining' : joining'[j] = joining[i]
    BY <1>0, <2>1, RestKept
  <2>5. CASE Join
    <3>1. Returned(t) /\ UNCHANGED <<task, agent, report>>
      BY <2>5 DEF Join, deviceVars
    <3>2. phase = "devices" => Settled(t)
      BY <2>2, <3>1 DEF Returned, Settled, Gone
    <3>3. phase = "agents" => agent[t] # "running"
      BY <2>3, <3>1 DEF Returned
    <3>4. \A d \in Devices : Settled(d)' <=> Settled(d)
      BY <3>1 DEF Settled
    <3>5. Reported'
      BY <3>1 DEF Reported
    <3> HIDE DEF t
    <3>6. ASSUME phase = "devices", NEW d \in Devices
          PROVE  Settled(d)' \/ \E j \in DOMAIN joining' : joining'[j] = d
      BY <2>4, <3>2, <3>4, <3>6 DEF Joined
    <3>7. ASSUME phase = "agents", NEW a \in Agents
          PROVE  agent'[a] # "running" \/ \E j \in DOMAIN joining' : joining'[j] = a
      <4>1. agent' = agent
        BY <3>1
      <4>2. agent[a] # "running" \/ \E i \in DOMAIN joining : joining[i] = a
        BY <3>7 DEF Joined
      <4> QED BY <2>4, <3>3, <3>7, <4>1, <4>2
    <3>8. Joined'
      BY <2>1, <2>2, <2>3, <3>4, <3>6, <3>7 DEF Joined
    <3> QED BY <3>5, <3>8
  <2>6. CASE Abort /\ phase = "devices"
    <3>1. task' = [task EXCEPT ![t] = "aborting"] /\ UNCHANGED agent /\ report' = report \cup {t}
      BY <2>2, <2>6 DEF Abort
    <3>2. /\ \A d \in Devices : Settled(d) => task'[d] \in Gone \cup {"aborting"}
          /\ task'[t] = "aborting"
      BY <1>0, <2>2, <2>6, <3>1 DEF Settled
    <3>3. Reported'
      BY <1>0, <2>2, <2>6, <3>1 DEF Reported
    <3> HIDE DEF t
    <3>4. ASSUME NEW d \in Devices
          PROVE  Settled(d)' \/ \E j \in DOMAIN joining' : joining'[j] = d
      <4>1. Settled(d) \/ \E i \in DOMAIN joining : joining[i] = d
        BY <2>6 DEF Joined
      <4>2. CASE Settled(d)
        BY <3>2, <4>2 DEF Settled
      <4>3. CASE \E i \in DOMAIN joining : joining[i] = d
        <5>1. PICK i \in DOMAIN joining : joining[i] = d
          BY <4>3
        <5>2. CASE d = t
          BY <3>2, <5>2 DEF Settled
        <5>3. CASE d # t
          BY <2>4, <5>1, <5>3
        <5> QED BY <5>2, <5>3
      <4> QED BY <4>1, <4>2, <4>3
    <3>5. Joined'
      BY <2>1, <2>2, <2>6, <3>4 DEF Joined
    <3> QED BY <3>3, <3>5
  <2>7. CASE Abort /\ phase = "agents"
    <3>1. agent' = [agent EXCEPT ![t] = "aborted"] /\ UNCHANGED task /\ report' = report \cup {t}
      BY <2>3, <2>7 DEF Abort
    <3>2. \A a \in Agents : (agent[a] # "running" => agent'[a] # "running")
                           /\ (a = t => agent'[a] # "running")
      BY <1>0, <2>3, <2>7, <3>1
    <3>3. Reported'
      BY <1>0, <2>3, <2>7, <3>1 DEF Reported
    <3> HIDE DEF t
    <3>4. ASSUME NEW a \in Agents
          PROVE  agent'[a] # "running" \/ \E j \in DOMAIN joining' : joining'[j] = a
      BY <2>4, <2>7, <3>2 DEF Joined
    <3>5. Joined'
      <4>1. \A d \in Devices : Settled(d)' <=> Settled(d)
        BY <3>1 DEF Settled
      <4> QED BY <2>1, <2>3, <2>7, <3>4, <4>1 DEF Joined
    <3> QED BY <3>3, <3>5
  <2> QED BY <1>6, <2>1, <2>5, <2>6, <2>7
<1>7. CASE CancelAgents
  <2>1. phase = "devices" /\ joining = <<>> /\ phase' = "stop" /\ joining' = AgentOrder
        /\ UNCHANGED <<task, agent, report>>
    BY <1>7 DEF CancelAgents, Enter, deviceVars
  <2> QED BY <2>1 DEF Joined, Reported, Settled
<1>8. CASE StopAcknowledged
  <2>1. phase = "stop" /\ phase' = "agents" /\ UNCHANGED <<task, agent, joining, report>>
    BY <1>8 DEF StopAcknowledged, deviceVars
  <2> QED BY <2>1 DEF Joined, Reported, Settled
<1>9. CASE FlushMetrics
  <2>1. phase = "agents" /\ joining = <<>> /\ phase' = "flush" /\ UNCHANGED <<task, agent, report>>
    BY <1>9 DEF FlushMetrics, Enter, deviceVars
  <2> QED BY <2>1 DEF Joined, Reported, Settled
<1>10. CASE Flushed
  <2>1. phase = "flush" /\ phase' = "down" /\ UNCHANGED <<task, agent, joining, report>>
    BY <1>10 DEF Flushed, deviceVars
  <2> QED BY <2>1 DEF Joined, Reported, Settled
<1>11. CASE Tick
  BY <1>1, <1>11 DEF Tick, deviceVars
<1>12. CASE UNCHANGED vars
  BY <1>1, <1>12 DEF vars, deviceVars, teardownVars
<1> QED
  BY <1>2, <1>3, <1>4, <1>5, <1>6, <1>7, <1>8, <1>9, <1>10, <1>11, <1>12
     DEF Next, Teardown, StopUnanswered, FlushUnanswered

LEMMA TeardownHolds == Spec => [](Joined /\ Reported)
<1>1. Init => Joined /\ Reported
  BY DEF Init, Joined, Reported
<1> QED BY <1>1, TypeCorrect, TeardownKept, PTL DEF Spec

\* No agent is told to stop under a device task that is still flushing, and one that
\* ended by itself has given its session back.
THEOREM AgentsStopLast == Spec => []DrainedBeforeAgents
<1>1. TypeOK /\ DeviceInv /\ Joined /\ Reported => DrainedBeforeAgents
  BY DEF TypeOK, Phases, DeviceInv, Standing, Joined, Reported, Settled, Gone,
     DrainedBeforeAgents, AgentsCancelled
<1> QED BY <1>1, TypeCorrect, DeviceInvHolds, TeardownHolds, PTL

\* At the end of the teardown every task has returned, or is named as aborted.
THEOREM AllAccountedFor == Spec => []NoneLeftRunning
<1>1. TypeOK /\ Joined /\ Reported => NoneLeftRunning
  BY DEF TypeOK, Joined, Reported, Settled, Gone, NoneLeftRunning, Returned
<1> QED BY <1>1, TypeCorrect, TeardownHolds, PTL

\* The teardown ends in time and accounts for every task.
THEOREM TimelyStop == Spec => []StopsInTime
<1>1. StopsInTime <=> TeardownBounded /\ NoneLeftRunning
  BY DEF StopsInTime
<1> QED BY <1>1, ThreeBudgets, AllAccountedFor, PTL

----------------------------------------------------------------------------
(* The commands and their replies.                                         *)

\* What is in a channel waits for an answer from the task that reads it...
QueuedWaits ==
  \A d \in Devices : \A i \in DOMAIN control[d] :
    call[control[d][i]].pc = "wait" /\ call[control[d][i]].dev = d

\* ...so does the reply a task holds...
HandWaits ==
  \A d \in Devices :
    hand[d].who # NoOne => call[hand[d].who].pc = "wait" /\ call[hand[d].who].dev = d

\* ...each is there once...
QueuedOnce ==
  \A d \in Devices : \A i, j \in DOMAIN control[d] : control[d][i] = control[d][j] => i = j

HandOrQueue ==
  \A d \in Devices : \A i \in DOMAIN control[d] : control[d][i] # hand[d].who

\* ...and nobody waits for a reply that is nowhere.
WaitsSomewhere ==
  \A c \in Callers : call[c].pc = "wait" =>
    hand[call[c].dev].who = c \/ \E i \in DOMAIN control[call[c].dev] : control[call[c].dev][i] = c

Places == QueuedWaits /\ HandWaits /\ QueuedOnce /\ HandOrQueue /\ WaitsSomewhere

\* A task that is to take a command holds none, and the reply that a new session is
\* announced for was asked for before it.
HandFree ==
  \A d \in Devices :
    task[d] \in {"top", "poll", "down", "snapshot", "stop"} => hand[d].who = NoOne

Renewed ==
  \A d \in Devices :
    task[d] = "announce" /\ hand[d].who # NoOne /\ call[hand[d].who].verb = "reconnect"
      => call[hand[d].who].renewed

\* A place is a place of the state before it, and the calls in it are as they were.
LEMMA ReplyKeeps ==
  ASSUME TypeOK, Places, NEW d \in Devices, NEW r, Answer({hand[d].who}, r),
         hand' = [hand EXCEPT ![d] = Empty], control' = control
  PROVE  Places'
<1>0. /\ hand \in [Devices -> [who : Callers \cup {NoOne}, changed : BOOLEAN]]
      /\ control \in [Devices -> Seq(Callers)]
      /\ \A c \in Callers : call[c].dev \in Devices
      /\ \A e \in Devices : \A i \in DOMAIN control[e] : control[e][i] \in Callers
  BY DEF TypeOK
<1>1. /\ hand'[d].who = NoOne
      /\ \A e \in Devices : e # d => hand'[e] = hand[e]
  BY <1>0 DEF Empty
<1>2. /\ \A c \in Callers : c # hand[d].who => call'[c] = call[c]
      /\ hand[d].who \in Callers => call'[hand[d].who].pc = "idle"
  BY DEF Answer, AtRest
<1>3. QueuedWaits'
  <2>1. ASSUME NEW e \in Devices, NEW i \in DOMAIN control[e]
        PROVE  control[e][i] \in Callers /\ control[e][i] # hand[d].who
               /\ call[control[e][i]].pc = "wait" /\ call[control[e][i]].dev = e
    <3>1. call[control[e][i]].pc = "wait" /\ call[control[e][i]].dev = e
      BY <2>1 DEF Places, QueuedWaits
    <3>2. control[e][i] \in Callers
      BY <1>0, <2>1
    <3>3. CASE control[e][i] = hand[d].who
      <4>1. call[hand[d].who].dev = d
        BY <3>2, <3>3 DEF Places, HandWaits
      <4>2. e = d
        BY <3>1, <3>3, <4>1
      <4> QED BY <2>1, <3>3, <4>2 DEF Places, HandOrQueue
    <3> QED BY <3>1, <3>2, <3>3
  <2> QED BY <1>2, <2>1 DEF QueuedWaits
<1>4. HandWaits'
  <2>1. ASSUME NEW e \in Devices, hand'[e].who # NoOne
        PROVE  call'[hand'[e].who].pc = "wait" /\ call'[hand'[e].who].dev = e
    <3>1. e # d /\ hand'[e] = hand[e]
      BY <1>1, <2>1
    <3>2. call[hand[e].who].pc = "wait" /\ call[hand[e].who].dev = e /\ hand[e].who \in Callers
      BY <1>0, <2>1, <3>1 DEF Places, HandWaits
    <3>3. CASE hand[e].who = hand[d].who
      BY <1>0, <3>1, <3>2, <3>3 DEF Places, HandWaits
    <3> QED BY <1>2, <3>1, <3>2, <3>3
  <2> QED BY <2>1 DEF HandWaits
<1>5. QueuedOnce'
  BY DEF Places, QueuedOnce
<1>6. HandOrQueue'
  <2>1. ASSUME NEW e \in Devices, NEW i \in DOMAIN control[e] PROVE control[e][i] # hand'[e].who
    <3>1. CASE e = d
      BY <1>0, <1>1, <2>1, <3>1
    <3>2. CASE e # d
      BY <1>1, <2>1, <3>2 DEF Places, HandOrQueue
    <3> QED BY <3>1, <3>2
  <2> QED BY <2>1 DEF HandOrQueue
<1>7. WaitsSomewhere'
  <2>1. ASSUME NEW c \in Callers, call'[c].pc = "wait"
        PROVE  \/ hand'[call'[c].dev].who = c
               \/ \E i \in DOMAIN control[call'[c].dev] : control[call'[c].dev][i] = c
    <3>1. c # hand[d].who
      BY <1>2, <2>1
    <3>2. call'[c] = call[c]
      BY <1>2, <3>1
    <3>3. \/ hand[call[c].dev].who = c
          \/ \E i \in DOMAIN control[call[c].dev] : control[call[c].dev][i] = c
      BY <2>1, <3>2 DEF Places, WaitsSomewhere
    <3>4. hand[call[c].dev].who = c => hand'[call[c].dev].who = c
      BY <1>0, <1>1, <3>1
    <3> QED BY <3>2, <3>3, <3>4
  <2> QED BY <2>1 DEF WaitsSomewhere
<1> QED BY <1>3, <1>4, <1>5, <1>6, <1>7 DEF Places

\* The end of a task settles all it holds.
LEMMA EndKeeps ==
  ASSUME TypeOK, Places, NEW d \in Devices, Answer(Stranded(d), "refused"),
         hand' = [hand EXCEPT ![d] = Empty], control' = [control EXCEPT ![d] = <<>>]
  PROVE  Places'
<1>0. /\ hand \in [Devices -> [who : Callers \cup {NoOne}, changed : BOOLEAN]]
      /\ control \in [Devices -> Seq(Callers)]
      /\ \A c \in Callers : call[c].dev \in Devices
      /\ \A e \in Devices : \A i \in DOMAIN control[e] : control[e][i] \in Callers
  BY DEF TypeOK
<1>1. /\ hand'[d].who = NoOne /\ DOMAIN control'[d] = {}
      /\ \A e \in Devices : e # d => hand'[e] = hand[e] /\ control'[e] = control[e]
  BY <1>0 DEF Empty
<1>2. \A c \in Callers : /\ c \notin Stranded(d) => call'[c] = call[c]
                         /\ c \in Stranded(d) => call'[c].pc = "idle"
  BY DEF Answer, AtRest
<1>3. \A c \in Callers : /\ c \in Stranded(d) => call[c].dev = d
                         /\ call[c].pc = "wait" /\ call[c].dev = d => c \in Stranded(d)
  BY DEF Stranded, Places, QueuedWaits, HandWaits, WaitsSomewhere
<1>4. \A c \in Callers : call[c].dev # d => call'[c] = call[c]
  BY <1>2, <1>3
<1>5. QueuedWaits'
  <2>1. ASSUME NEW e \in Devices, NEW i \in DOMAIN control'[e]
        PROVE  call'[control'[e][i]].pc = "wait" /\ call'[control'[e][i]].dev = e
    <3>1. e # d /\ control'[e] = control[e]
      BY <1>1, <2>1
    <3>2. control[e][i] \in Callers /\ call[control[e][i]].pc = "wait" /\ call[control[e][i]].dev = e
      BY <1>0, <2>1, <3>1 DEF Places, QueuedWaits
    <3> QED BY <1>4, <3>1, <3>2
  <2> QED BY <2>1 DEF QueuedWaits
<1>6. HandWaits'
  <2>1. ASSUME NEW e \in Devices, hand'[e].who # NoOne
        PROVE  call'[hand'[e].who].pc = "wait" /\ call'[hand'[e].who].dev = e
    <3>1. e # d /\ hand'[e] = hand[e]
      BY <1>1, <2>1
    <3>2. call[hand[e].who].pc = "wait" /\ call[hand[e].who].dev = e /\ hand[e].who \in Callers
      BY <1>0, <2>1, <3>1 DEF Places, HandWaits
    <3> QED BY <1>4, <3>1, <3>2
  <2> QED BY <2>1 DEF HandWaits
<1>7. QueuedOnce' /\ HandOrQueue'
  BY <1>1 DEF Places, QueuedOnce, HandOrQueue
<1>8. WaitsSomewhere'
  <2>1. ASSUME NEW c \in Callers, call'[c].pc = "wait"
        PROVE  \/ hand'[call'[c].dev].who = c
               \/ \E i \in DOMAIN control'[call'[c].dev] : control'[call'[c].dev][i] = c
    <3>1. call'[c] = call[c] /\ c \notin Stranded(d)
      BY <1>2, <2>1
    <3>2. call[c].dev # d /\ call[c].dev \in Devices
      BY <1>0, <1>3, <2>1, <3>1
    <3> QED BY <1>1, <2>1, <3>1, <3>2 DEF Places, WaitsSomewhere
  <2> QED BY <2>1 DEF WaitsSomewhere
<1> QED BY <1>5, <1>6, <1>7, <1>8 DEF Places

\* Nothing moves, and of the calls only what a new session renews.
LEMMA CallsStay ==
  ASSUME TypeOK, Places, UNCHANGED <<hand, control>>,
         \A c \in Callers : call'[c].pc = call[c].pc /\ call'[c].dev = call[c].dev
  PROVE  Places'
<1>0. /\ hand \in [Devices -> [who : Callers \cup {NoOne}, changed : BOOLEAN]]
      /\ control \in [Devices -> Seq(Callers)]
      /\ \A e \in Devices : \A i \in DOMAIN control[e] : control[e][i] \in Callers
  BY DEF TypeOK
<1>1. hand' = hand /\ control' = control
  OBVIOUS
<1>2. QueuedWaits'
  <2>1. ASSUME NEW d \in Devices, NEW i \in DOMAIN control[d]
        PROVE  call'[control[d][i]].pc = "wait" /\ call'[control[d][i]].dev = d
    <3>1. control[d][i] \in Callers /\ call[control[d][i]].pc = "wait" /\ call[control[d][i]].dev = d
      BY <1>0, <2>1 DEF Places, QueuedWaits
    <3> QED BY <3>1
  <2> QED BY <1>1, <2>1 DEF QueuedWaits
<1>3. HandWaits'
  <2>1. ASSUME NEW d \in Devices, hand[d].who # NoOne
        PROVE  call'[hand[d].who].pc = "wait" /\ call'[hand[d].who].dev = d
    <3>1. hand[d].who \in Callers /\ call[hand[d].who].pc = "wait" /\ call[hand[d].who].dev = d
      BY <1>0, <2>1 DEF Places, HandWaits
    <3> QED BY <3>1
  <2> QED BY <1>1, <2>1 DEF HandWaits
<1>4. QueuedOnce' /\ HandOrQueue'
  BY <1>1 DEF Places, QueuedOnce, HandOrQueue
<1>5. WaitsSomewhere'
  <2>1. ASSUME NEW c \in Callers, call'[c].pc = "wait"
        PROVE  \/ hand[call'[c].dev].who = c
               \/ \E i \in DOMAIN control[call'[c].dev] : control[call'[c].dev][i] = c
    BY <2>1 DEF Places, WaitsSomewhere
  <2> QED BY <1>1, <2>1 DEF WaitsSomewhere
<1> QED BY <1>2, <1>3, <1>4, <1>5 DEF Places

\* A command goes from the channel into the hand that is free for it.
LEMMA TakeKeeps ==
  ASSUME TypeOK, Places, NEW d \in Devices, hand[d].who = NoOne, Take(d)
  PROVE  Places'
<1>0. /\ hand \in [Devices -> [who : Callers \cup {NoOne}, changed : BOOLEAN]]
      /\ control \in [Devices -> Seq(Callers)]
      /\ \A c \in Callers : call[c].dev \in Devices
      /\ \A e \in Devices : \A i \in DOMAIN control[e] : control[e][i] \in Callers
  BY DEF TypeOK
<1> DEFINE h == Head(control[d])
<1>1. /\ control[d] # <<>> /\ h \in Callers /\ call' = call
      /\ control' = [control EXCEPT ![d] = Tail(control[d])]
      /\ hand'[d].who = h
      /\ \A e \in Devices : e # d => hand'[e] = hand[e] /\ control'[e] = control[e]
  BY <1>0, TakeFrame
<1>2. /\ 1 \in DOMAIN control[d] /\ control[d][1] = h
      /\ DOMAIN control'[d] = 1..(Len(control[d]) - 1)
      /\ \A i \in DOMAIN control'[d] : /\ i \in Nat \ {0} /\ i + 1 \in DOMAIN control[d]
                                       /\ control'[d][i] = control[d][i + 1]
  <2>1. control[d] \in Seq(Callers) /\ control[d] # <<>> /\ control'[d] = Tail(control[d])
    BY <1>0, <1>1
  <2> QED BY <2>1
<1>3. \A i \in DOMAIN control[d] : i # 1 => i - 1 \in DOMAIN control'[d] /\ control'[d][i - 1] = control[d][i]
  <2>1. control[d] \in Seq(Callers) /\ control[d] # <<>> /\ control'[d] = Tail(control[d])
    BY <1>0, <1>1
  <2> QED BY <2>1
<1>4. call[h].pc = "wait" /\ call[h].dev = d
  BY <1>2 DEF Places, QueuedWaits
<1> HIDE DEF h
<1>5. \A e \in Devices : \A i \in DOMAIN control'[e] :
        control'[e][i] \in Callers /\ call[control'[e][i]].pc = "wait" /\ call[control'[e][i]].dev = e
  <2>1. ASSUME NEW e \in Devices, NEW i \in DOMAIN control'[e]
        PROVE  \E j \in DOMAIN control[e] : control'[e][i] = control[e][j]
    BY <1>1, <1>2
  <2> QED BY <1>0, <2>1 DEF Places, QueuedWaits
<1>6. QueuedWaits'
  BY <1>1, <1>5 DEF QueuedWaits
<1>7. HandWaits'
  BY <1>1, <1>4 DEF Places, HandWaits
<1>8. QueuedOnce'
  <2>1. ASSUME NEW i \in DOMAIN control'[d], NEW j \in DOMAIN control'[d], control'[d][i] = control'[d][j]
        PROVE  i = j
    <3>1. i + 1 = j + 1
      BY <1>2, <2>1 DEF Places, QueuedOnce
    <3> QED BY <1>2, <3>1
  <2>2. ASSUME NEW e \in Devices, e # d, NEW i \in DOMAIN control'[e], NEW j \in DOMAIN control'[e],
               control'[e][i] = control'[e][j]
        PROVE  i = j
    BY <1>1, <2>2 DEF Places, QueuedOnce
  <2> QED BY <2>1, <2>2 DEF QueuedOnce
<1>9. HandOrQueue'
  <2>1. ASSUME NEW i \in DOMAIN control'[d] PROVE control'[d][i] # h
    <3>1. i + 1 # 1
      BY <1>2
    <3> QED BY <1>2, <3>1 DEF Places, QueuedOnce
  <2>2. ASSUME NEW e \in Devices, e # d, NEW i \in DOMAIN control'[e] PROVE control'[e][i] # hand'[e].who
    BY <1>1, <2>2 DEF Places, HandOrQueue
  <2> QED BY <1>1, <2>1, <2>2 DEF HandOrQueue
<1>10. WaitsSomewhere'
  <2>1. ASSUME NEW c \in Callers, call[c].pc = "wait"
        PROVE  \/ hand'[call[c].dev].who = c
               \/ \E i \in DOMAIN control'[call[c].dev] : control'[call[c].dev][i] = c
    <3>1. CASE call[c].dev # d
      BY <1>0, <1>1, <2>1, <3>1 DEF Places, WaitsSomewhere
    <3>2. CASE call[c].dev = d
      <4>1. hand[d].who # c
        OBVIOUS
      <4>2. PICK i \in DOMAIN control[d] : control[d][i] = c
        BY <2>1, <3>2, <4>1 DEF Places, WaitsSomewhere
      <4>3. CASE i = 1
        BY <1>1, <1>2, <3>2, <4>2, <4>3
      <4>4. CASE i # 1
        BY <1>3, <3>2, <4>2, <4>4
      <4> QED BY <4>3, <4>4
    <3> QED BY <3>1, <3>2
  <2> QED BY <1>1, <2>1 DEF WaitsSomewhere
<1> QED BY <1>6, <1>7, <1>8, <1>9, <1>10 DEF Places

\* A handler that is not waiting is in no place, so asking and sending disturb none.
LEMMA CallerKeeps ==
  ASSUME TypeOK, Places, NEW c \in Callers, CallerStep(c)
  PROVE  /\ Places' /\ call[c].pc # "wait"
         /\ \A b \in Callers : b # c => call'[b] = call[b]
<1>0. /\ hand \in [Devices -> [who : Callers \cup {NoOne}, changed : BOOLEAN]]
      /\ control \in [Devices -> Seq(Callers)]
      /\ \A b \in Callers : call[b].dev \in Devices
      /\ \A e \in Devices : \A i \in DOMAIN control[e] : control[e][i] \in Callers
      /\ call \in [Callers -> [pc : {"idle", "send", "wait"}, verb : AllVerbs, dev : Devices,
                               renewed : BOOLEAN]]
  BY DEF TypeOK
<1>1. ASSUME call[c].pc # "wait", call'[c].pc # "wait", UNCHANGED <<hand, control>>,
             \A b \in Callers : b # c => call'[b] = call[b]
      PROVE  Places'
  <2>1. hand' = hand /\ control' = control
    BY <1>1
  <2>2. \A e \in Devices : /\ hand[e].who # c
                           /\ \A i \in DOMAIN control[e] : control[e][i] # c
    BY <1>1 DEF Places, QueuedWaits, HandWaits
  <2>3. QueuedWaits'
    <3>1. ASSUME NEW d \in Devices, NEW i \in DOMAIN control[d]
          PROVE  call'[control[d][i]].pc = "wait" /\ call'[control[d][i]].dev = d
      BY <1>0, <1>1, <2>2, <3>1 DEF Places, QueuedWaits
    <3> QED BY <2>1, <3>1 DEF QueuedWaits
  <2>4. HandWaits'
    <3>1. ASSUME NEW d \in Devices, hand[d].who # NoOne
          PROVE  call'[hand[d].who].pc = "wait" /\ call'[hand[d].who].dev = d
      BY <1>0, <1>1, <2>2, <3>1 DEF Places, HandWaits
    <3> QED BY <2>1, <3>1 DEF HandWaits
  <2>5. QueuedOnce' /\ HandOrQueue'
    BY <2>1 DEF Places, QueuedOnce, HandOrQueue
  <2>6. WaitsSomewhere'
    <3>1. ASSUME NEW b \in Callers, call'[b].pc = "wait"
          PROVE  \/ hand[call'[b].dev].who = b
                 \/ \E i \in DOMAIN control[call'[b].dev] : control[call'[b].dev][i] = b
      BY <1>1, <3>1 DEF Places, WaitsSomewhere
    <3> QED BY <2>1, <3>1 DEF WaitsSomewhere
  <2> QED BY <2>3, <2>4, <2>5, <2>6 DEF Places
<1>2. CASE Send(c) /\ task[call[c].dev] \in Gone
  <2>1. /\ call[c].pc = "send" /\ Answer({c}, "refused") /\ UNCHANGED <<hand, control>>
    BY <1>2 DEF Send
  <2>2. call'[c].pc # "wait" /\ \A b \in Callers : b # c => call'[b] = call[b]
    BY <2>1 DEF Answer, AtRest
  <2> QED BY <1>1, <2>1, <2>2
<1>3. CASE Send(c) /\ task[call[c].dev] \notin Gone
  <2> DEFINE d == call[c].dev
  <2>1. /\ call[c].pc = "send" /\ d \in Devices
        /\ control' = [control EXCEPT ![d] = Append(control[d], c)]
        /\ call' = [call EXCEPT ![c].pc = "wait"] /\ hand' = hand
    BY <1>0, <1>3 DEF Send
  <2>2. /\ call'[c].pc = "wait" /\ call'[c].dev = d
        /\ \A b \in Callers : b # c => call'[b] = call[b]
    BY <1>0, <2>1
  <2>3. \A e \in Devices : /\ hand[e].who # c
                           /\ \A i \in DOMAIN control[e] : control[e][i] # c
    <3>1. call[c].pc # "wait"
      BY <2>1
    <3> QED BY <3>1 DEF Places, QueuedWaits, HandWaits
  <2>4. /\ \A e \in Devices : e # d => control'[e] = control[e]
        /\ control[d] \in Seq(Callers) /\ control'[d] = Append(control[d], c)
    BY <1>0, <2>1
  <2> HIDE DEF d
  <2>5. /\ DOMAIN control'[d] = DOMAIN control[d] \cup {Len(control[d]) + 1}
        /\ control'[d][Len(control[d]) + 1] = c /\ Len(control[d]) + 1 \notin DOMAIN control[d]
        /\ \A i \in DOMAIN control[d] : control'[d][i] = control[d][i]
    BY <2>4
  <2>6. \A e \in Devices : \A i \in DOMAIN control'[e] :
          \/ e = d /\ i = Len(control[d]) + 1 /\ control'[e][i] = c
          \/ i \in DOMAIN control[e] /\ control'[e][i] = control[e][i]
    BY <2>4, <2>5
  <2>7. QueuedWaits'
    <3>1. ASSUME NEW e \in Devices, NEW i \in DOMAIN control'[e]
          PROVE  call'[control'[e][i]].pc = "wait" /\ call'[control'[e][i]].dev = e
      <4>1. CASE e = d /\ control'[e][i] = c
        BY <2>2, <4>1
      <4>2. CASE i \in DOMAIN control[e] /\ control'[e][i] = control[e][i]
        <5>1. control[e][i] \in Callers /\ control[e][i] # c
              /\ call[control[e][i]].pc = "wait" /\ call[control[e][i]].dev = e
          BY <1>0, <2>3, <4>2 DEF Places, QueuedWaits
        <5> QED BY <2>2, <4>2, <5>1
      <4> QED BY <2>6, <4>1, <4>2
    <3> QED BY <3>1 DEF QueuedWaits
  <2>8. HandWaits'
    <3>1. ASSUME NEW e \in Devices, hand[e].who # NoOne
          PROVE  call'[hand[e].who].pc = "wait" /\ call'[hand[e].who].dev = e
      BY <1>0, <2>2, <2>3, <3>1 DEF Places, HandWaits
    <3> QED BY <2>1, <3>1 DEF HandWaits
  <2>9. QueuedOnce'
    <3>1. ASSUME NEW e \in Devices, NEW i \in DOMAIN control'[e], NEW j \in DOMAIN control'[e],
                 control'[e][i] = control'[e][j]
          PROVE  i = j
      <4>1. CASE e = d /\ i = Len(control[d]) + 1 /\ control'[e][i] = c
        BY <2>3, <2>6, <3>1, <4>1
      <4>2. CASE e = d /\ j = Len(control[d]) + 1 /\ control'[e][j] = c
        BY <2>3, <2>6, <3>1, <4>2
      <4>3. CASE /\ i \in DOMAIN control[e] /\ control'[e][i] = control[e][i]
                 /\ j \in DOMAIN control[e] /\ control'[e][j] = control[e][j]
        BY <3>1, <4>3 DEF Places, QueuedOnce
      <4> QED BY <2>6, <3>1, <4>1, <4>2, <4>3
    <3> QED BY <3>1 DEF QueuedOnce
  <2>10. HandOrQueue'
    <3>1. ASSUME NEW e \in Devices, NEW i \in DOMAIN control'[e] PROVE control'[e][i] # hand[e].who
      BY <2>3, <2>6, <3>1 DEF Places, HandOrQueue
    <3> QED BY <2>1, <3>1 DEF HandOrQueue
  <2>11. WaitsSomewhere'
    <3>1. ASSUME NEW b \in Callers, call'[b].pc = "wait"
          PROVE  \/ hand[call'[b].dev].who = b
                 \/ \E i \in DOMAIN control'[call'[b].dev] : control'[call'[b].dev][i] = b
      <4>1. CASE b = c
        BY <2>2, <2>5, <4>1
      <4>2. CASE b # c
        <5>1. call'[b] = call[b] /\ call[b].dev \in Devices
          BY <1>0, <2>2, <4>2
        <5>2. \A i \in DOMAIN control[call[b].dev] :
                i \in DOMAIN control'[call[b].dev] /\ control'[call[b].dev][i] = control[call[b].dev][i]
          BY <2>4, <2>5, <5>1
        <5> QED BY <3>1, <5>1, <5>2 DEF Places, WaitsSomewhere
      <4> QED BY <4>1, <4>2
    <3> QED BY <2>1, <3>1 DEF WaitsSomewhere
  <2> QED BY <2>1, <2>2, <2>7, <2>8, <2>9, <2>10, <2>11 DEF Places
<1>4. ASSUME NEW verb \in Verbs, NEW d \in Devices, Ask(c, verb, d)
      PROVE  /\ Places' /\ call[c].pc # "wait"
             /\ \A b \in Callers : b # c => call'[b] = call[b]
  <2>1. call[c].pc = "idle" /\ UNCHANGED <<hand, control>>
    BY <1>4 DEF Ask, deviceVars
  <2>2. CASE verb = "repoll" /\ paused[d]
    <3>1. Answer({c}, "refused")
      BY <1>4, <2>2 DEF Ask
    <3>2. call'[c].pc # "wait" /\ \A b \in Callers : b # c => call'[b] = call[b]
      BY <3>1 DEF Answer, AtRest
    <3> QED BY <1>1, <2>1, <3>2
  <2>3. CASE ~(verb = "repoll" /\ paused[d])
    <3>1. call' = [call EXCEPT ![c] = [pc |-> "send", verb |-> verb, dev |-> d, renewed |-> FALSE]]
      BY <1>4, <2>3 DEF Ask
    <3>2. call'[c].pc # "wait" /\ \A b \in Callers : b # c => call'[b] = call[b]
      BY <1>0, <3>1
    <3> QED BY <1>1, <2>1, <3>2
  <2> QED BY <2>2, <2>3
<1> QED BY <1>2, <1>3, <1>4 DEF CallerStep

Free == {"top", "poll", "down", "snapshot", "stop"}

\* The steps of a task, by what they do to its calls: nothing...
Quiet(d) == \/ LinkLost(d) \/ Elapsed(d) \/ Top(d) \/ Cancelled(d) \/ Raise(d) \/ Snapshot(d)
            \/ Hasten(d) \/ Reconnect(d)

LEMMA QuietFrame ==
  ASSUME TypeOK, HandFree, NEW d \in Devices, Quiet(d)
  PROVE  /\ hand' = hand /\ control' = control /\ call' = call /\ said' = "none"
         /\ task'[d] \in Free => hand[d].who = NoOne
         /\ task'[d] # "announce"
<1>0. task \in [Devices -> TaskStates]
  BY DEF TypeOK
<1>1. CASE LinkLost(d) \/ Reconnect(d)
  BY <1>0, <1>1 DEF LinkLost, Reconnect, Drop, Silent, Free
<1>2. CASE Elapsed(d) \/ Raise(d) \/ Hasten(d)
  BY <1>0, <1>2 DEF Elapsed, Raise, Hasten, ToConnect, Silent, Free
<1>3. CASE Top(d) \/ Cancelled(d) \/ Snapshot(d)
  BY <1>0, <1>3 DEF Top, Cancelled, Snapshot, Silent, HandFree
<1> QED BY <1>1, <1>2, <1>3 DEF Quiet

\* ...the reply in hand is given...
Replying(d) == ConnectFail(d) \/ Announce(d) \/ Refuse(d) \/ Finish(d) \/ RepollFailed(d)

LEMMA ReplyFrame ==
  ASSUME TypeOK, NEW d \in Devices, Replying(d)
  PROVE  /\ hand' = [hand EXCEPT ![d] = Empty] /\ control' = control
         /\ \E r \in {"ok", "refused"} :
              /\ Answer({hand[d].who}, r)
              /\ r = "ok" => task[d] = "announce" \/ Asked(d) # "reconnect"
         /\ task'[d] # "announce"
<1>0. task \in [Devices -> TaskStates]
  BY DEF TypeOK
<1>1. CASE Finish(d)
  <2>1. PICK r \in {"ok", "refused"} : Reply(d, r)
    BY <1>1, FinishReplies
  <2>2. Answer({hand[d].who}, r) /\ hand' = [hand EXCEPT ![d] = Empty]
    BY <2>1 DEF Reply
  <2>3. Asked(d) # "reconnect" /\ control' = control /\ task'[d] # "announce"
    BY <1>0, <1>1, FinishFrame
  <2> QED BY <2>2, <2>3
<1>2. CASE Refuse(d)
  <2>1. /\ Asked(d) # "reconnect" /\ control' = control /\ task'[d] # "announce"
        /\ hand' = [hand EXCEPT ![d] = Empty]
    BY <1>0, <1>2 DEF Refuse, Reply
  <2>2. CASE Asked(d) \in {"pause", "resume"}
    <3>1. Answer({hand[d].who}, "ok")
      BY <1>2, <2>2 DEF Refuse, Reply
    <3> QED BY <2>1, <3>1
  <2>3. CASE Asked(d) \notin {"pause", "resume"}
    <3>1. Answer({hand[d].who}, "refused")
      BY <1>2, <2>3 DEF Refuse, Reply
    <3> QED BY <2>1, <3>1
  <2> QED BY <2>2, <2>3
<1>3. CASE ConnectFail(d)
  <2>1. Answer({hand[d].who}, "refused")
    BY <1>3 DEF ConnectFail
  <2> QED BY <1>0, <1>3, <2>1 DEF ConnectFail
<1>4. CASE Announce(d)
  <2>1. Answer({hand[d].who}, "ok") /\ task[d] = "announce"
    BY <1>4 DEF Announce
  <2> QED BY <1>0, <1>4, <2>1 DEF Announce
<1>5. CASE RepollFailed(d)
  <2>1. Answer({hand[d].who}, "refused")
    BY <1>5 DEF RepollFailed, Reply
  <2> QED BY <1>0, <1>5, <2>1 DEF RepollFailed, Reply, Drop
<1> QED BY <1>1, <1>2, <1>3, <1>4, <1>5 DEF Replying

\* ...or all that the task holds is settled.
Ending(d) == StopWhileDown(d) \/ StopCleanly(d) \/ AbortLands(d)

LEMMA EndFrame ==
  ASSUME TypeOK, NEW d \in Devices, Ending(d)
  PROVE  /\ hand' = [hand EXCEPT ![d] = Empty] /\ control' = [control EXCEPT ![d] = <<>>]
         /\ Answer(Stranded(d), "refused") /\ task'[d] # "announce"
<1>0. task \in [Devices -> TaskStates]
  BY DEF TypeOK
<1> QED BY <1>0 DEF Ending, StopWhileDown, StopCleanly, AbortLands, End

LEMMA FiveKinds ==
  ASSUME NEW d \in Devices, DeviceStep(d)
  PROVE  Quiet(d) \/ Replying(d) \/ Ending(d) \/ Take(d) \/ ConnectOk(d)
BY DEF DeviceStep, Working, Serving, Quiet, Replying, Ending

\* A task's step keeps the places, frees its hand where it must, and leaves the calls of
\* the other instances alone.
LEMMA DeviceCalls ==
  ASSUME TypeOK, Places, HandFree, NEW d \in Devices, DeviceStep(d)
  PROVE  /\ Places'
         /\ task'[d] \in Free => hand'[d].who = NoOne
         /\ \A e \in Devices : e # d => hand'[e] = hand[e]
         /\ \A c \in Callers : call[c].dev # d => call'[c] = call[c]
         /\ task'[d] = "announce" => ConnectOk(d)
<1>0. /\ hand \in [Devices -> [who : Callers \cup {NoOne}, changed : BOOLEAN]]
      /\ task \in [Devices -> TaskStates]
  BY DEF TypeOK
<1>1. CASE Quiet(d)
  <2>1. Places'
    BY <1>1, CallsStay, QuietFrame
  <2> QED BY <1>1, <2>1, QuietFrame
<1>2. CASE Replying(d)
  <2>1. PICK r \in {"ok", "refused"} : Answer({hand[d].who}, r)
    BY <1>2, ReplyFrame
  <2>2. Places'
    BY <1>2, <2>1, ReplyFrame, ReplyKeeps
  <2>3. hand'[d].who = NoOne /\ \A e \in Devices : e # d => hand'[e] = hand[e]
    <3>1. hand' = [hand EXCEPT ![d] = Empty]
      BY <1>2, ReplyFrame
    <3> QED BY <1>0, <3>1 DEF Empty
  <2>4. \A c \in Callers : call[c].dev # d => call'[c] = call[c]
    <3>1. \A c \in Callers : c = hand[d].who => call[c].dev = d
      BY DEF Places, HandWaits
    <3> QED BY <2>1, <3>1 DEF Answer
  <2> QED BY <1>2, <2>2, <2>3, <2>4, ReplyFrame
<1>3. CASE Ending(d)
  <2>1. Places'
    BY <1>3, EndFrame, EndKeeps
  <2>2. hand'[d].who = NoOne /\ \A e \in Devices : e # d => hand'[e] = hand[e]
    BY <1>0, <1>3, EndFrame DEF Empty
  <2>3. \A c \in Callers : call[c].dev # d => call'[c] = call[c]
    <3>1. \A c \in Callers : c \in Stranded(d) => call[c].dev = d
      BY DEF Places, HandWaits, QueuedWaits, Stranded
    <3>2. Answer(Stranded(d), "refused")
      BY <1>3, EndFrame
    <3> QED BY <3>1, <3>2 DEF Answer
  <2> QED BY <1>3, <2>1, <2>2, <2>3, EndFrame
<1>4. CASE Take(d)
  <2>1. hand[d].who = NoOne
    BY <1>4, TakeFrame DEF HandFree
  <2>2. Places'
    BY <1>4, <2>1, TakeKeeps
  <2>3. task'[d] \notin Free \cup {"announce"}
    <3>1. task' = [task EXCEPT ![d] = "serve"] \/ task' = [task EXCEPT ![d] = "refuse"]
      BY <1>4, TakeFrame
    <3> QED BY <1>0, <3>1 DEF Free
  <2>4. call' = call /\ \A e \in Devices : e # d => hand'[e] = hand[e]
    BY <1>0, <1>4, TakeFrame
  <2> QED BY <2>2, <2>3, <2>4
<1>5. CASE ConnectOk(d)
  <2>1. \A c \in Callers : /\ call'[c].pc = call[c].pc /\ call'[c].dev = call[c].dev
                           /\ call[c].dev # d => call'[c] = call[c]
    <3> TAKE c \in Callers
    <3>1. call'[c] = IF call[c].verb # "reconnect" \/ call[c].dev # d THEN call[c]
                     ELSE [call[c] EXCEPT !.renewed = TRUE]
      BY <1>5 DEF ConnectOk
    <3>2. call[c] \in [pc : {"idle", "send", "wait"}, verb : AllVerbs, dev : Devices,
                       renewed : BOOLEAN]
      BY DEF TypeOK
    <3> QED BY <3>1, <3>2
  <2>2. hand' = hand /\ control' = control /\ task'[d] = "announce"
    BY <1>0, <1>5 DEF ConnectOk
  <2>3. \A c \in Callers : call'[c].pc = call[c].pc /\ call'[c].dev = call[c].dev
    BY <2>1
  <2>4. Places'
    BY <2>2, <2>3, CallsStay
  <2>5. \A c \in Callers : call[c].dev # d => call'[c] = call[c]
    BY <2>1
  <2>6. task'[d] \notin Free
    BY <2>2 DEF Free
  <2> QED BY <1>5, <2>2, <2>4, <2>5, <2>6
<1> QED BY <1>1, <1>2, <1>3, <1>4, <1>5, FiveKinds

\* The teardown answers nobody and moves no command.
LEMMA TeardownSilent ==
  ASSUME TypeOK,
         \/ \E a \in Agents : AgentReturns(a)
         \/ Shutdown \/ Teardown \/ StopAcknowledged \/ Flushed
  PROVE  call' = call /\ hand' = hand /\ control' = control /\ said' = "none"
<1>1. CASE \/ \E a \in Agents : AgentReturns(a)
           \/ Shutdown \/ StopAcknowledged \/ Flushed
  BY <1>1 DEF AgentReturns, Shutdown, StopAcknowledged, Flushed, deviceVars, Silent
<1>2. CASE Abort
  BY <1>2 DEF Abort, Silent
<1>3. CASE Join \/ CancelAgents \/ StopUnanswered \/ FlushMetrics \/ FlushUnanswered \/ Tick
  BY <1>3 DEF Join, CancelAgents, StopAcknowledged, StopUnanswered, FlushMetrics, Flushed,
     FlushUnanswered, Tick, deviceVars, Silent
<1> QED BY <1>1, <1>2, <1>3 DEF Teardown

CallInv == Places /\ HandFree /\ Renewed

LEMMA CallInvKept ==
  ASSUME TypeOK, CallInv, [Next]_vars
  PROVE  CallInv'
<1>0. /\ task \in [Devices -> TaskStates]
      /\ hand \in [Devices -> [who : Callers \cup {NoOne}, changed : BOOLEAN]]
  BY DEF TypeOK
<1>1. Places /\ HandFree /\ Renewed
  BY DEF CallInv
<1>2. ASSUME NEW d \in Devices, DeviceStep(d) PROVE CallInv'
  <2>1. /\ Places'
        /\ task'[d] \in Free => hand'[d].who = NoOne
        /\ \A e \in Devices : e # d => hand'[e] = hand[e]
        /\ \A c \in Callers : call[c].dev # d => call'[c] = call[c]
        /\ task'[d] = "announce" => ConnectOk(d)
    BY <1>1, <1>2, DeviceCalls
  <2>2. \A e \in Devices : e # d => task'[e] = task[e]
    BY <1>0, <1>2, OwnStateOnly
  <2>3. HandFree'
    <3>1. ASSUME NEW e \in Devices, task'[e] \in Free PROVE hand'[e].who = NoOne
      BY <1>1, <2>1, <2>2, <3>1 DEF HandFree, Free
    <3> QED BY <3>1 DEF HandFree, Free
  <2>4. Renewed'
    <3>1. ASSUME NEW e \in Devices, task'[e] = "announce", hand'[e].who # NoOne,
                 call'[hand'[e].who].verb = "reconnect"
          PROVE  call'[hand'[e].who].renewed
      <4>1. CASE e # d
        <5>1. hand'[e] = hand[e] /\ task[e] = "announce"
          BY <2>1, <2>2, <3>1, <4>1
        <5>2. hand[e].who \in Callers /\ call[hand[e].who].dev = e
          BY <1>0, <1>1, <3>1, <5>1 DEF Places, HandWaits
        <5>3. call'[hand[e].who] = call[hand[e].who]
          BY <2>1, <4>1, <5>2
        <5> QED BY <1>1, <3>1, <5>1, <5>3 DEF Renewed
      <4>2. CASE e = d
        <5>1. ConnectOk(d) /\ hand' = hand
          BY <2>1, <3>1, <4>2 DEF ConnectOk
        <5> DEFINE c == hand[d].who
        <5>2. c \in Callers /\ call[c].dev = d /\ c # NoOne
          BY <1>0, <1>1, <3>1, <4>2, <5>1 DEF Places, HandWaits
        <5>3. /\ call'[c] = IF call[c].verb # "reconnect" \/ call[c].dev # d THEN call[c]
                            ELSE [call[c] EXCEPT !.renewed = TRUE]
              /\ call[c] \in [pc : {"idle", "send", "wait"}, verb : AllVerbs, dev : Devices,
                              renewed : BOOLEAN]
          BY <5>1, <5>2 DEF ConnectOk, TypeOK
        <5>4. call'[c].verb = "reconnect"
          BY <3>1, <4>2, <5>1
        <5> HIDE DEF c
        <5>5. call'[c].renewed
          BY <5>2, <5>3, <5>4
        <5> QED BY <4>2, <5>1, <5>5 DEF c
      <4> QED BY <4>1, <4>2
    <3> QED BY <3>1 DEF Renewed
  <2> QED BY <2>1, <2>3, <2>4 DEF CallInv
<1>3. ASSUME NEW c \in Callers, CallerStep(c) PROVE CallInv'
  <2>1. /\ Places' /\ call[c].pc # "wait"
        /\ \A b \in Callers : b # c => call'[b] = call[b]
    BY <1>1, <1>3, CallerKeeps
  <2>2. hand' = hand /\ task' = task
    <3>1. CASE Send(c)
      BY <3>1 DEF Send
    <3>2. CASE \E verb \in Verbs, d \in Devices : Ask(c, verb, d)
      BY <3>2 DEF Ask, deviceVars
    <3> QED BY <1>3, <3>1, <3>2 DEF CallerStep
  <2>3. \A d \in Devices : hand[d].who # NoOne => hand[d].who \in Callers /\ hand[d].who # c
    BY <1>0, <1>1, <2>1 DEF Places, HandWaits
  <2>4. HandFree'
    BY <1>1, <2>2 DEF HandFree
  <2>5. Renewed'
    <3>1. ASSUME NEW d \in Devices, task[d] = "announce", hand[d].who # NoOne,
                 call'[hand[d].who].verb = "reconnect"
          PROVE  call'[hand[d].who].renewed
      <4>1. call'[hand[d].who] = call[hand[d].who]
        BY <2>1, <2>3, <3>1
      <4> QED BY <1>1, <3>1, <4>1 DEF Renewed
    <3> QED BY <2>2, <3>1 DEF Renewed
  <2> QED BY <2>1, <2>4, <2>5 DEF CallInv
<1>4. CASE \/ \E a \in Agents : AgentReturns(a)
           \/ Shutdown \/ Teardown \/ StopAcknowledged \/ Flushed
  <2>1. call' = call /\ hand' = hand /\ control' = control
    BY <1>4, TeardownSilent
  <2>2. Places'
    BY <1>1, <2>1, CallsStay
  <2>3. \A d \in Devices : task'[d] \in Free \cup {"announce"} => task[d] = task'[d]
    <3>1. task' = task \/ \E t \in Devices : task' = [task EXCEPT ![t] = "aborting"]
      BY <1>4, DevicesUntouched
    <3> QED BY <1>0, <3>1 DEF Free
  <2>4. HandFree' /\ Renewed'
    BY <1>1, <2>1, <2>3 DEF HandFree, Renewed, Free
  <2> QED BY <2>2, <2>4 DEF CallInv
<1>5. CASE UNCHANGED vars
  <2>1. /\ task' = task /\ hand' = hand /\ control' = control /\ call' = call
    BY <1>5 DEF vars, deviceVars, callVars
  <2>2. Places'
    BY <1>1, <2>1, CallsStay
  <2> QED BY <1>1, <2>1, <2>2 DEF CallInv, HandFree, Renewed
<1> QED BY <1>2, <1>3, <1>4, <1>5 DEF Next

LEMMA CallInvHolds == Spec => []CallInv
<1>1. Init => CallInv
  BY DEF Init, CallInv, Places, QueuedWaits, HandWaits, QueuedOnce, HandOrQueue, WaitsSomewhere,
     HandFree, Renewed, Empty, AtRest
<1> QED BY <1>1, TypeCorrect, CallInvKept, PTL DEF Spec

\* A waiting caller's command or reply is in exactly one place: nobody waits on a reply
\* that was dropped, and none is held twice.
THEOREM RepliesHeldOnce == Spec => []HeldOnce
<1>1. ASSUME TypeOK, CallInv PROVE HeldOnce
  <2>1. ASSUME NEW c \in Callers, call[c].pc = "wait"
        PROVE  LET d      == call[c].dev
                   places == {i \in DOMAIN control[d] : control[d][i] = c}
               IN  Cardinality(places) + Held(c, d) = 1
    <3> DEFINE d      == call[c].dev
               places == {i \in DOMAIN control[d] : control[d][i] = c}
    <3>1. d \in Devices /\ Places /\ call[c].dev = d
      BY <1>1 DEF TypeOK, CallInv
    <3> HIDE DEF d
    <3>2. CASE hand[d].who = c
      <4>1. places = {}
        BY <3>1, <3>2 DEF Places, HandOrQueue
      <4>2. Cardinality(places) = 0
        BY <4>1, FS_EmptySet
      <4> HIDE DEF places
      <4> QED BY <3>2, <4>2 DEF Held, places, d
    <3>3. CASE hand[d].who # c
      <4>1. PICK i \in DOMAIN control[d] : control[d][i] = c
        BY <2>1, <3>1, <3>3 DEF Places, WaitsSomewhere
      <4>2. places = {i}
        BY <3>1, <4>1 DEF Places, QueuedOnce
      <4>3. Cardinality(places) = 1
        BY <4>2, FS_Singleton
      <4> HIDE DEF places
      <4> QED BY <3>3, <4>3 DEF Held, places, d
    <3> QED BY <3>2, <3>3
  <2> QED BY <2>1 DEF HeldOnce
<1> QED BY <1>1, TypeCorrect, CallInvHolds, PTL

\* A reconnect that reports success stands for a session established after it was asked
\* for.
THEOREM SuccessMeansNew == Spec => ReconnectMeansNew
<1> DEFINE Right == \A c \in Callers :
      call[c].verb = "reconnect" /\ call[c].pc = "wait" /\ call'[c].pc = "idle" /\ said' = "ok"
        => call[c].renewed
<1>1. ASSUME TypeOK, CallInv, [Next]_vars PROVE Right
  <2>0. Places /\ HandFree /\ Renewed
    BY <1>1 DEF CallInv
  <2>1. ASSUME NEW c \in Callers, call[c].verb = "reconnect", call[c].pc = "wait",
               call'[c].pc = "idle", said' = "ok"
        PROVE  call[c].renewed
    <3>1. ASSUME call' = call PROVE FALSE
      BY <2>1, <3>1
    <3>2. ASSUME NEW d \in Devices, DeviceStep(d) PROVE call[c].renewed
      <4>1. CASE Quiet(d)
        BY <2>0, <2>1, <1>1, <4>1, QuietFrame
      <4>2. CASE Replying(d)
        <5>1. PICK r \in {"ok", "refused"} :
                /\ Answer({hand[d].who}, r)
                /\ r = "ok" => task[d] = "announce" \/ Asked(d) # "reconnect"
          BY <1>1, <4>2, ReplyFrame
        <5>2. c = hand[d].who /\ r = "ok"
          BY <2>1, <5>1 DEF Answer
        <5>3. Asked(d) = "reconnect"
          BY <2>1, <5>2 DEF Asked
        <5>4. c # NoOne
          OBVIOUS
        <5> QED BY <2>0, <2>1, <5>1, <5>2, <5>3, <5>4 DEF Renewed
      <4>3. CASE Ending(d)
        <5>1. Answer(Stranded(d), "refused")
          BY <1>1, <4>3, EndFrame
        <5> QED BY <2>1, <5>1 DEF Answer
      <4>4. CASE Take(d)
        BY <1>1, <2>1, <4>4, TakeFrame
      <4>5. CASE ConnectOk(d)
        BY <2>1, <4>5 DEF ConnectOk
      <4> QED BY <3>2, <4>1, <4>2, <4>3, <4>4, <4>5, FiveKinds
    <3>3. ASSUME NEW b \in Callers, CallerStep(b) PROVE FALSE
      BY <1>1, <2>0, <2>1, <3>3, CallerKeeps
    <3>4. CASE \/ \E a \in Agents : AgentReturns(a)
               \/ Shutdown \/ Teardown \/ StopAcknowledged \/ Flushed
      BY <1>1, <3>1, <3>4, TeardownSilent
    <3>5. CASE UNCHANGED vars
      BY <3>1, <3>5 DEF vars, callVars
    <3> QED BY <1>1, <3>2, <3>3, <3>4, <3>5 DEF Next
  <2> QED BY <2>1
<1>2. TypeOK /\ CallInv /\ [Next]_vars => [Right]_vars
  BY <1>1
<1> QED BY <1>2, TypeCorrect, CallInvHolds, PTL DEF Spec, ReconnectMeansNew
=============================================================================
