--------------------------- MODULE InstanceQueue ---------------------------
(***************************************************************************)
(* One instance's event queue (src/src/mtconnect/mod.rs, "the two-lane     *)
(* instance queue"): a coalescible data lane and a loss-intolerant lane    *)
(* with a bounded wait for room, shared by the acquisition task, by any    *)
(* device task that happens to broadcast or dispatch, and by the session   *)
(* that drains it.                                                         *)
(*                                                                         *)
(* A step is what one holder of the queue mutex does, or one arm of the    *)
(* select! a blocked send waits in, so every interleaving of the sends,    *)
(* the drain, the drop of the receiver and the cancellation is a           *)
(* behaviour.  Event contents are abstracted to a key (a data item, or     *)
(* "the lifecycle events" as one loss-intolerant key) and an id that       *)
(* numbers the sends.                                                      *)
(***************************************************************************)
EXTENDS Integers, Sequences, FiniteSets

CONSTANTS
  Senders,         \* tasks holding a clone of the InstanceSender
  Acquirer,        \* the one that is the agent's acquisition task
  Keys,            \* data items and lifecycle events an event may be about
  LossIntolerant,  \* the keys is_loss_intolerant answers true for
  DataDepth,       \* INSTANCE_QUEUE_DEPTH
  CriticalDepth,   \* CRITICAL_QUEUE_DEPTH
  MaxSends         \* bound on the number of sends

ASSUME SendersFinite == IsFiniteSet(Senders)
ASSUME LanesOfKeys   == LossIntolerant \subseteq Keys
ASSUME DepthsPositive == /\ DataDepth \in Nat \ {0}
                         /\ CriticalDepth \in Nat \ {0}
ASSUME MaxSendsNat == MaxSends \in Nat

VARIABLES
  critical,   \* the loss-intolerant lane
  data,       \* the coalescible lane
  detached,   \* the receiver has been dropped
  counters,   \* the queue's own counters, not yet taken
  totals,     \* what fold_queue_counters added to the runtime's counters
  cancelled,  \* the acquisition task's cancellation token
  pc,         \* where each sender is inside send_on
  holding,    \* the event each sender is sending
  woken,      \* the sender's `room` future has been notified
  queued,     \* history: the sender's present event went into its lane
  answer,     \* what send_on last answered
  rcv,        \* what the receiver is doing
  sent,       \* history: sends begun, per lane
  drained,    \* history: events handed to the session, per lane
  discarded,  \* history: events cleared by the drop of the receiver, per lane
  seen        \* history: id of the last event of each key drained

vars == <<critical, data, detached, counters, totals, cancelled, pc, holding,
          woken, queued, answer, rcv, sent, drained, discarded, seen>>

senderVars  == <<pc, holding, woken, queued, answer>>
historyVars == <<sent, drained, discarded, seen>>

Lanes  == {"data", "critical"}
Event  == [id : Nat, key : Keys]
Tally  == [dropped_data : Nat, dropped_critical : Nat, coalesced : Nat]
NoLoss == [dropped_data |-> 0, dropped_critical |-> 0, coalesced |-> 0]
None   == [id |-> 0, key |-> "none"]

\* A sender inside send_critical, with the event still in its hands.
InFlight == {"check", "push", "arm", "offer", "wait", "drop"}
\* ...and one that was ended as it waited: the event went with its future.
Holding  == InFlight \cup {"gone"}
\* A sender whose `room` future exists: notify_waiters reaches it.
Armed    == {"offer", "wait"}

is_loss_intolerant(ev) == ev.key \in LossIntolerant

NextId == sent["data"] + sent["critical"] + 1

----------------------------------------------------------------------------

Init ==
  /\ critical = <<>> /\ data = <<>>
  /\ detached = FALSE /\ cancelled = FALSE
  /\ counters = NoLoss /\ totals = NoLoss
  /\ pc      = [s \in Senders |-> "idle"]
  /\ holding = [s \in Senders |-> None]
  /\ woken   = [s \in Senders |-> FALSE]
  /\ queued  = [s \in Senders |-> FALSE]
  /\ answer  = [s \in Senders |-> "none"]
  /\ rcv = "live"
  /\ sent = [l \in Lanes |-> 0] /\ drained = [l \in Lanes |-> 0]
  /\ discarded = [l \in Lanes |-> 0]
  /\ seen = [k \in Keys |-> 0]

----------------------------------------------------------------------------
(* send_data: one lock, never blocks.                                      *)

BeginData(s, k) ==
  /\ pc[s] = "idle" /\ k \in Keys \ LossIntolerant
  /\ NextId <= MaxSends
  /\ sent' = [sent EXCEPT !["data"] = @ + 1]
  /\ holding' = [holding EXCEPT ![s] = [id |-> NextId, key |-> k]]
  /\ pc' = [pc EXCEPT ![s] = "fold"]
  /\ UNCHANGED <<critical, detached, totals, cancelled, woken, answer, rcv,
                 drained, discarded, seen>>

\* The queued readings of this key; `position` finds the first of them.
Superseded(k) == {i \in DOMAIN data : data[i].key = k}
First(S) == CHOOSE i \in S : \A j \in S : i <= j

SendDataDetached(s, k) ==
  /\ BeginData(s, k)
  /\ detached
  /\ counters' = [counters EXCEPT !.dropped_data = @ + 1]
  /\ queued' = [queued EXCEPT ![s] = FALSE]
  /\ UNCHANGED data

SendDataRoom(s, k) ==
  /\ BeginData(s, k)
  /\ ~detached /\ Len(data) < DataDepth
  /\ data' = Append(data, holding'[s])
  /\ queued' = [queued EXCEPT ![s] = TRUE]
  /\ UNCHANGED counters

SendDataCoalesce(s, k) ==
  /\ BeginData(s, k)
  /\ ~detached /\ Len(data) >= DataDepth /\ Superseded(k) # {}
  /\ data' = [data EXCEPT ![First(Superseded(k))] = holding'[s]]
  /\ counters' = [counters EXCEPT !.coalesced = @ + 1]
  /\ queued' = [queued EXCEPT ![s] = TRUE]

\* Mutation: the eviction is not counted.
SendDataEvict_Silent(s, k) ==
  /\ BeginData(s, k)
  /\ ~detached /\ Len(data) >= DataDepth /\ Superseded(k) = {}
  /\ data' = Append(Tail(data), holding'[s])
  /\ queued' = [queued EXCEPT ![s] = TRUE]
  /\ UNCHANGED counters

SendDataEvict(s, k) ==
  /\ BeginData(s, k)
  /\ ~detached /\ Len(data) >= DataDepth /\ Superseded(k) = {}
  /\ data' = Append(Tail(data), holding'[s])
  /\ counters' = [counters EXCEPT !.dropped_data = @ + 1]
  /\ queued' = [queued EXCEPT ![s] = TRUE]

----------------------------------------------------------------------------
(* send_critical: check the token, push, and while the lane is full arm    *)
(* the `room` future, offer again and wait.                                *)

Goto(s, from, to) == pc[s] = from /\ pc' = [pc EXCEPT ![s] = to]

BeginCritical(s, k) ==
  /\ Goto(s, "idle", "check")
  /\ k \in LossIntolerant /\ NextId <= MaxSends
  /\ sent' = [sent EXCEPT !["critical"] = @ + 1]
  /\ holding' = [holding EXCEPT ![s] = [id |-> NextId, key |-> k]]
  /\ queued' = [queued EXCEPT ![s] = FALSE]
  /\ UNCHANGED <<critical, data, detached, counters, totals, cancelled, woken,
                 answer, rcv, drained, discarded, seen>>

CheckCancel(s) ==
  /\ Goto(s, "check", IF cancelled THEN "drop" ELSE "push")
  /\ UNCHANGED <<critical, data, detached, counters, totals, cancelled, holding,
                 woken, queued, answer, rcv, historyVars>>

\* Mutation: push_front for push_back.
TryPush_Front(s, from, full) ==
  /\ \/ detached /\ Goto(s, from, "drop") /\ UNCHANGED <<critical, queued>>
     \/ /\ ~detached /\ Len(critical) >= CriticalDepth
        /\ Goto(s, from, full) /\ UNCHANGED <<critical, queued>>
     \/ /\ ~detached /\ Len(critical) < CriticalDepth
        /\ Goto(s, from, "fold")
        /\ critical' = <<holding[s]>> \o critical
        /\ queued' = [queued EXCEPT ![s] = TRUE]
  /\ UNCHANGED <<data, detached, counters, totals, cancelled, holding, woken,
                 answer, rcv, historyVars>>

\* try_push_critical; a full lane hands the event back and goes on to `full`.
TryPush(s, from, full) ==
  /\ \/ /\ detached
        /\ Goto(s, from, "drop")
        /\ UNCHANGED <<critical, queued>>
     \/ /\ ~detached /\ Len(critical) >= CriticalDepth
        /\ Goto(s, from, full)
        /\ UNCHANGED <<critical, queued>>
     \/ /\ ~detached /\ Len(critical) < CriticalDepth
        /\ Goto(s, from, "fold")
        /\ critical' = Append(critical, holding[s])
        /\ queued' = [queued EXCEPT ![s] = TRUE]
  /\ UNCHANGED <<data, detached, counters, totals, cancelled, holding, woken,
                 answer, rcv, historyVars>>

Push(s)  == TryPush(s, "push", "arm")
Offer(s) == TryPush(s, "offer", "wait")

\* Mutation: once registered, the sender waits without offering again.
Arm_NoOffer(s) ==
  /\ Goto(s, "arm", "wait")
  /\ woken' = [woken EXCEPT ![s] = FALSE]
  /\ UNCHANGED <<critical, data, detached, counters, totals, cancelled, holding,
                 queued, answer, rcv, historyVars>>

\* Interest is registered BEFORE the event is offered again.
Arm(s) ==
  /\ Goto(s, "arm", "offer")
  /\ woken' = [woken EXCEPT ![s] = FALSE]
  /\ UNCHANGED <<critical, data, detached, counters, totals, cancelled, holding,
                 queued, answer, rcv, historyVars>>

LeaveWait(s, to) ==
  /\ Goto(s, "wait", to)
  /\ UNCHANGED <<critical, data, detached, counters, totals, cancelled, holding,
                 woken, queued, answer, rcv, historyVars>>

Wake(s)        == woken[s]  /\ LeaveWait(s, "arm")
GiveUp(s)      == cancelled /\ LeaveWait(s, "drop")
SpendBudget(s) == LeaveWait(s, "drop")

\* The future is dropped at its only await.  The acquisition task is wrapped in a
\* select! with the agent's token; a device task's connect in one with its own
\* token, and the teardown aborts a task that has not returned.
Abandon(s) == (s = Acquirer => cancelled) /\ LeaveWait(s, "gone")

count_critical_drop(s) ==
  /\ Goto(s, "drop", "fold")
  /\ counters' = [counters EXCEPT !.dropped_critical = @ + 1]
  /\ UNCHANGED <<critical, data, detached, totals, cancelled, holding, woken,
                 queued, answer, rcv, historyVars>>

Folded(t, c) ==
  [dropped_data     |-> t.dropped_data + c.dropped_data,
   dropped_critical |-> t.dropped_critical + c.dropped_critical,
   coalesced        |-> t.coalesced + c.coalesced]

\* The tail of send_on: take the queue's counters, whoever raised them, fold
\* them into the runtime's, and answer from what was taken.
FoldCounters(s) ==
  /\ Goto(s, "fold", "idle")
  /\ totals' = Folded(totals, counters)
  /\ counters' = NoLoss
  /\ answer' = [answer EXCEPT ![s] =
       IF counters.dropped_data = 0 /\ counters.dropped_critical = 0
       THEN "delivered" ELSE "lost"]
  /\ UNCHANGED <<critical, data, detached, cancelled, holding, woken, queued,
                 rcv, historyVars>>

----------------------------------------------------------------------------
(* The receiver: drain and drop, each a locked section and then a          *)
(* notify_waiters outside the lock.                                        *)

\* Ids of the drained events of a key, in the order the session gets them.
DrainOrder == critical \o data
LastOf(k) ==
  LET at == {i \in DOMAIN DrainOrder : DrainOrder[i].key = k}
  IN  IF at = {} THEN seen[k]
      ELSE DrainOrder[CHOOSE i \in at : \A j \in at : j <= i].id

Drain ==
  /\ rcv = "live"
  /\ rcv' = "notify"
  /\ critical' = <<>> /\ data' = <<>>
  /\ drained' = [drained EXCEPT !["critical"] = @ + Len(critical),
                                !["data"]     = @ + Len(data)]
  /\ seen' = [k \in Keys |-> LastOf(k)]
  /\ UNCHANGED <<detached, counters, totals, cancelled, senderVars, sent,
                 discarded>>

DropReceiver ==
  /\ rcv = "live"
  /\ rcv' = "closing"
  /\ detached' = TRUE
  /\ critical' = <<>> /\ data' = <<>>
  /\ discarded' = [discarded EXCEPT !["critical"] = @ + Len(critical),
                                    !["data"]     = @ + Len(data)]
  /\ UNCHANGED <<counters, totals, cancelled, senderVars, sent, drained, seen>>

\* Mutation: dropping the receiver notifies nobody.
NotifyWaiters_DrainOnly ==
  /\ rcv \in {"notify", "closing"}
  /\ rcv' = IF rcv = "notify" THEN "live" ELSE "gone"
  /\ woken' = [s \in Senders |-> woken[s] \/ (rcv = "notify" /\ pc[s] \in Armed)]
  /\ UNCHANGED <<critical, data, detached, counters, totals, cancelled, pc,
                 holding, queued, answer, historyVars>>

NotifyWaiters ==
  /\ rcv \in {"notify", "closing"}
  /\ rcv' = IF rcv = "notify" THEN "live" ELSE "gone"
  /\ woken' = [s \in Senders |-> woken[s] \/ pc[s] \in Armed]
  /\ UNCHANGED <<critical, data, detached, counters, totals, cancelled, pc,
                 holding, queued, answer, historyVars>>

Cancel ==
  /\ ~cancelled
  /\ cancelled' = TRUE
  /\ UNCHANGED <<critical, data, detached, counters, totals, senderVars, rcv,
                 historyVars>>

----------------------------------------------------------------------------

SendData(s, k) ==
  \/ SendDataDetached(s, k) \/ SendDataRoom(s, k)
  \/ SendDataCoalesce(s, k) \/ SendDataEvict(s, k)

\* What a sender does of itself, with no timer and no shutdown to help it.
SenderStep(s) ==
  \/ CheckCancel(s) \/ Push(s) \/ Arm(s) \/ Offer(s) \/ Wake(s)
  \/ count_critical_drop(s) \/ FoldCounters(s)

Next ==
  \/ \E s \in Senders, k \in Keys : SendData(s, k) \/ BeginCritical(s, k)
  \/ \E s \in Senders : SenderStep(s) \/ GiveUp(s) \/ SpendBudget(s) \/ Abandon(s)
  \/ Drain \/ DropReceiver \/ NotifyWaiters \/ Cancel

Spec == Init /\ [][Next]_vars

\* The scheduler runs every task: a sender that can go on does, and a drain or
\* a drop gets to its notification.
FairSpec ==
  /\ Spec
  /\ \A s \in Senders : WF_vars(SenderStep(s))
  /\ WF_vars(NotifyWaiters)

----------------------------------------------------------------------------
(* Properties.                                                             *)

LaneTypes ==
  /\ critical \in Seq(Event) /\ data \in Seq(Event)
  /\ detached \in BOOLEAN /\ cancelled \in BOOLEAN
  /\ rcv \in {"live", "notify", "closing", "gone"}

TallyTypes == counters \in Tally /\ totals \in Tally

SenderTypes ==
  /\ pc \in [Senders -> Holding \cup {"idle", "fold"}]
  /\ holding \in [Senders -> Event \cup {None}]
  /\ woken \in [Senders -> BOOLEAN] /\ queued \in [Senders -> BOOLEAN]
  /\ answer \in [Senders -> {"none", "delivered", "lost"}]

HistoryTypes ==
  /\ sent \in [Lanes -> Nat] /\ drained \in [Lanes -> Nat]
  /\ discarded \in [Lanes -> Nat]
  /\ seen \in [Keys -> Nat]

\* The type of the state; the counters are only ever raised and taken whole.
TypeOK == LaneTypes /\ TallyTypes /\ SenderTypes /\ HistoryTypes

\* Neither lane ever grows past its depth, and each holds only the events of
\* its class: the bounded-memory promise of the two constants.
LanesBounded ==
  /\ Len(data) <= DataDepth /\ Len(critical) <= CriticalDepth
  /\ \A i \in DOMAIN data : ~is_loss_intolerant(data[i])
  /\ \A i \in DOMAIN critical : is_loss_intolerant(critical[i])

\* No loss is silent: every reading sent is drained, still queued, cleared by
\* the drop of the receiver, superseded by a newer one or counted as dropped,
\* and counted once, whatever the senders' counter takes interleave.
DataConserved ==
  sent["data"] = drained["data"] + discarded["data"] + Len(data)
                 + counters.dropped_data + totals.dropped_data
                 + counters.coalesced + totals.coalesced

CriticalInHands(hands) ==
  sent["critical"] = drained["critical"] + discarded["critical"] + Len(critical)
                     + counters.dropped_critical + totals.dropped_critical
                     + Cardinality({s \in Senders : pc[s] \in hands})

\* The same for the loss-intolerant lane, where an event may also be in the hands
\* of a sender, and where a task that is ended while its send waits takes that one
\* event with it: it is neither delivered nor counted, and no other ever is.
CriticalConserved == CriticalInHands(Holding)

\* Both lanes together: what the heartbeat's loss counters promise, but for one
\* event of each task that was ended in a blocked send.
Conserved == DataConserved /\ CriticalConserved

\* What send_critical's comment says (mod.rs:350): past the budget, on cancellation,
\* or against a detached receiver the event is dropped and counted.  It does not
\* hold of the acquisition task, device tasks that were ended left aside.
CancelledIsCounted ==
  (\A s \in Senders \ {Acquirer} : pc[s] # "gone") => CriticalInHands(InFlight)

\* A blocked send never sleeps through a drain or through the consumer going
\* away: a sender waiting unnotified has a full lane and a live receiver in
\* front of it, or a notification on its way.
NoMissedWakeup ==
  \A s \in Senders :
    pc[s] = "wait" /\ ~woken[s] =>
      \/ Len(critical) >= CriticalDepth /\ ~detached
      \/ rcv \in {"notify", "closing"}

\* Only one task has sent so far: the acquisition task, and no mark of another.
Alone == \E s \in Senders : \A r \in Senders \ {s} : pc[r] = "idle" /\ answer[r] = "none"

\* What the comments of dispatch and send_on promise and service_attach_snapshots
\* trusts before it records dedupe floors: the answer says "whether the event
\* actually landed" (mod.rs:1989).  It does not hold of two senders at a time: the
\* counters of one may be taken by the other, and the answer is read off what is left.
DeliveredIsLanded ==
  \A s \in Senders : pc[s] = "idle" /\ answer[s] = "delivered" => queued[s]

\* ...it is true while one task sends.
DeliveredMeansQueued == Alone => DeliveredIsLanded

\* The session receives the events of one key in the order they were sent
\* (a newer reading is never followed by an older one of its data item).
Ascending(k) ==
  \A i, j \in DOMAIN DrainOrder :
    /\ DrainOrder[i].key = k => DrainOrder[i].id > seen[k]
    /\ i < j /\ DrainOrder[i].key = k /\ DrainOrder[j].key = k
         => DrainOrder[i].id < DrainOrder[j].id

\* ...for the data lane.
DataKeyOrder == \A k \in Keys \ LossIntolerant : Ascending(k)
\* ...for the loss-intolerant lane, while one task sends (FIFO, never reordered by the wait).
CriticalKeyOrder == Alone => \A k \in LossIntolerant : Ascending(k)

\* What a task that is alone may rely on: the loss-intolerant lane keeps its order
\* through every wait, and the answer of send_on is the truth about its event.
AloneIsExact == CriticalKeyOrder /\ DeliveredMeansQueued

\* Once the receiver is gone the lanes stay empty: nothing is enqueued for a
\* consumer that will never drain, not even by a send that was blocked.
GoneIsEmpty == detached => critical = <<>> /\ data = <<>>

\* Every send ends: when the consumer keeps draining (the session's ticker) or goes
\* away, with no help from the budget; and when the consumer has stalled for ever,
\* because the one budget of a blocked send is a timer and fires; unless its task is
\* ended first.
SendSettles == \A s \in Senders : pc[s] # "idle" ~> pc[s] \in {"idle", "gone"}

EitherWaySettles ==
  (WF_vars(Drain) \/ \A s \in Senders : WF_vars(SpendBudget(s))) => SendSettles
=============================================================================
