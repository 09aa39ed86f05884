------------------------ MODULE InstanceQueue_proofs ------------------------
(***************************************************************************)
(* What the two-lane queue guarantees for every number of senders, keys    *)
(* and sends and for every pair of lane depths.                            *)
(***************************************************************************)
EXTENDS InstanceQueue, FiniteSetTheorems, SequenceTheorems, WellFoundedInduction,
        TLAPS

USE SendersFinite, LanesOfKeys, DepthsPositive, MaxSendsNat

----------------------------------------------------------------------------
(* Sets of positions have a first and a last element.                      *)

LEMMA HasLeast ==
  ASSUME NEW S \in SUBSET Nat, S # {}
  PROVE  \E m \in S : \A i \in S : m <= i
<1>1. PICK m \in S : \A i \in S : ~(<<i, m>> \in OpToRel(<, Nat))
  BY NatLessThanWellFounded, WFMin
<1>2. \A i \in S : ~(i < m)
  BY <1>1 DEF OpToRel
<1>3. \A i \in S : i \in Nat
  OBVIOUS
<1>4. \A i \in S : m <= i
  BY <1>2, <1>3
<1> QED BY <1>4

LEMMA HasGreatest ==
  ASSUME NEW n \in Nat, NEW S \in SUBSET (0 .. n), S # {}
  PROVE  \E m \in S : \A i \in S : i <= m
<1> DEFINE R == {n - i : i \in S}
<1>1. \A i \in S : i \in Nat /\ n - i \in Nat
  OBVIOUS
<1>2. R \in SUBSET Nat /\ R # {}
  BY <1>1
<1> HIDE DEF R
<1>3. PICK r \in R : \A i \in R : r <= i
  BY <1>2, HasLeast
<1>4. PICK m \in S : r = n - m
  BY <1>3 DEF R
<1>5. \A i \in S : n - m <= n - i
  BY <1>3, <1>4 DEF R
<1>6. \A i \in S : i <= m
  BY <1>1, <1>5
<1> QED BY <1>6

LEMMA FirstIsIn == \A n \in Nat : \A S \in SUBSET (1 .. n) : S # {} => First(S) \in S
<1> SUFFICES ASSUME NEW n \in Nat, NEW S \in SUBSET (1 .. n), S # {}
             PROVE  First(S) \in S
  OBVIOUS
<1>1. \E m \in S : \A i \in S : m <= i
  <2>1. S \in SUBSET Nat
    OBVIOUS
  <2> QED BY <2>1, HasLeast
<1> QED BY <1>1 DEF First

LEMMA GreatestIsIn ==
  \A n \in Nat : \A S \in SUBSET (1 .. n) :
    S # {} => (CHOOSE i \in S : \A j \in S : j <= i) \in S
<1> SUFFICES ASSUME NEW n \in Nat, NEW S \in SUBSET (1 .. n), S # {}
             PROVE  (CHOOSE i \in S : \A j \in S : j <= i) \in S
  OBVIOUS
<1>1. \E m \in S : \A i \in S : i <= m
  <2>1. S \in SUBSET (0 .. n)
    OBVIOUS
  <2> QED BY <2>1, HasGreatest
<1> QED BY <1>1

----------------------------------------------------------------------------
(* The shape of the state.                                                 *)

Critical(s) == holding[s] \in Event /\ is_loss_intolerant(holding[s])

\* What a sender holds while it is inside send_critical.
HoldsCritical == \A s \in Senders : pc[s] \in InFlight => Critical(s)

\* The flag the senders read is set exactly from the moment of the drop.
DetachedOnDrop == detached <=> rcv \in {"closing", "gone"}

Shape == TypeOK /\ LanesBounded /\ HoldsCritical /\ DetachedOnDrop /\ GoneIsEmpty

LEMMA NextIdIsNat == HistoryTypes => NextId \in Nat
BY DEF HistoryTypes, NextId, Lanes

\* Every initial state has the shape.
LEMMA ShapeInit == Init => Shape
<1> SUFFICES ASSUME Init PROVE Shape
  OBVIOUS
<1>1. LaneTypes
  <2>1. critical \in Seq(Event) /\ data \in Seq(Event) /\ rcv = "live"
    BY DEF Init
  <2>2. detached \in BOOLEAN /\ cancelled \in BOOLEAN
    BY DEF Init
  <2> QED BY <2>1, <2>2 DEF LaneTypes
<1>2. TallyTypes
  BY DEF Init, TallyTypes, Tally, NoLoss
<1>3. SenderTypes
  BY DEF Init, SenderTypes
<1>4. HistoryTypes
  BY DEF Init, HistoryTypes
<1>5. LanesBounded
  BY DEF Init, LanesBounded
<1>6. HoldsCritical
  BY DEF Init, HoldsCritical, InFlight
<1>7. DetachedOnDrop /\ GoneIsEmpty
  BY DEF Init, DetachedOnDrop, GoneIsEmpty
<1> QED BY <1>1, <1>2, <1>3, <1>4, <1>5, <1>6, <1>7 DEF Shape, TypeOK

\* What the four arms of send_data share: everything but the lane, the
\* counters and `queued`.
LEMMA BeginDataShape ==
  ASSUME Shape, NEW s \in Senders, NEW k \in Keys, BeginData(s, k),
         queued' \in [Senders -> BOOLEAN]
  PROVE  /\ SenderTypes' /\ HistoryTypes' /\ HoldsCritical'
         /\ holding'[s] \in Event /\ ~is_loss_intolerant(holding'[s])
<1>1. NextId \in Nat
  BY NextIdIsNat DEF Shape, TypeOK
<1>2. holding'[s] = [id |-> NextId, key |-> k] /\ k \notin LossIntolerant
  BY DEF BeginData, Shape, TypeOK, SenderTypes
<1>3. holding'[s] \in Event /\ ~is_loss_intolerant(holding'[s])
  BY <1>1, <1>2 DEF Event, is_loss_intolerant
<1>4. SenderTypes'
  <2>1. pc' \in [Senders -> Holding \cup {"idle", "fold"}]
    BY DEF BeginData, Shape, TypeOK, SenderTypes
  <2>2. holding' \in [Senders -> Event \cup {None}]
    BY <1>2, <1>3 DEF BeginData, Shape, TypeOK, SenderTypes
  <2> QED BY <2>1, <2>2 DEF BeginData, Shape, TypeOK, SenderTypes
<1>5. HistoryTypes'
  BY DEF BeginData, Shape, TypeOK, HistoryTypes, Lanes
<1>6. HoldsCritical'
  BY DEF BeginData, Shape, TypeOK, SenderTypes, HoldsCritical, Critical, InFlight,
         is_loss_intolerant
<1> QED BY <1>3, <1>4, <1>5, <1>6

LEMMA SendDataShape ==
  ASSUME Shape, NEW s \in Senders, NEW k \in Keys, SendData(s, k)
  PROVE  Shape'
<1>1. queued' \in [Senders -> BOOLEAN]
  BY DEF SendData, SendDataDetached, SendDataRoom, SendDataCoalesce, SendDataEvict,
         Shape, TypeOK, SenderTypes
<1>2. BeginData(s, k)
  BY DEF SendData, SendDataDetached, SendDataRoom, SendDataCoalesce, SendDataEvict
<1>3. /\ SenderTypes' /\ HistoryTypes' /\ HoldsCritical'
      /\ holding'[s] \in Event /\ ~is_loss_intolerant(holding'[s])
  BY <1>1, <1>2, BeginDataShape
<1>4. /\ critical' = critical /\ detached' = detached /\ cancelled' = cancelled
      /\ rcv' = rcv /\ totals' = totals
  BY <1>2 DEF BeginData
<1>5. TallyTypes'
  <2>1. counters' \in Tally
    BY DEF SendData, SendDataDetached, SendDataRoom, SendDataCoalesce,
           SendDataEvict, Shape, TypeOK, TallyTypes, Tally
  <2> QED BY <1>4, <2>1 DEF Shape, TypeOK, TallyTypes
<1>6. /\ data' \in Seq(Event) /\ Len(data') <= DataDepth
      /\ \A i \in DOMAIN data' : ~is_loss_intolerant(data'[i])
      /\ detached => data' = data
  <2>1. /\ data \in Seq(Event) /\ Len(data) <= DataDepth
        /\ \A i \in DOMAIN data : ~is_loss_intolerant(data[i])
    BY DEF Shape, TypeOK, LaneTypes, LanesBounded
  <2>2. CASE SendDataDetached(s, k)
    BY <2>1, <2>2 DEF SendDataDetached
  <2>3. CASE SendDataRoom(s, k)
    <3>1. data' = Append(data, holding'[s]) /\ Len(data) < DataDepth /\ ~detached
      BY <2>3 DEF SendDataRoom
    <3>2. data' \in Seq(Event) /\ Len(data') = Len(data) + 1
      BY <1>3, <2>1, <3>1
    <3>3. \A i \in DOMAIN data' : data'[i] = IF i <= Len(data) THEN data[i]
                                             ELSE holding'[s]
      BY <1>3, <2>1, <3>1
    <3>4. \A i \in DOMAIN data' : ~is_loss_intolerant(data'[i])
      BY <1>3, <2>1, <3>2, <3>3 DEF is_loss_intolerant
    <3> QED BY <2>1, <3>1, <3>2, <3>4
  <2>4. CASE SendDataCoalesce(s, k)
    <3>1. /\ data' = [data EXCEPT ![First(Superseded(k))] = holding'[s]]
          /\ ~detached
      BY <2>4 DEF SendDataCoalesce
    <3>2. data' \in Seq(Event) /\ Len(data') = Len(data)
      <4> DEFINE i == First(Superseded(k))
      <4>1. i \in 1 .. Len(data)
        <5>1. /\ Len(data) \in Nat /\ Superseded(k) # {}
              /\ Superseded(k) \in SUBSET (1 .. Len(data))
          BY <2>1, <2>4 DEF SendDataCoalesce, Superseded
        <5> QED BY <5>1, FirstIsIn
      <4> HIDE DEF i
      <4>2. data' = [data EXCEPT ![i] = holding'[s]]
        BY <3>1 DEF i
      <4> QED BY <1>3, <2>1, <4>1, <4>2, ExceptSeq
    <3>3. \A i \in DOMAIN data' : i \in DOMAIN data
                                  /\ data'[i] \in {data[i], holding'[s]}
      BY <1>3, <2>1, <3>1
    <3>4. \A i \in DOMAIN data' : ~is_loss_intolerant(data'[i])
      BY <1>3, <2>1, <3>3 DEF is_loss_intolerant
    <3> QED BY <2>1, <3>1, <3>2, <3>4
  <2>5. CASE SendDataEvict(s, k)
    <3>1. /\ data' = Append(Tail(data), holding'[s])
          /\ Len(data) >= DataDepth /\ ~detached
      BY <2>5 DEF SendDataEvict
    <3>2. data # <<>>
      BY <2>1, <3>1
    <3>3. /\ Tail(data) \in Seq(Event) /\ Len(Tail(data)) = Len(data) - 1
          /\ \A i \in 1 .. Len(data) - 1 : Tail(data)[i] = data[i + 1]
      BY <2>1, <3>2
    <3>4. data' \in Seq(Event) /\ Len(data') = Len(data)
      BY <1>3, <2>1, <3>1, <3>3
    <3>5. \A i \in DOMAIN data' : data'[i] = IF i <= Len(data) - 1 THEN data[i + 1]
                                             ELSE holding'[s]
      BY <1>3, <2>1, <3>1, <3>3
    <3>6. \A i \in DOMAIN data' : ~is_loss_intolerant(data'[i])
      BY <1>3, <2>1, <3>4, <3>5 DEF is_loss_intolerant
    <3> QED BY <2>1, <3>1, <3>4, <3>6
  <2> QED BY <2>2, <2>3, <2>4, <2>5 DEF SendData
<1>7. LaneTypes'
  BY <1>4, <1>6 DEF Shape, TypeOK, LaneTypes
<1>8. LanesBounded'
  BY <1>4, <1>6 DEF Shape, LanesBounded, is_loss_intolerant
<1>9. DetachedOnDrop' /\ GoneIsEmpty'
  BY <1>4, <1>6 DEF Shape, DetachedOnDrop, GoneIsEmpty
<1> QED BY <1>3, <1>5, <1>7, <1>8, <1>9 DEF Shape, TypeOK

LEMMA BeginCriticalShape ==
  ASSUME Shape, NEW s \in Senders, NEW k \in Keys, BeginCritical(s, k)
  PROVE  Shape'
<1>1. NextId \in Nat
  BY NextIdIsNat DEF Shape, TypeOK
<1>2. /\ holding' = [holding EXCEPT ![s] = [id |-> NextId, key |-> k]]
      /\ k \in LossIntolerant
      /\ pc' = [pc EXCEPT ![s] = "check"] /\ queued' = [queued EXCEPT ![s] = FALSE]
      /\ sent' = [sent EXCEPT !["critical"] = @ + 1]
      /\ UNCHANGED <<critical, data, detached, counters, totals, cancelled, woken,
                     answer, rcv, drained, discarded, seen>>
  BY DEF BeginCritical, Goto
<1>3. [id |-> NextId, key |-> k] \in Event
  BY <1>1 DEF Event
<1>4. SenderTypes'
  <2>1. pc' \in [Senders -> Holding \cup {"idle", "fold"}]
    BY <1>2 DEF Shape, TypeOK, SenderTypes, InFlight, Holding
  <2>2. holding' \in [Senders -> Event \cup {None}]
    BY <1>2, <1>3 DEF Shape, TypeOK, SenderTypes
  <2> QED BY <1>2, <2>1, <2>2 DEF Shape, TypeOK, SenderTypes
<1>5. HistoryTypes'
  BY <1>2 DEF Shape, TypeOK, HistoryTypes, Lanes
<1>6. HoldsCritical'
  BY <1>2, <1>3 DEF Shape, TypeOK, SenderTypes, HoldsCritical, Critical, is_loss_intolerant
<1>7. LaneTypes' /\ TallyTypes' /\ LanesBounded' /\ DetachedOnDrop' /\ GoneIsEmpty'
  BY <1>2 DEF Shape, TypeOK, LaneTypes, TallyTypes, LanesBounded, is_loss_intolerant,
              DetachedOnDrop, GoneIsEmpty
<1> QED BY <1>4, <1>5, <1>6, <1>7 DEF Shape, TypeOK

LEMMA TryPushShape ==
  ASSUME Shape, NEW s \in Senders, NEW from \in {"push", "offer"},
         NEW full \in {"arm", "wait"}, TryPush(s, from, full)
  PROVE  Shape'
<1>1. /\ pc[s] = from
      /\ UNCHANGED <<data, detached, counters, totals, cancelled, holding, woken,
                     answer, rcv, sent, drained, discarded, seen>>
      /\ pc' \in {[pc EXCEPT ![s] = to] : to \in {"drop", "fold", full}}
      /\ queued' \in {queued, [queued EXCEPT ![s] = TRUE]}
  BY DEF TryPush, Goto, historyVars
<1>2. Critical(s)
  BY <1>1 DEF Shape, HoldsCritical, InFlight
<1>3. SenderTypes' /\ HistoryTypes' /\ TallyTypes'
  <2>1. pc' \in [Senders -> Holding \cup {"idle", "fold"}]
    BY <1>1 DEF Shape, TypeOK, SenderTypes, InFlight, Holding
  <2>2. queued' \in [Senders -> BOOLEAN]
    BY <1>1 DEF Shape, TypeOK, SenderTypes
  <2> QED BY <1>1, <2>1, <2>2 DEF Shape, TypeOK, SenderTypes, HistoryTypes, TallyTypes
<1>4. HoldsCritical'
  BY <1>1, <1>2 DEF Shape, TypeOK, SenderTypes, HoldsCritical, Critical, InFlight,
                    is_loss_intolerant
<1>5. /\ critical' \in Seq(Event) /\ Len(critical') <= CriticalDepth
      /\ \A i \in DOMAIN critical' : is_loss_intolerant(critical'[i])
      /\ detached => critical' = critical
  <2>1. /\ critical \in Seq(Event) /\ Len(critical) <= CriticalDepth
        /\ \A i \in DOMAIN critical : is_loss_intolerant(critical[i])
    BY DEF Shape, TypeOK, LaneTypes, LanesBounded
  <2>2. CASE critical' = critical
    BY <2>1, <2>2 DEF is_loss_intolerant
  <2>3. CASE /\ critical' = Append(critical, holding[s])
             /\ Len(critical) < CriticalDepth /\ ~detached
    <3>1. critical' \in Seq(Event) /\ Len(critical') = Len(critical) + 1
      BY <1>2, <2>1, <2>3 DEF Critical
    <3>2. \A i \in DOMAIN critical' :
            critical'[i] = IF i <= Len(critical) THEN critical[i] ELSE holding[s]
      BY <1>2, <2>1, <2>3 DEF Critical
    <3>3. \A i \in DOMAIN critical' : is_loss_intolerant(critical'[i])
      BY <1>2, <2>1, <3>1, <3>2 DEF is_loss_intolerant, Critical
    <3> QED BY <2>1, <2>3, <3>1, <3>3
  <2> QED BY <2>2, <2>3 DEF TryPush
<1>6. LaneTypes' /\ LanesBounded'
  BY <1>1, <1>5 DEF Shape, TypeOK, LaneTypes, LanesBounded, is_loss_intolerant
<1>7. DetachedOnDrop' /\ GoneIsEmpty'
  BY <1>1, <1>5 DEF Shape, DetachedOnDrop, GoneIsEmpty
<1> QED BY <1>3, <1>4, <1>6, <1>7 DEF Shape, TypeOK

\* The steps of a sender that move neither an event nor a counter.
LEMMA WaitingShape ==
  ASSUME Shape, NEW s \in Senders,
         \/ CheckCancel(s) \/ Arm(s) \/ Wake(s) \/ GiveUp(s) \/ SpendBudget(s)
         \/ Abandon(s)
  PROVE  Shape'
<1>1. /\ UNCHANGED <<critical, data, detached, counters, totals, cancelled, holding,
                     queued, answer, rcv, sent, drained, discarded, seen>>
      /\ pc[s] \in InFlight
      /\ pc' \in {[pc EXCEPT ![s] = to] : to \in Holding}
      /\ woken' \in {woken, [woken EXCEPT ![s] = FALSE]}
  BY DEF CheckCancel, Arm, Wake, GiveUp, SpendBudget, Abandon, LeaveWait, Goto,
         InFlight, Holding, historyVars
<1>2. SenderTypes'
  <2>1. pc' \in [Senders -> Holding \cup {"idle", "fold"}]
    BY <1>1 DEF Shape, TypeOK, SenderTypes
  <2>2. woken' \in [Senders -> BOOLEAN]
    BY <1>1 DEF Shape, TypeOK, SenderTypes
  <2> QED BY <1>1, <2>1, <2>2 DEF Shape, TypeOK, SenderTypes
<1>3. HoldsCritical'
  BY <1>1 DEF Shape, TypeOK, SenderTypes, HoldsCritical, Critical, is_loss_intolerant
<1>4. LaneTypes' /\ TallyTypes' /\ HistoryTypes' /\ LanesBounded'
  BY <1>1 DEF Shape, TypeOK, LaneTypes, TallyTypes, HistoryTypes, LanesBounded,
              is_loss_intolerant
<1>5. DetachedOnDrop' /\ GoneIsEmpty'
  BY <1>1 DEF Shape, DetachedOnDrop, GoneIsEmpty
<1> QED BY <1>2, <1>3, <1>4, <1>5 DEF Shape, TypeOK

\* The end of a send: the drop is counted, the counters are folded in.
LEMMA CountingShape ==
  ASSUME Shape, NEW s \in Senders, count_critical_drop(s) \/ FoldCounters(s)
  PROVE  Shape'
<1>1. /\ UNCHANGED <<critical, data, detached, cancelled, holding, woken, queued,
                     rcv, sent, drained, discarded, seen>>
      /\ pc' \in {[pc EXCEPT ![s] = to] : to \in {"fold", "idle"}}
      /\ \/ answer' = answer
         \/ \E a \in {"delivered", "lost"} : answer' = [answer EXCEPT ![s] = a]
  BY DEF count_critical_drop, FoldCounters, Goto, historyVars
<1>2. TallyTypes'
  BY DEF count_critical_drop, FoldCounters, Folded, Shape, TypeOK, TallyTypes, Tally,
         NoLoss
<1>3. SenderTypes'
  <2>1. pc' \in [Senders -> Holding \cup {"idle", "fold"}]
    BY <1>1 DEF Shape, TypeOK, SenderTypes
  <2>2. answer' \in [Senders -> {"none", "delivered", "lost"}]
    BY <1>1 DEF Shape, TypeOK, SenderTypes
  <2> QED BY <1>1, <2>1, <2>2 DEF Shape, TypeOK, SenderTypes
<1>4. HoldsCritical'
  BY <1>1 DEF Shape, TypeOK, SenderTypes, HoldsCritical, Critical, InFlight,
              is_loss_intolerant
<1>5. LaneTypes' /\ HistoryTypes' /\ LanesBounded'
  BY <1>1 DEF Shape, TypeOK, LaneTypes, HistoryTypes, LanesBounded,
              is_loss_intolerant
<1>6. DetachedOnDrop' /\ GoneIsEmpty'
  BY <1>1 DEF Shape, DetachedOnDrop, GoneIsEmpty
<1> QED BY <1>2, <1>3, <1>4, <1>5, <1>6 DEF Shape, TypeOK

LEMMA LastOfIsNat ==
  ASSUME TypeOK, NEW k \in Keys
  PROVE  LastOf(k) \in Nat
<1>1. DrainOrder \in Seq(Event) /\ seen[k] \in Nat
  BY DEF DrainOrder, TypeOK, LaneTypes, HistoryTypes
<1> DEFINE at == {i \in DOMAIN DrainOrder : DrainOrder[i].key = k}
           last == CHOOSE i \in at : \A j \in at : j <= i
<1>2. CASE at = {}
  BY <1>1, <1>2 DEF LastOf
<1>3. CASE at # {}
  <2>1. Len(DrainOrder) \in Nat /\ at \in SUBSET (1 .. Len(DrainOrder))
    BY <1>1
  <2>2. last \in at
    BY <1>3, <2>1, GreatestIsIn
  <2> HIDE DEF last
  <2>3. DrainOrder[last] \in Event
    BY <1>1, <2>2
  <2>4. DrainOrder[last].id \in Nat
    BY <2>3 DEF Event
  <2>5. LastOf(k) = DrainOrder[last].id
    BY <1>3 DEF LastOf, last
  <2> QED BY <2>4, <2>5
<1> QED BY <1>2, <1>3

LEMMA ReceiverShape ==
  ASSUME Shape, Drain \/ DropReceiver \/ NotifyWaiters \/ Cancel
  PROVE  Shape'
<1>1. UNCHANGED <<counters, totals, pc, holding, queued, answer, sent>>
  BY DEF Drain, DropReceiver, NotifyWaiters, Cancel, senderVars, historyVars
<1>2. /\ \/ critical' = critical /\ data' = data
         \/ critical' = <<>> /\ data' = <<>>
      /\ rcv' \in {rcv, "live", "notify", "closing", "gone"}
  BY DEF Drain, DropReceiver, NotifyWaiters, Cancel, senderVars, historyVars
<1>3. LaneTypes'
  <2>1. critical' \in Seq(Event) /\ data' \in Seq(Event)
    <3>1. /\ critical \in Seq(Event) /\ data \in Seq(Event)
          /\ <<>> \in Seq(Event)
      BY DEF Shape, TypeOK, LaneTypes
    <3> QED BY <1>2, <3>1
  <2>2. detached' \in BOOLEAN /\ cancelled' \in BOOLEAN
    <3>1. detached \in BOOLEAN /\ cancelled \in BOOLEAN
      BY DEF Shape, TypeOK, LaneTypes
    <3>2. CASE Drain \/ NotifyWaiters
      BY <3>1, <3>2, Zenon DEF Drain, NotifyWaiters
    <3>3. CASE DropReceiver
      BY <3>1, <3>3, Zenon DEF DropReceiver
    <3>4. CASE Cancel
      BY <3>1, <3>4, Zenon DEF Cancel
    <3> QED BY <3>2, <3>3, <3>4
  <2>3. rcv' \in {"live", "notify", "closing", "gone"}
    BY <1>2 DEF Shape, TypeOK, LaneTypes
  <2> QED BY <2>1, <2>2, <2>3 DEF LaneTypes
<1>4. TallyTypes' /\ SenderTypes'
  <2>1. woken' \in [Senders -> BOOLEAN]
    BY DEF Drain, DropReceiver, NotifyWaiters, Cancel, senderVars, Shape, TypeOK,
           SenderTypes
  <2> QED BY <1>1, <2>1 DEF Shape, TypeOK, TallyTypes, SenderTypes
<1>5. HistoryTypes'
  <2>1. Len(critical) \in Nat /\ Len(data) \in Nat
    BY DEF Shape, TypeOK, LaneTypes
  <2>2. CASE Drain
    <3>1. seen' \in [Keys -> Nat]
      BY <2>2, LastOfIsNat DEF Drain, Shape
    <3>2. drained' \in [Lanes -> Nat]
      BY <2>1, <2>2 DEF Drain, Shape, TypeOK, HistoryTypes, Lanes
    <3> QED BY <1>1, <2>2, <3>1, <3>2 DEF Drain, Shape, TypeOK, HistoryTypes
  <2>3. CASE DropReceiver
    <3>1. discarded' \in [Lanes -> Nat]
      BY <2>1, <2>3 DEF DropReceiver, Shape, TypeOK, HistoryTypes, Lanes
    <3> QED BY <1>1, <2>3, <3>1 DEF DropReceiver, Shape, TypeOK, HistoryTypes
  <2>4. CASE NotifyWaiters \/ Cancel
    BY <2>4 DEF NotifyWaiters, Cancel, historyVars, Shape, TypeOK, HistoryTypes
  <2> QED BY <2>2, <2>3, <2>4
<1>6. LanesBounded'
  BY <1>2 DEF Shape, LanesBounded, is_loss_intolerant
<1>7. HoldsCritical'
  BY <1>1 DEF Shape, HoldsCritical, Critical, is_loss_intolerant
<1>8. DetachedOnDrop' /\ GoneIsEmpty'
  BY DEF Drain, DropReceiver, NotifyWaiters, Cancel, Shape, DetachedOnDrop,
         GoneIsEmpty
<1> QED BY <1>3, <1>4, <1>5, <1>6, <1>7, <1>8 DEF Shape, TypeOK

LEMMA ShapeStep == Shape /\ [Next]_vars => Shape'
<1> SUFFICES ASSUME Shape, [Next]_vars PROVE Shape'
  OBVIOUS
<1>1. ASSUME NEW s \in Senders, NEW k \in Keys, SendData(s, k) PROVE Shape'
  BY <1>1, SendDataShape
<1>2. ASSUME NEW s \in Senders, NEW k \in Keys, BeginCritical(s, k) PROVE Shape'
  BY <1>2, BeginCriticalShape
<1>3. ASSUME NEW s \in Senders, SenderStep(s) \/ GiveUp(s) \/ SpendBudget(s) \/ Abandon(s)
      PROVE  Shape'
  <2>1. CASE Push(s) \/ Offer(s)
    BY <2>1, TryPushShape DEF Push, Offer
  <2>2. CASE CheckCancel(s) \/ Arm(s) \/ Wake(s) \/ GiveUp(s) \/ SpendBudget(s) \/ Abandon(s)
    BY <2>2, WaitingShape
  <2>3. CASE count_critical_drop(s) \/ FoldCounters(s)
    BY <2>3, CountingShape
  <2> QED BY <1>3, <2>1, <2>2, <2>3 DEF SenderStep
<1>4. CASE Drain \/ DropReceiver \/ NotifyWaiters \/ Cancel
  BY <1>4, ReceiverShape
<1>5. CASE UNCHANGED vars
  BY <1>5 DEF vars, Shape, TypeOK, LaneTypes, TallyTypes, SenderTypes, HistoryTypes,
      LanesBounded, HoldsCritical, Critical, DetachedOnDrop, GoneIsEmpty,
      is_loss_intolerant
<1> QED BY <1>1, <1>2, <1>3, <1>4, <1>5 DEF Next

----------------------------------------------------------------------------
\* The state of the queue is always well formed.
THEOREM TypeCorrect == Spec => []TypeOK
<1>1. Shape => TypeOK
  BY DEF Shape
<1> QED BY <1>1, ShapeInit, ShapeStep, PTL DEF Spec

\* The bounded-memory promise: neither lane ever holds more than its depth, nor
\* an event of the other class, for every number of senders.
THEOREM BoundedLanes == Spec => []LanesBounded
<1>1. Shape => LanesBounded
  BY DEF Shape
<1> QED BY <1>1, ShapeInit, ShapeStep, PTL DEF Spec

\* Nothing is ever queued for a receiver that has been dropped.
THEOREM NothingForTheGone == Spec => []GoneIsEmpty
<1>1. Shape => GoneIsEmpty
  BY DEF Shape
<1> QED BY <1>1, ShapeInit, ShapeStep, PTL DEF Spec

----------------------------------------------------------------------------
(* No wakeup is missed.  Given the shape the property is inductive: the    *)
(* only step into "wait" finds the lane full and the receiver there, and   *)
(* whoever empties the lane or leaves owes a notification.                 *)

LEMMA WakeupStep == Shape /\ NoMissedWakeup /\ [Next]_vars => NoMissedWakeup'
<1> SUFFICES ASSUME Shape, NoMissedWakeup, [Next]_vars,
                    NEW t \in Senders, pc'[t] = "wait", ~woken'[t]
             PROVE  \/ Len(critical') >= CriticalDepth /\ ~detached'
                    \/ rcv' \in {"notify", "closing"}
  BY DEF NoMissedWakeup
<1>1. /\ pc \in [Senders -> Holding \cup {"idle", "fold"}]
      /\ woken \in [Senders -> BOOLEAN] /\ critical \in Seq(Event)
  BY DEF Shape, TypeOK, SenderTypes, LaneTypes
<1>2. pc[t] = "wait" /\ ~woken[t] =>
        \/ Len(critical) >= CriticalDepth /\ ~detached
        \/ rcv \in {"notify", "closing"}
  BY DEF NoMissedWakeup
<1>3. ASSUME NEW s \in Senders, NEW k \in Keys,
             SendData(s, k) \/ BeginCritical(s, k)
      PROVE  \/ Len(critical') >= CriticalDepth /\ ~detached'
             \/ rcv' \in {"notify", "closing"}
  <2>1. /\ UNCHANGED <<critical, detached, woken, rcv>>
        /\ pc' \in {[pc EXCEPT ![s] = to] : to \in {"fold", "check"}}
    BY <1>3 DEF SendData, SendDataDetached, SendDataRoom, SendDataCoalesce,
                SendDataEvict, BeginData, BeginCritical, Goto
  <2>2. pc[t] = "wait"
    BY <1>1, <2>1
  <2> QED BY <1>2, <2>1, <2>2
<1>4. ASSUME NEW s \in Senders, Push(s) \/ Offer(s)
      PROVE  \/ Len(critical') >= CriticalDepth /\ ~detached'
             \/ rcv' \in {"notify", "closing"}
  <2>1. /\ UNCHANGED <<detached, woken, rcv>>
        /\ \/ critical' = critical /\ pc' = [pc EXCEPT ![s] = "drop"]
           \/ /\ critical' = critical /\ Len(critical) >= CriticalDepth
              /\ ~detached /\ pc' \in {[pc EXCEPT ![s] = "arm"], [pc EXCEPT ![s] = "wait"]}
           \/ /\ critical' = Append(critical, holding[s])
              /\ pc' = [pc EXCEPT ![s] = "fold"]
    BY <1>4 DEF Push, Offer, TryPush, Goto
  <2>2. CASE critical' = critical /\ Len(critical) >= CriticalDepth /\ ~detached
    BY <2>1, <2>2
  <2>3. CASE critical' = critical /\ pc' = [pc EXCEPT ![s] = "drop"]
    <3>1. pc[t] = "wait"
      BY <1>1, <2>3
    <3> QED BY <1>2, <2>1, <2>3, <3>1
  <2>4. CASE /\ critical' = Append(critical, holding[s])
             /\ pc' = [pc EXCEPT ![s] = "fold"]
    <3>1. pc[t] = "wait"
      BY <1>1, <2>4
    <3>2. Critical(s)
      BY <1>4 DEF Push, Offer, TryPush, Goto, Shape, HoldsCritical, InFlight
    <3>3. Len(critical') = Len(critical) + 1
      BY <1>1, <2>4, <3>2 DEF Critical
    <3>4. Len(critical) \in Nat
      BY <1>1
    <3> QED BY <1>2, <2>1, <3>1, <3>3, <3>4
  <2> QED BY <2>1, <2>2, <2>3, <2>4
<1>5. ASSUME NEW s \in Senders,
             \/ CheckCancel(s) \/ Arm(s) \/ Wake(s) \/ GiveUp(s) \/ SpendBudget(s) \/ Abandon(s)
             \/ count_critical_drop(s) \/ FoldCounters(s)
      PROVE  \/ Len(critical') >= CriticalDepth /\ ~detached'
             \/ rcv' \in {"notify", "closing"}
  <2>1. /\ UNCHANGED <<critical, detached, rcv>>
        /\ pc' \in {[pc EXCEPT ![s] = to] :
                      to \in {"push", "drop", "offer", "arm", "fold", "idle", "gone"}}
        /\ \/ woken' = woken
           \/ /\ pc' = [pc EXCEPT ![s] = "offer"]
              /\ woken' = [woken EXCEPT ![s] = FALSE]
    BY <1>5 DEF CheckCancel, Arm, Wake, GiveUp, SpendBudget, Abandon, LeaveWait, Goto,
                count_critical_drop, FoldCounters
  <2>2. t # s /\ pc[t] = "wait"
    BY <1>1, <2>1
  <2>3. ~woken[t]
    BY <1>1, <2>1, <2>2
  <2> QED BY <1>2, <2>1, <2>2, <2>3
<1>6. CASE Drain \/ DropReceiver
  BY <1>6 DEF Drain, DropReceiver
<1>7. CASE NotifyWaiters
  <2>1. pc' = pc /\ woken'[t] = (woken[t] \/ pc[t] \in Armed)
    BY <1>7 DEF NotifyWaiters
  <2> QED BY <2>1 DEF Armed
<1>8. CASE Cancel \/ UNCHANGED vars
  BY <1>2, <1>8 DEF Cancel, senderVars, vars
<1> QED BY <1>3, <1>4, <1>5, <1>6, <1>7, <1>8 DEF Next, SenderStep

\* A send blocked on a full lane cannot sleep through the drain that makes
\* room, nor through the receiver's drop, whatever the number of senders.
THEOREM WakeupNotMissed == Spec => []NoMissedWakeup
<1>1. Init => NoMissedWakeup
  BY DEF Init, NoMissedWakeup
<1> QED BY <1>1, ShapeInit, ShapeStep, WakeupStep, PTL DEF Spec

----------------------------------------------------------------------------
(* No loss is silent.                                                      *)

\* What a drain, a drop or a send does to the length of the data lane.
LEMMA DataLengths ==
  ASSUME Shape, NEW s \in Senders, NEW k \in Keys, SendData(s, k)
  PROVE  /\ SendDataDetached(s, k) => Len(data') = Len(data)
         /\ SendDataRoom(s, k) => Len(data') = Len(data) + 1
         /\ SendDataCoalesce(s, k) => Len(data') = Len(data)
         /\ SendDataEvict(s, k) => Len(data') = Len(data)
<1>1. data \in Seq(Event) /\ DataDepth >= 1
  BY DEF Shape, TypeOK, LaneTypes
<1>2. holding'[s] \in Event
  <2>1. queued' \in [Senders -> BOOLEAN]
    BY DEF SendData, SendDataDetached, SendDataRoom, SendDataCoalesce,
           SendDataEvict, Shape, TypeOK, SenderTypes
  <2>2. BeginData(s, k)
    BY DEF SendData, SendDataDetached, SendDataRoom, SendDataCoalesce, SendDataEvict
  <2> QED BY <2>1, <2>2, BeginDataShape
<1>3. SendDataDetached(s, k) => Len(data') = Len(data)
  BY DEF SendDataDetached
<1>4. SendDataRoom(s, k) => Len(data') = Len(data) + 1
  BY <1>1, <1>2 DEF SendDataRoom
<1>5. SendDataCoalesce(s, k) => Len(data') = Len(data)
  BY <1>1, <1>2 DEF SendDataCoalesce
<1>6. ASSUME SendDataEvict(s, k) PROVE Len(data') = Len(data)
  <2>1. data # <<>> /\ data' = Append(Tail(data), holding'[s])
    BY <1>1, <1>6 DEF SendDataEvict
  <2>2. Tail(data) \in Seq(Event) /\ Len(Tail(data)) = Len(data) - 1
    BY <1>1, <2>1
  <2> QED BY <1>1, <1>2, <2>1, <2>2
<1> QED BY <1>3, <1>4, <1>5, <1>6

LEMMA Naturals ==
  ASSUME Shape
  PROVE  /\ Len(data) \in Nat /\ Len(critical) \in Nat
         /\ \A l \in Lanes : sent[l] \in Nat /\ drained[l] \in Nat /\ discarded[l] \in Nat
         /\ \A f \in {"dropped_data", "dropped_critical", "coalesced"} :
              counters[f] \in Nat /\ totals[f] \in Nat
<1>1. Len(data) \in Nat /\ Len(critical) \in Nat
  BY DEF Shape, TypeOK, LaneTypes
<1>2. \A l \in Lanes : sent[l] \in Nat /\ drained[l] \in Nat /\ discarded[l] \in Nat
  BY DEF Shape, TypeOK, HistoryTypes
<1>3. \A f \in {"dropped_data", "dropped_critical", "coalesced"} :
        counters[f] \in Nat /\ totals[f] \in Nat
  BY DEF Shape, TypeOK, TallyTypes, Tally
<1> QED BY <1>1, <1>2, <1>3

LEMMA DataConservedStep ==
  Shape /\ Shape' /\ DataConserved /\ [Next]_vars => DataConserved'
<1> SUFFICES ASSUME Shape, Shape', DataConserved, [Next]_vars PROVE DataConserved'
  OBVIOUS
<1>0. PICK sn \in Nat, dr \in Nat, di \in Nat, ln \in Nat, cd \in Nat, td \in Nat,
           cc \in Nat, tc \in Nat :
        /\ sn = sent["data"] /\ dr = drained["data"] /\ di = discarded["data"]
        /\ ln = Len(data) /\ cd = counters.dropped_data /\ td = totals.dropped_data
        /\ cc = counters.coalesced /\ tc = totals.coalesced
  BY Naturals DEF Lanes
<1>10. sn = dr + di + ln + cd + td + cc + tc
  BY <1>0 DEF DataConserved
<1>1. /\ Len(data) \in Nat
      /\ sent["data"] \in Nat /\ drained["data"] \in Nat /\ discarded["data"] \in Nat
      /\ counters.dropped_data \in Nat /\ counters.coalesced \in Nat
      /\ totals.dropped_data \in Nat /\ totals.coalesced \in Nat
  BY Naturals DEF Lanes
<1>2. /\ sent \in [Lanes -> Nat] /\ drained \in [Lanes -> Nat]
      /\ discarded \in [Lanes -> Nat] /\ counters \in Tally /\ totals \in Tally
  BY DEF Shape, TypeOK, HistoryTypes, TallyTypes
<1>3. ASSUME NEW s \in Senders, NEW k \in Keys, SendData(s, k)
      PROVE  DataConserved'
  <2>1. /\ sent'["data"] = sent["data"] + 1
        /\ UNCHANGED <<drained, discarded, totals>>
    BY <1>2, <1>3 DEF SendData, SendDataDetached, SendDataRoom, SendDataCoalesce,
                SendDataEvict, BeginData, Lanes
  <2>2. \/ /\ counters'.dropped_data = counters.dropped_data + 1
           /\ counters'.coalesced = counters.coalesced /\ Len(data') = Len(data)
        \/ /\ counters'.dropped_data = counters.dropped_data
           /\ counters'.coalesced = counters.coalesced /\ Len(data') = Len(data) + 1
        \/ /\ counters'.dropped_data = counters.dropped_data
           /\ counters'.coalesced = counters.coalesced + 1 /\ Len(data') = Len(data)
    <3>1. CASE SendDataDetached(s, k) \/ SendDataEvict(s, k)
      BY <1>2, <1>3, <3>1, DataLengths DEF SendDataDetached, SendDataEvict, Tally
    <3>2. CASE SendDataRoom(s, k)
      BY <1>3, <3>2, DataLengths DEF SendDataRoom
    <3>3. CASE SendDataCoalesce(s, k)
      BY <1>2, <1>3, <3>3, DataLengths DEF SendDataCoalesce, Tally
    <3> QED BY <1>3, <3>1, <3>2, <3>3 DEF SendData
  <2>3. PICK c \in Nat, e \in Nat, l \in Nat :
          /\ c = counters'.dropped_data /\ e = counters'.coalesced /\ l = Len(data')
    BY <1>1, <2>2
  <2>4. \/ c = cd + 1 /\ e = cc /\ l = ln
        \/ c = cd /\ e = cc /\ l = ln + 1
        \/ c = cd /\ e = cc + 1 /\ l = ln
    BY <1>0, <2>2, <2>3
  <2>5. sn + 1 = dr + di + l + c + td + e + tc
    BY <1>10, <2>4
  <2> QED BY <1>0, <2>1, <2>3, <2>5 DEF DataConserved
<1>4. ASSUME NEW s \in Senders, NEW k \in Keys, BeginCritical(s, k)
      PROVE  DataConserved'
  <2>1. /\ sent'["data"] = sent["data"]
        /\ UNCHANGED <<data, drained, discarded, totals, counters>>
    BY <1>2, <1>4 DEF BeginCritical, Lanes
  <2> QED BY <2>1 DEF DataConserved
<1>5. ASSUME NEW s \in Senders,
             \/ CheckCancel(s) \/ Push(s) \/ Arm(s) \/ Offer(s) \/ Wake(s)
             \/ GiveUp(s) \/ SpendBudget(s) \/ Abandon(s)
      PROVE  DataConserved'
  <2>1. UNCHANGED <<data, sent, drained, discarded, totals, counters>>
    BY <1>5 DEF CheckCancel, Push, Arm, Offer, Wake, GiveUp, SpendBudget, Abandon, TryPush,
        LeaveWait, historyVars
  <2> QED BY <2>1 DEF DataConserved
<1>6. ASSUME NEW s \in Senders, count_critical_drop(s) PROVE DataConserved'
  <2>1. /\ UNCHANGED <<data, sent, drained, discarded, totals>>
        /\ counters'.dropped_data = counters.dropped_data
        /\ counters'.coalesced = counters.coalesced
    BY <1>2, <1>6 DEF count_critical_drop, historyVars, Tally
  <2> QED BY <2>1 DEF DataConserved
<1>7. ASSUME NEW s \in Senders, FoldCounters(s) PROVE DataConserved'
  <2>1. /\ UNCHANGED <<data, sent, drained, discarded>>
        /\ totals'.dropped_data = totals.dropped_data + counters.dropped_data
        /\ totals'.coalesced = totals.coalesced + counters.coalesced
        /\ counters'.dropped_data = 0 /\ counters'.coalesced = 0
    BY <1>7 DEF FoldCounters, Folded, NoLoss, historyVars
  <2>2. sn = dr + di + ln + 0 + (td + cd) + 0 + (tc + cc)
    <3>1. sn = dr + di + ln + cd + td + cc + tc
      BY <1>10
    <3> HIDE <1>0
    <3> QED BY <3>1
  <2> QED BY <1>0, <2>1, <2>2 DEF DataConserved
<1>8. CASE Drain \/ DropReceiver
  <2>1. /\ UNCHANGED <<counters, totals, sent>> /\ Len(data') = 0
        /\ drained'["data"] + discarded'["data"]
             = drained["data"] + discarded["data"] + Len(data)
    BY <1>1, <1>2, <1>8 DEF Drain, DropReceiver, Lanes
  <2>2. drained'["data"] \in Nat /\ discarded'["data"] \in Nat
    BY <1>1, <1>2, <1>8 DEF Drain, DropReceiver, Lanes
  <2> QED BY <1>1, <2>1, <2>2 DEF DataConserved
<1>9. CASE NotifyWaiters \/ Cancel \/ UNCHANGED vars
  <2>1. UNCHANGED <<data, sent, drained, discarded, totals, counters>>
    BY <1>9 DEF NotifyWaiters, Cancel, historyVars, vars
  <2> QED BY <2>1 DEF DataConserved
<1> QED BY <1>3, <1>4, <1>5, <1>6, <1>7, <1>8, <1>9 DEF Next, SenderStep

\* Every reading sent is accounted for exactly once, for every number of
\* concurrent senders and every depth of the lane.
THEOREM DataNeverLostSilently == Spec => []DataConserved
<1>1. Init => DataConserved
  BY DEF Init, DataConserved, Lanes, NoLoss
<1> QED BY <1>1, ShapeInit, ShapeStep, DataConservedStep, PTL DEF Spec

----------------------------------------------------------------------------
(* The loss-intolerant lane: the events in flight are counted by their     *)
(* senders, so a step moves a sender in or out of a finite set.            *)

Sending == {s \in Senders : pc[s] \in Holding}

LEMMA SendingFinite == IsFiniteSet(Sending) /\ Cardinality(Sending) \in Nat
BY FS_Subset, FS_CardinalityType DEF Sending

\* A step that keeps a sender on its side of the boundary changes no count.
LEMMA SendingSame ==
  ASSUME Shape, NEW s \in Senders, NEW to,
         pc' \in {pc, [pc EXCEPT ![s] = to]}, pc[s] \in Holding <=> to \in Holding
  PROVE  Sending' = Sending
BY DEF Sending, Shape, TypeOK, SenderTypes

LEMMA SendingEnters ==
  ASSUME Shape, NEW s \in Senders, pc[s] \notin Holding,
         pc' = [pc EXCEPT ![s] = "check"]
  PROVE  Cardinality(Sending') = Cardinality(Sending) + 1
<1>1. Sending' = Sending \cup {s} /\ s \notin Sending
  BY DEF Sending, InFlight, Holding, Shape, TypeOK, SenderTypes
<1> QED BY <1>1, SendingFinite, FS_AddElement

LEMMA SendingLeaves ==
  ASSUME Shape, NEW s \in Senders, pc[s] \in Holding,
         pc' = [pc EXCEPT ![s] = "fold"]
  PROVE  Cardinality(Sending') = Cardinality(Sending) - 1
<1>1. Sending' = Sending \ {s} /\ s \in Sending
  BY DEF Sending, InFlight, Holding, Shape, TypeOK, SenderTypes
<1> QED BY <1>1, SendingFinite, FS_RemoveElement

CriticalSum ==
  sent["critical"] = drained["critical"] + discarded["critical"] + Len(critical)
                     + counters.dropped_critical + totals.dropped_critical
                     + Cardinality(Sending)

LEMMA SumOfCritical == CriticalConserved <=> CriticalSum
BY DEF CriticalConserved, CriticalInHands, CriticalSum, Sending

LEMMA CriticalConservedStep ==
  Shape /\ Shape' /\ CriticalConserved /\ [Next]_vars => CriticalConserved'
<1> SUFFICES ASSUME Shape, Shape', CriticalConserved, [Next]_vars
             PROVE  CriticalConserved'
  OBVIOUS
<1>11. PICK sn \in Nat, dr \in Nat, di \in Nat, ln \in Nat, cd \in Nat, td \in Nat,
            n \in Nat :
         /\ sn = sent["critical"] /\ dr = drained["critical"]
         /\ di = discarded["critical"] /\ ln = Len(critical)
         /\ cd = counters.dropped_critical /\ td = totals.dropped_critical
         /\ n = Cardinality(Sending)
  BY Naturals, SendingFinite DEF Lanes
<1>12. sn = dr + di + ln + cd + td + n
  BY <1>11 DEF CriticalConserved, CriticalInHands, Sending
<1>0. /\ CriticalConserved <=> CriticalSum
      /\ CriticalConserved' <=> CriticalSum'
  BY DEF CriticalConserved, CriticalInHands, CriticalSum, Sending
<1>1. /\ Len(critical) \in Nat /\ sent["critical"] \in Nat
      /\ drained["critical"] \in Nat /\ discarded["critical"] \in Nat
      /\ counters.dropped_critical \in Nat /\ totals.dropped_critical \in Nat
      /\ Cardinality(Sending) \in Nat
  BY Naturals, SendingFinite DEF Lanes
<1>2. /\ sent \in [Lanes -> Nat] /\ drained \in [Lanes -> Nat]
      /\ discarded \in [Lanes -> Nat] /\ counters \in Tally /\ totals \in Tally
  BY DEF Shape, TypeOK, HistoryTypes, TallyTypes
<1>3. ASSUME NEW s \in Senders, NEW k \in Keys, SendData(s, k)
      PROVE  CriticalConserved'
  <2>1. /\ sent'["critical"] = sent["critical"]
        /\ counters'.dropped_critical = counters.dropped_critical
        /\ UNCHANGED <<critical, drained, discarded, totals>>
    BY <1>2, <1>3 DEF SendData, SendDataDetached, SendDataRoom, SendDataCoalesce,
                SendDataEvict, BeginData, Lanes, Tally
  <2>2. pc[s] = "idle" /\ pc' = [pc EXCEPT ![s] = "fold"]
    BY <1>3 DEF SendData, SendDataDetached, SendDataRoom, SendDataCoalesce,
                SendDataEvict, BeginData
  <2>3. pc[s] \notin Holding /\ "fold" \notin Holding
    BY <2>2 DEF InFlight, Holding
  <2>4. Sending' = Sending
    BY <2>2, <2>3 DEF Sending, Shape, TypeOK, SenderTypes
  <2> QED BY <1>0, <2>1, <2>4 DEF CriticalSum
<1>4. ASSUME NEW s \in Senders, NEW k \in Keys, BeginCritical(s, k)
      PROVE  CriticalConserved'
  <2>1. /\ sent'["critical"] = sent["critical"] + 1
        /\ UNCHANGED <<critical, drained, discarded, totals, counters>>
    BY <1>2, <1>4 DEF BeginCritical, Lanes
  <2>2. Cardinality(Sending') = Cardinality(Sending) + 1
    <3>1. pc[s] \notin Holding /\ pc' = [pc EXCEPT ![s] = "check"]
      BY <1>4 DEF BeginCritical, Goto, InFlight, Holding
    <3> QED BY <3>1, SendingEnters
  <2>3. sn + 1 = dr + di + ln + cd + td + (n + 1)
    BY <1>12
  <2> QED BY <1>0, <1>11, <2>1, <2>2, <2>3 DEF CriticalSum
<1>5. ASSUME NEW s \in Senders, Push(s) \/ Offer(s) PROVE CriticalConserved'
  <2>1. UNCHANGED <<sent, drained, discarded, totals, counters>>
    BY <1>5 DEF Push, Offer, TryPush, historyVars
  <2>2. pc[s] \in Holding
    BY <1>5 DEF Push, Offer, TryPush, Goto, InFlight, Holding
  <2>3. CASE /\ critical' = critical
             /\ pc' \in {[pc EXCEPT ![s] = to] : to \in {"drop", "arm", "wait"}}
    <3>1. Sending' = Sending
      BY <2>2, <2>3, SendingSame DEF InFlight, Holding
    <3> QED BY <1>0, <2>1, <2>3, <3>1 DEF CriticalSum
  <2>4. CASE /\ critical' = Append(critical, holding[s])
             /\ pc' = [pc EXCEPT ![s] = "fold"]
    <3>1. Critical(s)
      BY <1>5 DEF Push, Offer, TryPush, Goto, InFlight, Shape, HoldsCritical
    <3>2. Len(critical') = Len(critical) + 1
      BY <2>4, <3>1 DEF Critical, Shape, TypeOK, LaneTypes
    <3>3. Cardinality(Sending') = Cardinality(Sending) - 1
      BY <2>2, <2>4, SendingLeaves
    <3>4. sn = dr + di + (ln + 1) + cd + td + (n - 1)
      BY <1>12
    <3> QED BY <1>0, <1>11, <2>1, <3>2, <3>3, <3>4 DEF CriticalSum
  <2> QED BY <1>5, <2>3, <2>4 DEF Push, Offer, TryPush, Goto
<1>6. ASSUME NEW s \in Senders,
             \/ CheckCancel(s) \/ Arm(s) \/ Wake(s) \/ GiveUp(s) \/ SpendBudget(s)
         \/ Abandon(s)
      PROVE  CriticalConserved'
  <2>1. /\ UNCHANGED <<critical, sent, drained, discarded, totals, counters>>
        /\ pc[s] \in Holding
        /\ pc' \in {[pc EXCEPT ![s] = to] : to \in {"push", "drop", "offer", "arm", "gone"}}
    BY <1>6 DEF CheckCancel, Arm, Wake, GiveUp, SpendBudget, Abandon, LeaveWait, Goto,
                InFlight, Holding, historyVars
  <2>2. Sending' = Sending
    BY <2>1, SendingSame DEF InFlight, Holding
  <2> QED BY <1>0, <2>1, <2>2 DEF CriticalSum
<1>7. ASSUME NEW s \in Senders, count_critical_drop(s) PROVE CriticalConserved'
  <2>1. /\ UNCHANGED <<critical, sent, drained, discarded, totals>>
        /\ counters'.dropped_critical = counters.dropped_critical + 1
    BY <1>2, <1>7 DEF count_critical_drop, historyVars, Tally
  <2>2. Cardinality(Sending') = Cardinality(Sending) - 1
    <3>1. pc[s] \in Holding /\ pc' = [pc EXCEPT ![s] = "fold"]
      BY <1>7 DEF count_critical_drop, Goto, InFlight, Holding
    <3> QED BY <3>1, SendingLeaves
  <2>3. sn = dr + di + ln + (cd + 1) + td + (n - 1)
    BY <1>12
  <2> QED BY <1>0, <1>11, <2>1, <2>2, <2>3 DEF CriticalSum
<1>8. ASSUME NEW s \in Senders, FoldCounters(s) PROVE CriticalConserved'
  <2>1. /\ UNCHANGED <<critical, sent, drained, discarded>>
        /\ totals'.dropped_critical = totals.dropped_critical + counters.dropped_critical
        /\ counters'.dropped_critical = 0
    BY <1>8 DEF FoldCounters, Folded, NoLoss, historyVars
  <2>2. Sending' = Sending
    <3>1. pc[s] = "fold" /\ pc' = [pc EXCEPT ![s] = "idle"]
      BY <1>8 DEF FoldCounters, Goto
    <3>2. pc[s] \notin Holding /\ "idle" \notin Holding
      BY <3>1 DEF InFlight, Holding
    <3> QED BY <3>1, <3>2 DEF Sending, Shape, TypeOK, SenderTypes
  <2>3. sn = dr + di + ln + 0 + (td + cd) + n
    BY <1>12
  <2> QED BY <1>0, <1>11, <2>1, <2>2, <2>3 DEF CriticalSum
<1>9. CASE Drain \/ DropReceiver
  <2>1. /\ UNCHANGED <<counters, totals, sent, pc>> /\ Len(critical') = 0
        /\ drained'["critical"] + discarded'["critical"]
             = drained["critical"] + discarded["critical"] + Len(critical)
    BY <1>1, <1>2, <1>9 DEF Drain, DropReceiver, Lanes, senderVars
  <2>2. drained'["critical"] \in Nat /\ discarded'["critical"] \in Nat
    BY <1>1, <1>2, <1>9 DEF Drain, DropReceiver, Lanes
  <2>3. PICK d1 \in Nat, x1 \in Nat :
          d1 = drained'["critical"] /\ x1 = discarded'["critical"]
    BY <2>2
  <2>4. d1 + x1 = dr + di + ln
    BY <1>11, <2>1, <2>3
  <2>5. sn = d1 + x1 + 0 + cd + td + n
    BY <1>12, <2>4
  <2>6. Sending' = Sending
    BY <2>1 DEF Sending
  <2> QED BY <1>0, <1>11, <2>1, <2>3, <2>5, <2>6 DEF CriticalSum
<1>10. CASE NotifyWaiters \/ Cancel \/ UNCHANGED vars
  <2>1. UNCHANGED <<critical, sent, drained, discarded, totals, counters, pc>>
    BY <1>10 DEF NotifyWaiters, Cancel, senderVars, historyVars, vars
  <2> QED BY <1>0, <2>1 DEF CriticalSum, Sending
<1> QED BY <1>3, <1>4, <1>5, <1>6, <1>7, <1>8, <1>9, <1>10 DEF Next, SenderStep

\* A loss-intolerant event is drained, queued, cleared by the drop, counted as
\* dropped, in the hands of exactly one sender, or was the one event of a task that
\* was ended while its send waited (mtconnect/mod.rs run, driver.rs run_device).
THEOREM CriticalLossesAccounted == Spec => []CriticalConserved
<1>1. Init => CriticalConserved
  <2>1. ASSUME Init PROVE Sending = {}
    BY <2>1 DEF Init, Sending, InFlight, Holding
  <2>2. Cardinality({}) = 0
    BY FS_EmptySet
  <2>3. ASSUME Init
        PROVE  /\ sent["critical"] = 0 /\ drained["critical"] = 0
               /\ discarded["critical"] = 0 /\ Len(critical) = 0
               /\ counters.dropped_critical = 0 /\ totals.dropped_critical = 0
    BY <2>3 DEF Init, Lanes, NoLoss
  <2>4. ASSUME Init PROVE CriticalSum
    <3>1. Cardinality(Sending) = 0
      BY <2>1, <2>2, <2>4
    <3>2. 0 = 0 + 0 + 0 + 0 + 0 + 0
      OBVIOUS
    <3> QED BY <2>3, <2>4, <3>1, <3>2 DEF CriticalSum
  <2> QED BY <2>4, SumOfCritical
<1> QED BY <1>1, ShapeInit, ShapeStep, CriticalConservedStep, PTL DEF Spec

\* Both lanes together: nothing sent is lost uncounted but for one loss-intolerant
\* event of each task ended in a blocked send, whatever the depths and the senders.
THEOREM LossesAccounted == Spec => []Conserved
<1>1. Conserved <=> DataConserved /\ CriticalConserved
  BY DEF Conserved
<1> QED BY <1>1, DataNeverLostSilently, CriticalLossesAccounted, PTL

----------------------------------------------------------------------------
(* What a task that is alone may rely on.                                  *)

\* No other task has sent anything.
Only(s) == \A r \in Senders \ {s} : pc[r] = "idle" /\ answer[r] = "none"

\* The loss-intolerant lane is in the order of the sends, after everything the
\* session has seen of it, and before the event still in the sender's hands.
InSendOrder(s) ==
  /\ \A i \in DOMAIN critical : /\ seen[critical[i].key] < critical[i].id
                                /\ critical[i].id < NextId
  /\ \A i, j \in DOMAIN critical : i < j => critical[i].id < critical[j].id
  /\ \A k \in LossIntolerant : seen[k] < NextId
  /\ pc[s] \in InFlight =>
       /\ seen[holding[s].key] < holding[s].id /\ holding[s].id < NextId
       /\ \A i \in DOMAIN critical : critical[i].id < holding[s].id

\* A loss the queue has counted and not folded is that of the present send.
Answerable(s) ==
  /\ pc[s] # "fold" => counters.dropped_data = 0 /\ counters.dropped_critical = 0
  /\ pc[s] = "fold" => \/ queued[s]
                       \/ counters.dropped_data > 0 \/ counters.dropped_critical > 0
  /\ pc[s] = "idle" /\ answer[s] = "delivered" => queued[s]

AloneInv == \A s \in Senders : Only(s) => InSendOrder(s) /\ Answerable(s)

LEMMA OnlyActs ==
  ASSUME Shape, NEW s \in Senders, NEW r \in Senders, r # s, Only(s)',
         pc'[r] # "idle" \/ answer'[r] # "none"
  PROVE  FALSE
BY DEF Only

LEMMA LaneIs ==
  ASSUME Shape
  PROVE  /\ critical \in Seq(Event) /\ data \in Seq(Event)
         /\ \A i \in DOMAIN critical : /\ critical[i].id \in Nat
                                       /\ critical[i].key \in LossIntolerant
         /\ \A i \in DOMAIN data : data[i].key \notin LossIntolerant
         /\ \A k \in Keys : seen[k] \in Nat
         /\ NextId \in Nat
<1>1. critical \in Seq(Event) /\ data \in Seq(Event)
  BY DEF Shape, TypeOK, LaneTypes
<1>2. \A i \in DOMAIN critical : critical[i] \in Event
  BY <1>1
<1>3. \A i \in DOMAIN critical : critical[i].id \in Nat
  BY <1>2 DEF Event
<1>4. /\ \A i \in DOMAIN critical : critical[i].key \in LossIntolerant
      /\ \A i \in DOMAIN data : data[i].key \notin LossIntolerant
  BY DEF Shape, LanesBounded, is_loss_intolerant
<1> QED BY <1>1, <1>3, <1>4, NextIdIsNat DEF Shape, TypeOK, HistoryTypes

LEMMA HandIs ==
  ASSUME Shape, NEW s \in Senders, pc[s] \in InFlight
  PROVE  holding[s].id \in Nat /\ holding[s].key \in LossIntolerant
BY DEF Shape, HoldsCritical, Critical, Event, is_loss_intolerant

\* A data send of the only sender.
LEMMA DataAlone ==
  ASSUME Shape, NEW s \in Senders, InSendOrder(s), Answerable(s),
         NEW k \in Keys, SendData(s, k)
  PROVE  InSendOrder(s)' /\ Answerable(s)'
<1>1. /\ pc[s] = "idle" /\ pc' = [pc EXCEPT ![s] = "fold"]
      /\ sent' = [sent EXCEPT !["data"] = @ + 1]
      /\ UNCHANGED <<critical, seen, answer>>
  BY DEF SendData, SendDataDetached, SendDataRoom, SendDataCoalesce, SendDataEvict,
         BeginData
<1>2. pc'[s] = "fold" /\ pc'[s] \notin InFlight
  BY <1>1 DEF Shape, TypeOK, SenderTypes, InFlight
<1>3. NextId' = NextId + 1 /\ NextId \in Nat
  BY <1>1 DEF Shape, TypeOK, HistoryTypes, NextId, Lanes
<1>4. InSendOrder(s)'
  <2>1. /\ \A i \in DOMAIN critical : critical[i].id \in Nat
        /\ \A c \in LossIntolerant : seen[c] \in Nat
    BY LaneIs
  <2> QED BY <1>1, <1>2, <1>3, <2>1 DEF InSendOrder
<1>5. Answerable(s)'
  <2>1. counters \in Tally /\ queued \in [Senders -> BOOLEAN]
    BY DEF Shape, TypeOK, TallyTypes, SenderTypes
  <2>2. queued'[s] \/ counters'.dropped_data > 0
    <3>1. CASE SendDataDetached(s, k)
      BY <2>1, <3>1 DEF SendDataDetached, Tally
    <3>2. CASE ~SendDataDetached(s, k)
      BY <2>1, <3>2 DEF SendData, SendDataRoom, SendDataCoalesce, SendDataEvict
    <3> QED BY <3>1, <3>2
  <2> QED BY <1>2, <2>2 DEF Answerable
<1> QED BY <1>4, <1>5

LEMMA BeginAlone ==
  ASSUME Shape, NEW s \in Senders, InSendOrder(s), Answerable(s),
         NEW k \in Keys, BeginCritical(s, k)
  PROVE  InSendOrder(s)' /\ Answerable(s)'
<1>1. /\ pc[s] = "idle" /\ pc' = [pc EXCEPT ![s] = "check"] /\ k \in LossIntolerant
      /\ sent' = [sent EXCEPT !["critical"] = @ + 1]
      /\ holding' = [holding EXCEPT ![s] = [id |-> NextId, key |-> k]]
      /\ UNCHANGED <<critical, seen, answer, counters>>
  BY DEF BeginCritical, Goto
<1>2. /\ pc'[s] = "check" /\ holding'[s] = [id |-> NextId, key |-> k]
  BY <1>1 DEF Shape, TypeOK, SenderTypes
<1>3. NextId' = NextId + 1 /\ NextId \in Nat
  BY <1>1 DEF Shape, TypeOK, HistoryTypes, NextId, Lanes
<1>4. InSendOrder(s)'
  <2>1. /\ \A i \in DOMAIN critical : critical[i].id \in Nat
        /\ \A c \in LossIntolerant : seen[c] \in Nat
    BY LaneIs
  <2> QED BY <1>1, <1>2, <1>3, <2>1 DEF InSendOrder
<1>5. Answerable(s)'
  BY <1>1, <1>2 DEF Answerable
<1> QED BY <1>4, <1>5

LEMMA PushAlone ==
  ASSUME Shape, NEW s \in Senders, InSendOrder(s), Answerable(s),
         NEW from \in {"push", "offer"}, NEW full \in {"arm", "wait"},
         TryPush(s, from, full)
  PROVE  InSendOrder(s)' /\ Answerable(s)'
<1>1. /\ pc[s] = from /\ pc[s] \in InFlight
      /\ UNCHANGED <<holding, counters, answer, sent, seen>>
  BY DEF TryPush, Goto, historyVars, InFlight
<1>2. NextId' = NextId
  BY <1>1 DEF NextId
<1>3. counters.dropped_data = 0 /\ counters.dropped_critical = 0
  BY <1>1 DEF Answerable, InFlight
<1>4. CASE critical' = critical /\ pc'[s] \in {"drop", full}
  BY <1>1, <1>2, <1>3, <1>4 DEF InSendOrder, Answerable, InFlight
<1>5. CASE /\ critical' = Append(critical, holding[s]) /\ pc'[s] = "fold"
           /\ queued'[s]
  <2> DEFINE h == holding[s]
  <2>1. h \in Event /\ h.id \in Nat /\ critical \in Seq(Event)
    BY <1>1, HandIs, LaneIs DEF Shape, HoldsCritical, Critical
  <2>2. /\ Len(critical') = Len(critical) + 1 /\ Len(critical) \in Nat
        /\ \A i \in 1..Len(critical) : critical'[i] = critical[i]
        /\ critical'[Len(critical) + 1] = h
        /\ DOMAIN critical' = 1..(Len(critical) + 1)
        /\ DOMAIN critical = 1..Len(critical)
    BY <1>5, <2>1, AppendProperties
  <2>3. /\ seen[h.key] < h.id /\ h.id < NextId
        /\ \A i \in DOMAIN critical : critical[i].id < h.id
    BY <1>1 DEF InSendOrder
  <2> HIDE DEF h
  <2>4. \A i \in DOMAIN critical' : i \in DOMAIN critical \/ i = Len(critical) + 1
    BY <2>2
  <2>5. \A i \in DOMAIN critical' : /\ seen[critical'[i].key] < critical'[i].id
                                    /\ critical'[i].id < NextId
    BY <2>2, <2>3, <2>4 DEF InSendOrder
  <2>6. \A i, j \in DOMAIN critical' : i < j => critical'[i].id < critical'[j].id
    BY <2>2, <2>3, <2>4 DEF InSendOrder
  <2>7. pc'[s] \notin InFlight
    BY <1>5 DEF InFlight
  <2>8. InSendOrder(s)'
    BY <1>1, <1>2, <2>5, <2>6, <2>7 DEF InSendOrder
  <2> QED BY <1>1, <1>5, <2>8 DEF Answerable
<1>6. \/ pc'[s] \in {"drop", full} /\ critical' = critical
      \/ critical' = Append(critical, holding[s]) /\ pc'[s] = "fold" /\ queued'[s]
  BY DEF TryPush, Goto, Shape, TypeOK, SenderTypes
<1> QED BY <1>4, <1>5, <1>6

LEMMA StepAlone ==
  ASSUME Shape, NEW s \in Senders, InSendOrder(s), Answerable(s),
         SenderStep(s) \/ GiveUp(s) \/ SpendBudget(s) \/ Abandon(s)
  PROVE  InSendOrder(s)' /\ Answerable(s)'
<1>1. CASE Push(s) \/ Offer(s)
  BY <1>1, PushAlone DEF Push, Offer
<1>2. CASE CheckCancel(s) \/ Arm(s) \/ Wake(s) \/ GiveUp(s) \/ SpendBudget(s) \/ Abandon(s)
  <2>1. /\ UNCHANGED <<critical, holding, counters, answer, sent, seen>>
        /\ pc[s] \in InFlight /\ pc'[s] \in Holding
    BY <1>2 DEF CheckCancel, Arm, Wake, GiveUp, SpendBudget, Abandon, LeaveWait, Goto,
                historyVars, InFlight, Holding, Shape, TypeOK, SenderTypes
  <2>2. NextId' = NextId
    BY <2>1 DEF NextId
  <2> QED BY <2>1, <2>2 DEF InSendOrder, Answerable, InFlight, Holding
<1>3. CASE count_critical_drop(s)
  <2>1. /\ UNCHANGED <<critical, holding, answer, sent, seen>>
        /\ counters' = [counters EXCEPT !.dropped_critical = @ + 1]
        /\ pc'[s] = "fold" /\ counters \in Tally
    BY <1>3 DEF count_critical_drop, Goto, historyVars, Shape, TypeOK, SenderTypes,
                TallyTypes
  <2>2. NextId' = NextId
    BY <2>1 DEF NextId
  <2>3. counters'.dropped_critical > 0
    BY <2>1 DEF Tally
  <2> QED BY <2>1, <2>2, <2>3 DEF InSendOrder, Answerable, InFlight
<1>4. CASE FoldCounters(s)
  <2>1. /\ UNCHANGED <<critical, holding, queued, sent, seen>>
        /\ pc[s] = "fold" /\ pc'[s] = "idle" /\ counters' = NoLoss
        /\ answer'[s] = IF counters.dropped_data = 0 /\ counters.dropped_critical = 0
                        THEN "delivered" ELSE "lost"
        /\ counters \in Tally
    BY <1>4 DEF FoldCounters, Goto, historyVars, Shape, TypeOK, SenderTypes, TallyTypes
  <2>2. NextId' = NextId
    BY <2>1 DEF NextId
  <2>3. answer'[s] = "delivered" => queued[s]
    BY <2>1 DEF Answerable, Tally
  <2> QED BY <2>1, <2>2, <2>3 DEF InSendOrder, Answerable, InFlight, NoLoss
<1> QED BY <1>1, <1>2, <1>3, <1>4 DEF SenderStep

\* What the session has seen of a loss-intolerant key came through its lane.
LEMMA LastOfCritical ==
  ASSUME Shape, NEW k \in LossIntolerant
  PROVE  LastOf(k) = seen[k] \/ \E i \in DOMAIN critical : LastOf(k) = critical[i].id
<1> DEFINE at == {i \in DOMAIN DrainOrder : DrainOrder[i].key = k}
           last == CHOOSE i \in at : \A j \in at : j <= i
<1>1. CASE at = {}
  BY <1>1 DEF LastOf
<1>2. CASE at # {}
  <2>1. DrainOrder \in Seq(Event)
    BY LaneIs DEF DrainOrder
  <2>2. Len(DrainOrder) \in Nat /\ at \in SUBSET (1 .. Len(DrainOrder))
    BY <2>1
  <2>3. last \in at
    BY <1>2, <2>2, GreatestIsIn
  <2> HIDE DEF last
  <2>4. LastOf(k) = DrainOrder[last].id /\ DrainOrder[last].key = k
    BY <1>2, <2>3 DEF LastOf, last
  <2>5. last \in DOMAIN critical /\ DrainOrder[last] = critical[last]
    BY <2>3, <2>4, LaneIs DEF DrainOrder
  <2> QED BY <2>4, <2>5
<1> QED BY <1>1, <1>2

LEMMA ReceiverAlone ==
  ASSUME Shape, NEW s \in Senders, InSendOrder(s), Answerable(s),
         Drain \/ DropReceiver \/ NotifyWaiters \/ Cancel
  PROVE  InSendOrder(s)' /\ Answerable(s)'
<1>1. UNCHANGED <<pc, holding, queued, answer, counters, sent>>
  BY DEF Drain, DropReceiver, NotifyWaiters, Cancel, senderVars, historyVars
<1>2. NextId' = NextId
  BY <1>1 DEF NextId
<1>3. Answerable(s)'
  BY <1>1 DEF Answerable
<1>4. CASE Drain
  <2>1. critical' = <<>> /\ seen' = [k \in Keys |-> LastOf(k)] /\ DOMAIN critical' = {}
    BY <1>4 DEF Drain
  <2>2. \A k \in LossIntolerant :
          /\ seen'[k] < NextId
          /\ pc[s] \in InFlight /\ k = holding[s].key => seen'[k] < holding[s].id
    BY <2>1, LastOfCritical DEF InSendOrder
  <2>3. pc[s] \in InFlight => holding[s].key \in LossIntolerant
    BY HandIs
  <2> QED BY <1>1, <1>2, <1>3, <2>1, <2>2, <2>3 DEF InSendOrder
<1>5. CASE DropReceiver
  <2>1. critical' = <<>> /\ seen' = seen /\ DOMAIN critical' = {}
    BY <1>5 DEF DropReceiver
  <2> QED BY <1>1, <1>2, <1>3, <2>1 DEF InSendOrder
<1>6. CASE NotifyWaiters \/ Cancel
  <2>1. UNCHANGED <<critical, seen>>
    BY <1>6 DEF NotifyWaiters, Cancel, historyVars
  <2> QED BY <1>1, <1>2, <1>3, <2>1 DEF InSendOrder
<1> QED BY <1>4, <1>5, <1>6

LEMMA AloneStep == Shape /\ AloneInv /\ [Next]_vars => AloneInv'
<1> SUFFICES ASSUME Shape, AloneInv, [Next]_vars, NEW s \in Senders, Only(s)'
             PROVE  InSendOrder(s)' /\ Answerable(s)'
  BY DEF AloneInv
<1> DEFINE Acts(r) == \/ \E k \in Keys : SendData(r, k) \/ BeginCritical(r, k)
                      \/ SenderStep(r) \/ GiveUp(r) \/ SpendBudget(r) \/ Abandon(r)
<1>1. ASSUME NEW r \in Senders, Acts(r)
      PROVE  /\ pc'[r] # "idle" \/ answer'[r] # "none"
             /\ \A t \in Senders \ {r} : pc'[t] = pc[t] /\ answer'[t] = answer[t]
  <2> USE DEF Shape, TypeOK, SenderTypes
  <2>1. ASSUME NEW k \in Keys, SendData(r, k) \/ BeginCritical(r, k)
        PROVE  /\ pc'[r] # "idle" /\ answer' = answer
               /\ \A t \in Senders \ {r} : pc'[t] = pc[t]
    BY <2>1 DEF SendData, SendDataDetached, SendDataRoom, SendDataCoalesce,
                SendDataEvict, BeginData, BeginCritical, Goto
  <2>2. CASE CheckCancel(r) \/ Push(r) \/ Offer(r)
    BY <2>2 DEF CheckCancel, Push, Offer, TryPush, Goto
  <2>3. CASE Arm(r) \/ Wake(r) \/ GiveUp(r) \/ SpendBudget(r) \/ Abandon(r) \/ count_critical_drop(r)
    BY <2>3 DEF Arm, Wake, GiveUp, SpendBudget, Abandon, LeaveWait, count_critical_drop, Goto
  <2>4. CASE FoldCounters(r)
    BY <2>4 DEF FoldCounters, Goto
  <2> QED BY <1>1, <2>1, <2>2, <2>3, <2>4 DEF SenderStep
<1>2. ASSUME NEW r \in Senders, Acts(r)
      PROVE  r = s /\ Only(s)
  BY <1>1, <1>2 DEF Only
<1>3. ASSUME NEW r \in Senders, NEW k \in Keys, SendData(r, k) \/ BeginCritical(r, k)
      PROVE  InSendOrder(s)' /\ Answerable(s)'
  BY <1>2, <1>3, DataAlone, BeginAlone DEF AloneInv
<1>4. ASSUME NEW r \in Senders, SenderStep(r) \/ GiveUp(r) \/ SpendBudget(r) \/ Abandon(r)
      PROVE  InSendOrder(s)' /\ Answerable(s)'
  BY <1>2, <1>4, StepAlone DEF AloneInv
<1>5. CASE Drain \/ DropReceiver \/ NotifyWaiters \/ Cancel
  <2>1. UNCHANGED <<pc, answer>>
    BY <1>5 DEF Drain, DropReceiver, NotifyWaiters, Cancel, senderVars
  <2>2. InSendOrder(s) /\ Answerable(s)
    BY <2>1 DEF AloneInv, Only
  <2> QED BY <1>5, <2>2, ReceiverAlone
<1>6. CASE UNCHANGED vars
  BY <1>6 DEF vars, AloneInv, Only, InSendOrder, Answerable, NextId
<1> QED BY <1>3, <1>4, <1>5, <1>6 DEF Next

LEMMA AloneInit == Init => AloneInv
<1> SUFFICES ASSUME Init, NEW s \in Senders PROVE InSendOrder(s) /\ Answerable(s)
  BY DEF AloneInv
<1>1. /\ critical = <<>> /\ pc[s] = "idle" /\ NextId = 1 /\ answer[s] = "none"
      /\ counters = NoLoss /\ \A k \in LossIntolerant : seen[k] = 0
  BY DEF Init, NextId, Lanes
<1> QED BY <1>1 DEF InSendOrder, Answerable, InFlight, NoLoss

LEMMA AloneInvIsExact == Shape /\ AloneInv => AloneIsExact
<1> SUFFICES ASSUME Shape, AloneInv, Alone PROVE CriticalKeyOrder /\ DeliveredMeansQueued
  BY DEF AloneIsExact, CriticalKeyOrder, DeliveredMeansQueued
<1>1. PICK s \in Senders : Only(s)
  BY DEF Alone, Only
<1>2. InSendOrder(s) /\ Answerable(s)
  BY <1>1 DEF AloneInv
<1>3. DeliveredMeansQueued
  BY <1>1, <1>2 DEF DeliveredMeansQueued, DeliveredIsLanded, Only, Answerable
<1>4. ASSUME NEW k \in LossIntolerant, NEW i \in DOMAIN DrainOrder,
             DrainOrder[i].key = k
      PROVE  i \in DOMAIN critical /\ DrainOrder[i] = critical[i]
  BY <1>4, LaneIs DEF DrainOrder
<1>5. CriticalKeyOrder
  BY <1>2, <1>4 DEF CriticalKeyOrder, Ascending, InSendOrder
<1> QED BY <1>3, <1>5

\* While one task sends, the loss-intolerant lane keeps the order of its sends
\* through every wait, retry and drain, and send_on answers "delivered" only of an
\* event that went into its lane (mtconnect/mod.rs send_critical, send_on).
THEOREM AloneMeansExact == Spec => []AloneIsExact
<1>1. Init => Shape /\ AloneInv
  BY ShapeInit, AloneInit
<1>2. Shape /\ AloneInv /\ [Next]_vars => (Shape /\ AloneInv)'
  BY ShapeStep, AloneStep
<1>3. Shape /\ AloneInv => AloneIsExact
  BY AloneInvIsExact
<1> QED BY <1>1, <1>2, <1>3, PTL DEF Spec
=============================================================================
