------------------------- MODULE Acquisition_proofs -------------------------
(***************************************************************************)
(* What the acquisition task keeps for every agent: any number of devices, *)
(* any buffer, log, number of restarts, faults and sessions.               *)
(***************************************************************************)
EXTENDS Acquisition, FiniteSetTheorems, SequenceTheorems, WellFoundedInduction, TLAPS

USE SetupsTyped, DevicesFinite, RoomToBoot

----------------------------------------------------------------------------
(* The operators.                                                          *)

LEMMA LeastOf ==
  ASSUME NEW S \in SUBSET Nat, S # {}
  PROVE  \E m \in S : \A i \in S : m <= i
<1>1. PICK m \in S : \A i \in S : ~(<<i, m>> \in OpToRel(<, Nat))
  BY NatLessThanWellFounded, WFMin
<1>2. \A i \in S : ~(i < m)
  BY <1>1 DEF OpToRel
<1>3. \A i \in S : i \in Nat
  OBVIOUS
<1>4. \A i \in S : m <= i
  BY <1>2, <1>3
<1> QED BY <1>4

LEMMA GreatestOf ==
  ASSUME NEW n \in Nat, NEW S \in SUBSET (0 .. n), S # {}
  PROVE  \E m \in S : \A i \in S : i <= m
<1> DEFINE R == {n - i : i \in S}
<1>1. \A i \in S : i \in Nat /\ n - i \in Nat
  OBVIOUS
<1>2. R \in SUBSET Nat /\ R # {}
  BY <1>1
<1> HIDE DEF R
<1>3. PICK r \in R : \A i \in R : r <= i
  BY <1>2, LeastOf
<1>4. PICK m \in S : r = n - m
  BY <1>3 DEF R
<1>5. \A i \in S : n - m <= n - i
  BY <1>3, <1>4 DEF R
<1>6. \A i \in S : i <= m
  BY <1>1, <1>5
<1> QED BY <1>6

LEMMA MaxIs ==
  ASSUME NEW n \in Nat, NEW S \in SUBSET (0 .. n), S # {}
  PROVE  /\ Max(S) \in S /\ \A i \in S : i <= Max(S)
         /\ Max(S) \in Nat
<1>1. PICK m \in S : \A i \in S : i <= m
  BY GreatestOf
<1>2. \A i \in S : i \in Int
  OBVIOUS
<1>3. \E x \in S : \A y \in S : x >= y
  BY <1>1, <1>2
<1>4. Max(S) \in S /\ \A y \in S : Max(S) >= y
  BY <1>3 DEF Max
<1>5. \A i \in S : i <= Max(S)
  BY <1>2, <1>4
<1>6. Max(S) \in 0 .. n
  BY <1>4
<1> QED BY <1>4, <1>5, <1>6

LEMMA MinOfTwo ==
  ASSUME NEW a \in Nat, NEW b \in Nat
  PROVE  /\ Min({a, b}) \in {a, b}
         /\ Min({a, b}) <= a /\ Min({a, b}) <= b
<1>1. \E x \in {a, b} : \A y \in {a, b} : x =< y
  <2>1. CASE a <= b
    BY <2>1
  <2>2. CASE b <= a
    BY <2>2
  <2> QED BY <2>1, <2>2
<1>2. Min({a, b}) \in {a, b} /\ \A y \in {a, b} : Min({a, b}) =< y
  BY <1>1 DEF Min
<1> QED BY <1>2

\* A set of devices as a sequence: each of them once.
LEMMA SetToSeqIs ==
  ASSUME NEW S \in SUBSET Devices
  PROVE  /\ SetToSeq(S) \in Seq(S) /\ SetToSeq(S) \in Seq(Devices)
         /\ ToSet(SetToSeq(S)) = S
         /\ Len(SetToSeq(S)) = Cardinality(S)
<1>1. IsFiniteSet(S)
  BY FS_Subset
<1>2. Cardinality(S) \in Nat
  BY <1>1, FS_CardinalityType
<1>3. PICK b : b \in Bijection(1 .. Cardinality(S), S)
  BY <1>1, <1>2, FS_CardinalityType, FS_NatBijection DEF ExistsBijection
<1>4. b \in [1 .. Cardinality(S) -> S] /\ IsInjective(b)
  BY <1>3 DEF Bijection, Injection, IsInjective
<1>5. SetToSeq(S) \in [1 .. Cardinality(S) -> S] /\ IsInjective(SetToSeq(S))
  BY <1>4 DEF SetToSeq
<1> DEFINE f == SetToSeq(S)
           k == Cardinality(S)
<1> HIDE DEF f, k
<1>6. f \in [1 .. k -> S] /\ IsInjective(f) /\ k \in Nat
  BY <1>2, <1>5 DEF f, k
<1>7. f \in Seq(S) /\ Len(f) = k /\ DOMAIN f = 1 .. k
  BY <1>6
<1>8. IsFiniteSet(1 .. k) /\ Cardinality(1 .. k) = k
  BY <1>6, FS_Interval
<1>9. f \in Injection(1 .. k, S)
  BY <1>6 DEF Injection
<1>10. f \in Surjection(1 .. k, S)
  BY <1>1, <1>8, <1>9, FS_Injection DEF k
<1>11. \A d \in S : \E i \in 1 .. k : f[i] = d
  BY <1>10 DEF Surjection
<1>12. ToSet(f) = S
  BY <1>6, <1>7, <1>11 DEF ToSet
<1>13. f \in Seq(Devices)
  BY <1>7
<1> QED BY <1>7, <1>12, <1>13 DEF f, k

\* A batch in the order of the log has the numbers of the batch, no others.
LEMMA AscendingIs ==
  ASSUME NEW n \in Nat, NEW S \in SUBSET (0 .. n)
  PROVE  /\ Ascending(S) \in [1 .. Cardinality(S) -> S]
         /\ Cardinality(S) \in Nat
         /\ \A i, j \in 1 .. Cardinality(S) : i < j => Ascending(S)[i] < Ascending(S)[j]
<1> DEFINE k == Cardinality(S)
           B(m) == {x \in S : x <= m}
<1>1. IsFiniteSet(0 .. n)
  BY FS_Interval
<1>2. IsFiniteSet(S) /\ k \in Nat
  BY <1>1, FS_Subset, FS_CardinalityType
<1>3. \A m \in S : /\ IsFiniteSet(B(m)) /\ Cardinality(B(m)) \in Nat
                     /\ Cardinality(B(m)) <= k
  BY <1>2, FS_Subset, FS_CardinalityType
<1>4. ASSUME NEW i \in 1 .. k
      PROVE  \E m \in S : Cardinality(B(m)) = i
  <2> DEFINE U == {m \in S : Cardinality(B(m)) >= i}
  <2>1. S # {}
    BY <1>2, <1>4, FS_EmptySet
  <2>2. PICK g \in S : \A x \in S : x <= g
    BY <2>1, GreatestOf
  <2>3. B(g) = S
    BY <2>2
  <2>4. g \in U
    BY <2>3, <1>2
  <2>5. U \in SUBSET Nat
    <3>1. \A m \in S : m \in Nat
      OBVIOUS
    <3> QED BY <3>1
  <2>6. PICK m \in U : \A x \in U : m <= x
    BY <2>4, <2>5, LeastOf
  <2>7. CASE Cardinality(B(m)) = i
    BY <2>7
  <2>8. CASE Cardinality(B(m)) # i
    <3> DEFINE P == B(m) \ {m}
    <3>1. m \in B(m) /\ m \in Nat
      OBVIOUS
    <3>2. Cardinality(P) = Cardinality(B(m)) - 1 /\ IsFiniteSet(P)
      BY <1>3, <3>1, FS_RemoveElement
    <3>3. Cardinality(P) >= i /\ Cardinality(P) \in Nat
      BY <1>3, <2>8, <3>2
    <3>4. P # {}
      BY <3>3, FS_EmptySet
    <3>5. P \in SUBSET (0 .. n)
      OBVIOUS
    <3>6. PICK p \in P : \A x \in P : x <= p
      BY <3>4, <3>5, GreatestOf
    <3>7. B(p) = P
      <4>1. \A x \in S : x \in Nat
        OBVIOUS
      <4>2. p \in S /\ p < m
        BY <3>1
      <4>3. \A x \in S : x <= p => x \in P
        BY <4>1, <4>2
      <4>4. \A x \in P : x \in S /\ x <= p
        BY <3>6
      <4> QED BY <4>3, <4>4
    <3>8. p \in U /\ p < m
      BY <3>1, <3>3, <3>7
    <3> QED BY <2>6, <3>8
  <2> QED BY <2>7, <2>8
<1> DEFINE f == [i \in 1 .. k |-> CHOOSE m \in S : Cardinality(B(m)) = i]
<1>5. \A i \in 1 .. k : f[i] \in S /\ Cardinality(B(f[i])) = i
  BY <1>4
<1>6. f \in [1 .. k -> S] /\ DOMAIN f = 1 .. k
  BY <1>5
<1> HIDE DEF f
<1>7. ASSUME NEW i \in 1 .. k, NEW j \in 1 .. k, i < j
      PROVE  f[i] < f[j]
  <2>a. f[i] \in S /\ f[j] \in S
    BY <1>6
  <2>b. \A x \in S : x \in Nat
    OBVIOUS
  <2>0. /\ f[i] \in S /\ f[i] \in Nat /\ f[j] \in S /\ f[j] \in Nat
        /\ \A x \in S : x \in Nat
    BY <2>a, <2>b
  <2>1. CASE f[j] <= f[i]
    <3>1. B(f[j]) \subseteq B(f[i])
      <4>1. \A x \in S : x <= f[j] => x <= f[i]
        BY <2>0, <2>1
      <4> QED BY <4>1
    <3>2. Cardinality(B(f[j])) <= Cardinality(B(f[i]))
      BY <3>1, <1>3, <2>0, FS_Subset
    <3>3. Cardinality(B(f[j])) = j /\ Cardinality(B(f[i])) = i
      BY <1>5
    <3>4. j <= i
      BY <3>2, <3>3
    <3> QED BY <3>4, <1>7
  <2> QED BY <2>0, <2>1
<1>8. \E g \in [1 .. k -> S] : \A i, j \in DOMAIN g : i < j => g[i] < g[j]
  BY <1>6, <1>7
<1>9. /\ Ascending(S) \in [1 .. k -> S]
      /\ \A i, j \in DOMAIN Ascending(S) : i < j => Ascending(S)[i] < Ascending(S)[j]
  BY <1>8 DEF Ascending
<1> QED BY <1>2, <1>9

----------------------------------------------------------------------------
(* The shape of the state.                                                 *)

Reads   == {"ingest", "measure", "dispatch"}
Polling == {"idle", "connect", "wait"}

Of(d) == {n \in DOMAIN log : log[n] = d}

\* Every device has been observed.
Logged == \A d \in Devices : Of(d) # {}

\* Where the task is, and the document it has in hand there.
Control ==
  /\ pc \in {"idle", "connect", "open", "drive", "serve", "wait"} =>
       caller = "none" /\ doc.kind = "none"
  /\ pc = "serving" => caller = "none" /\ doc.kind = "attach"
  /\ pc \in {"reprobe", "fetch", "settle"} => caller \in Polling /\ doc.kind = "current"
  /\ pc = "judge" => caller = "drive" /\ doc.kind = "part"
  /\ pc \in Reads => \/ caller = "drive" /\ doc.kind = "part"
                     \/ caller \in Polling /\ doc.kind = "current"
  /\ pc \in {"dispatch", "serving"} => todo # <<>> /\ fresh # {}
  /\ pc = "wait" => waitFor \in {"connect", "open"}
  /\ caller = "wait" => waitFor = "open"
  /\ pc \in Reads /\ doc.kind = "current" => \A d \in Devices : doc.obs[d] # {}

Typed == setup \in Setups /\ TypeOK
Shape == Typed /\ Logged /\ Control

LEMMA BoundsAre ==
  ASSUME setup \in Setups
  PROVE  /\ MaxInst \in Nat /\ MaxInst >= 1 /\ MaxSeq \in Nat /\ MaxSeq >= 1
         /\ EstablishLimit \in Nat /\ EstablishLimit >= 1
         /\ BufSize \in Nat /\ BufSize >= 1
         /\ setup.prefer \in BOOLEAN /\ setup.faults \in Nat /\ setup.closes \in Nat
         /\ Cardinality(Devices) <= MaxSeq
BY DEF MaxInst, MaxSeq, EstablishLimit, BufSize

LEMMA BootIs ==
  ASSUME setup \in Setups
  PROVE  /\ Boot \in Seq(Devices) /\ ToSet(Boot) = Devices
         /\ Len(Boot) <= MaxSeq
         /\ \A d \in Devices : {n \in DOMAIN Boot : Boot[n] = d} # {}
<1>1. Boot \in Seq(Devices) /\ ToSet(Boot) = Devices /\ Len(Boot) = Cardinality(Devices)
  BY SetToSeqIs DEF Boot
<1>2. \A d \in Devices : \E n \in DOMAIN Boot : Boot[n] = d
  BY <1>1 DEF ToSet
<1> QED BY <1>1, <1>2, BoundsAre

\* The last observation of a device.
LEMMA LatestIs ==
  ASSUME log \in Seq(Devices), Logged, NEW d \in Devices
  PROVE  /\ Latest(d) \in Of(d) /\ Latest(d) \in 1 .. Len(log)
         /\ \A n \in Of(d) : n <= Latest(d)
<1>1. Of(d) \in SUBSET (0 .. Len(log)) /\ Of(d) # {} /\ Len(log) \in Nat
  BY DEF Of, Logged
<1>2. Latest(d) = Max(Of(d))
  BY DEF Latest, Of
<1>3. Latest(d) \in Of(d) /\ \A n \in Of(d) : n <= Latest(d)
  BY <1>1, <1>2, MaxIs
<1> QED BY <1>3 DEF Of

LEMMA InitShape == Init => Shape
<1> SUFFICES ASSUME Init PROVE Shape
  OBVIOUS
<1>1. setup \in Setups
  BY DEF Init
<1>2. Logged
  BY <1>1, BootIs DEF Init, Logged, Of
<1>3. TypeOK
  <2>1. /\ MaxInst \in Nat /\ MaxInst >= 1 /\ MaxSeq \in Nat /\ MaxSeq >= 1
        /\ EstablishLimit \in Nat /\ setup.faults \in Nat /\ setup.closes \in Nat
    BY <1>1, BoundsAre
  <2>2. Boot \in Seq(Devices) /\ Len(Boot) <= MaxSeq
    BY <1>1, BootIs
  <2>3. AgentTypes
    BY <2>1, <2>2 DEF Init, AgentTypes
  <2>4. SessionTypes
    <3>1. /\ sess = [d \in Devices |-> "off"] /\ model = [d \in Devices |-> 0]
          /\ since = [d \in Devices |-> 0] /\ connected = FALSE /\ permit = FALSE
          /\ pending = {}
      BY DEF Init
    <3>2. /\ sess \in [Devices -> {"off", "connecting", "on"}]
          /\ model \in [Devices -> 0 .. MaxInst] /\ since \in [Devices -> 0 .. MaxInst]
      BY <2>1, <3>1
    <3>3. connected \in BOOLEAN /\ permit \in BOOLEAN /\ pending \subseteq Devices
      BY <3>1
    <3> QED BY <3>2, <3>3 DEF SessionTypes
  <2>5. QueueTypes
    BY <2>1 DEF Init, QueueTypes, NoBase
  <2>6. SeqTypes
    BY <2>1 DEF Init, SeqTypes, NoFloors
  <2>7. TaskTypes
    <3>1. /\ pc \in {"connect", "idle"} /\ caller = "none" /\ waitFor = "none"
          /\ todo = <<>> /\ fresh = {} /\ failures = 0
          /\ ~resync /\ ~abandoned /\ ~degraded /\ ~republish
          /\ resync \in BOOLEAN /\ abandoned \in BOOLEAN
          /\ degraded \in BOOLEAN /\ republish \in BOOLEAN
      BY DEF Init
    <3> QED BY <2>1, <3>1 DEF TaskTypes
  <2>8. DocTypes
    BY <2>1 DEF Init, DocTypes, NoDoc, Closed
  <2> QED BY <2>3, <2>4, <2>5, <2>6, <2>7, <2>8 DEF TypeOK
<1>4. Control
  BY DEF Init, Control, NoDoc, Reads
<1> QED BY <1>1, <1>2, <1>3, <1>4 DEF Shape, Typed

----------------------------------------------------------------------------
(* What a step may change.                                                 *)

LEMMA Frames ==
  ASSUME [Next]_vars
  PROVE  /\ setup' = setup
         /\ \/ Restart \/ \E d \in Devices : Observe(d)
            \/ inst' = inst /\ log' = log
         /\ faults' = faults \/ Fault
         /\ closes' = closes \/ (closes < setup.closes /\ closes' = closes + 1)
         /\ \/ Reprobe \/ \E d \in Devices : Connect(d) \/ Attach(d) \/ CloseSession(d)
            \/ sess' = sess /\ since' = since /\ model' = model
         /\ connected' \in {TRUE, FALSE, connected} /\ permit' \in {TRUE, FALSE, permit}
         /\ pending' \in {pending, {}} \cup {pending \cup {d} : d \in Devices}
         /\ \/ Measure \/ Dispatch \/ DispatchDropped \/ ServeDelivered
            \/ \E n \in 1 .. MaxSeq : PartGarbled(n)
            \/ \E d \in Devices : Attach(d) \/ Drain(d) \/ CloseSession(d)
            \/ critical' = critical /\ data' = data /\ given' = given /\ lost' = lost
               /\ marked' = marked /\ base' = base
         /\ Ingest \/ Measure \/ OutOfRange \/ ServeDelivered \/ seq' = seq
         /\ \/ Reprobed \/ Ingest \/ OutOfRange \/ FetchFailed
            \/ resync' = resync /\ abandoned' = abandoned
<1> USE DEF Next, vars, agentVars, deviceVars, queueVars, workVars, loopVars, debtVars,
      resyncVars, machineVars, sessionFrame,
      BeginCycle, TaskStep, Reprobe, Reprobed, Fetch, Ingest, Measure, Dispatch, MarkUp,
      Settle, Open, OpenRefused, Judge, OutOfRange, StreamSevered, AttachNotified, Serve,
      ServeDelivered, ServeGone, Served, Receive, ReadPart, Elapsed, Failure, ReprobeFailed,
      FetchFailed, DispatchDropped, OpenFailed, StreamLost, ServeFailed, ServeUndelivered,
      PartGarbled, Restart, Observe, SessionStep, Connect, Attach, Drain, LinkLost, Close,
      LadderOne
<1>1. /\ setup' = setup
      /\ \/ Restart \/ \E d \in Devices : Observe(d)
         \/ inst' = inst /\ log' = log
  BY DEF CloseSession
<1>2. faults' = faults \/ Fault
  BY DEF CloseSession
<1>3. closes' = closes \/ (closes < setup.closes /\ closes' = closes + 1)
  BY DEF CloseSession
<1>4. \/ Reprobe \/ \E d \in Devices : Connect(d) \/ Attach(d) \/ CloseSession(d)
      \/ sess' = sess /\ since' = since /\ model' = model
  OBVIOUS
<1>5. connected' \in {TRUE, FALSE, connected} /\ permit' \in {TRUE, FALSE, permit}
  BY DEF CloseSession
<1>6. pending' \in {pending, {}} \cup {pending \cup {d} : d \in Devices}
  BY DEF CloseSession
<1>7. \/ Measure \/ Dispatch \/ DispatchDropped \/ ServeDelivered
      \/ \E n \in 1 .. MaxSeq : PartGarbled(n)
      \/ \E d \in Devices : Attach(d) \/ Drain(d) \/ CloseSession(d)
      \/ critical' = critical /\ data' = data /\ given' = given /\ lost' = lost
         /\ marked' = marked /\ base' = base
  OBVIOUS
<1>8. Ingest \/ Measure \/ OutOfRange \/ ServeDelivered \/ seq' = seq
  BY DEF CloseSession
<1>9. \/ Reprobed \/ Ingest \/ OutOfRange \/ FetchFailed
      \/ resync' = resync /\ abandoned' = abandoned
  BY DEF CloseSession
<1> QED BY <1>1, <1>2, <1>3, <1>4, <1>5, <1>6, <1>7, <1>8, <1>9

----------------------------------------------------------------------------
(* Every step keeps the types.                                             *)

LEMMA BoundsStay ==
  ASSUME setup' = setup
  PROVE  /\ MaxInst' = MaxInst /\ MaxSeq' = MaxSeq /\ EstablishLimit' = EstablishLimit
         /\ BufSize' = BufSize /\ Obs' = Obs
BY DEF MaxInst, MaxSeq, EstablishLimit, BufSize, Obs

LEMMA AgentTypesStep ==
  ASSUME Shape, [Next]_vars
  PROVE  AgentTypes'
<1>1. AgentTypes /\ setup \in Setups
  BY DEF Shape, Typed, TypeOK
<1>2. setup' = setup /\ MaxInst' = MaxInst /\ MaxSeq' = MaxSeq
  BY Frames, BoundsStay
<1>3. inst' \in 1 .. MaxInst /\ log' \in Seq(Devices) /\ Len(log') <= MaxSeq
  <2>1. CASE Restart
    BY <1>1, <2>1, BootIs, BoundsAre DEF Restart, AgentTypes
  <2>2. ASSUME NEW d \in Devices, Observe(d)
        PROVE  inst' \in 1 .. MaxInst /\ log' \in Seq(Devices) /\ Len(log') <= MaxSeq
    BY <1>1, <2>2, BoundsAre DEF Observe, AgentTypes
  <2>3. CASE inst' = inst /\ log' = log
    BY <1>1, <2>3 DEF AgentTypes
  <2> QED BY <2>1, <2>2, <2>3, Frames
<1>4. faults' \in 0 .. setup.faults /\ closes' \in 0 .. setup.closes
  <2>1. /\ faults' = faults \/ Fault
        /\ closes' = closes \/ (closes < setup.closes /\ closes' = closes + 1)
    BY Frames
  <2>2. /\ faults \in 0 .. setup.faults /\ closes \in 0 .. setup.closes
        /\ setup.faults \in Nat /\ setup.closes \in Nat
    BY <1>1, BoundsAre DEF AgentTypes
  <2>3. faults' \in 0 .. setup.faults
    BY <2>1, <2>2 DEF Fault
  <2>4. closes' \in 0 .. setup.closes
    BY <2>1, <2>2
  <2> QED BY <2>3, <2>4
<1> QED BY <1>2, <1>3, <1>4 DEF AgentTypes

LEMMA SessionTypesStep ==
  ASSUME Shape, [Next]_vars
  PROVE  SessionTypes'
<1>1. SessionTypes /\ AgentTypes /\ SeqTypes /\ TaskTypes /\ setup \in Setups
  BY DEF Shape, Typed, TypeOK
<1>2. setup' = setup /\ MaxInst' = MaxInst
  BY Frames, BoundsStay
<1>3. inst \in 0 .. MaxInst /\ seq.inst \in 0 .. MaxInst
  BY <1>1, BoundsAre DEF AgentTypes, SeqTypes
<1> DEFINE Kept == /\ sess' \in [Devices -> {"off", "connecting", "on"}]
                   /\ model' \in [Devices -> 0 .. MaxInst]
                   /\ since' \in [Devices -> 0 .. MaxInst]
<1>4. Kept
  <2>1. CASE Reprobe
    BY <1>1, <1>3, <2>1 DEF Reprobe, SessionTypes, deviceVars
  <2>2. ASSUME NEW d \in Devices, Connect(d) \/ Attach(d) \/ CloseSession(d) PROVE Kept
    <3>1. CASE Connect(d)
      BY <1>1, <1>3, <3>1 DEF Connect, SessionTypes
    <3>2. CASE Attach(d)
      BY <1>1, <1>3, <3>2 DEF Attach, SessionTypes
    <3>3. CASE CloseSession(d)
      BY <1>1, <3>3 DEF CloseSession, SessionTypes
    <3> QED BY <2>2, <3>1, <3>2, <3>3
  <2>3. CASE sess' = sess /\ since' = since /\ model' = model
    BY <1>1, <2>3 DEF SessionTypes
  <2> QED BY <2>1, <2>2, <2>3, Frames
<1>5. connected' \in BOOLEAN /\ permit' \in BOOLEAN /\ pending' \subseteq Devices
  BY <1>1, Frames DEF SessionTypes
<1> QED BY <1>2, <1>4, <1>5 DEF SessionTypes

LEMMA InHandIs ==
  ASSUME Shape
  PROVE  /\ todo # <<>> => Head(todo) \in Devices /\ Tail(todo) \in Seq(Devices)
         /\ doc.inst \in 0 .. MaxInst /\ doc.next \in 0 .. MaxSeq + 1
         /\ doc.rebase \in BOOLEAN /\ doc.republish \in BOOLEAN
         /\ \A d \in Devices : doc.obs[d] \in SUBSET (1 .. MaxSeq)
         /\ inst \in 1 .. MaxInst /\ MaxInst \in Nat /\ MaxSeq \in Nat /\ MaxSeq >= 1
         /\ fresh \in SUBSET (1 .. MaxSeq)
         /\ \A d \in Devices : model[d] \in 0 .. MaxInst /\ since[d] \in 0 .. MaxInst
         /\ seq.inst \in 0 .. MaxInst /\ seq.next \in 0 .. MaxSeq + 1
         /\ \A d \in Devices : seq.floor[d] \in 0 .. MaxSeq
         /\ log \in Seq(Devices) /\ Len(log) \in Nat /\ Len(log) <= MaxSeq
<1>1. AgentTypes /\ SessionTypes /\ SeqTypes /\ TaskTypes /\ DocTypes /\ setup \in Setups
  BY DEF Shape, Typed, TypeOK
<1>2. MaxInst \in Nat /\ MaxSeq \in Nat /\ MaxSeq >= 1
  BY <1>1, BoundsAre
<1>3. todo # <<>> => Head(todo) \in Devices /\ Tail(todo) \in Seq(Devices)
  BY <1>1 DEF TaskTypes
<1>4. /\ doc.inst \in 0 .. MaxInst /\ doc.next \in 0 .. MaxSeq + 1
      /\ doc.rebase \in BOOLEAN /\ doc.republish \in BOOLEAN
      /\ \A d \in Devices : doc.obs[d] \in SUBSET (1 .. MaxSeq)
  BY <1>1 DEF DocTypes
<1>5. fresh \in SUBSET (1 .. MaxSeq)
  BY <1>1 DEF TaskTypes
<1>6. \A d \in Devices : model[d] \in 0 .. MaxInst /\ since[d] \in 0 .. MaxInst
  BY <1>1 DEF SessionTypes
<1>7. /\ seq.inst \in 0 .. MaxInst /\ seq.next \in 0 .. MaxSeq + 1
      /\ \A d \in Devices : seq.floor[d] \in 0 .. MaxSeq
  BY <1>1 DEF SeqTypes
<1>8. inst \in 1 .. MaxInst /\ log \in Seq(Devices) /\ Len(log) \in Nat /\ Len(log) <= MaxSeq
  BY <1>1 DEF AgentTypes
<1> QED BY <1>2, <1>3, <1>4, <1>5, <1>6, <1>7, <1>8

\* What is in hand when a device is measured or dispatched.
LEMMA BatchIs ==
  ASSUME Shape, pc \in {"dispatch", "serving"}
  PROVE  /\ todo # <<>> /\ Head(todo) \in Devices /\ fresh # {}
         /\ Max(fresh) \in fresh /\ Max(fresh) \in 1 .. MaxSeq
         /\ \A n \in fresh : n <= Max(fresh)
<1>1. fresh \in SUBSET (0 .. MaxSeq) /\ fresh # {} /\ todo # <<>> /\ MaxSeq \in Nat
      /\ fresh \in SUBSET (1 .. MaxSeq)
  BY InHandIs DEF Shape, Control
<1> QED BY <1>1, InHandIs, MaxIs

LEMMA ObsIs ==
  ASSUME Shape, pc \in Reads, NEW d \in Devices, doc.obs[d] # {}
  PROVE  /\ Max(doc.obs[d]) \in doc.obs[d] /\ Max(doc.obs[d]) \in 1 .. MaxSeq
         /\ \A n \in doc.obs[d] : n <= Max(doc.obs[d])
<1>1. doc.obs[d] \in SUBSET (0 .. MaxSeq) /\ doc.obs[d] \in SUBSET (1 .. MaxSeq)
      /\ MaxSeq \in Nat
  BY InHandIs
<1> QED BY <1>1, MaxIs

LEMMA EventIs ==
  ASSUME Shape, NEW d \in Devices, NEW n \in 1 .. MaxSeq
  PROVE  Event(d, n) \in Obs
BY InHandIs DEF Event, Obs

LEMMA PushedSnapshot ==
  ASSUME Shape, QueueTypes, NEW d \in Devices, PushSnapshot(d), Max(fresh) \in 1 .. MaxSeq
  PROVE  /\ critical' \in [Devices -> Seq(Obs)] /\ data' = data
         /\ given' \in [Devices -> SUBSET Obs] /\ lost' = lost
         /\ marked' \in [Devices -> 0 .. MaxInst]
<1>1. Event(d, Max(fresh)) \in Obs
  BY EventIs
<1>2. critical' \in [Devices -> Seq(Obs)]
  BY <1>1 DEF PushSnapshot, QueueTypes
<1>3. given' \in [Devices -> SUBSET Obs]
  BY <1>1 DEF PushSnapshot, QueueTypes
<1>4. marked' \in [Devices -> 0 .. MaxInst]
  BY InHandIs DEF PushSnapshot, QueueTypes
<1> QED BY <1>2, <1>3, <1>4 DEF PushSnapshot

\* The batch becomes that many events, one of each of its numbers.
LEMMA PushedObs ==
  ASSUME Shape, QueueTypes, NEW d \in Devices, PushObs(d)
  PROVE  /\ data' \in [Devices -> Seq(Obs)] /\ critical' = critical
         /\ given' \in [Devices -> SUBSET Obs] /\ lost' = lost /\ marked' = marked
         /\ \A e \in Devices \ {d} : data'[e] = data[e]
         /\ \A i \in Len(data[d]) + 1 .. Len(data'[d]) :
              \E n \in fresh : data'[d][i] = Event(d, n)
<1> DEFINE k == Cardinality(fresh)
           s == [i \in DOMAIN Ascending(fresh) |-> Event(d, Ascending(fresh)[i])]
<1>1. fresh \in SUBSET (1 .. MaxSeq) /\ MaxSeq \in Nat /\ fresh \in SUBSET (0 .. MaxSeq)
  BY InHandIs
<1>2. Ascending(fresh) \in [1 .. k -> fresh] /\ k \in Nat
  BY <1>1, AscendingIs
<1>3. \A n \in fresh : Event(d, n) \in Obs
  BY <1>1, EventIs
<1>4. DOMAIN s = 1 .. k /\ \A i \in 1 .. k : \E n \in fresh : s[i] = Event(d, n)
  BY <1>2
<1>5. s \in [1 .. k -> Obs]
  BY <1>2, <1>3
<1>6. data' = [data EXCEPT ![d] = data[d] \o s]
  BY DEF PushObs
<1> HIDE DEF s, k
<1>7. s \in Seq(Obs) /\ Len(s) = k
  BY <1>2, <1>5
<1>8. data[d] \in Seq(Obs) /\ data \in [Devices -> Seq(Obs)]
  BY DEF QueueTypes
<1>9. data[d] \o s \in Seq(Obs)
  BY <1>7, <1>8
<1>10. data' \in [Devices -> Seq(Obs)] /\ data'[d] = data[d] \o s
       /\ \A e \in Devices \ {d} : data'[e] = data[e]
  BY <1>6, <1>8, <1>9
<1>11. \A i \in Len(data[d]) + 1 .. Len(data'[d]) : \E n \in fresh : data'[d][i] = Event(d, n)
  <2> TAKE i \in Len(data[d]) + 1 .. Len(data'[d])
  <2>1. Len(data[d]) \in Nat /\ Len(data'[d]) = Len(data[d]) + k
    <3>1. Len(data[d] \o s) = Len(data[d]) + Len(s)
      BY <1>7, <1>8, ConcatProperties
    <3> QED BY <1>7, <1>8, <1>10, <3>1
  <2>2. i - Len(data[d]) \in 1 .. k /\ data'[d][i] = s[i - Len(data[d])]
    BY <1>2, <1>7, <1>8, <1>10, <2>1
  <2> QED BY <1>4, <2>2
<1>12. given' \in [Devices -> SUBSET Obs]
  <2>1. {Event(d, n) : n \in fresh} \subseteq Obs
    BY <1>3
  <2> QED BY <2>1 DEF PushObs, QueueTypes
<1> QED BY <1>10, <1>11, <1>12 DEF PushObs

LEMMA QueueTypesStep ==
  ASSUME Shape, [Next]_vars
  PROVE  QueueTypes'
<1>1. QueueTypes /\ SessionTypes /\ setup \in Setups
  BY DEF Shape, Typed, TypeOK
<1>2. setup' = setup /\ MaxInst' = MaxInst /\ MaxSeq' = MaxSeq /\ Obs' = Obs
  BY Frames, BoundsStay
<1> DEFINE Lanes == /\ critical' \in [Devices -> Seq(Obs)] /\ data' \in [Devices -> Seq(Obs)]
                    /\ given' \in [Devices -> SUBSET Obs] /\ lost' \in [Devices -> SUBSET Obs]
                    /\ marked' \in [Devices -> 0 .. MaxInst]
           Bases == base' \in [Devices -> [inst : 0 .. MaxInst, n : 0 .. MaxSeq]]
           Same  == critical' = critical /\ data' = data /\ given' = given /\ lost' = lost
                    /\ marked' = marked
<1> SUFFICES Lanes /\ Bases
  BY <1>2 DEF QueueTypes
<1>3. Same => Lanes
  BY <1>1 DEF QueueTypes
<1>4. base' = base => Bases
  BY <1>1 DEF QueueTypes
<1>5. CASE Measure
  <2>1. Same
    BY <1>5 DEF Measure, queueVars
  <2>2. Bases
    <3> DEFINE d == Head(todo)
    <3>1. d \in Devices /\ pc = "measure" /\ doc.inst \in 0 .. MaxInst
      BY <1>5, InHandIs DEF Measure
    <3>2. CASE doc.kind = "current"
      <4>1. doc.obs[d] # {} /\ pc \in Reads
        BY <3>1, <3>2 DEF Shape, Control, Reads
      <4> HIDE DEF d
      <4>2. Max(doc.obs[d]) \in 0 .. MaxSeq
        <5>1. Max(doc.obs[d]) \in 1 .. MaxSeq
          BY <3>1, <4>1, ObsIs
        <5> QED BY <5>1, InHandIs
      <4>3. \/ base' = base
            \/ base' = [base EXCEPT ![d] = [inst |-> doc.inst, n |-> Max(doc.obs[d])]]
        BY <1>5, <3>2 DEF Measure, d
      <4>4. [inst |-> doc.inst, n |-> Max(doc.obs[d])] \in [inst : 0 .. MaxInst, n : 0 .. MaxSeq]
        BY <3>1, <4>2
      <4> QED BY <1>1, <1>4, <3>1, <4>3, <4>4 DEF QueueTypes
    <3>3. CASE doc.kind # "current"
      BY <1>4, <1>5, <3>3 DEF Measure
    <3> QED BY <3>2, <3>3
  <2> QED BY <1>3, <2>1, <2>2
<1>6. CASE Dispatch
  <2> DEFINE d == Head(todo)
  <2>1. /\ pc = "dispatch" /\ base' = base
        /\ \/ Same \/ PushSnapshot(d) \/ PushObs(d)
    BY <1>6 DEF Dispatch, queueVars
  <2>2. d \in Devices /\ Max(fresh) \in 1 .. MaxSeq
    BY <2>1, BatchIs
  <2>3. PushSnapshot(d) => Lanes
    BY <1>1, <2>2, PushedSnapshot DEF QueueTypes
  <2>4. PushObs(d) => Lanes
    BY <1>1, <2>2, PushedObs DEF QueueTypes
  <2> QED BY <1>3, <1>4, <2>1, <2>3, <2>4
<1>7. CASE DispatchDropped
  <2> DEFINE d == Head(todo)
  <2>1. /\ pc = "dispatch" /\ base' = base /\ critical' = critical /\ data' = data
        /\ given' = given
        /\ lost' = [lost EXCEPT ![d] = @ \cup {Event(d, n) : n \in fresh}]
        /\ marked' = marked \/ marked' = [marked EXCEPT ![d] = doc.inst]
    BY <1>7 DEF DispatchDropped
  <2>2. d \in Devices /\ fresh \in SUBSET (1 .. MaxSeq) /\ doc.inst \in 0 .. MaxInst
    BY <2>1, BatchIs, InHandIs
  <2>3. {Event(d, n) : n \in fresh} \subseteq Obs
    BY <2>2, EventIs
  <2>4. lost' \in [Devices -> SUBSET Obs]
    BY <1>1, <2>1, <2>2, <2>3 DEF QueueTypes
  <2>5. marked' \in [Devices -> 0 .. MaxInst]
    BY <1>1, <2>1, <2>2 DEF QueueTypes
  <2> QED BY <1>1, <1>4, <2>1, <2>4, <2>5 DEF QueueTypes
<1>8. CASE ServeDelivered
  <2> DEFINE d == Head(todo)
  <2>1. /\ pc = "serving" /\ PushSnapshot(d)
        /\ base' = [base EXCEPT ![d] = [inst |-> doc.inst, n |-> Max(fresh)]]
    BY <1>8 DEF ServeDelivered
  <2>2. d \in Devices /\ Max(fresh) \in 1 .. MaxSeq /\ doc.inst \in 0 .. MaxInst
    BY <2>1, BatchIs, InHandIs
  <2>3. Lanes
    BY <1>1, <2>1, <2>2, PushedSnapshot DEF QueueTypes
  <2>4. Bases
    BY <1>1, <2>1, <2>2 DEF QueueTypes
  <2> QED BY <2>3, <2>4
<1>9. ASSUME NEW m \in 1 .. MaxSeq, PartGarbled(m) PROVE Lanes /\ Bases
  <2>1. /\ critical' = critical /\ data' = data /\ given' = given /\ marked' = marked
        /\ base' = base
        /\ lost' = [d \in Devices |-> lost[d] \cup
             {[inst |-> inst, n |-> i, gen |-> model[d]] :
                i \in {j \in stream.pos .. m : log[j] = d}}]
    BY <1>9 DEF PartGarbled
  <2>2. stream.pos \in Nat /\ stream.pos >= 1
    <3>1. InWindow(stream.pos) /\ stream.pos \in 0 .. MaxSeq + 1
      BY <1>9 DEF PartGarbled, Shape, Typed, TypeOK, DocTypes
    <3>2. FirstSequence \in Int /\ FirstSequence >= 1
      <4>1. Len(log) \in Nat /\ BufSize \in Nat
        BY <1>1, BoundsAre, InHandIs
      <4>2. \E x \in {1, Len(log) - BufSize + 1} : \A y \in {1, Len(log) - BufSize + 1} : x >= y
        <5>1. CASE Len(log) - BufSize + 1 <= 1
          BY <4>1, <5>1
        <5>2. CASE Len(log) - BufSize + 1 >= 1
          BY <4>1, <5>2
        <5> QED BY <4>1, <5>1, <5>2
      <4>3. /\ FirstSequence \in {1, Len(log) - BufSize + 1}
            /\ \A y \in {1, Len(log) - BufSize + 1} : FirstSequence >= y
        BY <4>2 DEF FirstSequence, Max
      <4> QED BY <4>1, <4>3
    <3> QED BY <3>1, <3>2, InHandIs DEF InWindow
  <2>3. ASSUME NEW d \in Devices, NEW i \in stream.pos .. m
        PROVE  [inst |-> inst, n |-> i, gen |-> model[d]] \in Obs
    BY <2>2, InHandIs DEF Obs
  <2>4. lost' \in [Devices -> SUBSET Obs]
    BY <1>1, <2>1, <2>3 DEF QueueTypes
  <2> QED BY <1>1, <1>4, <2>1, <2>4 DEF QueueTypes
<1>10. ASSUME NEW d \in Devices, Attach(d) \/ Drain(d) \/ CloseSession(d)
       PROVE  Lanes /\ Bases
  <2>1. CASE Attach(d)
    <3>1. 0 \in 0 .. MaxInst /\ 0 \in 0 .. MaxSeq
      BY InHandIs
    <3> QED BY <1>1, <2>1, <3>1 DEF Attach, QueueTypes, NoBase
  <2>2. CASE Drain(d)
    BY <1>1, <2>2 DEF Drain, QueueTypes
  <2>3. CASE CloseSession(d)
    BY <1>1, <2>3 DEF CloseSession, QueueTypes
  <2> QED BY <1>10, <2>1, <2>2, <2>3
<1> HIDE DEF Lanes, Bases
<1>11. \/ Measure \/ Dispatch \/ DispatchDropped \/ ServeDelivered
       \/ \E n \in 1 .. MaxSeq : PartGarbled(n)
       \/ \E d \in Devices : Attach(d) \/ Drain(d) \/ CloseSession(d)
       \/ Same /\ base' = base
  BY Frames
<1> QED BY <1>3, <1>4, <1>5, <1>6, <1>7, <1>8, <1>9, <1>10, <1>11

LEMMA FloorRaised ==
  ASSUME SeqTypes, NEW d \in Devices, NEW x \in 0 .. MaxSeq,
         seq' = [seq EXCEPT !.floor[d] = x]
  PROVE  /\ seq' \in [inst : 0 .. MaxInst, next : 0 .. MaxSeq + 1, floor : [Devices -> 0 .. MaxSeq]]
         /\ seq'.inst = seq.inst /\ seq'.next = seq.next
         /\ seq'.floor = [seq.floor EXCEPT ![d] = x]
<1>1. seq.floor \in [Devices -> 0 .. MaxSeq]
  BY DEF SeqTypes
<1>2. [seq.floor EXCEPT ![d] = x] \in [Devices -> 0 .. MaxSeq]
  BY <1>1
<1>3. seq' = [seq EXCEPT !.floor = [seq.floor EXCEPT ![d] = x]]
  BY DEF SeqTypes
<1> QED BY <1>2, <1>3 DEF SeqTypes

LEMMA SeqTypesStep ==
  ASSUME Shape, [Next]_vars
  PROVE  SeqTypes'
<1>1. SeqTypes /\ setup \in Setups
  BY DEF Shape, Typed, TypeOK
<1>2. setup' = setup /\ MaxInst' = MaxInst /\ MaxSeq' = MaxSeq
  BY Frames, BoundsStay
<1> DEFINE T == [inst : 0 .. MaxInst, next : 0 .. MaxSeq + 1, floor : [Devices -> 0 .. MaxSeq]]
<1>3. seq \in T
  BY <1>1 DEF SeqTypes
<1> SUFFICES seq' \in T
  BY <1>2 DEF SeqTypes
<1>4. CASE Ingest
  <2>1. NoFloors \in [Devices -> 0 .. MaxSeq] /\ seq.floor \in [Devices -> 0 .. MaxSeq]
    BY <1>3, InHandIs DEF NoFloors
  <2>2. doc.inst \in 0 .. MaxInst /\ doc.next \in 0 .. MaxSeq + 1
    BY InHandIs
  <2>3. PICK f \in {NoFloors, seq.floor} :
          seq' = [inst |-> doc.inst, next |-> doc.next, floor |-> f]
    BY <1>4 DEF Ingest, observe_header
  <2>4. f \in [Devices -> 0 .. MaxSeq]
    BY <2>1, <2>3
  <2> QED BY <2>2, <2>3, <2>4
<1>5. CASE Measure
  <2> DEFINE d   == Head(todo)
             new == {n \in doc.obs[d] : should_publish(d, n)}
  <2>1. seq' = seq \/ (new # {} /\ seq' = [seq EXCEPT !.floor[d] = Max(new)])
    BY <1>5 DEF Measure
  <2>2. d \in Devices /\ new \in SUBSET (0 .. MaxSeq) /\ MaxSeq \in Nat
    BY <1>5, InHandIs DEF Measure
  <2> HIDE DEF new, d
  <2>3. CASE new # {} /\ seq' = [seq EXCEPT !.floor[d] = Max(new)]
    <3>1. Max(new) \in 0 .. MaxSeq
      BY <2>2, <2>3, MaxIs
    <3> QED BY <1>1, <2>2, <2>3, <3>1, FloorRaised
  <2>4. CASE seq' = seq
    BY <1>3, <2>4
  <2> QED BY <2>1, <2>3, <2>4
<1>6. CASE OutOfRange
  <2>1. NoFloors \in [Devices -> 0 .. MaxSeq] /\ seq.floor \in [Devices -> 0 .. MaxSeq]
    BY <1>3, InHandIs DEF NoFloors
  <2>2. inst \in 0 .. MaxInst /\ 0 \in 0 .. MaxSeq + 1
    BY InHandIs
  <2>3. \/ seq' = seq
        \/ \E f \in {NoFloors, seq.floor} : seq' = [inst |-> inst, next |-> 0, floor |-> f]
    <3>1. CASE seq' = seq
      BY <3>1
    <3>2. CASE seq' = [observe_header([inst |-> inst, next |-> seq.next, republish |-> FALSE])
                         EXCEPT !.next = 0]
      BY <3>2 DEF observe_header
    <3> QED BY <1>6, <3>1, <3>2 DEF OutOfRange
  <2>4. \A f \in {NoFloors, seq.floor} : [inst |-> inst, next |-> 0, floor |-> f] \in T
    BY <2>1, <2>2
  <2> QED BY <1>3, <2>3, <2>4
<1>7. CASE ServeDelivered
  <2> DEFINE d == Head(todo)
             both == fresh \cup {seq.floor[d]}
  <2>1. pc = "serving" /\ seq' = [seq EXCEPT !.floor[d] = Max(both)]
    BY <1>7 DEF ServeDelivered
  <2>2. d \in Devices
    BY <2>1, BatchIs
  <2>3. both \in SUBSET (0 .. MaxSeq) /\ both # {} /\ MaxSeq \in Nat
    BY <2>2, InHandIs
  <2> HIDE DEF both, d
  <2>4. Max(both) \in 0 .. MaxSeq
    BY <2>3, MaxIs
  <2> QED BY <1>1, <2>1, <2>2, <2>4, FloorRaised
<1>8. seq' = seq => seq' \in T
  BY <1>3
<1>9. Ingest \/ Measure \/ OutOfRange \/ ServeDelivered \/ seq' = seq
  BY Frames
<1> QED BY <1>4, <1>5, <1>6, <1>7, <1>8, <1>9

LEMMA LoggedStep ==
  ASSUME Shape, [Next]_vars
  PROVE  Logged'
<1>1. Logged /\ log \in Seq(Devices) /\ setup \in Setups
  BY InHandIs DEF Shape, Typed
<1>2. CASE Restart
  BY <1>1, <1>2, BootIs DEF Restart, Logged, Of
<1>3. ASSUME NEW d \in Devices, Observe(d) PROVE Logged'
  <2>1. log' = Append(log, d)
    BY <1>3 DEF Observe
  <2>2. \A n \in DOMAIN log : n \in DOMAIN log' /\ log'[n] = log[n]
    BY <1>1, <2>1
  <2> QED BY <1>1, <2>2 DEF Logged, Of
<1>4. CASE log' = log
  BY <1>1, <1>4 DEF Logged, Of
<1> QED BY <1>2, <1>3, <1>4, Frames

\* A step of the agent or of a session leaves the task where it is.
Aside == UNCHANGED <<seq, resyncVars, pc, workVars, stream, loopVars>>

LEMMA TaskActs ==
  ASSUME [Next]_vars
  PROVE  \/ BeginCycle \/ Reprobe \/ ReprobeFailed \/ Reprobed \/ Fetch \/ FetchFailed
         \/ Ingest \/ Measure \/ Dispatch \/ DispatchDropped \/ MarkUp \/ Settle
         \/ Open \/ OpenRefused \/ OpenFailed \/ \E n \in 0 .. MaxSeq : ReadPart(n)
         \/ \E n \in 1 .. MaxSeq : PartGarbled(n)
         \/ Judge \/ OutOfRange \/ StreamLost \/ StreamSevered \/ Elapsed
         \/ AttachNotified \/ Serve \/ ServeFailed \/ ServeDelivered \/ ServeGone
         \/ ServeUndelivered \/ Served
         \/ Aside
BY SMTT(30) DEF Next, TaskStep, Receive, Failure, SessionStep, Restart, Observe, Connect, Attach, Drain,
  LinkLost, Close, CloseSession, sessionFrame, vars, Aside, resyncVars, workVars, loopVars

\* What may happen where the task is: its own steps, or those around it.
LEMMA ActsAt ==
  ASSUME [Next]_vars
  PROVE  /\ pc = "reprobe" => Reprobe \/ ReprobeFailed \/ Reprobed \/ Aside
         /\ pc = "fetch" => Fetch \/ FetchFailed \/ Aside
         /\ pc = "ingest" => Ingest \/ Aside
         /\ pc = "measure" => Measure \/ MarkUp \/ Aside
         /\ pc = "dispatch" => Dispatch \/ DispatchDropped \/ Aside
         /\ pc = "settle" => Settle \/ Aside
         /\ pc = "judge" => Judge \/ Aside
         /\ pc = "serve" => Serve \/ ServeFailed \/ Served \/ Aside
         /\ pc = "serving" => ServeDelivered \/ ServeGone \/ ServeUndelivered \/ Aside
         /\ pc = "open" => Open \/ OpenRefused \/ OpenFailed \/ Aside
<1> USE TaskActs DEF BeginCycle, Reprobe, ReprobeFailed, Reprobed, Fetch, FetchFailed,
      Ingest, MarkUp, Settle, Measure, Dispatch, DispatchDropped, Open, OpenRefused, OpenFailed,
      ReadPart, PartGarbled, Judge, OutOfRange, StreamLost, StreamSevered, Elapsed, AttachNotified,
      Serve, ServeFailed, ServeDelivered, ServeGone, ServeUndelivered, Served, Alive
<1>1. pc = "reprobe" => Reprobe \/ ReprobeFailed \/ Reprobed \/ Aside
  OBVIOUS
<1>2. pc = "fetch" => Fetch \/ FetchFailed \/ Aside
  OBVIOUS
<1>3. pc = "ingest" => Ingest \/ Aside
  OBVIOUS
<1>4. pc = "measure" => Measure \/ MarkUp \/ Aside
  OBVIOUS
<1>5. pc = "dispatch" => Dispatch \/ DispatchDropped \/ Aside
  OBVIOUS
<1>6. pc = "settle" => Settle \/ Aside
  OBVIOUS
<1>7. pc = "judge" => Judge \/ Aside
  OBVIOUS
<1>8. pc = "serve" => Serve \/ ServeFailed \/ Served \/ Aside
  OBVIOUS
<1>9. pc = "serving" => ServeDelivered \/ ServeGone \/ ServeUndelivered \/ Aside
  OBVIOUS
<1>10. pc = "open" => Open \/ OpenRefused \/ OpenFailed \/ Aside
  OBVIOUS
<1> QED BY <1>1, <1>2, <1>3, <1>4, <1>5, <1>6, <1>7, <1>8, <1>9, <1>10

LEMMA AsideIs ==
  ASSUME Aside
  PROVE  UNCHANGED <<seq, resync, abandoned, pc, doc, todo, fresh, caller, stream, failures,
                     degraded, republish, waitFor>>
BY DEF Aside, resyncVars, workVars, loopVars

LEMMA ControlStep ==
  ASSUME Shape, [Next]_vars
  PROVE  Control'
<1> USE DEF Reads, Polling
<1>1. Control /\ TaskTypes
  BY DEF Shape, Typed, TypeOK
<1>2. CASE BeginCycle
  <2>1. caller' = pc /\ pc \in Polling /\ (pc = "wait" => waitFor = "open")
        /\ pc' \in {"reprobe", "fetch"} /\ doc'.kind = "current" /\ waitFor' = waitFor
    BY <1>2 DEF BeginCycle, NoDoc, loopVars
  <2> QED BY <2>1 DEF Control
<1>3. CASE Reprobe
  BY <1>1, <1>3 DEF Reprobe, Control, loopVars
<1>4. CASE ReprobeFailed \/ FetchFailed
  <2>1. CycleFailed /\ pc \in {"reprobe", "fetch"}
    BY <1>4 DEF ReprobeFailed, FetchFailed
  <2>2. doc'.kind = "none" /\ caller' = "none"
        /\ \/ pc' = "wait" /\ waitFor' = "connect"
           \/ caller # "connect" /\ pc' = caller /\ waitFor' = waitFor
    BY <2>1 DEF CycleFailed, NoDoc
  <2> QED BY <1>1, <2>1, <2>2 DEF Control
<1>5. CASE Reprobed
  BY <1>1, <1>5 DEF Reprobed, Control, loopVars, workVars
<1>6. CASE Fetch
  <2>1. \A d \in Devices : CurrentDoc[d] # {}
    BY DEF CurrentDoc
  <2>2. /\ pc = "fetch" /\ pc' = "ingest" /\ caller' = caller /\ waitFor' = waitFor
        /\ doc'.kind = doc.kind /\ doc'.obs = CurrentDoc
    BY <1>6 DEF Fetch, loopVars, Shape, Typed, TypeOK, DocTypes
  <2> QED BY <1>1, <2>1, <2>2 DEF Control
<1>7. CASE Ingest
  BY <1>1, <1>7 DEF Ingest, Control, loopVars
<1>8. CASE Measure
  <2>1. /\ pc = "measure" /\ doc' = doc /\ caller' = caller /\ waitFor' = waitFor
        /\ \/ pc' = "measure"
           \/ pc' = "dispatch" /\ todo' = todo /\ todo # <<>> /\ fresh' # {}
    BY <1>8 DEF Measure, loopVars
  <2> QED BY <1>1, <2>1 DEF Control
<1>9. CASE Dispatch \/ DispatchDropped
  <2>1. /\ pc = "dispatch" /\ pc' = "measure" /\ doc' = doc /\ caller' = caller
        /\ waitFor' = waitFor
    BY <1>9 DEF Dispatch, DispatchDropped, loopVars
  <2> QED BY <1>1, <2>1 DEF Control
<1>10. CASE MarkUp
  <2>1. /\ pc = "measure" /\ doc' = doc /\ caller' = caller /\ waitFor' = waitFor
        /\ pc' = IF caller = "drive" THEN "judge" ELSE "settle"
    BY <1>10 DEF MarkUp, workVars, loopVars
  <2> QED BY <1>1, <2>1 DEF Control
<1>11. CASE Settle
  <2>1. /\ pc = "settle" /\ doc'.kind = "none" /\ caller' = "none" /\ waitFor' = waitFor
        /\ pc' = IF caller = "connect" THEN "open" ELSE caller
    BY <1>11 DEF Settle, NoDoc
  <2> QED BY <1>1, <2>1 DEF Control
<1>12. CASE Open \/ OpenRefused \/ OpenFailed
  <2>1. /\ pc = "open" /\ UNCHANGED <<caller, doc>>
        /\ pc' = "drive" \/ EstablishFailed
    BY <1>12 DEF Open, OpenRefused, OpenFailed, workVars
  <2>2. EstablishFailed => pc' = "wait" /\ waitFor' = "open"
    BY DEF EstablishFailed
  <2> QED BY <1>1, <2>1, <2>2 DEF Control
<1>13. ASSUME NEW n \in 0 .. MaxSeq, ReadPart(n) PROVE Control'
  <2>1. pc' = "ingest" /\ caller' = "drive" /\ doc'.kind = "part"
    BY <1>13 DEF ReadPart, NoDoc
  <2> QED BY <2>1 DEF Control
<1>14. ASSUME NEW n \in 1 .. MaxSeq, PartGarbled(n) PROVE Control'
  BY <1>1, <1>14 DEF PartGarbled, Control, workVars, loopVars
<1>15. CASE Judge
  <2>1. pc' \in {"connect", "drive"} /\ doc'.kind = "none" /\ caller' = "none"
    BY <1>15 DEF Judge, NoDoc
  <2> QED BY <2>1 DEF Control
<1>16. CASE OutOfRange
  <2>1. pc = "drive" /\ pc' = "connect" /\ UNCHANGED <<doc, caller>>
    BY <1>16 DEF OutOfRange, Alive, workVars
  <2> QED BY <1>1, <2>1 DEF Control
<1>17. CASE StreamLost \/ StreamSevered
  <2>1. /\ pc = "drive" /\ UNCHANGED <<doc, caller>>
        /\ pc' = "open" \/ EstablishFailed
    BY <1>17 DEF StreamLost, StreamSevered, Alive, LadderOne, workVars
  <2>2. EstablishFailed => pc' = "wait" /\ waitFor' = "open"
    BY DEF EstablishFailed
  <2> QED BY <1>1, <2>1, <2>2 DEF Control
<1>18. CASE Elapsed
  <2>1. pc = "wait" /\ pc' = waitFor /\ UNCHANGED <<doc, caller>>
    BY <1>18 DEF Elapsed, workVars
  <2> QED BY <1>1, <2>1 DEF Control
<1>19. CASE AttachNotified
  <2>1. pc = "drive" /\ pc' = "serve" /\ UNCHANGED <<doc, caller>>
    BY <1>19 DEF AttachNotified
  <2> QED BY <1>1, <2>1 DEF Control
<1>20. CASE Serve
  <2>1. /\ pc = "serve" /\ todo # <<>> /\ caller' = caller
        /\ \/ pc' = pc /\ doc' = doc
           \/ pc' = "serving" /\ doc'.kind = "attach" /\ todo' = todo /\ fresh' # {}
    BY <1>20 DEF Serve, NoDoc
  <2> QED BY <1>1, <2>1 DEF Control
<1>21. CASE ServeFailed
  BY <1>1, <1>21 DEF ServeFailed, Control
<1>22. CASE ServeDelivered \/ ServeGone \/ ServeUndelivered
  <2>1. pc = "serving" /\ pc' = "serve" /\ caller' = caller /\ doc'.kind = "none"
    BY <1>22 DEF ServeDelivered, ServeGone, ServeUndelivered, EndServing, NoDoc
  <2> QED BY <1>1, <2>1 DEF Control
<1>23. CASE Served
  BY <1>1, <1>23 DEF Served, Control, workVars
<1>24. CASE Aside
  BY <1>1, <1>24, AsideIs DEF Control
<1> QED BY <1>2, <1>3, <1>4, <1>5, <1>6, <1>7, <1>8, <1>9, <1>10, <1>11, <1>12, <1>13, <1>14,
  <1>15, <1>16, <1>17, <1>18, <1>19, <1>20, <1>21, <1>22, <1>23, <1>24, TaskActs

LEMMA TaskFrames ==
  ASSUME [Next]_vars
  PROVE  /\ \/ todo' \in {todo, <<>>, Boot, SetToSeq(attached), SetToSeq(pending)}
            \/ todo' = Tail(todo) /\ (todo # <<>> \/ pc \in {"dispatch", "serving"})
         /\ Measure \/ Serve \/ fresh' \in {fresh, {}}
         /\ EstablishFailed \/ failures' \in {failures, 0}
         /\ EstablishFailed \/ degraded' = degraded \/ \E b \in BOOLEAN : degraded' = (degraded /\ ~b)
                            \/ degraded' = (degraded /\ ~stream.lively)
         /\ republish' \in {republish, TRUE, FALSE}
         /\ resync' \in {resync, TRUE, FALSE} \/ Ingest \/ OutOfRange
         /\ abandoned' = abandoned \/ Ingest \/ OutOfRange \/ FetchFailed
         /\ \/ pc' \in {pc, "connect", "reprobe", "fetch", "ingest", "measure", "dispatch",
                       "settle", "open", "drive", "judge", "serve", "serving", "wait"}
            \/ pc = "wait" /\ pc' = waitFor
            \/ pc \in {"reprobe", "fetch", "settle"} /\ pc' = caller
         /\ \/ caller' \in {caller, "none", "drive"}
            \/ pc \in {"idle", "connect", "wait"} /\ caller' = pc
         /\ waitFor' \in {waitFor, "none", "connect", "open"}
<1> USE DEF Next, vars, agentVars, deviceVars, queueVars, workVars, loopVars, debtVars,
      resyncVars, machineVars, sessionFrame,
      BeginCycle, TaskStep, Reprobe, Reprobed, Fetch, Ingest, Measure, Dispatch, MarkUp,
      Settle, Open, OpenRefused, Judge, OutOfRange, StreamSevered, AttachNotified, Serve,
      ServeDelivered, ServeGone, Served, Receive, ReadPart, Elapsed, Failure, ReprobeFailed,
      FetchFailed, DispatchDropped, OpenFailed, StreamLost, ServeFailed, ServeUndelivered,
      PartGarbled, Restart, Observe, SessionStep, Connect, Attach, Drain, LinkLost, Close,
      CloseSession, LadderOne, EndServing, CycleFailed
<1>1. \/ todo' \in {todo, <<>>, Boot, SetToSeq(attached), SetToSeq(pending)}
      \/ todo' = Tail(todo) /\ (todo # <<>> \/ pc \in {"dispatch", "serving"})
  OBVIOUS
<1>2. Measure \/ Serve \/ fresh' \in {fresh, {}}
  OBVIOUS
<1>3. EstablishFailed \/ failures' \in {failures, 0}
  BY DEF Proved
<1>4. \/ EstablishFailed \/ degraded' = degraded
      \/ \E b \in BOOLEAN : degraded' = (degraded /\ ~b)
      \/ degraded' = (degraded /\ ~stream.lively)
  BY DEF Proved
<1>5. republish' \in {republish, TRUE, FALSE}
  OBVIOUS
<1>6. resync' \in {resync, TRUE, FALSE} \/ Ingest \/ OutOfRange
  OBVIOUS
<1>7. abandoned' = abandoned \/ Ingest \/ OutOfRange \/ FetchFailed
  OBVIOUS
<1>8. \/ pc' \in {pc, "connect", "reprobe", "fetch", "ingest", "measure", "dispatch",
                 "settle", "open", "drive", "judge", "serve", "serving", "wait"}
      \/ pc = "wait" /\ pc' = waitFor
      \/ pc \in {"reprobe", "fetch", "settle"} /\ pc' = caller
  BY DEF EstablishFailed
<1>9. \/ caller' \in {caller, "none", "drive"}
      \/ pc \in {"idle", "connect", "wait"} /\ caller' = pc
  OBVIOUS
<1>10. waitFor' \in {waitFor, "none", "connect", "open"}
  BY DEF EstablishFailed
<1> QED BY <1>1, <1>2, <1>3, <1>4, <1>5, <1>6, <1>7, <1>8, <1>9, <1>10


LEMMA TaskTypesStep ==
  ASSUME Shape, [Next]_vars
  PROVE  TaskTypes'
<1>1. TaskTypes /\ DocTypes /\ SessionTypes /\ SeqTypes /\ setup \in Setups /\ Control
  BY DEF Shape, Typed, TypeOK
<1>2. setup' = setup /\ MaxSeq' = MaxSeq /\ EstablishLimit' = EstablishLimit
  BY Frames, BoundsStay
<1>3. /\ pc' \in {"idle", "connect", "reprobe", "fetch", "ingest", "measure", "dispatch",
                  "settle", "open", "drive", "judge", "serve", "serving", "wait"}
      /\ caller' \in {"none", "idle", "connect", "wait", "drive"}
      /\ waitFor' \in {"none", "connect", "open"}
  <2>1. /\ pc = "wait" => waitFor \in {"connect", "open"}
        /\ pc \in {"reprobe", "fetch", "settle"} => caller \in {"idle", "connect", "wait"}
    BY <1>1 DEF Control, Polling
  <2> QED BY <1>1, <2>1, TaskFrames DEF TaskTypes
<1>4. todo' \in Seq(Devices)
  <2>1. /\ todo # <<>> => Tail(todo) \in Seq(Devices)
        /\ pc \in {"dispatch", "serving"} => todo # <<>>
    BY <1>1, InHandIs DEF Control
  <2>2. pending \in SUBSET Devices /\ attached \in SUBSET Devices
    BY <1>1 DEF SessionTypes, attached
  <2>3. SetToSeq(pending) \in Seq(Devices) /\ SetToSeq(attached) \in Seq(Devices)
    BY <2>2, SetToSeqIs
  <2>4. Boot \in Seq(Devices) /\ <<>> \in Seq(Devices) /\ todo \in Seq(Devices)
    BY <1>1, BootIs DEF TaskTypes
  <2> QED BY <2>1, <2>3, <2>4, TaskFrames
<1>5. fresh' \subseteq 1 .. MaxSeq
  <2>1. CASE Measure
    <3>1. fresh' = fresh \/ fresh' = {n \in doc.obs[Head(todo)] : should_publish(Head(todo), n)}
      BY <2>1 DEF Measure
    <3>2. doc.obs[Head(todo)] \in SUBSET (1 .. MaxSeq) /\ fresh \in SUBSET (1 .. MaxSeq)
      BY <2>1, InHandIs DEF Measure
    <3> QED BY <3>1, <3>2
  <2>2. CASE Serve
    <3>1. fresh' = fresh \/ fresh' = {Latest(Head(todo))}
      BY <2>2 DEF Serve
    <3>2. /\ log \in Seq(Devices) /\ Logged /\ Len(log) \in Nat /\ Len(log) <= MaxSeq
          /\ Head(todo) \in Devices /\ MaxSeq \in Nat
      BY <2>2, InHandIs DEF Serve, Shape
    <3>3. Latest(Head(todo)) \in 1 .. Len(log)
      BY <3>2, LatestIs
    <3>4. Latest(Head(todo)) \in 1 .. MaxSeq /\ fresh \in SUBSET (1 .. MaxSeq)
      BY <3>2, <3>3, InHandIs
    <3> QED BY <3>1, <3>4
  <2>3. CASE fresh' \in {fresh, {}}
    BY <1>1, <2>3 DEF TaskTypes
  <2> QED BY <2>1, <2>2, <2>3, TaskFrames
<1>6. failures' \in 0 .. EstablishLimit /\ degraded' \in BOOLEAN
  <2>1. /\ failures \in 0 .. EstablishLimit /\ degraded \in BOOLEAN /\ stream.lively \in BOOLEAN
        /\ EstablishLimit \in Nat /\ EstablishLimit >= 1
    BY <1>1, BoundsAre DEF TaskTypes, DocTypes
  <2>2. CASE EstablishFailed
    <3>1. Min({failures + 1, EstablishLimit}) \in 0 .. EstablishLimit
      BY <2>1, MinOfTwo
    <3> QED BY <1>2, <2>1, <2>2, <3>1 DEF EstablishFailed
  <2>3. CASE ~EstablishFailed
    <3>1. failures' \in {failures, 0}
      BY <2>3, TaskFrames
    <3>2. \/ degraded' = degraded \/ \E b \in BOOLEAN : degraded' = (degraded /\ ~b)
          \/ degraded' = (degraded /\ ~stream.lively)
      BY <2>3, TaskFrames
    <3>3. failures' \in 0 .. EstablishLimit
      BY <2>1, <3>1
    <3>4. \A a, b \in BOOLEAN : (a /\ ~b) \in BOOLEAN
      OBVIOUS
    <3>5. degraded' \in BOOLEAN
      BY <2>1, <3>2, <3>4
    <3> QED BY <3>3, <3>5
  <2> QED BY <2>2, <2>3
<1>7. republish' \in BOOLEAN
  BY <1>1, TaskFrames DEF TaskTypes
<1>8. resync' \in BOOLEAN /\ abandoned' \in BOOLEAN
  <2>1. resync \in BOOLEAN /\ abandoned \in BOOLEAN
    BY <1>1 DEF TaskTypes
  <2>2. CASE Ingest
    BY <2>1, <2>2 DEF Ingest, NoteRestart
  <2>3. CASE OutOfRange
    BY <2>1, <2>3 DEF OutOfRange, NoteRestart
  <2>4. CASE FetchFailed
    BY <2>1, <2>4 DEF FetchFailed
  <2> QED BY <2>1, <2>2, <2>3, <2>4, TaskFrames
<1> QED BY <1>2, <1>3, <1>4, <1>5, <1>6, <1>7, <1>8 DEF TaskTypes

\* The documents a step may put in hand, and the streams it may leave open.
LEMMA DocFrames ==
  ASSUME [Next]_vars
  PROVE  /\ \/ BeginCycle \/ Fetch \/ Serve \/ \E n \in 0 .. MaxSeq : ReadPart(n)
            \/ doc' \in {doc, NoDoc}
         /\ \/ Open \/ \E n \in 0 .. MaxSeq : ReadPart(n) \/ PartGarbled(n)
            \/ Judge \/ stream' \in {stream, Closed}
<1> USE DEF Next, vars, agentVars, deviceVars, queueVars, workVars, loopVars, debtVars,
      resyncVars, machineVars, sessionFrame,
      TaskStep, Reprobe, Reprobed, Ingest, Measure, Dispatch, MarkUp,
      Settle, OpenRefused, OutOfRange, StreamSevered, AttachNotified,
      ServeDelivered, ServeGone, Served, Receive, Elapsed, Failure, ReprobeFailed,
      FetchFailed, DispatchDropped, OpenFailed, StreamLost, ServeFailed, ServeUndelivered,
      Restart, Observe, SessionStep, Connect, Attach, Drain, LinkLost, Close,
      CloseSession, LadderOne, EndServing, CycleFailed
<1>1. \/ BeginCycle \/ Fetch \/ Serve \/ \E n \in 0 .. MaxSeq : ReadPart(n)
      \/ doc' \in {doc, NoDoc}
  BY DEF Open, Judge, PartGarbled
<1>2. \/ Open \/ \E n \in 0 .. MaxSeq : ReadPart(n) \/ PartGarbled(n)
      \/ Judge \/ stream' \in {stream, Closed}
  <2>1. 1 .. MaxSeq \subseteq 0 .. MaxSeq
    OBVIOUS
  <2> QED BY <2>1 DEF BeginCycle, Fetch, Serve
<1> QED BY <1>1, <1>2

\* The cursor a new document or stream takes from the agent's log.
LEMMA NextIs ==
  ASSUME Shape
  PROVE  NextSequence \in 0 .. MaxSeq + 1 /\ NextSequence = Len(log) + 1
BY InHandIs DEF NextSequence

\* The agent's window begins at an observation.
LEMMA FirstIs ==
  ASSUME setup \in Setups, log \in Seq(Devices)
  PROVE  FirstSequence \in Nat /\ FirstSequence >= 1
<1>1. BufSize \in Nat /\ Len(log) \in Nat
  BY BoundsAre
<1> DEFINE a == Len(log) - BufSize + 1
<1>2. a \in Int
  BY <1>1
<1> HIDE DEF a
<1>3. \E x \in {1, a} : \A y \in {1, a} : x >= y
  <2>1. CASE 1 >= a
    BY <2>1
  <2>2. CASE a >= 1
    BY <1>2, <2>2
  <2> QED BY <1>2, <2>1, <2>2
<1>4. Max({1, a}) \in {1, a} /\ Max({1, a}) >= 1
  BY <1>3 DEF Max
<1>5. Max({1, a}) \in Nat /\ Max({1, a}) >= 1
  BY <1>2, <1>4
<1> QED BY <1>5 DEF FirstSequence, a

LEMMA DocTypesStep ==
  ASSUME Shape, [Next]_vars
  PROVE  DocTypes'
<1> DEFINE D == [kind : {"none", "current", "part", "attach"}, inst : 0 .. MaxInst,
                 next : 0 .. MaxSeq + 1, rebase : BOOLEAN, republish : BOOLEAN,
                 obs : [Devices -> SUBSET (1 .. MaxSeq)]]
           S == [open : BOOLEAN, inst : 0 .. MaxInst, pos : 0 .. MaxSeq + 1,
                 lively : BOOLEAN]
<1>1. doc \in D /\ stream \in S /\ setup \in Setups /\ resync \in BOOLEAN /\ republish \in BOOLEAN
  BY DEF Shape, Typed, TypeOK, DocTypes, TaskTypes
<1>2. setup' = setup /\ MaxSeq' = MaxSeq /\ MaxInst' = MaxInst
  BY Frames, BoundsStay
<1>3. inst \in 0 .. MaxInst /\ MaxSeq \in Nat /\ MaxInst \in Nat /\ seq.next \in 0 .. MaxSeq + 1
      /\ log \in Seq(Devices) /\ Len(log) \in Nat /\ Len(log) <= MaxSeq
  BY InHandIs
<1>4. NoDoc \in D /\ Closed \in S
  BY <1>3 DEF NoDoc, Closed
<1>5. NextSequence \in 0 .. MaxSeq + 1
  BY NextIs
<1>6. doc' \in D
  <2>1. CASE BeginCycle
    <3> DEFINE again == pc = "connect" /\ republish
    <3>1. again \in BOOLEAN /\ (again \/ resync) \in BOOLEAN
      BY <1>1
    <3>2. doc' = [NoDoc EXCEPT !.kind = "current", !.republish = again,
                               !.rebase = again \/ resync]
      BY <2>1 DEF BeginCycle
    <3> HIDE DEF again
    <3> QED BY <1>4, <3>1, <3>2
  <2>2. CASE Fetch
    <3>1. CurrentDoc \in [Devices -> SUBSET (1 .. MaxSeq)]
      <4>1. \A d \in Devices : Latest(d) \in 1 .. MaxSeq
        BY <1>3, LatestIs DEF Shape
      <4> QED BY <4>1 DEF CurrentDoc
    <3>2. doc' = [doc EXCEPT !.inst = inst, !.next = NextSequence, !.obs = CurrentDoc]
      BY <2>2 DEF Fetch
    <3> QED BY <1>1, <1>3, <1>5, <3>1, <3>2
  <2>3. CASE Serve
    <3>1. doc' = doc \/ doc' = [NoDoc EXCEPT !.kind = "attach", !.inst = inst,
                                             !.next = NextSequence]
      BY <2>3 DEF Serve
    <3>2. ASSUME doc' = [NoDoc EXCEPT !.kind = "attach", !.inst = inst, !.next = NextSequence]
          PROVE  doc' \in D
      <4> DEFINE next == NextSequence
      <4>1. next \in 0 .. MaxSeq + 1 /\ doc' = [NoDoc EXCEPT !.kind = "attach", !.inst = inst, !.next = next]
        BY <1>5, <3>2
      <4> HIDE DEF next
      <4> QED BY <1>3, <1>4, <4>1
    <3> QED BY <1>1, <3>1, <3>2
  <2>4. ASSUME NEW n \in 0 .. MaxSeq, ReadPart(n)
        PROVE  doc' \in D
    <3> DEFINE o == [d \in Devices |-> {m \in stream.pos .. n : log[m] = d}]
    <3>1. InWindow(stream.pos)
      BY <2>4 DEF ReadPart
    <3>2. stream.pos \in Nat /\ stream.pos >= 1
      BY <1>1, <1>3, <3>1, FirstIs DEF InWindow
    <3>3. o \in [Devices -> SUBSET (1 .. MaxSeq)]
      BY <1>3, <2>4, <3>2
    <3>4. doc' = [NoDoc EXCEPT !.kind = "part", !.inst = inst, !.next = n + 1, !.obs = o]
      BY <2>4 DEF ReadPart
    <3>5. n + 1 \in 0 .. MaxSeq + 1
      BY <1>3
    <3> HIDE DEF o
    <3> QED BY <1>3, <1>4, <3>3, <3>4, <3>5
  <2> QED BY <1>1, <1>4, <2>1, <2>2, <2>3, <2>4, DocFrames
<1>7. stream' \in S
  <2>1. CASE Open
    <3>1. stream' = [open |-> TRUE, inst |-> inst, pos |-> seq.next, lively |-> FALSE]
      BY <2>1 DEF Open
    <3> QED BY <1>3, <3>1
  <2>2. ASSUME NEW n \in 0 .. MaxSeq, ReadPart(n) \/ PartGarbled(n)
        PROVE  stream' \in S
    <3>1. stream' = [stream EXCEPT !.pos = n + 1] /\ n + 1 \in 0 .. MaxSeq + 1
      BY <1>3, <2>2 DEF ReadPart, PartGarbled
    <3> QED BY <1>1, <3>1
  <2>3. CASE Judge
    <3>1. stream' = Closed \/ stream' = [stream EXCEPT !.lively = TRUE]
      BY <2>3 DEF Judge
    <3> QED BY <1>1, <1>4, <3>1
  <2> QED BY <1>1, <1>4, <2>1, <2>2, <2>3, DocFrames
<1> QED BY <1>2, <1>6, <1>7 DEF DocTypes

LEMMA ShapeStep ==
  ASSUME Shape, [Next]_vars
  PROVE  Shape'
<1>1. setup' \in Setups
  BY Frames DEF Shape, Typed
<1>2. TypeOK'
  BY AgentTypesStep, SessionTypesStep, QueueTypesStep, SeqTypesStep, TaskTypesStep,
     DocTypesStep DEF TypeOK
<1>3. Logged' /\ Control'
  BY LoggedStep, ControlStep
<1> QED BY <1>1, <1>2, <1>3 DEF Shape, Typed

\* The task is where its document, its caller and its work say it is, and every device
\* has been observed (Control, Logged): what every later proof starts from.
THEOREM ShapeKept == Spec => []Shape
BY InitShape, ShapeStep, PTL DEF Spec

\* The state of the task, of its sessions and of their queues keeps its type.
THEOREM TypesKept == Spec => []TypeOK
<1>1. Shape => TypeOK
  BY DEF Shape, Typed
<1> QED BY <1>1, ShapeKept, PTL

----------------------------------------------------------------------------
(* What a cycle is asked for, and how old what it holds is.                *)

\* A recovery once begun is asked for until it is done: the flags outside of a
\* cycle, and the document in hand inside of one.
Asked ==
  /\ doc.rebase => doc.kind = "current"
  /\ doc.republish => doc.rebase /\ caller = "connect"
  /\ doc.kind = "current" /\ caller = "connect" => doc.republish = republish
  /\ republish => \/ pc = "connect" \/ caller = "connect"
                  \/ pc = "wait" /\ waitFor = "connect"
  /\ pc = "reprobe" => resync /\ doc.rebase
  /\ pc = "fetch" => ~resync
  /\ pc = "ingest" /\ doc.kind = "current" => ~resync
  /\ pc \in {"measure", "dispatch"} /\ todo # <<>> => ~resync

LEMMA AskedInit == Init => Asked
BY DEF Init, Asked, NoDoc

LEMMA AskedStep ==
  ASSUME Shape, Asked, [Next]_vars
  PROVE  Asked'
<1>1. Control /\ TaskTypes /\ DocTypes
  BY DEF Shape, Typed, TypeOK
<1>2. CASE BeginCycle
  <2> DEFINE again == pc = "connect" /\ republish
  <2>1. /\ caller' = pc /\ pc \in {"idle", "connect", "wait"} /\ UNCHANGED <<resync, republish>>
        /\ pc = "wait" => waitFor = "open"
        /\ pc' = IF resync THEN "reprobe" ELSE "fetch"
        /\ doc'.kind = "current" /\ doc'.republish = again /\ doc'.rebase = (again \/ resync)
    BY <1>2 DEF BeginCycle, NoDoc, loopVars, resyncVars
  <2>2. caller = "none"
    BY <1>1, <2>1 DEF Control
  <2> QED BY <1>1, <2>1, <2>2 DEF Asked, TaskTypes
<1>3. CASE Reprobe
  BY <1>3 DEF Asked, Reprobe, loopVars, resyncVars
<1>4. CASE ReprobeFailed \/ FetchFailed
  <2>1. CycleFailed /\ pc \in {"reprobe", "fetch"} /\ UNCHANGED <<resync, republish>>
    BY <1>4 DEF ReprobeFailed, FetchFailed, resyncVars
  <2>2. /\ doc' = NoDoc
        /\ \/ pc' = "wait" /\ waitFor' = "connect"
           \/ caller # "connect" /\ pc' = caller /\ waitFor' = waitFor
    BY <2>1 DEF CycleFailed
  <2>3. caller \in {"idle", "connect", "wait"}
    BY <1>1, <2>1 DEF Control, Polling
  <2> QED BY <2>1, <2>2, <2>3 DEF Asked, NoDoc
<1>5. CASE Reprobed
  BY <1>5 DEF Asked, Reprobed, loopVars, resyncVars, workVars
<1>6. CASE Fetch
  <2>1. /\ pc = "fetch" /\ pc' = "ingest" /\ doc'.kind = doc.kind /\ doc'.rebase = doc.rebase
        /\ doc'.republish = doc.republish /\ UNCHANGED <<resync, republish, caller, waitFor>>
    BY <1>1, <1>6 DEF Fetch, DocTypes, loopVars, resyncVars
  <2> QED BY <2>1 DEF Asked
<1>7. CASE Ingest
  <2>1. /\ pc = "ingest" /\ pc' = "measure"
        /\ UNCHANGED <<doc, caller, republish, waitFor>>
    BY <1>7 DEF Ingest, loopVars
  <2>2. todo' # <<>> => ~resync'
    BY <1>7 DEF Ingest
  <2> QED BY <2>1, <2>2 DEF Asked
<1>8. CASE Measure
  <2>1. /\ pc = "measure" /\ pc' \in {"measure", "dispatch"} /\ todo # <<>>
        /\ UNCHANGED <<doc, caller, republish, waitFor, resync>>
    BY <1>8 DEF Measure, loopVars, resyncVars
  <2> QED BY <2>1 DEF Asked
<1>9. CASE Dispatch \/ DispatchDropped
  <2>1. /\ pc = "dispatch" /\ pc' = "measure"
        /\ UNCHANGED <<doc, caller, republish, waitFor, resync>>
    BY <1>9 DEF Dispatch, DispatchDropped, loopVars, resyncVars
  <2> QED BY <1>1, <2>1 DEF Asked, Control
<1>10. CASE MarkUp
  <2>1. /\ pc = "measure" /\ pc' \in {"judge", "settle"}
        /\ UNCHANGED <<doc, caller, republish, waitFor, resync>>
    BY <1>10 DEF MarkUp, loopVars, resyncVars, workVars
  <2> QED BY <2>1 DEF Asked
<1>11. CASE Settle
  <2>1. /\ pc = "settle" /\ doc' = NoDoc /\ caller' = "none"
        /\ \/ pc' = "open" /\ republish' = FALSE
           \/ caller # "connect" /\ pc' = caller /\ republish' = republish
    BY <1>11 DEF Settle
  <2> QED BY <1>1, <2>1 DEF Asked, NoDoc, Control, Polling
<1>12. CASE Open \/ OpenRefused \/ OpenFailed
  <2>1. /\ pc = "open" /\ UNCHANGED <<caller, doc, resync, republish>>
        /\ pc' = "drive" \/ EstablishFailed
    BY <1>12 DEF Open, OpenRefused, OpenFailed, workVars, loopVars, resyncVars
  <2>2. EstablishFailed => pc' = "wait" /\ waitFor' = "open"
    BY DEF EstablishFailed
  <2> QED BY <1>1, <2>1, <2>2 DEF Asked, Control
<1>13. ASSUME NEW n \in 0 .. MaxSeq, ReadPart(n) PROVE Asked'
  <2>1. /\ pc = "drive" /\ pc' = "ingest" /\ caller' = "drive" /\ doc'.kind = "part"
        /\ ~doc'.rebase /\ ~doc'.republish /\ UNCHANGED <<resync, republish>>
    BY <1>13 DEF ReadPart, Alive, NoDoc, loopVars, resyncVars
  <2> QED BY <1>1, <2>1 DEF Asked, Control
<1>14. ASSUME NEW n \in 1 .. MaxSeq, PartGarbled(n) PROVE Asked'
  BY <1>14 DEF PartGarbled, Asked, workVars, loopVars, resyncVars
<1>15. CASE Judge
  <2>1. /\ pc = "judge" /\ pc' \in {"connect", "drive"} /\ doc' = NoDoc /\ caller' = "none"
        /\ UNCHANGED <<resync, republish>>
    BY <1>15 DEF Judge, resyncVars
  <2> QED BY <1>1, <2>1 DEF Asked, NoDoc, Control
<1>16. CASE OutOfRange
  <2>1. pc = "drive" /\ pc' = "connect" /\ UNCHANGED <<doc, caller>>
    BY <1>16 DEF OutOfRange, Alive, workVars
  <2> QED BY <1>1, <2>1 DEF Control, Asked
<1>17. CASE StreamLost \/ StreamSevered
  <2>1. /\ pc = "drive" /\ UNCHANGED <<doc, caller, resync, republish>>
        /\ pc' = "open" \/ EstablishFailed
    BY <1>17 DEF StreamLost, StreamSevered, Alive, LadderOne, workVars, resyncVars
  <2>2. EstablishFailed => pc' = "wait" /\ waitFor' = "open"
    BY DEF EstablishFailed
  <2> QED BY <1>1, <2>1, <2>2 DEF Control, Asked
<1>18. CASE Elapsed
  <2>1. pc = "wait" /\ pc' = waitFor /\ UNCHANGED <<doc, caller, resync, republish>>
    BY <1>18 DEF Elapsed, workVars, resyncVars
  <2> QED BY <1>1, <2>1 DEF Control, Asked
<1>19. CASE AttachNotified
  <2>1. pc = "drive" /\ pc' = "serve" /\ UNCHANGED <<doc, caller, resync, republish>>
    BY <1>19 DEF AttachNotified, loopVars, resyncVars
  <2> QED BY <1>1, <2>1 DEF Control, Asked
<1>20. CASE Serve
  <2>1. /\ pc = "serve" /\ UNCHANGED <<caller, resync, republish>>
        /\ \/ pc' = pc /\ doc' = doc
           \/ pc' = "serving" /\ doc'.kind = "attach" /\ ~doc'.rebase /\ ~doc'.republish
    BY <1>20 DEF Serve, NoDoc, loopVars, resyncVars
  <2> QED BY <1>1, <2>1 DEF Control, Asked
<1>21. CASE ServeFailed
  BY <1>21 DEF ServeFailed, Asked, loopVars, resyncVars
<1>22. CASE ServeDelivered \/ ServeGone \/ ServeUndelivered
  <2>1. /\ pc = "serving" /\ pc' = "serve" /\ doc' = NoDoc
        /\ UNCHANGED <<caller, resync, republish, waitFor>>
    BY <1>22 DEF ServeDelivered, ServeGone, ServeUndelivered, EndServing, loopVars, resyncVars
  <2> QED BY <1>1, <2>1 DEF Control, NoDoc, Asked
<1>23. CASE Served
  BY <1>23 DEF Served, Asked, workVars, loopVars, resyncVars
<1>24. CASE Aside
  BY <1>24 DEF Aside, Asked, workVars, loopVars, resyncVars
<1> QED BY <1>2, <1>3, <1>4, <1>5, <1>6, <1>7, <1>8, <1>9, <1>10, <1>11, <1>12, <1>13, <1>14,
  <1>15, <1>16, <1>17, <1>18, <1>19, <1>20, <1>21, <1>22, <1>23, <1>24, TaskActs

\* Nothing is of an incarnation to come, the sequence state is not ahead of what is
\* read, and a session is opened once a document has been.
Ages ==
  /\ seq.inst <= inst /\ stream.inst <= inst
  /\ pc \in Reads \cup {"serving"} =>
       1 <= doc.inst /\ doc.inst <= inst /\ seq.inst <= doc.inst
  /\ pc \in {"measure", "dispatch", "settle", "judge"} => seq.inst = doc.inst
  /\ \/ connected \/ resync \/ waitFor = "open"
     \/ pc \in {"measure", "dispatch", "settle", "judge", "open", "drive", "serve", "serving"}
     => seq.inst # 0
  /\ \A d \in Devices : /\ since[d] <= seq.inst /\ model[d] <= inst
                        /\ sess[d] # "off" => seq.inst # 0 /\ model[d] # 0

LEMMA AgesInit == Init => Ages
<1> SUFFICES ASSUME Init PROVE Ages
  OBVIOUS
<1>1. /\ seq.inst = 0 /\ stream.inst = 0 /\ inst = 1 /\ pc \in {"connect", "idle"}
      /\ ~connected /\ ~resync /\ waitFor = "none"
      /\ \A d \in Devices : since[d] = 0 /\ model[d] = 0 /\ sess[d] = "off"
  BY DEF Init, Closed
<1> QED BY <1>1 DEF Ages, Reads

\* The incarnation of the sequence state moves with a header.
LEMMA SeqMoves ==
  ASSUME Shape, [Next]_vars
  PROVE  /\ Ingest => seq'.inst = doc.inst
         /\ OutOfRange => seq'.inst \in {seq.inst, inst}
         /\ ~Ingest /\ ~OutOfRange => seq'.inst = seq.inst
<1>1. SeqTypes
  BY DEF Shape, Typed, TypeOK
<1>2. Ingest => seq'.inst = doc.inst
  BY DEF Ingest, observe_header
<1>3. OutOfRange => seq'.inst \in {seq.inst, inst}
  BY DEF OutOfRange, observe_header
<1>4. ~Ingest /\ ~OutOfRange => seq'.inst = seq.inst
  BY <1>1, Frames DEF Measure, ServeDelivered, SeqTypes
<1> QED BY <1>2, <1>3, <1>4

LEMMA ConnectedBy ==
  ASSUME [Next]_vars
  PROVE  connected' => connected \/ MarkUp
BY DEF Next, vars, agentVars, deviceVars, queueVars, workVars, loopVars, debtVars,
      resyncVars, machineVars, sessionFrame,
      BeginCycle, TaskStep, Reprobe, Reprobed, Fetch, Ingest, Measure, Dispatch,
      Settle, Open, OpenRefused, Judge, OutOfRange, StreamSevered, AttachNotified, Serve,
      ServeDelivered, ServeGone, Served, Receive, ReadPart, Elapsed, Failure, ReprobeFailed,
      FetchFailed, DispatchDropped, OpenFailed, StreamLost, ServeFailed, ServeUndelivered,
      PartGarbled, Restart, Observe, SessionStep, Connect, Attach, Drain, LinkLost, Close,
      CloseSession, LadderOne

\* How the task gets to where it is.
LEMMA Paths ==
  ASSUME [Next]_vars, Control
  PROVE  /\ pc' = "ingest" => pc \in {"ingest", "fetch", "drive"}
         /\ pc' \in {"measure", "dispatch"} => Ingest \/ pc \in {"measure", "dispatch"}
         /\ pc' \in {"settle", "judge"} => pc \in {"settle", "judge"} \/ MarkUp
         /\ pc' = "open" => \/ pc \in {"open", "drive"} \/ (pc = "wait" /\ waitFor = "open")
                            \/ pc = "settle" /\ caller = "connect"
         /\ pc' = "drive" => pc \in {"drive", "open", "judge", "serve"}
         /\ pc' \in {"serve", "serving"} => pc \in {"drive", "serve", "serving"}
<1> USE TaskActs DEF BeginCycle, Reprobe, ReprobeFailed, Reprobed, Fetch, FetchFailed,
       Measure, Dispatch, DispatchDropped, Open, OpenRefused, OpenFailed, ReadPart,
       PartGarbled, Judge, OutOfRange, StreamLost, StreamSevered, Elapsed, AttachNotified, Serve,
       ServeFailed, ServeDelivered, ServeGone, ServeUndelivered, Served, Aside, EndServing, Alive,
       CycleFailed, LadderOne, EstablishFailed, Control, Polling
<1>1. pc' = "ingest" => pc \in {"ingest", "fetch", "drive"}
  BY DEF Ingest, MarkUp, Settle
<1>2. pc' \in {"measure", "dispatch"} => Ingest \/ pc \in {"measure", "dispatch"}
  BY DEF MarkUp, Settle
<1>3. pc' \in {"settle", "judge"} => pc \in {"settle", "judge"} \/ MarkUp
  BY DEF Ingest, Settle
<1>4. pc' = "open" => \/ pc \in {"open", "drive"} \/ (pc = "wait" /\ waitFor = "open")
                      \/ pc = "settle" /\ caller = "connect"
  BY DEF Ingest, MarkUp, Settle
<1>5. pc' = "drive" => pc \in {"drive", "open", "judge", "serve"}
  BY DEF Ingest, MarkUp, Settle
<1>6. pc' \in {"serve", "serving"} => pc \in {"drive", "serve", "serving"}
  BY DEF Ingest, MarkUp, Settle
<1> QED BY <1>1, <1>2, <1>3, <1>4, <1>5, <1>6

LEMMA AgesStep ==
  ASSUME Shape, Asked, Ages, [Next]_vars
  PROVE  Ages'
<1> USE DEF Reads
<1>0. Control /\ TaskTypes /\ DocTypes /\ SessionTypes
  BY DEF Shape, Typed, TypeOK
<1>1. /\ inst \in Nat /\ inst >= 1 /\ seq.inst \in Nat /\ doc.inst \in Nat
      /\ stream.inst \in Nat
      /\ \A d \in Devices : since[d] \in Nat /\ model[d] \in Nat
  BY <1>0, InHandIs DEF DocTypes
<1>2. inst' \in Nat /\ inst <= inst'
  <2>1. Restart => inst' = inst + 1
    BY DEF Restart
  <2>2. (\E d \in Devices : Observe(d)) => inst' = inst
    BY DEF Observe
  <2>3. inst' = inst \/ inst' = inst + 1
    BY <2>1, <2>2, Frames
  <2> QED BY <1>1, <2>3
<1>3. Ingest => pc = "ingest" /\ pc' = "measure" /\ doc' = doc
  BY DEF Ingest
<1>4. /\ Ingest => seq'.inst = doc.inst
      /\ OutOfRange => seq'.inst \in {seq.inst, inst}
      /\ ~Ingest /\ ~OutOfRange => seq'.inst = seq.inst
  BY SeqMoves
<1>5. seq'.inst \in Nat /\ seq.inst <= seq'.inst /\ seq'.inst <= inst /\ seq'.inst <= inst'
  BY <1>1, <1>2, <1>3, <1>4 DEF Ages
<1>6. stream'.inst <= inst'
  <2>1. CASE Open
    BY <1>1, <1>2, <2>1 DEF Open
  <2>2. ASSUME NEW n \in 0 .. MaxSeq, ReadPart(n) \/ PartGarbled(n)
        PROVE  stream'.inst = stream.inst
    BY <1>0, <2>2 DEF ReadPart, PartGarbled, DocTypes
  <2>3. Judge => stream'.inst \in {stream.inst, 0}
    <3>1. [stream EXCEPT !.lively = TRUE].inst = stream.inst
      BY <1>0 DEF DocTypes
    <3>2. Judge => stream' = Closed \/ stream' = [stream EXCEPT !.lively = TRUE]
      BY DEF Judge
    <3>3. stream' = Closed => stream'.inst = 0
      BY DEF Closed
    <3> QED BY <3>1, <3>2, <3>3
  <2>4. stream' \in {stream, Closed} => stream'.inst \in {stream.inst, 0}
    BY DEF Closed
  <2> QED BY <1>1, <1>2, <2>1, <2>2, <2>3, <2>4, DocFrames DEF Ages
<1>7. pc' \in Reads \cup {"serving"} =>
        1 <= doc'.inst /\ doc'.inst <= inst' /\ seq'.inst <= doc'.inst
  <2>1. \/ pc' \in {"ingest", "serving"} /\ doc'.inst = inst /\ ~Ingest /\ ~OutOfRange
        \/ pc \in Reads \cup {"serving"} /\ doc' = doc
        \/ pc' \notin Reads \cup {"serving"}
    <3>1. Fetch => pc' = "ingest" /\ doc'.inst = inst /\ pc = "fetch"
      BY <1>0 DEF Fetch, DocTypes
    <3>2. ASSUME NEW n \in 0 .. MaxSeq, ReadPart(n)
          PROVE  pc' = "ingest" /\ doc'.inst = inst
      BY <3>2 DEF ReadPart, NoDoc
    <3>3. Serve => \/ pc' = "serving" /\ doc'.inst = inst /\ pc = "serve"
                   \/ pc' = "serve"
      BY DEF Serve, NoDoc
    <3>4. /\ Ingest => pc = "ingest" /\ pc' = "measure"
          /\ OutOfRange => pc' = "connect"
      BY DEF Ingest, OutOfRange
    <3>5. CASE ~Fetch /\ ~Serve /\ ~\E n \in 0 .. MaxSeq : ReadPart(n)
      BY <1>0, <3>5, TaskActs DEF BeginCycle, Reprobe, ReprobeFailed, Reprobed, FetchFailed, Ingest,
         Measure, Dispatch, DispatchDropped, MarkUp, Settle, Open, OpenRefused, OpenFailed,
         PartGarbled, Judge, OutOfRange, StreamLost, StreamSevered, Elapsed, AttachNotified,
         ServeFailed, ServeDelivered, ServeGone, ServeUndelivered, Served, Aside, EndServing,
         CycleFailed, LadderOne, EstablishFailed, Control, Polling, workVars
    <3> QED BY <3>1, <3>2, <3>3, <3>4, <3>5
  <2>2. CASE pc' \in {"ingest", "serving"} /\ doc'.inst = inst
    BY <1>1, <1>2, <1>5, <2>2
  <2>3. CASE pc \in Reads \cup {"serving"} /\ doc' = doc
    <3>1. 1 <= doc.inst /\ doc.inst <= inst /\ seq.inst <= doc.inst
      BY <2>3 DEF Ages
    <3>2. seq'.inst <= doc.inst
      <4>1. pc # "drive"
        BY <2>3
      <4>2. ~OutOfRange
        BY <4>1 DEF OutOfRange, Alive
      <4> QED BY <1>1, <1>4, <3>1, <4>2
    <3> QED BY <1>1, <1>2, <2>3, <3>1, <3>2
  <2> QED BY <2>1, <2>2, <2>3
<1>8. pc' \in {"measure", "dispatch", "settle", "judge"} => seq'.inst = doc'.inst
  <2>1. CASE Ingest
    BY <1>3, <1>4, <2>1
  <2>2. CASE pc \in {"measure", "dispatch", "settle", "judge"}
    <3>1. ~Ingest /\ ~OutOfRange
      BY <2>2 DEF Ingest, OutOfRange, Alive
    <3>2. doc' = doc \/ pc' \notin {"measure", "dispatch", "settle", "judge"}
      BY <1>0, <2>2, ActsAt, AsideIs DEF Measure, MarkUp, Dispatch, DispatchDropped, Settle, Judge,
        Control, Polling, workVars
    <3> QED BY <1>4, <2>2, <3>1, <3>2 DEF Ages
  <2>3. ASSUME pc' \in {"measure", "dispatch", "settle", "judge"}
        PROVE  Ingest \/ pc \in {"measure", "dispatch", "settle", "judge"}
    BY <1>0, <2>3, Paths DEF MarkUp
  <2> QED BY <2>1, <2>2, <2>3
<1>9. \/ connected' \/ resync' \/ waitFor' = "open"
      \/ pc' \in {"measure", "dispatch", "settle", "judge", "open", "drive", "serve", "serving"}
      => seq'.inst # 0
  <2>1. seq.inst # 0 => seq'.inst # 0
    BY <1>1, <1>5
  <2>2. connected' => connected \/ MarkUp
    BY ConnectedBy
  <2>3. resync' => resync \/ seq.inst # 0
    <3>1. Ingest \/ OutOfRange => (resync' => resync \/ seq.inst # 0)
      BY DEF Ingest, OutOfRange, NoteRestart, InstanceChanged
    <3> QED BY <3>1, Frames DEF Reprobed, FetchFailed
  <2>4. waitFor' = "open" => waitFor = "open" \/ pc \in {"open", "drive"}
    BY <1>0, TaskActs DEF BeginCycle, Reprobe, ReprobeFailed, Reprobed, Fetch, FetchFailed, Ingest,
       Measure, Dispatch, DispatchDropped, MarkUp, Settle, Open, OpenRefused, OpenFailed, ReadPart,
       PartGarbled, Judge, OutOfRange, StreamLost, StreamSevered, Elapsed, AttachNotified, Serve,
       ServeFailed, ServeDelivered, ServeGone, ServeUndelivered, Served, Aside, EndServing, Alive,
       CycleFailed, LadderOne, EstablishFailed, loopVars
  <2>5. Ingest => seq'.inst # 0
    BY <1>1, <1>3, <1>4 DEF Ages
  <2>6. pc' \in {"measure", "dispatch", "settle", "judge", "open", "drive", "serve", "serving"} =>
          \/ Ingest \/ (pc = "wait" /\ waitFor = "open")
          \/ pc \in {"measure", "dispatch", "settle", "judge", "open", "drive", "serve", "serving"}
    <3>1. pc' \in {"measure", "dispatch"} => Ingest \/ pc \in {"measure", "dispatch"}
      BY <1>0, Paths
    <3>2. pc' \in {"settle", "judge"} => pc \in {"settle", "judge", "measure"}
      BY <1>0, Paths DEF MarkUp
    <3>3. pc' = "open" => pc \in {"open", "drive", "settle"} \/ (pc = "wait" /\ waitFor = "open")
      BY <1>0, Paths
    <3>4. pc' \in {"drive", "serve", "serving"} =>
            pc \in {"drive", "open", "judge", "serve", "serving"}
      BY <1>0, Paths
    <3> QED BY <3>1, <3>2, <3>3, <3>4
  <2> QED BY <2>1, <2>2, <2>3, <2>4, <2>5, <2>6 DEF Ages, MarkUp, Settle
<1>10. ASSUME NEW d \in Devices
       PROVE  /\ since'[d] <= seq'.inst /\ model'[d] <= inst'
              /\ sess'[d] # "off" => seq'.inst # 0 /\ model'[d] # 0
  <2>1. /\ since[d] <= seq.inst /\ model[d] <= inst
        /\ sess[d] # "off" => seq.inst # 0 /\ model[d] # 0
        /\ connected => seq.inst # 0
    BY DEF Ages
  <2>2. seq.inst # 0 => seq'.inst # 0
    BY <1>1, <1>5
  <2>3. CASE Reprobe
    <3>1. sess' = sess /\ since' = since /\ model'[d] \in {model[d], inst}
      BY <1>0, <2>3 DEF Reprobe, deviceVars, SessionTypes
    <3> QED BY <1>1, <1>2, <1>5, <2>1, <2>2, <3>1
  <2>4. ASSUME NEW e \in Devices, Connect(e)
        PROVE  /\ since'[d] <= seq'.inst /\ model'[d] <= inst'
               /\ sess'[d] # "off" => seq'.inst # 0 /\ model'[d] # 0
    <3>1. /\ connected /\ since' = since
          /\ d # e => sess'[d] = sess[d] /\ model'[d] = model[d]
          /\ d = e => model'[d] \in {model[d], inst} /\ model'[d] # 0
      BY <1>0, <1>1, <2>4 DEF Connect, SessionTypes
    <3> QED BY <1>1, <1>2, <1>5, <2>1, <2>2, <3>1
  <2>5. ASSUME NEW e \in Devices, Attach(e)
        PROVE  /\ since'[d] <= seq'.inst /\ model'[d] <= inst'
               /\ sess'[d] # "off" => seq'.inst # 0 /\ model'[d] # 0
    <3>1. /\ model' = model /\ seq' = seq
          /\ d # e => sess'[d] = sess[d] /\ since'[d] = since[d]
          /\ d = e => sess[d] # "off" /\ since'[d] = seq.inst
      BY <1>0, <2>5 DEF Attach, SessionTypes, sessionFrame
    <3> QED BY <1>1, <1>2, <1>5, <2>1, <2>2, <3>1
  <2>6. ASSUME NEW e \in Devices, CloseSession(e)
        PROVE  /\ since'[d] <= seq'.inst /\ model'[d] <= inst'
               /\ sess'[d] # "off" => seq'.inst # 0 /\ model'[d] # 0
    <3>1. /\ model' = model /\ since' = since
          /\ sess'[d] # "off" => sess[d] # "off"
      BY <1>0, <2>6 DEF CloseSession, SessionTypes
    <3> QED BY <1>1, <1>2, <1>5, <2>1, <2>2, <3>1
  <2>7. CASE sess' = sess /\ since' = since /\ model' = model
    BY <1>1, <1>2, <1>5, <2>1, <2>2, <2>7
  <2> QED BY <2>3, <2>4, <2>5, <2>6, <2>7, Frames
<1> QED BY <1>5, <1>6, <1>7, <1>8, <1>9, <1>10 DEF Ages

----------------------------------------------------------------------------
(* A session attached across a restart.                                    *)

\* It was attached before the incarnation that the sequence state is of.
Survivor(d) == sess[d] = "on" /\ since[d] # seq.inst

AtConnect == pc = "connect" \/ (pc = "wait" /\ waitFor = "connect")

Paced == Shape /\ Asked /\ Ages

\* Its restart is noticed by the step that makes it a survivor.
LEMMA Survives ==
  ASSUME Paced, [Next]_vars, NEW d \in Devices, Survivor(d)'
  PROVE  /\ sess[d] = "on" /\ since'[d] = since[d] /\ seq.inst # 0
         /\ (Survivor(d) /\ seq'.inst = seq.inst) \/ resync'
<1>1. SessionTypes
  BY DEF Paced, Shape, Typed, TypeOK
<1>2. sess'[d] = "on" /\ since'[d] # seq'.inst
  BY DEF Survivor
<1>3. sess[d] = "on" /\ since'[d] = since[d]
  <2>1. CASE Reprobe
    BY <1>2, <2>1 DEF Reprobe, deviceVars
  <2>2. ASSUME NEW e \in Devices, Connect(e)
        PROVE  sess[d] = "on" /\ since'[d] = since[d]
    BY <1>1, <1>2, <2>2 DEF Connect, SessionTypes
  <2>3. ASSUME NEW e \in Devices, Attach(e)
        PROVE  sess[d] = "on" /\ since'[d] = since[d]
    <3>1. seq' = seq /\ sess' = [sess EXCEPT ![e] = "on"] /\ since' = [since EXCEPT ![e] = seq.inst]
      BY <2>3 DEF Attach, sessionFrame
    <3>2. d # e
      BY <1>1, <1>2, <3>1 DEF SessionTypes
    <3> QED BY <1>1, <1>2, <3>1, <3>2 DEF SessionTypes
  <2>4. ASSUME NEW e \in Devices, CloseSession(e)
        PROVE  sess[d] = "on" /\ since'[d] = since[d]
    BY <1>1, <1>2, <2>4 DEF CloseSession, SessionTypes
  <2> QED BY <1>2, <2>1, <2>2, <2>3, <2>4, Frames
<1>4. seq.inst # 0
  BY <1>3 DEF Paced, Ages
<1>5. seq'.inst = seq.inst \/ resync'
  <2>1. CASE Ingest
    <3>1. seq'.inst = doc.inst /\ (InstanceChanged(doc) => resync')
      BY <2>1, SeqMoves DEF Ingest, NoteRestart, Paced
    <3> QED BY <1>4, <3>1 DEF InstanceChanged
  <2>2. CASE OutOfRange
    <3> DEFINE header == [inst |-> inst, next |-> seq.next, republish |-> FALSE]
    <3>1. /\ InstanceChanged(header) => resync'
          /\ ~InstanceChanged(header) => seq' = seq
      BY <2>2 DEF OutOfRange, NoteRestart
    <3> QED BY <3>1
  <2>3. CASE ~Ingest /\ ~OutOfRange
    BY <2>3, SeqMoves DEF Paced
  <2> QED BY <2>1, <2>2, <2>3
<1> QED BY <1>2, <1>3, <1>4, <1>5 DEF Survivor

\* A recovery that was given up is forgotten when the next is asked for, and one
\* that was asked for is begun by the re-probe.
LEMMA FlagsMove ==
  ASSUME [Next]_vars
  PROVE  /\ abandoned /\ ~abandoned' => resync'
         /\ resync /\ ~resync' => Reprobed
         /\ Reprobed => abandoned' = abandoned /\ seq' = seq
<1>1. abandoned /\ ~abandoned' => resync'
  <2>1. Ingest \/ OutOfRange => (abandoned /\ ~abandoned' => resync')
    BY DEF Ingest, OutOfRange, NoteRestart
  <2> QED BY <2>1, Frames DEF Reprobed, FetchFailed
<1>2. resync /\ ~resync' => Reprobed
  <2>1. Ingest \/ OutOfRange => (resync => resync')
    BY DEF Ingest, OutOfRange, NoteRestart
  <2> QED BY <2>1, Frames DEF FetchFailed
<1> QED BY <1>1, <1>2 DEF Reprobed

\* An attachment it is still owed a snapshot for waits for a recovery's document;
\* the task never serves one of a dead incarnation.
Debts ==
  ~resync /\ ~abandoned => \A d \in Devices : Survivor(d) =>
    /\ d \in pending => \/ caller \in Polling /\ doc.rebase
                        \/ AtConnect /\ republish
    /\ pc \in {"serve", "serving"} => d \notin ToSet(todo)

LEMMA DebtsInit == Init => Debts
BY DEF Init, Debts, Survivor

LEMMA TailIn ==
  ASSUME todo \in Seq(Devices), todo # <<>>
  PROVE  /\ ToSet(Tail(todo)) \subseteq ToSet(todo) /\ Head(todo) \in ToSet(todo)
         /\ \A d \in ToSet(todo) : d = Head(todo) \/ d \in ToSet(Tail(todo))
<1>1. Len(todo) \in Nat /\ Len(todo) >= 1 /\ Head(todo) = todo[1] /\ DOMAIN todo = 1 .. Len(todo)
  OBVIOUS
<1>2. DOMAIN Tail(todo) = 1 .. Len(todo) - 1 /\ \A i \in 1 .. Len(todo) - 1 : Tail(todo)[i] = todo[i + 1]
  OBVIOUS
<1>3. ToSet(Tail(todo)) \subseteq ToSet(todo)
  BY <1>1, <1>2 DEF ToSet
<1>4. ASSUME NEW i \in 1 .. Len(todo)
      PROVE  todo[i] = Head(todo) \/ todo[i] \in ToSet(Tail(todo))
  <2>1. CASE i = 1
    BY <1>1, <2>1
  <2>2. CASE i # 1
    <3>1. i - 1 \in 1 .. Len(todo) - 1 /\ todo[i] = Tail(todo)[i - 1]
      BY <1>1, <1>2, <2>2
    <3> QED BY <1>2, <3>1 DEF ToSet
  <2> QED BY <2>1, <2>2
<1> QED BY <1>1, <1>3, <1>4 DEF ToSet

LEMMA PendingBy ==
  ASSUME [Next]_vars
  PROVE  /\ \/ pending' \in {pending, {}}
            \/ \E e \in Devices : Attach(e) /\ pending' = pending \cup {e}
         /\ Settle => pending' = {} \/ resync
<1>1. Settle => pending' = {} \/ resync
  BY DEF Settle
<1>2. ASSUME NEW e \in Devices, Attach(e)
      PROVE  pending' = pending \cup {e}
  BY <1>2, Zenon DEF Attach
<1>3. CASE ~\E e \in Devices : Attach(e)
  BY <1>3 DEF Next, vars, agentVars, deviceVars, queueVars, workVars, loopVars, debtVars,
      resyncVars, machineVars, sessionFrame,
      BeginCycle, TaskStep, Reprobe, Reprobed, Fetch, Ingest, Measure, Dispatch, MarkUp,
      Settle, Open, OpenRefused, Judge, OutOfRange, StreamSevered, AttachNotified, Serve,
      ServeDelivered, ServeGone, Served, Receive, ReadPart, Elapsed, Failure, ReprobeFailed,
      FetchFailed, DispatchDropped, OpenFailed, StreamLost, ServeFailed, ServeUndelivered,
      PartGarbled, Restart, Observe, SessionStep, Connect, Drain, LinkLost, Close,
      CloseSession
<1> QED BY <1>1, <1>2, <1>3

\* What a cycle was asked for stands until it ends.
LEMMA CycleStands ==
  ASSUME [Next]_vars, Control, DocTypes
  PROVE  /\ caller \in Polling =>
              \/ ReprobeFailed \/ FetchFailed \/ Settle
              \/ /\ caller' = caller /\ doc'.rebase = doc.rebase
                 /\ doc'.republish = doc.republish /\ republish' = republish
         /\ AtConnect => \/ AtConnect' /\ republish' = republish
                         \/ BeginCycle /\ pc = "connect"
<1>1. caller \in Polling =>
        \/ ReprobeFailed \/ FetchFailed \/ Settle
        \/ /\ caller' = caller /\ doc'.rebase = doc.rebase
           /\ doc'.republish = doc.republish /\ republish' = republish
  BY TaskActs DEF BeginCycle, Reprobe, Reprobed, Fetch, Ingest, MarkUp,
       Measure, Dispatch, DispatchDropped, Open, OpenRefused, OpenFailed, ReadPart,
       PartGarbled, Judge, OutOfRange, StreamLost, StreamSevered, Elapsed, AttachNotified, Serve,
       ServeFailed, ServeDelivered, ServeGone, ServeUndelivered, Served, Aside, Alive,
       Control, Polling, Reads, loopVars, workVars, DocTypes
<1>2. AtConnect => \/ AtConnect' /\ republish' = republish
                   \/ BeginCycle /\ pc = "connect"
  <2>1. CASE BeginCycle
    BY <2>1 DEF BeginCycle, AtConnect
  <2>2. CASE ~BeginCycle
    BY <2>2, TaskActs DEF Reprobe, ReprobeFailed, Reprobed, Fetch, FetchFailed, Ingest, MarkUp, Settle,
       Measure, Dispatch, DispatchDropped, Open, OpenRefused, OpenFailed, ReadPart,
       PartGarbled, Judge, OutOfRange, StreamLost, StreamSevered, Elapsed, AttachNotified, Serve,
       ServeFailed, ServeDelivered, ServeGone, ServeUndelivered, Served, Aside, Alive,
       AtConnect, loopVars
  <2> QED BY <2>1, <2>2
<1> QED BY <1>1, <1>2

\* A recovery's fetch that fails is asked for again, or given up.
LEMMA FetchGivesUp ==
  ASSUME Paced, FetchFailed
  PROVE  /\ doc.rebase => (AtConnect' /\ republish') \/ abandoned'
         /\ ~doc.rebase => abandoned' = abandoned /\ (AtConnect' => ~republish')
<1>1. Control /\ Asked /\ TaskTypes /\ DocTypes
  BY DEF Paced, Shape, Typed, TypeOK
<1>2. /\ pc = "fetch" /\ republish' = republish
      /\ abandoned' = (abandoned \/ (doc.rebase /\ ~doc.republish))
      /\ \/ caller = "connect" /\ pc' = "wait" /\ waitFor' = "connect"
         \/ caller # "connect" /\ pc' = caller /\ waitFor' = waitFor
  BY DEF FetchFailed, CycleFailed
<1>3. caller \in Polling /\ doc.kind = "current"
  BY <1>1, <1>2 DEF Control
<1>4. CASE doc.rebase
  BY <1>1, <1>2, <1>3, <1>4 DEF Asked, AtConnect
<1>5. CASE ~doc.rebase
  BY <1>1, <1>2, <1>3, <1>5 DEF Asked, AtConnect, Control, Polling, TaskTypes
<1> QED BY <1>4, <1>5

LEMMA DebtsStep ==
  ASSUME Paced, Debts, [Next]_vars
  PROVE  Debts'
<1>1. Control /\ SessionTypes /\ TaskTypes /\ Asked
  BY DEF Paced, Shape, Typed, TypeOK
<1> SUFFICES ASSUME ~resync', ~abandoned', NEW d \in Devices, Survivor(d)'
             PROVE  /\ d \in pending' => \/ caller' \in Polling /\ doc'.rebase
                                         \/ AtConnect' /\ republish'
                    /\ pc' \in {"serve", "serving"} => d \notin ToSet(todo')
  BY DEF Debts, Polling
<1>2. Survivor(d) /\ ~abandoned
  BY Survives, FlagsMove
<1>3. CASE Reprobed
  BY <1>1, <1>3 DEF Reprobed, Control, Asked, workVars
<1>4. CASE ~Reprobed
  <2>1. ~resync
    BY <1>4, FlagsMove
  <2>2. /\ d \in pending => \/ caller \in Polling /\ doc.rebase
                            \/ AtConnect /\ republish
        /\ pc \in {"serve", "serving"} => d \notin ToSet(todo)
    BY <1>2, <2>1 DEF Debts
  <2>3. d \in pending' => d \in pending
    <3>1. ASSUME NEW e \in Devices, Attach(e)
          PROVE  d # e
      <4>1. seq' = seq /\ since' = [since EXCEPT ![e] = seq.inst]
        BY <3>1 DEF Attach, sessionFrame
      <4> QED BY <1>1, <4>1 DEF Survivor, SessionTypes
    <3>2. \/ pending' \in {pending, {}}
          \/ \E e \in Devices : Attach(e) /\ pending' = pending \cup {e}
      BY PendingBy
    <3> QED BY <3>1, <3>2
  <2>4. ASSUME d \in pending'
        PROVE  \/ caller' \in Polling /\ doc'.rebase
               \/ AtConnect' /\ republish'
    <3>1. CASE caller \in Polling /\ doc.rebase
      <4>1. CASE ReprobeFailed
        <5>1. pc = "reprobe"
          BY <4>1 DEF ReprobeFailed
        <5> QED BY <1>1, <2>1, <5>1 DEF Asked
      <4>2. CASE FetchFailed
        BY <3>1, <4>2, FetchGivesUp
      <4>3. CASE Settle
        BY <2>1, <2>4, <4>3, PendingBy
      <4> QED BY <1>1, <3>1, <4>1, <4>2, <4>3, CycleStands DEF Paced, Shape, Typed, TypeOK
    <3>2. CASE AtConnect /\ republish
      <4>1. CASE BeginCycle /\ pc = "connect"
        <5>1. caller' = "connect" /\ doc'.rebase = (republish \/ resync)
          BY <4>1 DEF BeginCycle, NoDoc
        <5> QED BY <3>2, <5>1 DEF Polling
      <4> QED BY <1>1, <3>2, <4>1, CycleStands DEF Paced, Shape, Typed, TypeOK
    <3> QED BY <2>2, <2>3, <2>4, <3>1, <3>2
  <2>5. ASSUME pc' \in {"serve", "serving"}
        PROVE  d \notin ToSet(todo')
    <3>1. pc \in {"drive", "serve", "serving"}
      BY <1>1, <2>5, Paths
    <3>2. CASE pc = "drive"
      <4>1. pending \subseteq Devices /\ todo' = SetToSeq(pending)
        BY <1>1, <2>5, <3>2, TaskActs DEF BeginCycle, Reprobe, ReprobeFailed, Reprobed, Fetch, FetchFailed,
          Ingest, MarkUp, Settle, Measure, Dispatch, DispatchDropped, Open, OpenRefused, OpenFailed,
          ReadPart, PartGarbled, Judge, OutOfRange, StreamLost, StreamSevered, Elapsed, AttachNotified,
          Serve, ServeFailed, ServeDelivered, ServeGone, ServeUndelivered, Served, Aside, Alive,
          LadderOne, EstablishFailed, SessionTypes
      <4>2. ToSet(todo') = pending
        BY <4>1, SetToSeqIs
      <4>3. caller = "none"
        BY <1>1, <3>2 DEF Control
      <4>4. d \notin pending
        BY <2>2, <3>2, <4>3 DEF AtConnect, Polling
      <4> QED BY <4>2, <4>4
    <3>3. CASE pc \in {"serve", "serving"}
      <4>1. todo' = todo \/ (todo # <<>> /\ todo' = Tail(todo))
        BY <1>1, <2>5, <3>3, TaskActs DEF BeginCycle, Reprobe, ReprobeFailed, Reprobed, Fetch, FetchFailed,
          Ingest, MarkUp, Settle, Measure, Dispatch, DispatchDropped, Open, OpenRefused, OpenFailed,
          ReadPart, PartGarbled, Judge, OutOfRange, StreamLost, StreamSevered, Elapsed, AttachNotified,
          Serve, ServeFailed, ServeDelivered, ServeGone, ServeUndelivered, Served, Aside, Alive,
          EndServing, Control, workVars
      <4> QED BY <1>1, <2>2, <3>3, <4>1, TailIn DEF TaskTypes
    <3> QED BY <3>1, <3>2, <3>3
  <2> QED BY <2>4, <2>5
<1> QED BY <1>3, <1>4

\* An overrun leaves the sequence state alone; a restart it reveals resets it.
LEMMA OutOfRangeIs ==
  ASSUME OutOfRange
  PROVE  /\ pc = "drive" /\ pc' = "connect"
         /\ \/ seq' = seq /\ republish' /\ (resync' <=> resync) /\ (abandoned' <=> abandoned)
            \/ seq'.inst = inst /\ seq'.next = 0 /\ seq'.floor = NoFloors /\ resync'
<1> DEFINE header == [inst |-> inst, next |-> seq.next, republish |-> FALSE]
<1>1. /\ NoteRestart(header) /\ pc = "drive" /\ pc' = "connect"
      /\ IF InstanceChanged(header)
         THEN seq' = [observe_header(header) EXCEPT !.next = 0] ELSE seq' = seq /\ republish'
  BY DEF OutOfRange, Alive
<1>2. CASE InstanceChanged(header)
  <2>1. observe_header(header) = [inst |-> inst, next |-> seq.next, floor |-> NoFloors]
    BY <1>2 DEF observe_header
  <2> DEFINE a == [inst |-> inst, next |-> seq.next, floor |-> NoFloors]
  <2>2. /\ [a EXCEPT !.next = 0].inst = inst /\ [a EXCEPT !.next = 0].next = 0
        /\ [a EXCEPT !.next = 0].floor = NoFloors
    OBVIOUS
  <2>3. seq' = [a EXCEPT !.next = 0]
    BY <1>1, <1>2, <2>1
  <2> QED BY <1>1, <1>2, <2>2, <2>3 DEF NoteRestart
<1>3. CASE ~InstanceChanged(header)
  <2>1. resync' = (resync \/ FALSE) /\ abandoned' = (abandoned /\ ~FALSE)
    BY <1>1, <1>3 DEF NoteRestart
  <2> QED BY <1>1, <1>3, <2>1
<1> QED BY <1>2, <1>3

\* A restart is noticed with every floor reset and nothing in hand.
LEMMA RestartNoted ==
  ASSUME Paced, [Next]_vars,
         (seq'.inst # seq.inst /\ seq.inst # 0) \/ (abandoned /\ ~abandoned')
  PROVE  /\ resync' /\ seq'.floor = NoFloors /\ pc' \in {"measure", "connect"}
         /\ pc' = "measure" => todo' = <<>>
<1>1. CASE Ingest
  <2>1. InstanceChanged(doc)
    <3>1. seq'.inst = doc.inst
      BY <1>1, SeqMoves DEF Paced
    <3> QED BY <1>1, <3>1 DEF Ingest, NoteRestart, InstanceChanged
  <2> QED BY <1>1, <2>1 DEF Ingest, NoteRestart, observe_header
<1>2. CASE OutOfRange
  BY <1>2, OutOfRangeIs
<1>3. CASE ~Ingest /\ ~OutOfRange
  <2>1. seq'.inst = seq.inst
    BY <1>3, SeqMoves DEF Paced
  <2>2. abandoned => abandoned'
    BY <1>3, Frames DEF Reprobed, FetchFailed
  <2> QED BY <2>1, <2>2
<1> QED BY <1>1, <1>2, <1>3

\* How a floor moves: reset by a header, raised by a measure or a served snapshot.
LEMMA FloorsMove ==
  ASSUME Paced, [Next]_vars, NEW d \in Devices
  PROVE  \/ seq'.floor[d] = seq.floor[d]
         \/ seq'.floor[d] = 0 /\ (Ingest \/ OutOfRange)
         \/ /\ Measure /\ pc' = "dispatch" /\ d = Head(todo) /\ sess[d] = "on"
            /\ fresh' = {n \in doc.obs[d] : should_publish(d, n)} /\ fresh' # {}
            /\ seq'.floor[d] = Max(fresh')
         \/ ServeDelivered /\ d = Head(todo) /\ seq'.floor[d] = Max(fresh \cup {seq.floor[d]})
<1>1. Shape /\ SeqTypes
  BY DEF Paced, Shape, Typed, TypeOK
<1>2. CASE Ingest
  <2>1. seq'.floor = NoFloors \/ seq'.floor = seq.floor
    BY <1>2 DEF Ingest, observe_header
  <2> QED BY <1>2, <2>1 DEF NoFloors
<1>3. CASE OutOfRange
  BY <1>3, OutOfRangeIs DEF NoFloors
<1>4. CASE Measure
  <2> DEFINE h   == Head(todo)
             new == {n \in doc.obs[h] : should_publish(h, n)}
  <2>1. \/ seq' = seq
        \/ /\ sess[h] = "on" /\ new # {} /\ seq' = [seq EXCEPT !.floor[h] = Max(new)]
           /\ fresh' = new /\ pc' = "dispatch"
    BY <1>4 DEF Measure
  <2>2. h \in Devices /\ new \in SUBSET (0 .. MaxSeq) /\ MaxSeq \in Nat
    BY <1>1, <1>4, InHandIs DEF Measure
  <2>3. CASE seq' = seq
    BY <2>3
  <2>4. CASE /\ sess[h] = "on" /\ new # {} /\ seq' = [seq EXCEPT !.floor[h] = Max(new)]
             /\ fresh' = new /\ pc' = "dispatch"
    <3> HIDE DEF new
    <3>1. Max(new) \in 0 .. MaxSeq
      BY <2>2, <2>4, MaxIs
    <3>2. seq'.floor = [seq.floor EXCEPT ![h] = Max(new)] /\ seq.floor \in [Devices -> 0 .. MaxSeq]
      BY <1>1, <2>2, <2>4, <3>1, FloorRaised DEF SeqTypes
    <3>3. d # h => seq'.floor[d] = seq.floor[d]
      BY <3>2
    <3>4. d = h => seq'.floor[d] = Max(fresh')
      BY <2>4, <3>2
    <3> QED BY <1>4, <2>4, <3>3, <3>4 DEF new
  <2> QED BY <2>1, <2>3, <2>4
<1>5. CASE ServeDelivered
  <2> DEFINE h    == Head(todo)
             both == fresh \cup {seq.floor[h]}
  <2>1. pc = "serving" /\ seq' = [seq EXCEPT !.floor[h] = Max(both)]
    BY <1>5 DEF ServeDelivered
  <2>2. h \in Devices
    BY <1>1, <2>1, BatchIs
  <2>3. both \in SUBSET (0 .. MaxSeq) /\ both # {} /\ MaxSeq \in Nat
    BY <1>1, <2>2, InHandIs
  <2> HIDE DEF both
  <2>4. Max(both) \in 0 .. MaxSeq
    BY <2>3, MaxIs
  <2>5. seq'.floor = [seq.floor EXCEPT ![h] = Max(both)] /\ seq.floor \in [Devices -> 0 .. MaxSeq]
    BY <1>1, <2>1, <2>2, <2>4, FloorRaised DEF SeqTypes
  <2> QED BY <1>5, <2>5 DEF both
<1>6. CASE seq' = seq
  BY <1>6
<1> QED BY <1>2, <1>3, <1>4, <1>5, <1>6, Frames

\* The account of a session is settled: no recovery of it is under way.
Steady(d) ==
  /\ sess[d] = "on" /\ ~resync /\ ~abandoned
  /\ AtConnect => ~republish
  /\ pc \in {"fetch", "ingest"} => ~doc.rebase
  /\ pc \in {"measure", "dispatch"} /\ doc.rebase => d \notin ToSet(todo)

\* A recovery ends for a session with what the step does to it.
LEMMA SteadyStep ==
  ASSUME Paced, [Next]_vars, NEW d \in Devices, sess[d] = "on", Steady(d)'
  PROVE  \/ Steady(d)
         \/ /\ doc.rebase /\ todo # <<>> /\ d = Head(todo) /\ ~resync /\ ~abandoned
            /\ Dispatch \/ DispatchDropped \/ (Measure /\ pc' = "measure")
<1>1. Control /\ Asked /\ TaskTypes /\ DocTypes /\ setup \in Setups
  BY DEF Paced, Shape, Typed, TypeOK
<1>2. /\ ~resync' /\ ~abandoned' /\ (AtConnect' => ~republish')
      /\ pc' \in {"fetch", "ingest"} => ~doc'.rebase
      /\ pc' \in {"measure", "dispatch"} /\ doc'.rebase => d \notin ToSet(todo')
  BY DEF Steady
<1>3. ~resync
  <2>1. CASE Reprobed
    <3>1. pc = "reprobe" /\ pc' = "fetch" /\ doc' = doc
      BY <2>1 DEF Reprobed, workVars
    <3> QED BY <1>1, <1>2, <3>1 DEF Asked
  <2> QED BY <1>2, <2>1, FlagsMove
<1>4. ~abandoned
  BY <1>2, FlagsMove
<1>5. AtConnect => ~republish
  <2>1. CASE BeginCycle /\ pc = "connect"
    <3>1. pc' = "fetch" /\ doc'.rebase = (republish \/ resync)
      BY <1>3, <2>1 DEF BeginCycle, NoDoc
    <3> QED BY <1>2, <3>1
  <2> QED BY <1>1, <1>2, <2>1, CycleStands
<1>6. pc \in {"fetch", "ingest"} => ~doc.rebase
  <2>1. CASE pc = "fetch"
    <3>1. Fetch => pc' = "ingest" /\ doc'.rebase = doc.rebase
      BY <1>1 DEF Fetch, DocTypes
    <3>2. FetchFailed => ~doc.rebase
      BY <1>2, FetchGivesUp
    <3> QED BY <1>2, <2>1, <3>1, <3>2, ActsAt, AsideIs
  <2>2. CASE pc = "ingest"
    <3>1. CASE Ingest
      <4>1. pc' = "measure" /\ doc' = doc /\ todo' = Boot
        BY <1>2, <3>1 DEF Ingest
      <4> QED BY <1>1, <1>2, <4>1, BootIs
    <3> QED BY <1>2, <2>2, <3>1, ActsAt, AsideIs
  <2> QED BY <2>1, <2>2
<1>7. CASE pc \in {"measure", "dispatch"} /\ doc.rebase /\ d \in ToSet(todo)
  <2>1. todo # <<>> /\ todo \in Seq(Devices)
    BY <1>1, <1>7 DEF ToSet, TaskTypes
  <2>2. CASE Measure
    <3>1. /\ doc' = doc /\ pc' \in {"measure", "dispatch"}
          /\ pc' = "dispatch" => todo' = todo
          /\ todo' = todo \/ todo' = Tail(todo)
      BY <2>2 DEF Measure
    <3>2. d \notin ToSet(todo')
      BY <1>2, <1>7, <3>1
    <3>3. d = Head(todo) /\ pc' = "measure"
      BY <1>7, <2>1, <3>1, <3>2, TailIn
    <3> QED BY <1>3, <1>4, <1>7, <2>1, <2>2, <3>3
  <2>3. CASE Dispatch \/ DispatchDropped
    <3>1. doc' = doc /\ pc' = "measure" /\ todo' = Tail(todo)
      BY <2>3 DEF Dispatch, DispatchDropped
    <3>2. d = Head(todo)
      BY <1>2, <1>7, <2>1, <3>1, TailIn
    <3> QED BY <1>3, <1>4, <1>7, <2>1, <2>3, <3>2
  <2>4. ~MarkUp
    BY <2>1 DEF MarkUp
  <2> QED BY <1>2, <1>7, <2>2, <2>3, <2>4, ActsAt, AsideIs
<1> QED BY <1>3, <1>4, <1>5, <1>6, <1>7 DEF Steady

\* A survivor that its recovery has got to has been sent the Snapshot of it.  Until
\* then its floor stands at zero, so that the document of the recovery, which has an
\* observation of every device, cannot be told from what was published before.
Told ==
  ~abandoned => \A d \in Devices : Survivor(d) =>
    /\ Steady(d) => marked[d] = seq.inst
    /\ seq.floor[d] > 0 =>
         /\ \/ marked[d] = seq.inst \/ inst > seq.inst
            \/ pc = "dispatch" /\ d = Head(todo) /\ doc.rebase
         /\ pc = "ingest" /\ doc.kind = "current" /\ doc.inst = seq.inst => marked[d] = seq.inst
         /\ pc \in {"measure", "dispatch"} /\ d \in ToSet(todo) =>
              \/ marked[d] = seq.inst
              \/ pc = "dispatch" /\ d = Head(todo) /\ doc.rebase

LEMMA ToldInit == Init => Told
BY DEF Init, Told, Survivor

\* The Snapshots sent, and to whom.
LEMMA MarksMove ==
  ASSUME Paced, [Next]_vars, NEW d \in Devices, sess[d] = "on"
  PROVE  /\ marked'[d] = marked[d] \/ marked'[d] = doc.inst
         /\ marked'[d] # marked[d] =>
              /\ d = Head(todo) /\ todo # <<>>
              /\ ServeDelivered \/ ((Dispatch \/ DispatchDropped) /\ doc.rebase)
         /\ (Dispatch \/ DispatchDropped) /\ doc.rebase /\ d = Head(todo) =>
              marked'[d] = doc.inst
<1>1. QueueTypes /\ SessionTypes /\ Control
  BY DEF Paced, Shape, Typed, TypeOK
<1>2. CASE Dispatch
  <2>1. /\ pc = "dispatch" /\ todo # <<>>
        /\ IF sess[Head(todo)] # "on" THEN marked' = marked
           ELSE IF doc.rebase THEN PushSnapshot(Head(todo)) ELSE PushObs(Head(todo))
    BY <1>1, <1>2 DEF Dispatch, queueVars, Control
  <2> QED BY <1>1, <1>2, <2>1 DEF PushSnapshot, PushObs, QueueTypes, Dispatch, DispatchDropped
<1>3. CASE DispatchDropped
  <2>1. /\ pc = "dispatch" /\ todo # <<>>
        /\ marked' = IF doc.rebase THEN [marked EXCEPT ![Head(todo)] = doc.inst] ELSE marked
    BY <1>1, <1>3 DEF DispatchDropped, Control
  <2> QED BY <1>1, <1>3, <2>1 DEF QueueTypes
<1>4. CASE ServeDelivered
  <2>1. pc = "serving" /\ todo # <<>> /\ marked' = [marked EXCEPT ![Head(todo)] = doc.inst]
    BY <1>1, <1>4 DEF ServeDelivered, Control, PushSnapshot
  <2> QED BY <1>1, <1>4, <2>1 DEF QueueTypes, Dispatch, DispatchDropped
<1>5. CASE ~Dispatch /\ ~DispatchDropped /\ ~ServeDelivered
  <2>1. marked'[d] = marked[d]
    <3>1. CASE Measure
      BY <3>1 DEF Measure, queueVars
    <3>2. ASSUME NEW e \in Devices, Attach(e)
          PROVE  marked'[d] = marked[d]
      <4>1. d # e /\ marked' = [marked EXCEPT ![e] = 0]
        BY <3>2 DEF Attach
      <4> QED BY <1>1, <4>1 DEF QueueTypes
    <3>3. ASSUME NEW e \in Devices, Drain(e) \/ CloseSession(e)
          PROVE  marked'[d] = marked[d]
      BY <3>3 DEF Drain, CloseSession
    <3>4. ASSUME NEW n \in 1 .. MaxSeq, PartGarbled(n)
          PROVE  marked'[d] = marked[d]
      BY <3>4 DEF PartGarbled
    <3> QED BY <1>5, <3>1, <3>2, <3>3, <3>4, Frames
  <2> QED BY <1>5, <2>1
<1> QED BY <1>2, <1>3, <1>4, <1>5

LEMMA InstGrows ==
  ASSUME Shape, [Next]_vars
  PROVE  /\ inst \in Nat /\ inst' \in Nat /\ inst <= inst' /\ doc.inst \in Nat /\ seq.inst \in Nat
         /\ \A d \in Devices : seq.floor[d] \in Nat
<1>1. Restart => inst' = inst + 1
  BY DEF Restart
<1>2. (\E d \in Devices : Observe(d)) => inst' = inst
  BY DEF Observe
<1>3. /\ inst \in Nat /\ doc.inst \in Nat /\ seq.inst \in Nat
      /\ \A d \in Devices : seq.floor[d] \in Nat
  BY InHandIs
<1>4. inst' = inst \/ inst' = inst + 1
  BY <1>1, <1>2, Frames
<1> QED BY <1>3, <1>4

LEMMA ToldStep ==
  ASSUME Paced, Debts, Told, [Next]_vars
  PROVE  Told'
<1>1. Control /\ Asked /\ Ages /\ TaskTypes /\ DocTypes /\ Shape /\ setup \in Setups
  BY DEF Paced, Shape, Typed, TypeOK
<1>2. /\ inst \in Nat /\ inst' \in Nat /\ inst <= inst' /\ doc.inst \in Nat /\ seq.inst \in Nat
  BY <1>1, InstGrows
<1> SUFFICES ASSUME ~abandoned', NEW d \in Devices, Survivor(d)'
             PROVE  /\ Steady(d)' => marked'[d] = seq'.inst
                    /\ seq'.floor[d] > 0 =>
                         /\ \/ marked'[d] = seq'.inst \/ inst' > seq'.inst
                            \/ pc' = "dispatch" /\ d = Head(todo') /\ doc'.rebase
                         /\ pc' = "ingest" /\ doc'.kind = "current" /\ doc'.inst = seq'.inst =>
                              marked'[d] = seq'.inst
                         /\ pc' \in {"measure", "dispatch"} /\ d \in ToSet(todo') =>
                              \/ marked'[d] = seq'.inst
                              \/ pc' = "dispatch" /\ d = Head(todo') /\ doc'.rebase
  BY DEF Told
<1>3. sess[d] = "on" /\ seq.inst # 0
  BY Survives
<1>4. CASE seq'.inst # seq.inst \/ abandoned
  <2>1. resync' /\ seq'.floor = NoFloors
    BY <1>3, <1>4, RestartNoted
  <2> QED BY <2>1 DEF Steady, NoFloors
<1>5. CASE seq'.inst = seq.inst /\ ~abandoned
  <2>0. Dispatch \/ DispatchDropped => pc = "dispatch"
    BY DEF Dispatch, DispatchDropped
  <2>1. Survivor(d)
    BY <1>5, Survives DEF Survivor
  <2>2. /\ Steady(d) => marked[d] = seq.inst
        /\ seq.floor[d] > 0 =>
             /\ \/ marked[d] = seq.inst \/ inst > seq.inst
                \/ pc = "dispatch" /\ d = Head(todo) /\ doc.rebase
             /\ pc = "ingest" /\ doc.kind = "current" /\ doc.inst = seq.inst => marked[d] = seq.inst
             /\ pc \in {"measure", "dispatch"} /\ d \in ToSet(todo) =>
                  \/ marked[d] = seq.inst
                  \/ pc = "dispatch" /\ d = Head(todo) /\ doc.rebase
    BY <1>5, <2>1 DEF Told
  <2>3. /\ marked'[d] = marked[d] \/ marked'[d] = doc.inst
        /\ marked'[d] # marked[d] =>
             /\ d = Head(todo) /\ todo # <<>>
             /\ ServeDelivered \/ ((Dispatch \/ DispatchDropped) /\ doc.rebase)
        /\ (Dispatch \/ DispatchDropped) /\ doc.rebase /\ d = Head(todo) => marked'[d] = doc.inst
    BY <1>3, MarksMove
  <2>4. marked[d] = seq.inst => marked'[d] = seq.inst \/ (ServeDelivered /\ d = Head(todo))
    BY <1>1, <2>0, <2>3 DEF Ages
  <2>5. ServeDelivered => pc = "serving" /\ pc' = "serve" /\ todo # <<>> /\ inst' = inst
    BY <1>1 DEF ServeDelivered, EndServing, Control, agentVars
  <2>6. ASSUME Steady(d)' PROVE marked'[d] = seq.inst
    <3>1. CASE Steady(d)
      <4>1. ~(ServeDelivered /\ d = Head(todo))
        BY <1>1, <2>1, <2>5, <3>1, TailIn DEF Debts, Steady, TaskTypes
      <4> QED BY <2>2, <2>4, <3>1, <4>1
    <3>2. CASE /\ doc.rebase /\ todo # <<>> /\ d = Head(todo)
               /\ Dispatch \/ DispatchDropped
      <4>1. marked'[d] = doc.inst /\ pc = "dispatch"
        BY <2>3, <3>2 DEF Dispatch, DispatchDropped
      <4> QED BY <1>1, <4>1 DEF Ages
    <3>3. CASE /\ doc.rebase /\ todo # <<>> /\ d = Head(todo)
               /\ Measure /\ pc' = "measure"
      <4>1. pc = "measure" /\ {n \in doc.obs[d] : should_publish(d, n)} = {}
        BY <1>3, <3>3 DEF Measure
      <4>2. PICK n \in doc.obs[d] : ~should_publish(d, n)
        BY <1>1, <3>3, <4>1 DEF Control, Asked, Reads
      <4>3. seq.floor[d] > 0
        <5>1. n \in 1 .. MaxSeq /\ seq.floor[d] \in Nat /\ MaxSeq \in Nat
          BY <1>1, <4>2, InHandIs
        <5>2. ~(n > seq.floor[d])
          BY <4>2 DEF should_publish
        <5> QED BY <5>1, <5>2
      <4>4. d \in ToSet(todo)
        BY <1>1, <3>3, TailIn DEF TaskTypes
      <4>5. marked[d] = seq.inst
        BY <2>2, <4>1, <4>3, <4>4
      <4> QED BY <2>4, <2>5, <3>3, <4>5
    <3> QED BY <1>3, <2>6, <3>1, <3>2, <3>3, SteadyStep
  <2>7. ASSUME seq'.floor[d] > 0
        PROVE  /\ \/ marked'[d] = seq.inst \/ inst' > seq.inst
                  \/ pc' = "dispatch" /\ d = Head(todo') /\ doc'.rebase
               /\ pc' = "ingest" /\ doc'.kind = "current" /\ doc'.inst = seq.inst =>
                    marked'[d] = seq.inst
               /\ pc' \in {"measure", "dispatch"} /\ d \in ToSet(todo') =>
                    \/ marked'[d] = seq.inst
                    \/ pc' = "dispatch" /\ d = Head(todo') /\ doc'.rebase
    <3>1. CASE ServeDelivered
      <4>1. CASE marked'[d] = doc.inst
        <5>1. doc.inst = seq.inst \/ inst > seq.inst
          BY <1>1, <1>2, <2>5, <3>1 DEF Ages
        <5> QED BY <2>5, <3>1, <4>1, <5>1
      <4>2. CASE marked'[d] = marked[d] /\ d # Head(todo)
        <5>1. seq'.floor[d] = seq.floor[d]
          BY <1>2, <2>5, <3>1, <4>2, FloorsMove DEF Measure, Ingest, OutOfRange, Alive
        <5> QED BY <2>2, <2>5, <2>7, <3>1, <4>2, <5>1
      <4>3. CASE d = Head(todo)
        <5>1. marked'[d] = doc.inst
          BY <1>1, <2>5, <3>1, <4>3 DEF ServeDelivered, PushSnapshot, Paced, Shape, Typed, TypeOK, QueueTypes
        <5> QED BY <4>1, <5>1
      <4> QED BY <2>3, <4>1, <4>2, <4>3
    <3>2. CASE Measure
      <4>1. /\ pc = "measure" /\ todo # <<>> /\ doc' = doc /\ pc' \in {"measure", "dispatch"}
            /\ inst' = inst
            /\ todo' = todo \/ todo' = Tail(todo)
            /\ pc' = "dispatch" => todo' = todo
        BY <3>2 DEF Measure, agentVars
      <4>2. todo \in Seq(Devices)
        BY <1>1 DEF TaskTypes
      <4>3. marked'[d] = marked[d]
        BY <2>0, <2>3, <2>5, <4>1
      <4>4. CASE seq'.floor[d] = seq.floor[d]
        <5>1. d \in ToSet(todo') => d \in ToSet(todo)
          BY <4>1, <4>2, TailIn
        <5> QED BY <2>2, <2>7, <4>1, <4>3, <4>4, <5>1
      <4>5. CASE pc' = "dispatch" /\ d = Head(todo)
        <5>1. CASE doc.rebase
          BY <4>1, <4>5, <5>1
        <5>2. CASE ~doc.rebase
          <6>1. Steady(d)
            BY <1>1, <1>3, <1>5, <4>1, <5>2 DEF Steady, AtConnect, Asked
          <6> QED BY <2>2, <4>1, <4>3, <4>5, <6>1
        <5> QED BY <5>1, <5>2
      <4>6. ~Ingest /\ ~OutOfRange /\ ~ServeDelivered
        BY <4>1 DEF Ingest, OutOfRange, Alive, ServeDelivered
      <4> QED BY <4>4, <4>5, <4>6, FloorsMove
    <3>3. CASE Dispatch \/ DispatchDropped
      <4>1. /\ pc = "dispatch" /\ todo # <<>> /\ doc' = doc /\ pc' = "measure"
            /\ todo' = Tail(todo) /\ inst' = inst /\ seq' = seq
        BY <1>1, <3>3 DEF Dispatch, DispatchDropped, agentVars, Control
      <4>2. todo \in Seq(Devices) /\ doc.inst = seq.inst
        BY <1>1, <4>1 DEF TaskTypes, Ages
      <4>3. CASE d = Head(todo)
        <5>1. CASE doc.rebase
          BY <2>3, <3>3, <4>1, <4>2, <4>3, <5>1
        <5>2. CASE ~doc.rebase
          <6>1. Steady(d)
            BY <1>1, <1>3, <1>5, <4>1, <5>2 DEF Steady, AtConnect, Asked
          <6> QED BY <2>2, <2>4, <2>5, <4>1, <6>1
        <5> QED BY <5>1, <5>2
      <4>4. CASE d # Head(todo)
        <5>1. marked'[d] = marked[d] /\ seq.floor[d] > 0
          BY <2>3, <2>7, <4>1, <4>4
        <5>2. d \in ToSet(todo') => d \in ToSet(todo)
          BY <4>1, <4>2, TailIn
        <5> QED BY <2>2, <4>1, <4>4, <5>1, <5>2
      <4> QED BY <4>3, <4>4
    <3>4. CASE Ingest
      <4>1. /\ pc = "ingest" /\ doc' = doc /\ pc' = "measure" /\ inst' = inst
            /\ seq'.inst = doc.inst
            /\ todo' # <<>> => ~resync'
        BY <3>4, SeqMoves DEF Ingest, agentVars, Paced
      <4>2. marked'[d] = marked[d]
        BY <2>0, <2>3, <2>5, <4>1
      <4>3. seq.floor[d] > 0
        BY <2>7, <4>1, FloorsMove DEF Measure, ServeDelivered
      <4>4. ASSUME d \in ToSet(todo')
            PROVE  marked[d] = seq.inst
        <5>1. ~resync
          <6>1. todo' # <<>>
            BY <4>4 DEF ToSet
          <6>2. ~Reprobed
            BY <4>1 DEF Reprobed
          <6> QED BY <4>1, <6>1, <6>2, FlagsMove
        <5>2. CASE doc.kind = "current"
          BY <1>5, <2>2, <4>1, <4>3, <5>2
        <5>3. CASE doc.kind = "part"
          <6>1. Steady(d)
            BY <1>1, <1>3, <1>5, <4>1, <5>1, <5>3 DEF Steady, AtConnect, Asked
          <6> QED BY <2>2, <6>1
        <5> QED BY <1>1, <4>1, <5>2, <5>3 DEF Control, Reads
      <4> QED BY <2>2, <4>1, <4>2, <4>3, <4>4
    <3>5. CASE Fetch
      <4>1. /\ pc = "fetch" /\ pc' = "ingest" /\ inst' = inst /\ doc'.inst = inst /\ seq' = seq
        BY <1>1, <3>5 DEF Fetch, agentVars, DocTypes
      <4>2. marked'[d] = marked[d] /\ seq.floor[d] > 0
        BY <2>0, <2>3, <2>5, <2>7, <4>1
      <4> QED BY <1>2, <2>2, <4>1, <4>2
    <3>6. CASE /\ ~ServeDelivered /\ ~Measure /\ ~Dispatch /\ ~DispatchDropped /\ ~Ingest
               /\ ~Fetch
      <4>1. marked'[d] = marked[d]
        BY <2>3, <3>6
      <4>2. seq.floor[d] > 0 /\ seq'.floor[d] = seq.floor[d]
        <5>1. seq'.floor[d] # 0
          BY <2>7
        <5>2. seq'.floor[d] = seq.floor[d]
          BY <3>6, <5>1, FloorsMove
        <5> QED BY <2>7, <5>2
      <4>3. CASE Aside
        BY <1>2, <2>2, <4>1, <4>2, <4>3, AsideIs
      <4>4. CASE ~Aside
        <5>1. pc # "dispatch" /\ pc # "ingest" /\ (pc = "measure" => MarkUp)
          BY <3>6, <4>4, ActsAt
        <5>2. pc' \notin {"measure", "dispatch"}
          BY <1>1, <3>6, <5>1, Paths DEF MarkUp
        <5>3. pc' = "ingest" => doc'.kind = "part"
          <6>1. CASE \E n \in 0 .. MaxSeq : ReadPart(n)
            BY <6>1 DEF ReadPart, NoDoc
          <6>2. CASE ~\E n \in 0 .. MaxSeq : ReadPart(n)
            BY <1>1, <3>6, <4>4, <5>1, <6>2, TaskActs DEF BeginCycle, Reprobe, ReprobeFailed, Reprobed,
              FetchFailed, MarkUp, Settle, Open, OpenRefused, OpenFailed, PartGarbled, Judge,
              OutOfRange, StreamLost, StreamSevered, Elapsed, AttachNotified, Serve, ServeFailed,
              ServeGone, ServeUndelivered, Served, Alive, EndServing, LadderOne, EstablishFailed,
              CycleFailed, Control, Polling
          <6> QED BY <6>1, <6>2
        <5>4. marked[d] = seq.inst \/ inst > seq.inst
          BY <2>2, <4>2, <5>1
        <5> QED BY <1>2, <4>1, <5>2, <5>3, <5>4
      <4> QED BY <4>3, <4>4
    <3> QED BY <3>1, <3>2, <3>3, <3>4, <3>5, <3>6
  <2> QED BY <1>5, <2>6, <2>7
<1> QED BY <1>4, <1>5

LEMMA PacedKept == Spec => []Paced
<1>1. Init => Paced
  BY InitShape, AskedInit, AgesInit DEF Paced
<1>2. Paced /\ [Next]_vars => Paced'
  BY ShapeStep, AskedStep, AgesStep DEF Paced
<1> QED BY <1>1, <1>2, PTL DEF Spec

LEMMA ToldKept == Spec => [](Debts /\ Told)
<1>1. Init => Debts /\ Told
  BY DebtsInit, ToldInit
<1>2. Paced /\ Debts /\ Told /\ [Next]_vars => Debts' /\ Told'
  BY DebtsStep, ToldStep
<1> QED BY <1>1, <1>2, PacedKept, PTL DEF Spec

\* A restart that the task has recovered from has reached every session attached
\* across it: when a stream is opened or read, each of them has been sent the Snapshot
\* of the new incarnation (the ladders of run_streaming, snapshot_cycle).
THEOREM RecoveryReachesAll == Spec => []RestartRebaselined
<1>1. Paced /\ Told => RestartRebaselined
  BY DEF Told, Steady, Survivor, RestartRebaselined, Settled, AtConnect, attached
<1> QED BY <1>1, PacedKept, ToldKept, PTL

----------------------------------------------------------------------------
(* What the acquisition task puts into a session's flow: nothing twice,    *)
(* nothing through a dead model, no gap without its republish, and nothing *)
(* lost that is not counted.                                               *)

----------------------------------------------------------------------------
(* The flow of a session.                                                  *)

\* What survives a restart reaches its new incarnation through the re-probe.
Verified ==
  \A d \in Devices : Survivor(d) =>
    /\ ~resync \/ (pc = "reprobe" /\ d \notin ToSet(todo)) => seq.inst <= model[d]
    /\ ~resync /\ pc = "ingest" => model[d] <= doc.inst
    /\ ~resync /\ pc \in {"measure", "dispatch"} => model[d] = seq.inst

LEMMA VerifiedInit == Init => Verified
BY DEF Init, Verified, Survivor

\* A document is of the agent's present incarnation when it comes in.
LEMMA IngestFrom ==
  ASSUME Paced, [Next]_vars, pc' = "ingest"
  PROVE  \/ pc = "ingest" /\ Aside
         \/ Fetch /\ doc'.inst = inst
         \/ \E n \in 0 .. MaxSeq : ReadPart(n) /\ doc'.inst = inst
<1>1. Control /\ DocTypes
  BY DEF Paced, Shape, Typed, TypeOK
<1>2. Fetch => doc'.inst = inst
  BY <1>1 DEF Fetch, DocTypes
<1>3. \A n \in 0 .. MaxSeq : ReadPart(n) => doc'.inst = inst
  BY DEF ReadPart, NoDoc
<1>4. pc \in {"ingest", "fetch", "drive"}
  BY <1>1, Paths
<1>5. CASE pc = "ingest"
  BY <1>5, ActsAt DEF Ingest
<1>6. CASE pc = "fetch"
  <2>1. ~FetchFailed
    BY <1>1, <1>6 DEF FetchFailed, CycleFailed, Control, Polling
  <2> QED BY <1>2, <1>6, <2>1, ActsAt, AsideIs
<1>7. CASE pc = "drive"
  BY <1>3, <1>7, TaskActs DEF BeginCycle, Reprobe, ReprobeFailed, Reprobed, Fetch, FetchFailed,
    Ingest, MarkUp, Settle, Measure, Dispatch, DispatchDropped, Open, OpenRefused, OpenFailed,
    PartGarbled, Judge, OutOfRange, StreamLost, StreamSevered, Elapsed, AttachNotified,
    Serve, ServeFailed, ServeDelivered, ServeGone, ServeUndelivered, Served, Aside, Alive,
    LadderOne, EstablishFailed
<1> QED BY <1>4, <1>5, <1>6, <1>7

LEMMA VerifiedStep ==
  ASSUME Paced, Verified, [Next]_vars
  PROVE  Verified'
<1>1. Control /\ Asked /\ Ages /\ TaskTypes /\ DocTypes /\ SessionTypes /\ Shape
  BY DEF Paced, Shape, Typed, TypeOK
<1>2. /\ inst \in Nat /\ inst' \in Nat /\ inst <= inst' /\ doc.inst \in Nat /\ seq.inst \in Nat
      /\ \A d \in Devices : model[d] \in Nat
  BY <1>1, InstGrows, InHandIs
<1> SUFFICES ASSUME NEW d \in Devices, Survivor(d)'
             PROVE  /\ ~resync' \/ (pc' = "reprobe" /\ d \notin ToSet(todo')) =>
                         seq'.inst <= model'[d]
                    /\ ~resync' /\ pc' = "ingest" => model'[d] <= doc'.inst
                    /\ ~resync' /\ pc' \in {"measure", "dispatch"} => model'[d] = seq'.inst
  BY DEF Verified
<1>3. sess[d] = "on" /\ ((Survivor(d) /\ seq'.inst = seq.inst) \/ resync')
  BY Survives
<1>4. model[d] <= inst
  BY <1>1 DEF Ages
<1>5. model'[d] = model[d] \/ (Reprobe /\ d = Head(todo) /\ model'[d] = inst)
  <2>1. CASE Reprobe
    BY <1>1, <2>1 DEF Reprobe, SessionTypes
  <2>2. ASSUME NEW e \in Devices, Connect(e) PROVE model'[d] = model[d]
    BY <1>1, <1>3, <2>2 DEF Connect, SessionTypes
  <2>3. ASSUME NEW e \in Devices, Attach(e) \/ CloseSession(e) PROVE model'[d] = model[d]
    BY <2>3 DEF Attach, CloseSession
  <2> QED BY <2>1, <2>2, <2>3, Frames
<1>6. CASE resync'
  <2>1. SUFFICES ASSUME pc' = "reprobe", d \notin ToSet(todo')
                 PROVE  seq'.inst <= model'[d]
    BY <1>6
  <2>2. BeginCycle \/ Reprobe \/ (pc = "reprobe" /\ Aside)
    <3>1. CASE pc = "reprobe"
      BY <1>1, <2>1, <3>1, ActsAt DEF ReprobeFailed, Reprobed, CycleFailed, Control, Polling
    <3>2. CASE pc # "reprobe"
      BY <1>1, <2>1, <3>2, TaskActs DEF Reprobe, Reprobed, ReprobeFailed, Fetch, FetchFailed,
        CycleFailed, Ingest, MarkUp, Settle, Measure, Dispatch, DispatchDropped, Open, OpenRefused, OpenFailed, ReadPart,
        PartGarbled, Judge, OutOfRange, StreamLost, StreamSevered, Elapsed, AttachNotified,
        Serve, ServeFailed, ServeDelivered, ServeGone, ServeUndelivered, Served, Aside, Alive,
        EndServing, LadderOne, EstablishFailed, Control, Polling
    <3> QED BY <3>1, <3>2
  <2>3. ~Ingest /\ ~OutOfRange
    BY <2>1 DEF Ingest, OutOfRange
  <2>4. seq'.inst = seq.inst /\ since'[d] = since[d]
    BY <2>3, SeqMoves, Survives DEF Paced
  <2>5. Survivor(d)
    BY <1>3, <2>4 DEF Survivor
  <2>6. CASE BeginCycle
    <3>1. todo' = SetToSeq(attached) /\ attached \in SUBSET Devices
      BY <1>1, <2>1, <2>6 DEF BeginCycle, attached
    <3> QED BY <1>3, <2>1, <3>1, SetToSeqIs DEF attached
  <2>7. CASE Reprobe
    <3>1. pc = "reprobe" /\ todo # <<>> /\ todo' = Tail(todo) /\ todo \in Seq(Devices)
      BY <1>1, <2>7 DEF Reprobe, TaskTypes
    <3>2. CASE d = Head(todo)
      <4>1. model'[d] = inst
        BY <1>1, <2>7, <3>2 DEF Reprobe, SessionTypes
      <4> QED BY <1>1, <2>4, <4>1 DEF Ages
    <3>3. CASE d # Head(todo)
      <4>1. d \notin ToSet(todo)
        BY <2>1, <3>1, <3>3, TailIn
      <4> QED BY <1>5, <2>4, <2>5, <3>1, <3>3, <4>1 DEF Verified
    <3> QED BY <3>2, <3>3
  <2>8. CASE pc = "reprobe" /\ Aside /\ ~Reprobe
    BY <1>5, <2>1, <2>4, <2>5, <2>8, AsideIs DEF Verified
  <2> QED BY <2>2, <2>6, <2>7, <2>8
<1>7. CASE ~resync'
  <2>1. Survivor(d) /\ seq'.inst = seq.inst
    BY <1>3, <1>7
  <2>2. CASE Reprobed
    <3>1. pc = "reprobe" /\ d \notin ToSet(todo) /\ pc' = "fetch"
      BY <2>2 DEF Reprobed, ToSet
    <3>2. model' = model
      BY <2>2 DEF Reprobed
    <3> QED BY <2>1, <3>1, <3>2 DEF Verified
  <2>3. CASE ~Reprobed
    <3>1. ~resync
      BY <1>7, <2>3, FlagsMove
    <3>2. model'[d] = model[d]
      BY <1>1, <1>5, <3>1 DEF Asked, Reprobe
    <3>3. seq.inst <= model[d]
      BY <2>1, <3>1 DEF Verified
    <3>4. ASSUME pc' = "ingest" PROVE model[d] <= doc'.inst
      <4>1. doc'.inst = inst \/ (pc = "ingest" /\ doc' = doc)
        BY <3>4, IngestFrom, AsideIs
      <4> QED BY <1>4, <2>1, <3>1, <4>1 DEF Verified
    <3>5. ASSUME pc' \in {"measure", "dispatch"} PROVE model[d] = seq.inst
      <4>1. CASE Ingest
        <5>1. seq.inst = doc.inst /\ pc = "ingest"
          BY <2>1, <4>1, SeqMoves DEF Paced, Ingest
        <5>2. model[d] <= doc.inst
          BY <2>1, <3>1, <5>1 DEF Verified
        <5> QED BY <1>2, <3>3, <5>1, <5>2
      <4>2. CASE pc \in {"measure", "dispatch"}
        BY <2>1, <3>1, <4>2 DEF Verified
      <4> QED BY <1>1, <3>5, <4>1, <4>2, Paths
    <3> QED BY <1>7, <2>1, <3>2, <3>3, <3>4, <3>5
  <2> QED BY <2>2, <2>3
<1> QED BY <1>6, <1>7

\* A cycle at the head of the streaming loop that republishes nothing is the first.
Unstarted ==
  ~resync /\ ~abandoned /\ ~republish =>
    /\ AtConnect => seq.inst = 0
    /\ caller = "connect" /\ pc \in {"fetch", "ingest"} /\ ~doc.rebase => seq.inst = 0

LEMMA UnstartedInit == Init => Unstarted
BY DEF Init, Unstarted

LEMMA UnstartedStep ==
  ASSUME Paced, Unstarted, [Next]_vars
  PROVE  Unstarted'
<1>1. Control /\ Asked /\ Ages /\ TaskTypes /\ DocTypes
  BY DEF Paced, Shape, Typed, TypeOK
<1> SUFFICES ASSUME ~resync', ~abandoned', ~republish'
             PROVE  /\ AtConnect' => seq'.inst = 0
                    /\ caller' = "connect" /\ pc' \in {"fetch", "ingest"} /\ ~doc'.rebase =>
                         seq'.inst = 0
  BY DEF Unstarted
<1>2. ~abandoned
  BY FlagsMove
<1>3. CASE Reprobed
  <2>1. pc = "reprobe" /\ pc' = "fetch" /\ doc' = doc
    BY <1>3 DEF Reprobed, workVars
  <2> QED BY <1>1, <2>1 DEF Asked, AtConnect
<1>4. CASE ~Reprobed
  <2>1. ~resync
    BY <1>4, FlagsMove
  <2>2. ~OutOfRange
    BY OutOfRangeIs
  <2>3. ~Ingest => seq'.inst = seq.inst
    BY <2>2, SeqMoves DEF Paced
  <2>4. ASSUME AtConnect' PROVE seq'.inst = 0
    <3>1. \/ AtConnect
          \/ (FetchFailed \/ ReprobeFailed) /\ caller = "connect"
      BY <1>1, <2>1, <2>2, <2>4, TaskActs DEF BeginCycle, Reprobe, ReprobeFailed, Reprobed, Fetch,
        FetchFailed, Ingest, MarkUp, Settle, Measure, Dispatch, DispatchDropped, Open, OpenRefused,
        OpenFailed, ReadPart, PartGarbled, Judge, StreamLost, StreamSevered, Elapsed,
        AttachNotified, Serve, ServeFailed, ServeDelivered, ServeGone, ServeUndelivered, Served,
        Aside, Alive, EndServing, LadderOne, EstablishFailed, CycleFailed, Control, Polling,
        AtConnect, loopVars
    <3>2. ~Ingest
      BY <2>4 DEF Ingest, AtConnect
    <3>3. CASE AtConnect
      <4>1. ~republish
        BY <1>1, <2>4, <3>3, CycleStands DEF BeginCycle, AtConnect
      <4> QED BY <1>2, <2>1, <2>3, <3>2, <3>3, <4>1 DEF Unstarted
    <3>4. CASE FetchFailed /\ caller = "connect"
      <4>1. ~doc.rebase /\ republish' = republish /\ pc = "fetch"
        BY <3>4, FetchGivesUp DEF FetchFailed
      <4> QED BY <1>2, <2>1, <2>3, <3>2, <3>4, <4>1 DEF Unstarted
    <3>5. ~ReprobeFailed
      BY <1>1, <2>1 DEF ReprobeFailed, Asked
    <3> QED BY <3>1, <3>3, <3>4, <3>5
  <2>5. ASSUME caller' = "connect", pc' \in {"fetch", "ingest"}, ~doc'.rebase
        PROVE  seq'.inst = 0
    <3>1. \/ BeginCycle /\ pc = "connect"
          \/ caller = "connect" /\ pc \in {"fetch", "ingest"} /\ ~doc.rebase
             /\ republish' = republish /\ ~Ingest
      <4>1. CASE pc' = "ingest"
        <5>1. \A n \in 0 .. MaxSeq : ReadPart(n) => caller' = "drive"
          BY DEF ReadPart
        <5>2. Fetch => pc = "fetch" /\ caller' = caller /\ doc'.rebase = doc.rebase
                       /\ republish' = republish
          BY <1>1 DEF Fetch, loopVars, DocTypes
        <5>3. ~Ingest
          BY <4>1 DEF Ingest
        <5> QED BY <2>5, <4>1, <5>1, <5>2, <5>3, IngestFrom, AsideIs
      <4>2. CASE pc' = "fetch"
        BY <1>1, <1>4, <2>2, <2>5, <4>2, TaskActs DEF BeginCycle, Reprobe, ReprobeFailed, Reprobed,
          Fetch, FetchFailed, Ingest, MarkUp, Settle, Measure, Dispatch, DispatchDropped, Open,
          OpenRefused, OpenFailed, ReadPart, PartGarbled, Judge, StreamLost, StreamSevered,
          Elapsed, AttachNotified, Serve, ServeFailed, ServeDelivered, ServeGone,
          ServeUndelivered, Served, Aside, Alive, EndServing, LadderOne, EstablishFailed,
          CycleFailed, Control, Polling, loopVars, workVars
      <4> QED BY <2>5, <4>1, <4>2
    <3>2. CASE BeginCycle /\ pc = "connect"
      <4>1. ~republish /\ ~Ingest
        BY <3>2, <2>5 DEF BeginCycle, NoDoc, Ingest
      <4> QED BY <1>2, <2>1, <2>3, <3>2, <4>1 DEF Unstarted, AtConnect
    <3> QED BY <1>2, <2>1, <2>3, <3>1, <3>2 DEF Unstarted
  <2> QED BY <2>4, <2>5
<1> QED BY <1>3, <1>4

----------------------------------------------------------------------------
(* What is in hand, and what has been given.                               *)

\* A document has what the agent logged; a batch is what is new of it.
Held ==
  /\ pc \in Reads /\ doc.inst = inst => \A d \in Devices : doc.obs[d] \subseteq Of(d)
  /\ pc = "dispatch" =>
       /\ fresh \subseteq doc.obs[Head(todo)] /\ seq.floor[Head(todo)] \in fresh
       /\ \A n \in doc.obs[Head(todo)] : n <= seq.floor[Head(todo)]
  /\ pc = "serving" /\ doc.inst = inst => fresh \subseteq Of(Head(todo))

LEMMA HeldInit == Init => Held
BY DEF Init, Held, Reads

\* The log grows at its end, or begins anew.
LEMMA OfMoves ==
  ASSUME Shape, [Next]_vars
  PROVE  /\ inst' = inst => \A d \in Devices : /\ Of(d) \subseteq Of(d)'
                                              /\ \A n \in Of(d)' \ Of(d) : n = NextSequence
         /\ inst' # inst => Restart /\ inst' = inst + 1
<1>1. log \in Seq(Devices) /\ Len(log) \in Nat /\ inst \in Nat
  BY InHandIs
<1>2. CASE Restart
  BY <1>1, <1>2 DEF Restart
<1>3. ASSUME NEW e \in Devices, Observe(e)
      PROVE  /\ inst' = inst
             /\ \A d \in Devices : /\ Of(d) \subseteq Of(d)'
                                   /\ \A n \in Of(d)' \ Of(d) : n = NextSequence
  <2>1. log' = Append(log, e) /\ inst' = inst
    BY <1>3 DEF Observe
  <2>2. /\ DOMAIN log = 1 .. Len(log) /\ DOMAIN log' = 1 .. Len(log) + 1
        /\ \A n \in 1 .. Len(log) : log'[n] = log[n]
    BY <1>1, <2>1
  <2> QED BY <1>1, <2>1, <2>2 DEF Of, NextSequence
<1>4. CASE inst' = inst /\ log' = log
  BY <1>4 DEF Of
<1> QED BY <1>2, <1>3, <1>4, Frames

\* The document under way is the one in hand.
LEMMA DocStands ==
  ASSUME Paced, [Next]_vars, pc' \in {"measure", "dispatch"}
  PROVE  /\ pc \in Reads /\ doc' = doc
         /\ pc' = "dispatch" => Measure \/ (pc = "dispatch" /\ Aside)
         /\ inst' = inst \/ Aside
<1>1. Control
  BY DEF Paced, Shape
<1>2. Ingest \/ pc \in {"measure", "dispatch"}
  BY <1>1, Paths
<1>3. CASE Ingest
  BY <1>3 DEF Ingest, Reads, agentVars
<1>4. CASE Measure
  BY <1>4 DEF Measure, Reads, agentVars
<1>5. CASE Dispatch \/ DispatchDropped
  BY <1>5 DEF Dispatch, DispatchDropped, Reads, agentVars
<1>6. CASE Aside /\ pc \in {"measure", "dispatch"}
  BY <1>6, AsideIs DEF Reads
<1>7. ~MarkUp
  BY DEF MarkUp
<1> QED BY <1>2, <1>3, <1>4, <1>5, <1>6, <1>7, ActsAt

LEMMA ServingFrom ==
  ASSUME [Next]_vars, Control, pc' = "serving"
  PROVE  Serve \/ (pc = "serving" /\ Aside)
<1>1. pc \in {"drive", "serve", "serving"}
  BY Paths
<1>2. CASE pc = "drive"
  BY <1>2, TaskActs DEF BeginCycle, Reprobe, ReprobeFailed, Reprobed, Fetch, FetchFailed,
    Ingest, MarkUp, Settle, Measure, Dispatch, DispatchDropped, Open, OpenRefused, OpenFailed,
    ReadPart, PartGarbled, Judge, OutOfRange, StreamLost, StreamSevered, Elapsed, AttachNotified,
    Serve, ServeFailed, ServeDelivered, ServeGone, ServeUndelivered, Served, Aside, Alive,
    LadderOne, EstablishFailed
<1>3. CASE pc = "serve"
  BY <1>3, ActsAt, AsideIs DEF ServeFailed, Served
<1>4. CASE pc = "serving"
  BY <1>4, ActsAt DEF ServeDelivered, ServeGone, ServeUndelivered, EndServing
<1> QED BY <1>1, <1>2, <1>3, <1>4

LEMMA HeldStep ==
  ASSUME Paced, Held, [Next]_vars
  PROVE  Held'
<1>1. Control /\ Asked /\ Ages /\ TaskTypes /\ DocTypes /\ SeqTypes /\ Shape /\ Logged
      /\ setup \in Setups
  BY DEF Paced, Shape, Typed, TypeOK
<1>2. /\ log \in Seq(Devices) /\ Len(log) \in Nat /\ inst \in Nat /\ doc.inst \in Nat
      /\ MaxSeq \in Nat
  BY <1>1, InHandIs
<1>3. ASSUME pc' \in Reads, doc'.inst = inst', NEW d \in Devices
      PROVE  doc'.obs[d] \subseteq Of(d)'
  <2>1. CASE pc \in Reads /\ doc' = doc
    <3>1. doc.inst <= inst
      BY <1>1, <2>1 DEF Ages
    <3>2. inst' = inst
      BY <1>1, <1>2, <1>3, <2>1, <3>1, OfMoves
    <3> QED BY <1>1, <1>3, <2>1, <3>2, OfMoves DEF Held
  <2>2. CASE Fetch
    <3>1. doc'.obs = CurrentDoc /\ log' = log
      BY <1>1, <2>2 DEF Fetch, DocTypes, agentVars
    <3>2. Latest(d) \in Of(d)
      BY <1>1, <1>2, LatestIs
    <3> QED BY <3>1, <3>2 DEF CurrentDoc, Of
  <2>3. ASSUME NEW n \in 0 .. MaxSeq, ReadPart(n)
        PROVE  doc'.obs[d] \subseteq Of(d)'
    <3>1. /\ doc'.obs[d] = {m \in stream.pos .. n : log[m] = d} /\ log' = log
          /\ InWindow(stream.pos) /\ n <= Len(log)
      <4>1. stream.pos \in Int
        BY <1>1 DEF DocTypes
      <4>2. n \in stream.pos - 1 .. Len(log)
        BY <2>3 DEF ReadPart
      <4>3. doc'.obs = [e \in Devices |-> {m \in stream.pos .. n : log[m] = e}]
        BY <2>3 DEF ReadPart, NoDoc
      <4> QED BY <1>2, <2>3, <4>1, <4>2, <4>3 DEF ReadPart, machineVars, agentVars
    <3>2. stream.pos \in Nat /\ stream.pos >= 1
      BY <1>1, <1>2, <3>1, FirstIs DEF InWindow, DocTypes
    <3> QED BY <1>2, <3>1, <3>2 DEF Of
  <2>4. CASE pc' = "ingest"
    BY <2>1, <2>2, <2>3, <2>4, IngestFrom, AsideIs DEF Reads
  <2>5. CASE pc' \in {"measure", "dispatch"}
    BY <2>1, <2>5, DocStands
  <2> QED BY <1>3, <2>4, <2>5 DEF Reads
<1>4. ASSUME pc' = "dispatch"
      PROVE  /\ fresh' \subseteq doc'.obs[Head(todo')] /\ seq'.floor[Head(todo')] \in fresh'
             /\ \A n \in doc'.obs[Head(todo')] : n <= seq'.floor[Head(todo')]
  <2>1. CASE Measure
    <3> DEFINE h == Head(todo)
               new == {n \in doc.obs[h] : should_publish(h, n)}
    <3>1. /\ new # {} /\ seq' = [seq EXCEPT !.floor[h] = Max(new)] /\ fresh' = new
          /\ doc' = doc /\ todo' = todo
      BY <1>4, <2>1 DEF Measure
    <3>a. todo # <<>>
      BY <2>1 DEF Measure
    <3>b. h \in Devices
      BY <1>1, <3>a, InHandIs
    <3>c. doc.obs[h] \in SUBSET (1 .. MaxSeq) /\ seq.floor[h] \in 0 .. MaxSeq
      BY <1>1, <3>b, InHandIs
    <3>2. h \in Devices /\ new \in SUBSET (0 .. MaxSeq) /\ doc.obs[h] \in SUBSET (1 .. MaxSeq)
          /\ seq.floor[h] \in Nat
      BY <1>2, <3>b, <3>c
    <3>3. Max(new) \in new /\ \A i \in new : i <= Max(new)
      BY <1>2, <3>1, <3>2, MaxIs
    <3>4. \A n \in doc.obs[h] : n \in new \/ n <= seq.floor[h]
      BY <1>2, <3>2 DEF should_publish
    <3>5. Max(new) > seq.floor[h]
      BY <3>3 DEF should_publish
    <3>6. seq'.floor[h] = Max(new)
      <4>1. Max(new) \in 0 .. MaxSeq
        BY <1>2, <3>1, <3>2, MaxIs
      <4> QED BY <1>1, <3>1, <3>2, <4>1, FloorRaised DEF SeqTypes
    <3>7. \A n \in doc.obs[h] : n <= Max(new)
      <4> HIDE DEF new, h
      <4>1. \A n \in doc.obs[h] : n \in Nat
        BY <3>2
      <4>2. Max(new) \in Nat
        BY <1>2, <3>1, <3>2, MaxIs
      <4> QED BY <3>2, <3>3, <3>4, <3>5, <4>1, <4>2
    <3> QED BY <3>1, <3>3, <3>6, <3>7
  <2>2. CASE pc = "dispatch" /\ Aside
    BY <2>2, AsideIs DEF Held
  <2> QED BY <1>4, <2>1, <2>2, DocStands
<1>5. ASSUME pc' = "serving", doc'.inst = inst'
      PROVE  fresh' \subseteq Of(Head(todo))'
  <2>1. CASE Serve
    <3>1. pc = "serve" /\ todo # <<>> /\ todo' = todo /\ fresh' = {Latest(Head(todo))} /\ log' = log
      BY <1>5, <2>1 DEF Serve, machineVars, agentVars
    <3>2. Latest(Head(todo)) \in Of(Head(todo))
      BY <1>1, <1>2, <3>1, LatestIs, InHandIs
    <3>3. Of(Head(todo))' = Of(Head(todo))
      BY <3>1 DEF Of
    <3> QED BY <3>1, <3>2, <3>3
  <2>2. CASE pc = "serving" /\ Aside
    <3>1. /\ doc' = doc /\ todo' = todo /\ fresh' = fresh /\ doc.inst <= inst
          /\ Head(todo) \in Devices
      BY <1>1, <2>2, AsideIs, BatchIs DEF Ages
    <3>2. inst' = inst
      BY <1>1, <1>2, <1>5, <3>1, OfMoves
    <3>3. Of(Head(todo))' = {n \in DOMAIN log' : log'[n] = Head(todo)}
      BY <3>1 DEF Of
    <3>4. Of(Head(todo)) \subseteq Of(Head(todo))'
      <4> DEFINE h == Head(todo)
      <4>1. Of(h) \subseteq {n \in DOMAIN log' : log'[n] = h}
        BY <1>1, <3>1, <3>2, OfMoves DEF Of
      <4> QED BY <3>3, <4>1
    <3>5. fresh \subseteq Of(Head(todo))
      BY <1>5, <2>2, <3>1, <3>2 DEF Held
    <3> QED BY <3>1, <3>4, <3>5
  <2> QED BY <1>1, <1>5, <2>1, <2>2, ServingFrom
<1> QED BY <1>3, <1>4, <1>5 DEF Held

----------------------------------------------------------------------------
(* Nothing twice.                                                          *)

\* The observations measured for d are about to be dispatched.
InHand(d) == pc = "dispatch" /\ d = Head(todo)

\* What a session has been given is the agent's, is in the next /current, or under
\* something later of it; and what is new by the floors is newer than all of it.
Once ==
  \A d \in Devices : sess[d] = "on" => \A o \in given[d] :
    /\ o.inst <= inst
    /\ o.inst = inst => o.n \in Of(d)
    /\ pc \in Reads /\ doc.kind = "current" /\ o.inst = doc.inst => \E m \in doc.obs[d] : o.n <= m
    /\ Steady(d) /\ o.inst = seq.inst /\ InHand(d) => \A n \in fresh : o.n < n
    /\ Steady(d) /\ o.inst = seq.inst /\ ~InHand(d) => o.n <= seq.floor[d]

LEMMA OnceInit == Init => Once
BY DEF Init, Once

\* Only a dispatch gives a session anything, and what it has in hand.
LEMMA GivenMoves ==
  ASSUME Paced, [Next]_vars, NEW d \in Devices, sess'[d] = "on", NEW o \in given'[d]
  PROVE  /\ sess[d] = "on"
         /\ \/ o \in given[d]
            \/ /\ Dispatch \/ ServeDelivered
               /\ todo # <<>> /\ d = Head(todo) /\ o.inst = doc.inst /\ o.n \in fresh
<1>1. QueueTypes /\ SessionTypes /\ Control /\ Shape
  BY DEF Paced, Shape, Typed, TypeOK
<1>2. ASSUME pc \in {"dispatch", "serving"}, PushSnapshot(Head(todo))
      PROVE  \/ o \in given[d]
             \/ todo # <<>> /\ d = Head(todo) /\ o.inst = doc.inst /\ o.n \in fresh
  <2>1. todo # <<>> /\ Head(todo) \in Devices /\ Max(fresh) \in fresh
    BY <1>1, <1>2, BatchIs
  <2>2. given' = [given EXCEPT ![Head(todo)] = @ \cup {Event(Head(todo), Max(fresh))}]
    BY <1>2 DEF PushSnapshot
  <2> QED BY <1>1, <2>1, <2>2 DEF Event, QueueTypes
<1>3. CASE Dispatch
  <2>1. /\ pc = "dispatch" /\ todo # <<>> /\ Head(todo) \in Devices /\ sess' = sess
        /\ \/ given' = given
           \/ PushSnapshot(Head(todo))
           \/ given' = [given EXCEPT ![Head(todo)] = @ \cup {Event(Head(todo), n) : n \in fresh}]
    BY <1>1, <1>3, BatchIs DEF Dispatch, queueVars, PushObs, deviceVars
  <2> QED BY <1>1, <1>2, <1>3, <2>1 DEF Event, QueueTypes
<1>4. CASE ServeDelivered
  BY <1>2, <1>4 DEF ServeDelivered, deviceVars
<1>5. CASE ~Dispatch /\ ~ServeDelivered
  <2>1. CASE Measure \/ DispatchDropped
    BY <2>1 DEF Measure, DispatchDropped, queueVars, deviceVars
  <2>2. CASE Reprobe
    BY <2>2 DEF Reprobe, queueVars, deviceVars
  <2>3. ASSUME NEW e \in Devices, Connect(e)
        PROVE  sess[d] = "on" /\ o \in given[d]
    BY <1>1, <2>3 DEF Connect, queueVars, SessionTypes
  <2>4. ASSUME NEW e \in Devices, Attach(e)
        PROVE  sess[d] = "on" /\ o \in given[d]
    BY <1>1, <2>4 DEF Attach, QueueTypes, SessionTypes
  <2>5. ASSUME NEW e \in Devices, Drain(e) \/ CloseSession(e)
        PROVE  sess[d] = "on" /\ o \in given[d]
    BY <1>1, <2>5 DEF Drain, CloseSession, SessionTypes
  <2>6. ASSUME NEW n \in 1 .. MaxSeq, PartGarbled(n)
        PROVE  sess[d] = "on" /\ o \in given[d]
    BY <2>6 DEF PartGarbled, deviceVars
  <2> QED BY <1>5, <2>1, <2>2, <2>3, <2>4, <2>5, <2>6, Frames
<1> QED BY <1>3, <1>4, <1>5

\* A session whose account is settled keeps its floor when a header comes in.
LEMMA HeaderKeepsFloors ==
  ASSUME Paced, [Next]_vars, NEW d \in Devices, Steady(d), ~resync', Ingest \/ OutOfRange
  PROVE  seq'.floor = seq.floor
<1>1. CASE Ingest
  <2>1. pc = "ingest" /\ seq' = observe_header(doc) /\ ~InstanceChanged(doc)
    BY <1>1 DEF Ingest, NoteRestart
  <2>2. ~doc.republish
    BY <2>1 DEF Steady, Paced, Asked
  <2> QED BY <2>1, <2>2 DEF observe_header
<1>2. CASE OutOfRange
  BY <1>2, OutOfRangeIs
<1> QED BY <1>1, <1>2

\* What is measured of a device is what its document has beyond the floor.
LEMMA MeasuredIs ==
  ASSUME Shape, Measure
  PROVE  /\ pc = "measure" /\ todo # <<>> /\ Head(todo) \in Devices /\ doc' = doc
         /\ inst' = inst /\ log' = log /\ given' = given /\ lost' = lost /\ sess' = sess
         /\ \/ /\ sess[Head(todo)] # "on" /\ pc' = "measure" /\ todo' = Tail(todo) /\ seq' = seq
               /\ base' = base
            \/ /\ sess[Head(todo)] = "on" /\ pc' = "measure" /\ todo' = Tail(todo) /\ seq' = seq
               /\ \A n \in doc.obs[Head(todo)] : n <= seq.floor[Head(todo)]
            \/ /\ sess[Head(todo)] = "on" /\ pc' = "dispatch" /\ todo' = todo
               /\ fresh' = {n \in doc.obs[Head(todo)] : n > seq.floor[Head(todo)]}
<1>1. /\ pc = "measure" /\ todo # <<>> /\ doc' = doc
      /\ inst' = inst /\ log' = log /\ given' = given /\ lost' = lost /\ sess' = sess
  BY DEF Measure, agentVars, queueVars, deviceVars
<1> DEFINE h   == Head(todo)
           new == {n \in doc.obs[h] : should_publish(h, n)}
<1>2. h \in Devices
  BY <1>1, InHandIs
<1>3. doc.obs[h] \in SUBSET (1 .. MaxSeq) /\ seq.floor[h] \in 0 .. MaxSeq /\ MaxSeq \in Nat
  BY <1>2, InHandIs
<1>4. new = {n \in doc.obs[h] : n > seq.floor[h]}
  BY DEF should_publish
<1>5. CASE sess[h] # "on"
  BY <1>1, <1>2, <1>5 DEF Measure
<1>6. CASE sess[h] = "on" /\ new = {}
  <2>1. pc' = pc /\ todo' = Tail(todo) /\ seq' = seq
    BY <1>6 DEF Measure
  <2>2. \A n \in doc.obs[h] : n <= seq.floor[h]
    BY <1>3, <1>4, <1>6
  <2> QED BY <1>1, <1>2, <1>6, <2>1, <2>2
<1>7. CASE sess[h] = "on" /\ new # {}
  <2>1. pc' = "dispatch" /\ todo' = todo /\ fresh' = new
    BY <1>7 DEF Measure
  <2> QED BY <1>1, <1>2, <1>4, <1>7, <2>1
<1> QED BY <1>5, <1>6, <1>7

LEMMA OnceStep ==
  ASSUME Paced, Held, Once, [Next]_vars
  PROVE  Once'
<1>1. Control /\ Asked /\ Ages /\ TaskTypes /\ DocTypes /\ Shape /\ QueueTypes /\ Logged
  BY DEF Paced, Shape, Typed, TypeOK
<1> SUFFICES ASSUME NEW d \in Devices, sess'[d] = "on", NEW o \in given'[d]
             PROVE  /\ o.inst <= inst'
                    /\ o.inst = inst' => o.n \in Of(d)'
                    /\ pc' \in Reads /\ doc'.kind = "current" /\ o.inst = doc'.inst =>
                         \E m \in doc'.obs[d] : o.n <= m
                    /\ Steady(d)' /\ o.inst = seq'.inst /\ InHand(d)' => \A n \in fresh' : o.n < n
                    /\ Steady(d)' /\ o.inst = seq'.inst /\ ~InHand(d)' => o.n <= seq'.floor[d]
  BY DEF Once
<1>2. /\ sess[d] = "on"
      /\ \/ o \in given[d]
         \/ /\ Dispatch \/ ServeDelivered
            /\ todo # <<>> /\ d = Head(todo) /\ o.inst = doc.inst /\ o.n \in fresh
  BY GivenMoves
<1>3. /\ inst \in Nat /\ inst' \in Nat /\ inst <= inst' /\ doc.inst \in Nat /\ seq.inst \in Nat
      /\ seq.floor[d] \in Nat /\ MaxSeq \in Nat
  BY <1>1, InstGrows, InHandIs
<1>4. /\ doc.obs[d] \in SUBSET (1 .. MaxSeq) /\ fresh \in SUBSET (1 .. MaxSeq)
  BY <1>1, InHandIs
<1>5. o.inst \in Nat /\ o.n \in Nat
  <2>1. o \in given[d] => o \in Obs
    BY <1>1 DEF QueueTypes
  <2>a. MaxInst \in Nat /\ MaxSeq \in Nat
    BY <1>1, InHandIs
  <2>2. o \in Obs => o.inst \in 0 .. MaxInst /\ o.n \in 0 .. MaxSeq
    BY DEF Obs
  <2>3. CASE o \in given[d]
    BY <2>a, <2>1, <2>2, <2>3
  <2>4. CASE o \notin given[d]
    <3>1. o.n \in fresh /\ o.inst = doc.inst
      BY <1>2, <2>4
    <3>2. o.n \in 1 .. MaxSeq
      BY <1>4, <3>1
    <3> QED BY <1>3, <3>1, <3>2
  <2> QED BY <2>3, <2>4
<1>6. o \in given[d] =>
        /\ o.inst <= inst
        /\ o.inst = inst => o.n \in Of(d)
        /\ pc \in Reads /\ doc.kind = "current" /\ o.inst = doc.inst =>
             \E m \in doc.obs[d] : o.n <= m
        /\ Steady(d) /\ o.inst = seq.inst /\ InHand(d) => \A n \in fresh : o.n < n
        /\ Steady(d) /\ o.inst = seq.inst /\ ~InHand(d) => o.n <= seq.floor[d]
  BY <1>2 DEF Once
<1>7. Dispatch => pc = "dispatch" /\ pc' = "measure" /\ doc' = doc /\ seq' = seq /\ inst' = inst
                  /\ log' = log
  BY DEF Dispatch, agentVars
<1>8. ServeDelivered => pc = "serving" /\ pc' = "serve" /\ inst' = inst /\ log' = log
  BY DEF ServeDelivered, EndServing, agentVars
<1>9. o \notin given[d] => doc.inst <= inst /\ inst' = inst /\ log' = log
  BY <1>1, <1>2, <1>7, <1>8 DEF Ages, Reads
<1>10. o.inst <= inst /\ o.inst <= inst'
  BY <1>2, <1>3, <1>5, <1>6, <1>9
<1>11. ASSUME o.inst = inst' PROVE o.n \in Of(d)'
  <2>1. inst' = inst
    BY <1>3, <1>10, <1>11
  <2>2. Of(d) \subseteq Of(d)'
    BY <1>1, <2>1, OfMoves
  <2>3. o.n \in Of(d)
    <3>1. CASE o \in given[d]
      BY <1>6, <1>11, <2>1, <3>1
    <3>2. CASE o \notin given[d]
      BY <1>2, <1>7, <1>8, <1>11, <2>1, <3>2 DEF Held, Reads
    <3> QED BY <3>1, <3>2
  <2> QED BY <2>2, <2>3
<1>12. ASSUME pc' \in Reads, doc'.kind = "current", o.inst = doc'.inst
       PROVE  \E m \in doc'.obs[d] : o.n <= m
  <2>1. CASE pc \in Reads /\ doc' = doc /\ o \in given[d]
    BY <1>6, <1>12, <2>1
  <2>2. CASE o \notin given[d]
    <3>1. Dispatch
      BY <1>2, <1>8, <1>12, <2>2 DEF Reads
    <3>2. o.n \in doc'.obs[d]
      BY <1>2, <1>7, <2>2, <3>1 DEF Held
    <3> QED BY <1>5, <3>2
  <2>3. CASE Fetch
    <3>1. doc'.inst = inst /\ doc'.obs = CurrentDoc /\ pc = "fetch"
      BY <1>1, <2>3 DEF Fetch, DocTypes
    <3>2. o \in given[d]
      BY <1>2, <1>7, <1>8, <3>1
    <3>3. o.n \in Of(d)
      BY <1>6, <1>12, <3>1, <3>2
    <3>4. log \in Seq(Devices)
      BY <1>1, InHandIs
    <3>5. o.n <= Latest(d)
      BY <1>1, <3>3, <3>4, LatestIs
    <3> QED BY <3>1, <3>5 DEF CurrentDoc
  <2>4. CASE pc' = "ingest" /\ o \in given[d]
    <3>1. \A n \in 0 .. MaxSeq : ReadPart(n) => doc'.kind = "part"
      BY DEF ReadPart, NoDoc
    <3> QED BY <1>12, <2>1, <2>3, <2>4, <3>1, IngestFrom, AsideIs DEF Reads
  <2>5. CASE pc' \in {"measure", "dispatch"} /\ o \in given[d]
    BY <2>1, <2>5, DocStands
  <2> QED BY <1>12, <2>2, <2>4, <2>5 DEF Reads
<1>13. ASSUME Steady(d)', o.inst = seq'.inst
       PROVE  /\ InHand(d)' => \A n \in fresh' : o.n < n
              /\ ~InHand(d)' => o.n <= seq'.floor[d]
  <2>1. ~resync' /\ seq'.inst = seq.inst
    BY <1>1, <1>2, <1>13, RestartNoted DEF Steady, Ages
  <2>2. CASE Dispatch \/ DispatchDropped
    <3>1. pc = "dispatch" /\ pc' = "measure" /\ seq' = seq /\ ~InHand(d)'
      BY <2>2 DEF Dispatch, DispatchDropped, InHand
    <3>2. doc.inst = seq.inst
      BY <1>1, <3>1 DEF Ages
    <3>3. d = Head(todo) => /\ fresh \subseteq doc.obs[d] /\ seq.floor[d] \in fresh
                            /\ \A n \in doc.obs[d] : n <= seq.floor[d]
      BY <3>1 DEF Held
    <3>4. CASE o \notin given[d]
      BY <1>2, <3>1, <3>3, <3>4
    <3>5. CASE o \in given[d] /\ Steady(d)
      <4>1. CASE InHand(d)
        <5>1. o.n < seq.floor[d]
          BY <1>6, <1>13, <2>1, <3>3, <3>5, <4>1 DEF InHand
        <5> QED BY <1>3, <1>5, <3>1, <5>1
      <4> QED BY <1>6, <1>13, <2>1, <3>1, <3>5, <4>1
    <3>6. CASE o \in given[d] /\ ~Steady(d)
      <4>1. doc.rebase /\ d = Head(todo)
        BY <1>2, <1>13, <3>6, SteadyStep
      <4>2. doc.kind = "current"
        BY <1>1, <4>1 DEF Asked
      <4>3. PICK m \in doc.obs[d] : o.n <= m
        BY <1>6, <1>13, <2>1, <3>1, <3>2, <3>6, <4>2 DEF Reads
      <4>4. m <= seq.floor[d] /\ m \in Nat
        BY <1>4, <3>3, <4>1, <4>3
      <4> QED BY <1>3, <1>5, <3>1, <4>3, <4>4
    <3> QED BY <3>4, <3>5, <3>6
  <2>3. CASE ServeDelivered
    <3>1. Steady(d) /\ ~InHand(d) /\ ~InHand(d)'
      <4>1. ~Dispatch /\ ~DispatchDropped /\ ~Measure
        BY <1>8, <2>3 DEF Dispatch, DispatchDropped, Measure
      <4> QED BY <1>2, <1>8, <1>13, <2>3, <4>1, SteadyStep DEF InHand
    <3>2. ~Ingest /\ ~OutOfRange /\ ~Measure
      BY <1>8, <2>3 DEF Ingest, OutOfRange, Alive, Measure
    <3>3. o \in given[d] => o.n <= seq.floor[d]
      BY <1>6, <1>13, <2>1, <3>1
    <3>4. \/ seq'.floor[d] = seq.floor[d] /\ d # Head(todo)
          \/ d = Head(todo)
      BY <3>2, FloorsMove
    <3>5. CASE d # Head(todo)
      BY <1>2, <3>1, <3>3, <3>4, <3>5
    <3>6. CASE d = Head(todo)
      <4> DEFINE both == fresh \cup {seq.floor[d]}
      <4>1. seq' = [seq EXCEPT !.floor[d] = Max(both)]
        BY <2>3, <3>6 DEF ServeDelivered
      <4>2. seq.floor[d] \in 0 .. MaxSeq
        BY <1>1, InHandIs
      <4>b. 1 .. MaxSeq \subseteq 0 .. MaxSeq
        BY <1>3
      <4>3. both \in SUBSET (0 .. MaxSeq) /\ both # {}
        BY <1>4, <4>2, <4>b
      <4>a. fresh \subseteq both /\ seq.floor[d] \in both
        OBVIOUS
      <4> HIDE DEF both
      <4>4. Max(both) \in 0 .. MaxSeq /\ \A i \in both : i <= Max(both)
        BY <1>3, <4>3, MaxIs
      <4>5. seq'.floor[d] = Max(both)
        BY <1>1, <4>1, <4>4, FloorRaised DEF Paced, Shape, Typed, TypeOK, SeqTypes
      <4>6. seq.floor[d] <= Max(both) /\ Max(both) \in Nat
        BY <1>3, <4>a, <4>4
      <4>7. CASE o \in given[d]
        BY <1>3, <1>5, <3>1, <3>3, <4>5, <4>6, <4>7
      <4>8. CASE o \notin given[d]
        BY <1>2, <3>1, <4>a, <4>4, <4>5, <4>8
      <4> QED BY <4>7, <4>8
    <3> QED BY <3>5, <3>6
  <2>4. CASE Measure
    <3>1. o \in given[d] /\ ~InHand(d)
      BY <1>1, <2>4, MeasuredIs DEF InHand
    <3>2. CASE Steady(d)
      <4>1. o.n <= seq.floor[d]
        BY <1>6, <1>13, <2>1, <3>1, <3>2
      <4>2. CASE pc' = "dispatch" /\ d = Head(todo)
        <5>1. InHand(d)' /\ fresh' = {n \in doc.obs[d] : n > seq.floor[d]}
          BY <1>1, <2>4, <4>2, MeasuredIs DEF InHand
        <5> QED BY <1>3, <1>4, <1>5, <4>1, <5>1
      <4>3. CASE pc' # "dispatch" \/ d # Head(todo)
        <5>1. ~InHand(d)'
          BY <1>1, <2>4, <4>3, MeasuredIs DEF InHand
        <5>2. seq'.floor[d] = seq.floor[d]
          BY <1>1, <2>4, <4>3, FloorsMove, MeasuredIs DEF Ingest, OutOfRange, Alive, ServeDelivered
        <5> QED BY <4>1, <5>1, <5>2
      <4> QED BY <4>2, <4>3
    <3>3. CASE ~Steady(d)
      <4>1. doc.rebase /\ d = Head(todo) /\ pc' = "measure"
        BY <1>2, <1>13, <2>4, <3>3, SteadyStep DEF Measure, Dispatch, DispatchDropped
      <4>2. /\ pc = "measure" /\ seq' = seq
            /\ \A n \in doc.obs[d] : n <= seq.floor[d]
        BY <1>1, <1>2, <2>4, <4>1, MeasuredIs
      <4>3. doc.kind = "current" /\ doc.inst = seq.inst
        BY <1>1, <4>1, <4>2 DEF Asked, Ages
      <4>4. PICK m \in doc.obs[d] : o.n <= m
        BY <1>6, <1>13, <2>1, <3>1, <4>2, <4>3 DEF Reads
      <4>5. m <= seq.floor[d] /\ m \in Nat
        BY <1>4, <4>2, <4>4
      <4>6. ~InHand(d)'
        BY <4>1 DEF InHand
      <4> QED BY <1>3, <1>5, <4>2, <4>4, <4>5, <4>6
    <3> QED BY <3>2, <3>3
  <2>5. CASE ~Dispatch /\ ~DispatchDropped /\ ~ServeDelivered /\ ~Measure
    <3>1. o \in given[d] /\ Steady(d)
      BY <1>2, <1>13, <2>5, SteadyStep
    <3>2. seq'.floor[d] = seq.floor[d]
      BY <2>1, <2>5, <3>1, FloorsMove, HeaderKeepsFloors
    <3>3. CASE pc = "dispatch"
      <4>1. pc' = pc /\ todo' = todo /\ fresh' = fresh /\ (InHand(d)' <=> InHand(d))
        BY <2>5, <3>3, ActsAt, AsideIs DEF InHand
      <4> QED BY <1>6, <1>13, <2>1, <3>1, <3>2, <4>1
    <3>4. CASE pc # "dispatch"
      <4>1. pc' # "dispatch"
        <5>1. pc' = "dispatch" => Measure \/ pc = "dispatch"
          BY DocStands
        <5> QED BY <2>5, <3>4, <5>1
      <4> QED BY <1>6, <1>13, <2>1, <3>1, <3>2, <3>4, <4>1 DEF InHand
    <3> QED BY <3>3, <3>4
  <2> QED BY <2>2, <2>3, <2>4, <2>5
<1> QED BY <1>10, <1>11, <1>12, <1>13

LEMMA FlowKept == Spec => [](Held /\ Once /\ Verified /\ Unstarted)
<1>1. Init => Held /\ Once /\ Verified /\ Unstarted
  BY HeldInit, OnceInit, VerifiedInit, UnstartedInit
<1>2. /\ Paced /\ Held /\ Once /\ Verified /\ Unstarted
      /\ [Next]_vars
      => Held' /\ Once' /\ Verified' /\ Unstarted'
  BY HeldStep, OnceStep, VerifiedStep, UnstartedStep
<1> QED BY <1>1, <1>2, PacedKept, PTL DEF Spec

\* An observation is dispatched at most once, as long as no recovery is given up.
LEMMA OnceOnlyStep ==
  ASSUME Paced, Held, Once, [Next]_vars
  PROVE  OnceOnly
<1>1. Control /\ Asked /\ Ages /\ Shape /\ QueueTypes /\ SessionTypes
  BY DEF Paced, Shape, Typed, TypeOK
<1> SUFFICES ASSUME ~abandoned, NEW d \in Devices, data'[d] # data[d], sess'[d] = "on",
                    sess[d] = "on", data'[d] # <<>>,
                    NEW i \in Len(data[d]) + 1 .. Len(data'[d])
             PROVE  ~\E o \in given[d] : o.inst = data'[d][i].inst /\ o.n = data'[d][i].n
  BY DEF OnceOnly
<1>2. Dispatch /\ PushObs(Head(todo)) /\ ~doc.rebase
  <2>1. CASE Dispatch
    BY <2>1 DEF Dispatch, queueVars, PushSnapshot
  <2>2. CASE ServeDelivered
    BY <2>2 DEF ServeDelivered, PushSnapshot
  <2>3. CASE Measure \/ DispatchDropped
    BY <2>3 DEF Measure, DispatchDropped, queueVars
  <2>4. ASSUME NEW e \in Devices, Attach(e) \/ Drain(e) \/ CloseSession(e)
        PROVE  FALSE
    <3>1. data' = [data EXCEPT ![e] = <<>>]
      BY <2>4 DEF Attach, Drain, CloseSession
    <3> QED BY <1>1, <3>1 DEF QueueTypes
  <2>5. ASSUME NEW n \in 1 .. MaxSeq, PartGarbled(n)
        PROVE  FALSE
    BY <2>5 DEF PartGarbled
  <2> QED BY <2>1, <2>2, <2>3, <2>4, <2>5, Frames
<1>3. pc = "dispatch" /\ todo # <<>> /\ Head(todo) \in Devices
  BY <1>1, <1>2, BatchIs DEF Dispatch
<1>4. d = Head(todo) /\ \E n \in fresh : data'[d][i] = Event(d, n)
  <2>1. /\ \A e \in Devices \ {Head(todo)} : data'[e] = data[e]
        /\ \A j \in Len(data[Head(todo)]) + 1 .. Len(data'[Head(todo)]) :
              \E n \in fresh : data'[Head(todo)][j] = Event(Head(todo), n)
    BY <1>1, <1>2, <1>3, PushedObs
  <2>2. d = Head(todo)
    BY <2>1
  <2> QED BY <2>1, <2>2
<1>5. PICK n \in fresh : data'[d][i] = Event(d, n)
  BY <1>4
<1>6. Steady(d) /\ InHand(d) /\ doc.inst = seq.inst
  BY <1>1, <1>2, <1>3, <1>4 DEF Steady, AtConnect, InHand, Asked, Ages
<1>7. \A o \in given[d] : o.inst = seq.inst => o.n < n
  BY <1>6 DEF Once
<1>8. n \in Nat
  BY <1>1, InHandIs
<1> QED BY <1>5, <1>6, <1>7, <1>8 DEF Event

\* What a survivor is given comes through the model of the new incarnation.
LEMMA ReverifiedStep ==
  ASSUME Paced, Verified, [Next]_vars
  PROVE  Reverified
<1>1. Control /\ Asked /\ Ages /\ Shape /\ SessionTypes /\ QueueTypes
  BY DEF Paced, Shape, Typed, TypeOK
<1> SUFFICES ASSUME pc = "dispatch", NEW d \in Devices, NEW o \in given'[d], o \notin given[d],
                    doc.inst > since[d]
             PROVE  model[d] = doc.inst
  BY DEF Reverified
<1>2. todo # <<>> /\ doc.inst = seq.inst /\ ~resync /\ doc.inst \in Nat /\ since[d] \in Nat
  BY <1>1, BatchIs, InHandIs DEF Asked, Ages
<1>3. sess'[d] = "on"
  <2>1. CASE Dispatch
    <3>1. /\ Head(todo) \in Devices /\ sess' = sess
          /\ IF sess[Head(todo)] # "on" THEN given' = given
             ELSE IF doc.rebase THEN PushSnapshot(Head(todo)) ELSE PushObs(Head(todo))
      BY <1>1, <2>1, BatchIs DEF Dispatch, queueVars, deviceVars
    <3>2. PushSnapshot(Head(todo)) \/ PushObs(Head(todo)) =>
            \A e \in Devices \ {Head(todo)} : given'[e] = given[e]
      BY <1>1, <3>1 DEF PushSnapshot, PushObs, QueueTypes
    <3> QED BY <3>1, <3>2
  <2>2. ASSUME NEW e \in Devices, Attach(e)
        PROVE  FALSE
    BY <1>1, <2>2 DEF Attach, QueueTypes
  <2>3. ~Measure /\ ~ServeDelivered /\ ~\E n \in 1 .. MaxSeq : PartGarbled(n)
    BY DEF Measure, ServeDelivered, PartGarbled, Alive
  <2>4. ~DispatchDropped
    BY DEF DispatchDropped
  <2>5. \A e \in Devices : ~Drain(e) /\ ~CloseSession(e)
    BY DEF Drain, CloseSession
  <2> QED BY <2>1, <2>2, <2>3, <2>4, <2>5, Frames
<1>4. sess[d] = "on"
  BY <1>3, GivenMoves
<1>5. Survivor(d)
  BY <1>2, <1>4 DEF Survivor
<1> QED BY <1>2, <1>5 DEF Verified

\* A cycle at the head of the loop that finds the cursor moved on is a re-baseline.
LEMMA GapIsRebasedStep ==
  ASSUME Paced, Unstarted
  PROVE  GapIsRebased
<1>1. Asked /\ Ages /\ DocTypes
  BY DEF Paced, Shape, Typed, TypeOK
<1> SUFFICES ASSUME ~abandoned, pc = "ingest", doc.kind = "current", caller = "connect",
                    seq.inst = doc.inst, ~doc.rebase
             PROVE  FALSE
  BY DEF GapIsRebased
<1>2. ~resync /\ ~doc.republish /\ doc.republish = republish
  BY <1>1 DEF Asked
<1>3. seq.inst = 0
  BY <1>2 DEF Unstarted
<1>4. doc.inst >= 1
  BY <1>1 DEF Ages, Reads
<1> QED BY <1>3, <1>4

\* Whatever the agent, the restarts and the requests that fail, a step puts into a
\* session's flow nothing twice, nothing through the model of a dead incarnation, and
\* no gap without the Snapshot that says so (should_publish, reset_dedupe, the
\* generation gate of ingest_streams_doc, the ladders of run_streaming).
THEOREM NothingTwice == Spec => FlowKeepsFaith
<1>1. /\ Paced /\ Held /\ Once /\ Verified /\ Unstarted
      /\ [Next]_vars
      => [OnceOnly /\ Reverified /\ GapIsRebased]_vars
  BY OnceOnlyStep, ReverifiedStep, GapIsRebasedStep
<1> QED BY <1>1, PacedKept, FlowKept, PTL DEF Spec, FlowKeepsFaith

----------------------------------------------------------------------------
(* The account of a session.                                               *)

\* A part in hand ends where its stream has got to.
Streamed == doc.kind = "part" => doc.next = stream.pos /\ doc.inst = stream.inst

\* No cursor and no floor is beyond the agent's log.
Cursor ==
  /\ pc \in Reads \cup {"serving"} /\ doc.inst = inst => doc.next <= NextSequence
  /\ pc \in {"measure", "dispatch", "settle", "judge"} => seq.next = doc.next
  /\ seq.inst = inst => seq.next <= NextSequence
  /\ seq.inst = inst => \A d \in Devices : seq.floor[d] < NextSequence
  /\ seq.inst = 0 => seq.floor = NoFloors
  /\ pc \in {"drive", "serve", "serving", "judge"} /\ seq.inst = inst /\ stream.inst = inst =>
       stream.pos <= NextSequence

\* Nothing the task has read of before is beyond a current view in hand.
Current ==
  /\ pc \in Reads => \A d \in Devices : \A n \in doc.obs[d] : n < doc.next
  /\ pc \in Reads /\ doc.inst = inst /\ doc.kind = "current" =>
       \A d \in Devices : \A n \in Of(d) :
         n < doc.next \/ (seq.inst = inst /\ n <= seq.floor[d]) => \E m \in doc.obs[d] : n <= m
  /\ pc = "serving" /\ doc.inst = inst =>
       \A n \in Of(Head(todo)) :
         \/ n < doc.next
         \/ seq.inst = inst /\ (n <= seq.floor[Head(todo)] \/ n < seq.next)
         \/ seq.inst = inst /\ stream.inst = inst /\ n < stream.pos
         => \E m \in fresh : n <= m

\* What a session is owed, and what of it has been given or counted as dropped.
Wanted(d) == {n \in Of(d) : base[d].n < n}

Accounted(d, n) == \E o \in given[d] \cup lost[d] : o.inst = inst /\ o.n = n

Square(d) == \A n \in Wanted(d) : n < seq.next \/ n <= seq.floor[d] => Accounted(d, n)

\* The account is kept of sessions based on the incarnation that is being followed.
Counting(d) ==
  ~resync /\ ~abandoned /\ seq.inst = inst /\ sess[d] = "on" /\ base[d].inst = inst

PartRead(d) ==
  pc = "ingest" /\ doc.kind = "part" /\ doc.inst = inst =>
    \A n \in Wanted(d) : n < doc.next => Accounted(d, n) \/ n \in doc.obs[d]

PartInHand(d) ==
  pc \in {"measure", "dispatch"} /\ doc.kind = "part" => \A n \in Wanted(d) :
    /\ n < seq.next => \/ Accounted(d, n)
                       \/ d \in ToSet(todo) /\ n \in doc.obs[d] /\ (InHand(d) => n \in fresh)
    /\ n <= seq.floor[d] => Accounted(d, n) \/ (InHand(d) /\ n \in fresh)

CurrentInHand(d) ==
  pc \in {"measure", "dispatch"} /\ doc.kind = "current" /\ (d \notin ToSet(todo) \/ InHand(d)) =>
    Square(d)

Between(d) == pc \notin {"measure", "dispatch"} /\ ~AtConnect /\ Steady(d) => Square(d)

Streaming(d) ==
  pc \in {"drive", "serve", "serving", "judge"} /\ stream.inst = inst =>
    \A n \in Wanted(d) : n < stream.pos => Accounted(d, n)

Complete ==
  \A d \in Devices : Counting(d) =>
    PartRead(d) /\ PartInHand(d) /\ CurrentInHand(d) /\ Between(d) /\ Streaming(d)

LEMMA AccountInit == Init => Streamed /\ Cursor /\ Current /\ Complete
<1> SUFFICES ASSUME Init PROVE Streamed /\ Cursor /\ Current /\ Complete
  OBVIOUS
<1>1. /\ pc \in {"connect", "idle"} /\ doc.kind = "none" /\ seq.inst = 0 /\ seq.floor = NoFloors
      /\ inst = 1 /\ \A d \in Devices : sess[d] = "off"
  BY DEF Init, NoDoc
<1> QED BY <1>1 DEF Streamed, Cursor, Current, Complete, Counting, Reads

\* An observation is logged while the task stands still.
LEMMA LogMoves ==
  ASSUME Shape, [Next]_vars, inst' = inst
  PROVE  /\ NextSequence \in Nat /\ NextSequence >= 1 /\ NextSequence' \in Nat
         /\ NextSequence <= NextSequence'
         /\ \/ log' = log
            \/ /\ Aside /\ given' = given /\ lost' = lost /\ sess' = sess /\ base' = base
               /\ \A d \in Devices : \A n \in Of(d)' : n \in Of(d) \/ n = NextSequence
<1>1. log \in Seq(Devices) /\ Len(log) \in Nat /\ inst \in Nat
  BY InHandIs
<1>2. ~Restart
  BY <1>1 DEF Restart
<1>3. ASSUME NEW e \in Devices, Observe(e)
      PROVE  /\ NextSequence' = NextSequence + 1
             /\ Aside /\ given' = given /\ lost' = lost /\ sess' = sess /\ base' = base
  <2>1. log' = Append(log, e)
    BY <1>3 DEF Observe
  <2>2. Len(log') = Len(log) + 1
    BY <1>1, <2>1
  <2>3. Aside /\ given' = given /\ lost' = lost /\ sess' = sess /\ base' = base
    BY <1>3 DEF Observe, Aside, queueVars, deviceVars
  <2> QED BY <2>2, <2>3 DEF NextSequence
<1>4. \A d \in Devices : \A n \in Of(d)' : n \in Of(d) \/ n = NextSequence
  BY OfMoves
<1>5. NextSequence \in Nat /\ NextSequence >= 1
  BY <1>1 DEF NextSequence
<1>6. NextSequence \in Nat /\ NextSequence' \in Nat /\ NextSequence <= NextSequence'
  <2>1. log' = log => NextSequence' = NextSequence
    BY DEF NextSequence
  <2>2. NextSequence' = NextSequence \/ NextSequence' = NextSequence + 1
    BY <1>2, <1>3, <2>1, Frames
  <2> QED BY <1>5, <2>2
<1>7. \/ log' = log
      \/ Aside /\ given' = given /\ lost' = lost /\ sess' = sess /\ base' = base
  BY <1>2, <1>3, Frames
<1> QED BY <1>4, <1>5, <1>6, <1>7

LEMMA OfIs ==
  ASSUME Shape, NEW d \in Devices, NEW n \in Of(d)
  PROVE  n \in Nat /\ n >= 1 /\ n < NextSequence
<1>1. log \in Seq(Devices) /\ Len(log) \in Nat
  BY InHandIs
<1> QED BY <1>1 DEF Of, NextSequence

\* Where a document comes from.
LEMMA ReadsFrom ==
  ASSUME Paced, [Next]_vars, pc' \in Reads
  PROVE  \/ Fetch \/ \E n \in 0 .. MaxSeq : ReadPart(n)
         \/ /\ pc \in Reads /\ doc' = doc
            /\ inst' = inst \/ Aside
<1>1. CASE pc' = "ingest"
  BY <1>1, IngestFrom, AsideIs DEF Reads
<1>2. CASE pc' \in {"measure", "dispatch"}
  BY <1>2, DocStands
<1> QED BY <1>1, <1>2 DEF Reads

LEMMA FetchIs ==
  ASSUME Paced, Fetch
  PROVE  /\ pc = "fetch" /\ pc' = "ingest" /\ doc'.inst = inst /\ doc'.next = NextSequence
         /\ doc'.kind = "current" /\ inst' = inst /\ log' = log /\ seq' = seq
         /\ \A d \in Devices : doc'.obs[d] = {Latest(d)} /\ Latest(d) \in Of(d)
                               /\ \A n \in Of(d) : n <= Latest(d)
<1>1. Control /\ DocTypes /\ Shape /\ Logged /\ log \in Seq(Devices)
  BY InHandIs DEF Paced, Shape, Typed, TypeOK
<1>2. /\ pc = "fetch" /\ pc' = "ingest" /\ inst' = inst /\ log' = log /\ seq' = seq
      /\ doc' = [doc EXCEPT !.inst = inst, !.next = NextSequence, !.obs = CurrentDoc]
  BY DEF Fetch, agentVars
<1>3. doc.kind = "current"
  BY <1>1, <1>2 DEF Control
<1>4. /\ doc'.inst = inst /\ doc'.next = NextSequence /\ doc'.kind = doc.kind
      /\ doc'.obs = CurrentDoc
  BY <1>1, <1>2 DEF DocTypes
<1> QED BY <1>1, <1>2, <1>3, <1>4, LatestIs DEF CurrentDoc

LEMMA ReadPartIs ==
  ASSUME Paced, NEW n \in 0 .. MaxSeq, ReadPart(n)
  PROVE  /\ pc = "drive" /\ pc' = "ingest" /\ stream.inst = inst /\ inst' = inst /\ log' = log
         /\ doc'.inst = inst /\ doc'.next = n + 1 /\ doc'.kind = "part" /\ seq' = seq
         /\ stream'.pos = n + 1 /\ stream'.inst = inst /\ n <= Len(log) /\ stream.pos \in Nat
         /\ stream.pos >= 1
         /\ \A d \in Devices : doc'.obs[d] = {m \in stream.pos .. n : log[m] = d}
<1>1. DocTypes /\ setup \in Setups /\ log \in Seq(Devices) /\ Len(log) \in Nat /\ MaxSeq \in Nat
  BY InHandIs DEF Paced, Shape, Typed, TypeOK
<1>2. /\ pc = "drive" /\ pc' = "ingest" /\ stream.inst = inst /\ inst' = inst /\ log' = log
      /\ seq' = seq /\ InWindow(stream.pos) /\ n \in stream.pos - 1 .. Len(log)
  BY DEF ReadPart, Alive, machineVars, agentVars
<1>3. stream' = [stream EXCEPT !.pos = n + 1]
  BY DEF ReadPart
<1>4. stream'.pos = n + 1 /\ stream'.inst = stream.inst /\ stream.pos \in Nat
  BY <1>1, <1>3 DEF DocTypes
<1>5. n <= Len(log)
  BY <1>1, <1>2, <1>4
<1>6. stream.pos >= 1
  BY <1>1, <1>2, <1>4, FirstIs DEF InWindow
<1>7. /\ doc'.inst = inst /\ doc'.next = n + 1 /\ doc'.kind = "part"
      /\ doc'.obs = [d \in Devices |-> {m \in stream.pos .. n : log[m] = d}]
  BY DEF ReadPart, NoDoc
<1> QED BY <1>2, <1>4, <1>5, <1>6, <1>7

LEMMA GarbledIs ==
  ASSUME Paced, NEW n \in 1 .. MaxSeq, PartGarbled(n)
  PROVE  /\ pc = "drive" /\ pc' = pc /\ stream.inst = inst /\ inst' = inst /\ log' = log
         /\ stream'.pos = n + 1 /\ stream'.inst = inst /\ n <= Len(log) /\ seq' = seq
         /\ stream.pos \in Nat /\ stream.pos >= 1 /\ sess' = sess /\ base' = base
         /\ given' = given /\ doc' = doc
         /\ \A d \in Devices : lost'[d] = lost[d] \cup
              {[inst |-> inst, n |-> m, gen |-> model[d]] :
                 m \in {i \in stream.pos .. n : log[i] = d}}
<1>1. DocTypes /\ setup \in Setups /\ log \in Seq(Devices) /\ Len(log) \in Nat /\ MaxSeq \in Nat
  BY InHandIs DEF Paced, Shape, Typed, TypeOK
<1>2. /\ pc = "drive" /\ pc' = pc /\ stream.inst = inst /\ inst' = inst /\ log' = log
      /\ seq' = seq /\ InWindow(stream.pos) /\ n \in stream.pos .. Len(log)
      /\ sess' = sess /\ base' = base /\ given' = given /\ doc' = doc
  BY DEF PartGarbled, Alive, deviceVars, workVars
<1>3. stream' = [stream EXCEPT !.pos = n + 1]
  BY DEF PartGarbled
<1>4. stream'.pos = n + 1 /\ stream'.inst = stream.inst /\ stream.pos \in Nat
  BY <1>1, <1>3 DEF DocTypes
<1>5. n <= Len(log)
  BY <1>1, <1>2, <1>4
<1>6. stream.pos >= 1
  BY <1>1, <1>2, <1>4, FirstIs DEF InWindow
<1>7. lost' = [d \in Devices |-> lost[d] \cup
         {[inst |-> inst, n |-> m, gen |-> model[d]] : m \in {i \in stream.pos .. n : log[i] = d}}]
  BY DEF PartGarbled
<1> QED BY <1>2, <1>4, <1>5, <1>6, <1>7

\* How far a stream has got.
LEMMA StreamMoves ==
  ASSUME Paced, [Next]_vars
  PROVE  \/ stream' = stream
         \/ /\ pc = "open" /\ pc' = "drive" /\ inst' = inst
            /\ stream'.pos = seq.next /\ stream'.inst = inst
         \/ \E n \in 0 .. MaxSeq : ReadPart(n)
         \/ \E n \in 1 .. MaxSeq : PartGarbled(n)
         \/ Judge /\ stream'.pos = stream.pos /\ stream'.inst = stream.inst
         \/ pc \in {"drive", "judge"} /\ pc' \in {"connect", "open", "wait"}
<1>1. DocTypes
  BY DEF Paced, Shape, Typed, TypeOK
<1>2. CASE Open
  BY <1>2 DEF Open, machineVars, agentVars
<1>3. CASE Judge
  <2>1. CASE resync
    BY <1>3, <2>1 DEF Judge
  <2>2. CASE ~resync
    <3>1. stream' = [stream EXCEPT !.lively = TRUE]
      BY <1>3, <2>2 DEF Judge
    <3> QED BY <1>1, <1>3, <3>1 DEF DocTypes
  <2> QED BY <2>1, <2>2
<1>4. CASE ~Open /\ ~Judge
  BY <1>4, TaskActs DEF BeginCycle, Reprobe, ReprobeFailed, Reprobed, Fetch, FetchFailed,
      Ingest, MarkUp, Settle, Measure, Dispatch, DispatchDropped, OpenRefused, OpenFailed,
      OutOfRange, StreamLost, StreamSevered, Elapsed, AttachNotified, Serve, ServeFailed,
      ServeDelivered, ServeGone, ServeUndelivered, Served, Aside, Alive, LadderOne,
      EstablishFailed
<1> QED BY <1>2, <1>3, <1>4

LEMMA StreamedStep ==
  ASSUME Paced, Streamed, [Next]_vars
  PROVE  Streamed'
<1>1. Control /\ TaskTypes /\ DocTypes
  BY DEF Paced, Shape, Typed, TypeOK
<1> SUFFICES ASSUME doc'.kind = "part"
             PROVE  doc'.next = stream'.pos /\ doc'.inst = stream'.inst
  BY DEF Streamed
<1>2. CASE \E n \in 0 .. MaxSeq : ReadPart(n)
  BY <1>2, ReadPartIs
<1>3. CASE ~\E n \in 0 .. MaxSeq : ReadPart(n)
  <2>1. doc' = doc
    <3>1. ~BeginCycle
      BY DEF BeginCycle, NoDoc
    <3>2. ~Fetch
      BY FetchIs
    <3>3. Serve => doc' = doc
      BY DEF Serve, NoDoc
    <3> QED BY <1>3, <3>1, <3>2, <3>3, DocFrames DEF NoDoc
  <2>2. pc \in {"ingest", "measure", "dispatch", "judge"}
    BY <1>1, <2>1 DEF Control, TaskTypes
  <2>3. ~Judge
    <3>1. Judge => doc' = NoDoc
      BY DEF Judge
    <3> QED BY <3>1 DEF NoDoc
  <2>4. stream' = stream
    BY <2>2, <2>3, ActsAt, AsideIs DEF Ingest, Measure, MarkUp, Dispatch, DispatchDropped
  <2> QED BY <2>1, <2>4 DEF Streamed
<1> QED BY <1>2, <1>3

LEMMA SeqStands ==
  ASSUME Paced, [Next]_vars
  PROVE  /\ ~Ingest /\ ~OutOfRange => seq'.next = seq.next /\ seq'.inst = seq.inst
         /\ Ingest => /\ pc = "ingest" /\ pc' = "measure" /\ doc' = doc /\ inst' = inst /\ log' = log
                      /\ seq'.inst = doc.inst /\ seq'.next = doc.next /\ stream' = stream
         /\ seq'.inst = inst' => inst' = inst
<1>1. SeqTypes /\ Shape /\ Ages /\ seq.inst \in Nat /\ inst \in Nat
  BY InHandIs DEF Paced, Shape, Typed, TypeOK
<1>2. Measure \/ ServeDelivered => seq'.next = seq.next
  BY <1>1 DEF Measure, ServeDelivered, SeqTypes
<1>3. ~Ingest /\ ~OutOfRange => seq'.next = seq.next /\ seq'.inst = seq.inst
  BY <1>1, <1>2, SeqMoves, Frames
<1>4. Ingest => /\ pc = "ingest" /\ pc' = "measure" /\ doc' = doc /\ inst' = inst /\ log' = log
                /\ seq'.inst = doc.inst /\ seq'.next = doc.next /\ stream' = stream
  BY DEF Ingest, observe_header, agentVars
<1>5. Restart => inst' = inst + 1 /\ seq' = seq
  BY DEF Restart
<1>6. (\E e \in Devices : Observe(e)) => inst' = inst
  BY DEF Observe
<1>7. ASSUME seq'.inst = inst' PROVE inst' = inst
  <2>1. ~Restart
    BY <1>1, <1>5, <1>7 DEF Ages
  <2> QED BY <1>6, <2>1, Frames
<1> QED BY <1>3, <1>4, <1>7

\* A floor that is raised is raised to an observation in hand.
LEMMA FloorsAre ==
  ASSUME Paced, Held, [Next]_vars, NEW d \in Devices, seq'.floor[d] # seq.floor[d]
  PROVE  \/ seq'.floor[d] = 0 /\ (Ingest \/ OutOfRange)
         \/ Measure /\ d = Head(todo) /\ pc = "measure" /\ seq'.floor[d] \in doc.obs[d]
         \/ /\ ServeDelivered /\ d = Head(todo) /\ pc = "serving"
            /\ seq'.floor[d] \in fresh
<1>1. Shape /\ MaxSeq \in Nat /\ doc.obs[d] \in SUBSET (1 .. MaxSeq) /\ fresh \in SUBSET (1 .. MaxSeq)
      /\ seq.floor[d] \in 0 .. MaxSeq
  BY InHandIs DEF Paced
<1>2. 1 .. MaxSeq \subseteq 0 .. MaxSeq
  BY <1>1
<1>3. ASSUME fresh' = {n \in doc.obs[d] : should_publish(d, n)}, fresh' # {},
             seq'.floor[d] = Max(fresh')
      PROVE  seq'.floor[d] \in doc.obs[d]
  <2> DEFINE S == {n \in doc.obs[d] : should_publish(d, n)}
  <2>1. S \in SUBSET (0 .. MaxSeq) /\ S # {} /\ seq'.floor[d] = Max(S)
    BY <1>1, <1>2, <1>3
  <2>2. \A x \in S : x \in doc.obs[d]
    OBVIOUS
  <2> HIDE DEF S
  <2> QED BY <1>1, <2>1, <2>2, MaxIs
<1>4. ASSUME seq'.floor[d] = Max(fresh \cup {seq.floor[d]})
      PROVE  seq'.floor[d] \in fresh
  <2> DEFINE S == fresh \cup {seq.floor[d]}
  <2>1. S \in SUBSET (0 .. MaxSeq) /\ S # {} /\ seq'.floor[d] = Max(S)
    BY <1>1, <1>2, <1>4
  <2>2. \A x \in S : x \in fresh \/ x = seq.floor[d]
    OBVIOUS
  <2> HIDE DEF S
  <2> QED BY <1>1, <2>1, <2>2, MaxIs
<1>5. Measure => pc = "measure"
  BY DEF Measure
<1>6. ServeDelivered => pc = "serving"
  BY DEF ServeDelivered
<1> QED BY <1>3, <1>4, <1>5, <1>6, FloorsMove

LEMMA CursorStep ==
  ASSUME Paced, Held, Streamed, Cursor, [Next]_vars
  PROVE  Cursor'
<1>1. Control /\ Ages /\ Shape /\ TaskTypes /\ DocTypes
  BY DEF Paced, Shape, Typed, TypeOK
<1>2. /\ inst \in Nat /\ inst >= 1 /\ inst' \in Nat /\ inst <= inst' /\ doc.inst \in Nat
      /\ seq.inst \in Nat /\ Len(log) \in Nat /\ doc.next \in Nat /\ seq.next \in Nat
      /\ \A d \in Devices : seq.floor[d] \in Nat
  BY <1>1, InstGrows, InHandIs
<1>3. ASSUME inst' = inst
      PROVE  /\ NextSequence \in Nat /\ NextSequence >= 1 /\ NextSequence' \in Nat
             /\ NextSequence <= NextSequence'
  BY <1>1, <1>3, LogMoves
<1>4. ASSUME pc' \in Reads \cup {"serving"}, doc'.inst = inst'
      PROVE  doc'.next <= NextSequence'
  <2>1. CASE pc \in Reads \cup {"serving"} /\ doc' = doc
    <3>1. inst' = inst
      BY <1>1, <1>2, <1>4, <2>1, OfMoves DEF Ages
    <3> QED BY <1>2, <1>3, <1>4, <2>1, <3>1 DEF Cursor
  <2>2. CASE Fetch
    <3>1. NextSequence' = NextSequence
      BY <2>2, FetchIs DEF NextSequence
    <3>2. doc'.next = NextSequence /\ NextSequence \in Nat
      BY <1>2, <2>2, FetchIs DEF NextSequence
    <3> QED BY <3>1, <3>2
  <2>3. ASSUME NEW n \in 0 .. MaxSeq, ReadPart(n)
        PROVE  doc'.next <= NextSequence'
    BY <1>2, <2>3, ReadPartIs DEF NextSequence
  <2>4. CASE Serve /\ pc' = "serving"
    <3>1. log' = log /\ doc'.next = NextSequence
      BY <2>4 DEF Serve, machineVars, agentVars, NoDoc
    <3> QED BY <1>2, <3>1 DEF NextSequence
  <2>5. CASE pc' \in Reads
    BY <2>1, <2>2, <2>3, <2>5, ReadsFrom
  <2>6. CASE pc' = "serving"
    BY <1>1, <2>1, <2>4, <2>6, ServingFrom, AsideIs
  <2> QED BY <1>4, <2>5, <2>6
<1>5. ASSUME pc' \in {"measure", "dispatch", "settle", "judge"}
      PROVE  seq'.next = doc'.next
  <2>1. CASE Ingest
    BY <2>1, SeqStands
  <2>2. CASE ~Ingest
    <3>1. pc \in {"measure", "dispatch", "settle", "judge"}
      BY <1>1, <1>5, <2>2, Paths DEF MarkUp
    <3>2. ~OutOfRange
      BY <3>1 DEF OutOfRange, Alive
    <3>3. doc' = doc
      BY <1>1, <1>5, <3>1, ActsAt, AsideIs DEF Measure, MarkUp, Dispatch, DispatchDropped, Settle,
        Judge, Control, Polling, workVars
    <3> QED BY <2>2, <3>1, <3>2, <3>3, SeqStands DEF Cursor
  <2> QED BY <2>1, <2>2
<1>6. ASSUME seq'.inst = inst'
      PROVE  seq'.next <= NextSequence'
  <2>1. inst' = inst
    BY <1>6, SeqStands
  <2>2. CASE Ingest
    BY <1>2, <1>3, <1>6, <2>1, <2>2, SeqStands DEF Cursor, Reads
  <2>3. CASE OutOfRange
    BY <1>2, <1>3, <1>6, <2>1, <2>3, OutOfRangeIs DEF Cursor
  <2>4. CASE ~Ingest /\ ~OutOfRange
    BY <1>2, <1>3, <1>6, <2>1, <2>4, SeqStands DEF Cursor
  <2> QED BY <2>2, <2>3, <2>4
<1>7. ASSUME seq'.inst = inst', NEW d \in Devices
      PROVE  seq'.floor[d] < NextSequence'
  <2>1. inst' = inst
    BY <1>7, SeqStands
  <2>2. CASE seq'.floor[d] = seq.floor[d]
    <3>1. CASE seq.inst = inst
      BY <1>2, <1>3, <2>1, <2>2, <3>1 DEF Cursor
    <3>2. CASE seq.inst # inst
      <4>1. seq'.floor = NoFloors \/ seq.inst = 0
        BY <1>7, <2>1, <3>2, RestartNoted
      <4>2. seq.floor[d] = 0
        BY <2>2, <4>1 DEF Cursor, NoFloors
      <4> QED BY <1>3, <2>1, <2>2, <4>2
    <3> QED BY <3>1, <3>2
  <2>3. CASE seq'.floor[d] = 0
    BY <1>3, <2>1, <2>3
  <2>4. CASE Measure /\ d = Head(todo) /\ pc = "measure" /\ seq'.floor[d] \in doc.obs[d]
    <3>1. doc.inst = inst
      BY <1>1, <1>7, <2>1, <2>4, SeqStands DEF Ages, Ingest, OutOfRange, Alive
    <3>2. seq'.floor[d] \in Of(d)
      BY <2>4, <3>1 DEF Held, Reads
    <3> QED BY <1>1, <1>3, <2>1, <3>2, OfIs
  <2>5. CASE ServeDelivered /\ d = Head(todo) /\ pc = "serving" /\ seq'.floor[d] \in fresh
    <3>1. seq.inst = inst
      BY <1>7, <2>1, <2>5, SeqStands DEF Ingest, OutOfRange, Alive
    <3>2. doc.inst = inst
      BY <1>1, <1>2, <2>5, <3>1 DEF Ages
    <3>3. seq'.floor[d] \in Of(d)
      BY <2>5, <3>2 DEF Held
    <3> QED BY <1>1, <1>3, <2>1, <3>3, OfIs
  <2> QED BY <2>2, <2>3, <2>4, <2>5, FloorsAre
<1>8. ASSUME seq'.inst = 0
      PROVE  seq'.floor = NoFloors
  <2>1. CASE Ingest
    BY <1>1, <1>2, <1>8, <2>1, SeqStands DEF Ages, Reads
  <2>2. CASE OutOfRange
    BY <1>1, <1>2, <1>8, <2>2, OutOfRangeIs DEF Ages
  <2>3. CASE ~Ingest /\ ~OutOfRange
    <3>1. seq.inst = 0
      BY <1>8, <2>3, SeqStands
    <3>2. ~Measure /\ ~ServeDelivered
      BY <1>1, <3>1 DEF Measure, ServeDelivered, Ages
    <3> QED BY <2>3, <3>1, <3>2, Frames DEF Cursor
  <2> QED BY <2>1, <2>2, <2>3
<1>9. ASSUME pc' \in {"drive", "serve", "serving", "judge"}, seq'.inst = inst', stream'.inst = inst'
      PROVE  stream'.pos <= NextSequence'
  <2>1. inst' = inst
    BY <1>9, SeqStands
  <2>2. ~Ingest /\ ~OutOfRange
    BY <1>9, OutOfRangeIs DEF Ingest
  <2>3. seq.inst = inst
    BY <1>9, <2>1, <2>2, SeqStands
  <2>4. CASE stream' = stream /\ pc \in {"drive", "serve", "serving", "judge"}
    <3>1. stream.pos <= NextSequence /\ stream.pos \in Nat
      BY <1>1, <1>9, <2>1, <2>3, <2>4 DEF Cursor, DocTypes
    <3> QED BY <1>3, <2>1, <2>4, <3>1
  <2>5. CASE MarkUp
    <3>1. /\ pc = "measure" /\ stream' = stream /\ doc.kind = "part"
      BY <1>1, <1>9, <2>5 DEF MarkUp, Control, Reads, Polling
    <3>2. stream.pos = seq.next
      BY <3>1 DEF Streamed, Cursor
    <3>3. seq.next <= NextSequence
      BY <2>3 DEF Cursor
    <3> QED BY <1>2, <1>3, <2>1, <3>1, <3>2, <3>3
  <2>6. CASE pc = "open" /\ stream'.pos = seq.next
    <3>1. seq.next <= NextSequence
      BY <2>3 DEF Cursor
    <3> QED BY <1>2, <1>3, <2>1, <2>6, <3>1
  <2>7. ASSUME NEW n \in 1 .. MaxSeq, PartGarbled(n)
        PROVE  stream'.pos <= NextSequence'
    BY <1>2, <2>7, GarbledIs DEF NextSequence
  <2>8. \A n \in 0 .. MaxSeq : ~ReadPart(n)
    BY <1>9, ReadPartIs
  <2>9. CASE Judge /\ stream'.pos = stream.pos /\ stream'.inst = stream.inst
    <3>1. stream.pos <= NextSequence /\ stream.pos \in Nat
      BY <1>1, <1>9, <2>1, <2>3, <2>9 DEF Cursor, DocTypes, Judge
    <3> QED BY <1>3, <2>1, <2>9, <3>1
  <2>10. CASE stream' = stream /\ pc \notin {"drive", "serve", "serving", "judge"} /\ ~MarkUp
    <3>0. pc = "settle" => pc' # "judge"
      BY <1>1, ActsAt, AsideIs DEF Settle, Control, Polling
    <3>1. pc' = "drive" /\ pc = "open"
      BY <1>1, <1>9, <2>10, <3>0, Paths
    <3>2. stream'.pos = seq.next
      BY <3>1, ActsAt, AsideIs DEF Open, OpenRefused, OpenFailed, EstablishFailed
    <3> QED BY <2>6, <3>1, <3>2
  <2> QED BY <1>9, <2>4, <2>5, <2>6, <2>7, <2>8, <2>9, <2>10, StreamMoves
<1> QED BY <1>4, <1>5, <1>6, <1>7, <1>8, <1>9 DEF Cursor

\* What is new in the log is beyond what is in hand.
LEMMA CurrentStep ==
  ASSUME Paced, Held, Cursor, Current, [Next]_vars
  PROVE  Current'
<1>1. Control /\ Ages /\ Shape /\ TaskTypes /\ DocTypes /\ Logged
  BY DEF Paced, Shape, Typed, TypeOK
<1>2. /\ inst \in Nat /\ inst >= 1 /\ inst' \in Nat /\ inst <= inst' /\ doc.inst \in Nat
      /\ seq.inst \in Nat /\ Len(log) \in Nat /\ doc.next \in Nat /\ seq.next \in Nat
      /\ NextSequence \in Nat
      /\ \A d \in Devices : seq.floor[d] \in Nat
  BY <1>1, InstGrows, InHandIs, NextIs
<1>3. ASSUME pc' \in Reads, NEW d \in Devices, NEW n \in doc'.obs[d]
      PROVE  n < doc'.next
  <2>1. CASE Fetch
    <3>1. doc'.next = NextSequence /\ n = Latest(d) /\ Latest(d) \in Of(d)
      BY <1>3, <2>1, FetchIs
    <3> QED BY <1>1, <3>1, OfIs
  <2>2. ASSUME NEW m \in 0 .. MaxSeq, ReadPart(m)
        PROVE  n < doc'.next
    <3>1. doc'.next = m + 1 /\ stream.pos \in Nat /\ n \in stream.pos .. m
      BY <1>3, <2>2, ReadPartIs
    <3> QED BY <1>2, <3>1
  <2>3. CASE pc \in Reads /\ doc' = doc
    BY <1>3, <2>3 DEF Current
  <2> QED BY <1>3, <2>1, <2>2, <2>3, ReadsFrom
<1>4. ASSUME pc' \in Reads, doc'.inst = inst', doc'.kind = "current",
             NEW d \in Devices, NEW n \in Of(d)',
             n < doc'.next \/ (seq'.inst = inst' /\ n <= seq'.floor[d])
      PROVE  \E m \in doc'.obs[d] : n <= m
  <2>1. CASE Fetch
    <3>1. n \in Of(d)
      BY <1>4, <2>1, FetchIs DEF Of
    <3> QED BY <1>4, <2>1, <3>1, FetchIs
  <2>2. \A m \in 0 .. MaxSeq : ~ReadPart(m)
    BY <1>4, ReadPartIs
  <2>3. CASE pc \in Reads /\ doc' = doc
    <3>1. inst' = inst
      BY <1>1, <1>2, <1>4, <2>3, OfMoves DEF Ages
    <3>2. n \in Of(d)
      <4>1. CASE log' = log
        BY <4>1 DEF Of
      <4>2. CASE Aside /\ n = NextSequence
        <5>1. seq' = seq /\ doc.next <= NextSequence
          BY <1>4, <2>3, <3>1, <4>2, AsideIs DEF Cursor
        <5>2. seq.inst = inst => seq.floor[d] < NextSequence
          BY DEF Cursor
        <5> QED BY <1>2, <1>4, <2>3, <3>1, <4>2, <5>1, <5>2
      <4> QED BY <1>1, <3>1, <4>1, <4>2, LogMoves
    <3>3. n \in Nat /\ n >= 1
      BY <1>1, <3>2, OfIs
    <3>4. CASE n < doc.next
      BY <1>4, <2>3, <3>1, <3>2, <3>4 DEF Current
    <3>5. CASE seq'.inst = inst /\ n <= seq'.floor[d]
      <4>1. CASE seq'.floor[d] = seq.floor[d]
        <5>1. CASE seq.inst = inst
          BY <1>4, <2>3, <3>1, <3>2, <3>5, <4>1, <5>1 DEF Current
        <5>2. CASE seq.inst # inst
          <6>1. seq'.floor = NoFloors \/ seq.inst = 0
            BY <3>5, <5>2, RestartNoted
          <6>2. seq.floor[d] = 0
            BY <4>1, <6>1 DEF Cursor, NoFloors
          <6> QED BY <3>3, <3>5, <4>1, <6>2
        <5> QED BY <5>1, <5>2
      <4>2. CASE seq'.floor[d] = 0
        BY <3>3, <3>5, <4>2
      <4>3. CASE seq'.floor[d] \in doc.obs[d]
        BY <2>3, <3>5, <4>3
      <4>4. pc # "serving"
        BY <2>3 DEF Reads
      <4> QED BY <4>1, <4>2, <4>3, <4>4, FloorsAre
    <3> QED BY <1>4, <2>3, <3>1, <3>4, <3>5
  <2> QED BY <1>4, <2>1, <2>2, <2>3, ReadsFrom
<1>5. ASSUME pc' = "serving", doc'.inst = inst', NEW n \in Of(Head(todo))', todo' = todo,
             \/ n < doc'.next
             \/ seq'.inst = inst' /\ (n <= seq'.floor[Head(todo)] \/ n < seq'.next)
             \/ seq'.inst = inst' /\ stream'.inst = inst' /\ n < stream'.pos
      PROVE  \E m \in fresh' : n <= m
  <2>1. CASE Serve
    <3>1. todo # <<>> /\ fresh' = {Latest(Head(todo))} /\ log' = log
      BY <1>5, <2>1 DEF Serve, machineVars, agentVars
    <3>2. Head(todo) \in Devices /\ log \in Seq(Devices)
      BY <1>1, <3>1, InHandIs
    <3>3. Of(Head(todo))' = {i \in DOMAIN log' : log'[i] = Head(todo)}
      BY <1>5 DEF Of
    <3>4. n \in Of(Head(todo))
      <4>1. n \in {i \in DOMAIN log' : log'[i] = Head(todo)}
        BY <1>5, <3>3
      <4> QED BY <3>1, <4>1 DEF Of
    <3> QED BY <1>1, <3>1, <3>2, <3>4, LatestIs
  <2>2. CASE pc = "serving" /\ Aside
    <3> DEFINE h == Head(todo)
    <3>1. doc' = doc /\ fresh' = fresh /\ seq' = seq /\ stream' = stream /\ h \in Devices
      BY <1>1, <2>2, AsideIs, BatchIs
    <3>2. inst' = inst
      BY <1>1, <1>2, <1>5, <2>2, <3>1, OfMoves DEF Ages
    <3>3. Of(h)' = {i \in DOMAIN log' : log'[i] = h}
      BY <1>5 DEF Of
    <3>4. n \in Of(h)
      <4> HIDE DEF h
      <4>1. n \in {i \in DOMAIN log' : log'[i] = h}
        BY <1>5, <3>3 DEF h
      <4>2. CASE log' = log
        BY <4>1, <4>2 DEF Of
      <4>3. CASE n = NextSequence
        <5>1. /\ doc.next <= NextSequence
              /\ seq.inst = inst => seq.next <= NextSequence /\ seq.floor[h] < NextSequence
              /\ seq.inst = inst /\ stream.inst = inst => stream.pos <= NextSequence
          BY <1>5, <2>2, <3>1, <3>2 DEF Cursor
        <5>2. stream.pos \in Nat /\ seq.floor[h] \in Nat
          BY <1>1, <1>2, <3>1 DEF DocTypes
        <5> QED BY <1>2, <1>5, <3>1, <3>2, <4>3, <5>1, <5>2 DEF h
      <4> QED BY <1>1, <3>1, <3>2, <4>1, <4>2, <4>3, LogMoves DEF Of
    <3> QED BY <1>5, <2>2, <3>1, <3>2, <3>4 DEF Current
  <2> QED BY <1>1, <1>5, <2>1, <2>2, ServingFrom
<1>6. pc' = "serving" => todo' = todo
  BY <1>1, ServingFrom, AsideIs DEF Serve
<1>7. ASSUME pc' = "serving"
      PROVE  Of(Head(todo))' = {i \in DOMAIN log' : log'[i] = Head(todo)}
  BY <1>6, <1>7 DEF Of
<1> QED BY <1>3, <1>4, <1>5, <1>6, <1>7 DEF Current

\* How the account of a session moves.
LEMMA AccountMoves ==
  ASSUME Paced, [Next]_vars, NEW d \in Devices, sess'[d] = "on", base'[d].inst # 0
  PROVE  /\ sess[d] = "on" /\ given[d] \subseteq given'[d] /\ lost[d] \subseteq lost'[d]
         /\ \/ base'[d] = base[d]
            \/ Measure /\ doc.kind = "current" /\ d = Head(todo)
            \/ ServeDelivered /\ d = Head(todo)
<1>1. QueueTypes /\ SessionTypes /\ Shape
  BY DEF Paced, Shape, Typed, TypeOK
<1>2. \A e \in Devices : Attach(e) => d # e
  BY <1>1 DEF Attach, QueueTypes, NoBase
<1>3. sess[d] = "on"
  <2>1. Reprobe => sess' = sess
    BY DEF Reprobe, deviceVars
  <2>2. \A e \in Devices : Connect(e) => sess[d] = "on"
    BY <1>1 DEF Connect, SessionTypes
  <2>3. \A e \in Devices : Attach(e) => sess[d] = "on"
    BY <1>1, <1>2 DEF Attach, SessionTypes
  <2>4. \A e \in Devices : CloseSession(e) => sess[d] = "on"
    BY <1>1 DEF CloseSession, SessionTypes
  <2> QED BY <2>1, <2>2, <2>3, <2>4, Frames
<1>4. CASE Measure
  <2>1. given' = given /\ lost' = lost
    BY <1>4 DEF Measure, queueVars
  <2>2. /\ todo # <<>>
        /\ \/ base' = base
           \/ /\ doc.kind = "current"
              /\ base' = [base EXCEPT ![Head(todo)] = [inst |-> doc.inst,
                                                      n |-> Max(doc.obs[Head(todo)])]]
    BY <1>4 DEF Measure
  <2>3. base'[d] = base[d] \/ (doc.kind = "current" /\ d = Head(todo))
    BY <1>1, <2>2 DEF QueueTypes
  <2> QED BY <1>3, <1>4, <2>1, <2>3
<1>5. CASE Dispatch
  <2>1. /\ base' = base
        /\ \/ given' = given /\ lost' = lost
           \/ PushSnapshot(Head(todo)) \/ PushObs(Head(todo))
    BY <1>5 DEF Dispatch, queueVars
  <2> QED BY <1>1, <1>3, <2>1 DEF PushSnapshot, PushObs, QueueTypes
<1>6. CASE DispatchDropped
  <2>1. base' = base /\ given' = given
    BY <1>6 DEF DispatchDropped
  <2>2. lost[d] \subseteq lost'[d]
    BY <1>1, <1>6 DEF DispatchDropped, QueueTypes
  <2> QED BY <1>3, <2>1, <2>2
<1>7. CASE ServeDelivered
  <2>1. /\ PushSnapshot(Head(todo))
        /\ base' = [base EXCEPT ![Head(todo)] = [inst |-> doc.inst, n |-> Max(fresh)]]
    BY <1>7 DEF ServeDelivered
  <2>2. given[d] \subseteq given'[d] /\ lost' = lost
    BY <1>1, <2>1 DEF PushSnapshot, QueueTypes
  <2>3. base'[d] = base[d] \/ d = Head(todo)
    BY <1>1, <2>1 DEF QueueTypes
  <2> QED BY <1>3, <1>7, <2>2, <2>3
<1>8. ASSUME NEW n \in 1 .. MaxSeq, PartGarbled(n)
      PROVE  given' = given /\ lost[d] \subseteq lost'[d] /\ base' = base
  BY <1>8, GarbledIs
<1>9. ASSUME NEW e \in Devices, Attach(e)
      PROVE  given'[d] = given[d] /\ lost'[d] = lost[d] /\ base'[d] = base[d]
  BY <1>1, <1>2, <1>9 DEF Attach, QueueTypes
<1>10. ASSUME NEW e \in Devices, Drain(e) \/ CloseSession(e)
       PROVE  given' = given /\ lost' = lost /\ base' = base
  BY <1>10 DEF Drain, CloseSession
<1> QED BY <1>3, <1>4, <1>5, <1>6, <1>7, <1>8, <1>9, <1>10, Frames

\* An account that is kept was kept before, unless the re-probe has just answered.
LEMMA Counted ==
  ASSUME Paced, [Next]_vars, NEW d \in Devices, Counting(d)'
  PROVE  /\ inst' = inst /\ seq.inst = inst /\ seq'.inst = inst /\ inst \in Nat /\ inst >= 1
         /\ ~abandoned /\ sess[d] = "on" /\ (~resync \/ Reprobed)
         /\ \A n : Accounted(d, n) => Accounted(d, n)'
<1>1. Shape /\ Ages
  BY DEF Paced
<1>2. /\ ~resync' /\ ~abandoned' /\ seq'.inst = inst' /\ sess'[d] = "on" /\ base'[d].inst = inst'
  BY DEF Counting
<1>3. inst' = inst /\ inst \in Nat /\ inst >= 1
  BY <1>1, <1>2, SeqStands, InHandIs
<1>4. sess[d] = "on" /\ given[d] \subseteq given'[d] /\ lost[d] \subseteq lost'[d]
  BY <1>2, <1>3, AccountMoves
<1>5. seq.inst # 0
  BY <1>1, <1>4 DEF Ages
<1>6. seq'.inst = seq.inst /\ ~abandoned
  BY <1>2, <1>5, RestartNoted
<1>7. ~resync \/ Reprobed
  BY <1>2, FlagsMove
<1>8. ASSUME NEW n, Accounted(d, n) PROVE Accounted(d, n)'
  BY <1>3, <1>4, <1>8 DEF Accounted
<1> QED BY <1>2, <1>3, <1>4, <1>6, <1>7, <1>8

\* What is dispatched is accounted for, delivered or not.
LEMMA DispatchAccounts ==
  ASSUME Paced, Dispatch \/ DispatchDropped, doc.kind = "part", NEW h \in Devices,
         h = Head(todo), sess[h] = "on", doc.inst = inst, NEW n \in fresh
  PROVE  Accounted(h, n)'
<1>1. QueueTypes /\ Shape /\ Asked /\ pc = "dispatch" /\ todo' = Tail(todo) /\ inst' = inst
  BY DEF Paced, Shape, Typed, TypeOK, Dispatch, DispatchDropped, agentVars
<1>2. ~doc.rebase
  BY <1>1 DEF Asked
<1> DEFINE o == Event(h, n)
<1>3. o.inst = inst /\ o.n = n
  BY DEF Event
<1>4. o \in given'[h] \cup lost'[h]
  <2>1. CASE Dispatch
    <3>1. given' = [given EXCEPT ![h] = @ \cup {Event(h, m) : m \in fresh}]
      BY <1>2, <2>1 DEF Dispatch, PushObs
    <3> QED BY <1>1, <1>2, <3>1 DEF QueueTypes
  <2>2. CASE DispatchDropped
    <3>1. lost' = [lost EXCEPT ![h] = @ \cup {Event(h, m) : m \in fresh}]
      BY <2>2 DEF DispatchDropped
    <3> QED BY <1>1, <1>2, <3>1 DEF QueueTypes
  <2> QED BY <2>1, <2>2
<1>5. \E x \in given'[h] \cup lost'[h] : x.inst = inst' /\ x.n = n
  BY <1>1, <1>3, <1>4
<1> QED BY <1>5 DEF Accounted

\* Everything an account depends on.
Balance == Held /\ Streamed /\ Cursor /\ Current /\ Complete /\ Unstarted

\* A session whose base moves starts a new account: nothing of before it is owed.
LEMMA BaseMoved ==
  ASSUME Paced, Balance, [Next]_vars, NEW d \in Devices, Counting(d)',
         \/ Measure /\ doc.kind = "current" /\ d = Head(todo) /\ sess[d] = "on"
         \/ ServeDelivered /\ d = Head(todo)
  PROVE  /\ Square(d)'
         /\ pc' = "serve" /\ stream'.inst = inst' => \A n \in Wanted(d)' : ~(n < stream'.pos)
<1>1. Shape /\ Ages /\ Control /\ QueueTypes /\ DocTypes
  BY DEF Paced, Shape, Typed, TypeOK
<1>2. /\ inst' = inst /\ seq.inst = inst /\ seq'.inst = inst /\ inst \in Nat
  BY Counted
<1>3. /\ seq.next \in Nat /\ seq.floor[d] \in Nat /\ MaxSeq \in Nat
      /\ doc.obs[d] \in SUBSET (1 .. MaxSeq) /\ fresh \in SUBSET (1 .. MaxSeq)
      /\ stream.pos \in Nat
  BY <1>1, InHandIs DEF DocTypes
<1>4. base'[d].inst = inst
  BY <1>2 DEF Counting
<1>5. CASE Measure /\ doc.kind = "current" /\ d = Head(todo) /\ sess[d] = "on"
  <2>1. /\ pc = "measure" /\ todo # <<>> /\ log' = log /\ pc' # "serve"
        /\ base' = [base EXCEPT ![d] = [inst |-> doc.inst, n |-> Max(doc.obs[d])]]
    BY <1>5 DEF Measure, agentVars
  <2>2. doc.inst = inst /\ seq.next = doc.next /\ doc.obs[d] # {}
    BY <1>1, <1>2, <1>5, <2>1 DEF Ages, Cursor, Balance, Control, Reads
  <2>3. base'[d].n = Max(doc.obs[d])
    BY <1>1, <2>1 DEF QueueTypes
  <2>4. Max(doc.obs[d]) \in 1 .. MaxSeq /\ \A m \in doc.obs[d] : m <= Max(doc.obs[d])
    BY <1>1, <2>1, <2>2, ObsIs DEF Reads
  <2>5. ASSUME NEW n \in Wanted(d)'
        PROVE  n \in Of(d) /\ n \in Nat /\ \A m \in doc.obs[d] : ~(n <= m)
    <3>1. n \in Of(d) /\ Max(doc.obs[d]) < n
      BY <2>1, <2>3, <2>5 DEF Wanted, Of
    <3>2. n \in Nat
      BY <1>1, <3>1, OfIs
    <3>3. \A m \in doc.obs[d] : m \in Nat
      BY <1>3
    <3> QED BY <1>3, <2>4, <3>1, <3>2, <3>3
  <2>6. ASSUME NEW n \in Wanted(d)', n < seq'.next \/ n <= seq'.floor[d]
        PROVE  FALSE
    <3>1. seq'.next = seq.next
      BY <2>1, SeqStands DEF Ingest, OutOfRange, Alive
    <3>2. ~(n < doc.next) /\ ~(n <= seq.floor[d])
      BY <1>2, <1>5, <2>1, <2>2, <2>5 DEF Current, Balance, Reads
    <3>3. CASE seq'.floor[d] = seq.floor[d]
      BY <2>2, <2>6, <3>1, <3>2, <3>3
    <3>4. CASE seq'.floor[d] # seq.floor[d]
      <4>1. seq'.floor[d] \in doc.obs[d]
        BY <2>1, <3>4, FloorsAre DEF Balance, Ingest, OutOfRange, Alive
      <4> QED BY <2>2, <2>5, <2>6, <3>1, <3>2, <4>1
    <3> QED BY <3>3, <3>4
  <2> QED BY <2>1, <2>6 DEF Square
<1>6. CASE ServeDelivered /\ d = Head(todo)
  <2>1. /\ pc = "serving" /\ pc' = "serve" /\ log' = log /\ stream' = stream
        /\ base' = [base EXCEPT ![d] = [inst |-> doc.inst, n |-> Max(fresh)]]
    BY <1>6 DEF ServeDelivered, EndServing, agentVars
  <2>2. base'[d].n = Max(fresh) /\ base'[d].inst = doc.inst
    BY <1>1, <2>1 DEF QueueTypes
  <2>3. doc.inst = inst
    BY <1>4, <2>2
  <2>4. Max(fresh) \in 1 .. MaxSeq /\ \A m \in fresh : m <= Max(fresh)
    BY <1>1, <2>1, BatchIs
  <2>5. ASSUME NEW n \in Wanted(d)'
        PROVE  n \in Of(d) /\ n \in Nat /\ \A m \in fresh : ~(n <= m)
    <3>1. n \in Of(d) /\ Max(fresh) < n
      BY <2>1, <2>2, <2>5 DEF Wanted, Of
    <3>2. n \in Nat
      BY <1>1, <3>1, OfIs
    <3>3. \A m \in fresh : m \in Nat
      BY <1>3
    <3> QED BY <1>3, <2>4, <3>1, <3>2, <3>3
  <2>6. ASSUME NEW n \in Wanted(d)'
        PROVE  /\ ~(n < seq'.next) /\ ~(n <= seq'.floor[d])
               /\ stream'.inst = inst' => ~(n < stream'.pos)
    <3>1. seq'.next = seq.next
      BY <2>1, SeqStands DEF Ingest, OutOfRange, Alive
    <3>2. /\ ~(n < seq.next) /\ ~(n <= seq.floor[d])
          /\ stream.inst = inst => ~(n < stream.pos)
      BY <1>2, <1>6, <2>1, <2>3, <2>5 DEF Current, Balance
    <3>3. ~(n <= seq'.floor[d])
      <4>1. CASE seq'.floor[d] = seq.floor[d]
        BY <3>2, <4>1
      <4>2. CASE seq'.floor[d] # seq.floor[d]
        <5>1. seq'.floor[d] \in fresh
          BY <2>1, <4>2, FloorsAre DEF Balance, Ingest, OutOfRange, Alive, Measure
        <5> QED BY <2>5, <5>1
      <4> QED BY <4>1, <4>2
    <3> QED BY <1>2, <2>1, <3>1, <3>2, <3>3
  <2> QED BY <2>1, <2>6 DEF Square
<1> QED BY <1>5, <1>6

\* An account stands while the agent logs, and while sessions come and go.
LEMMA AsideCompletes ==
  ASSUME Paced, Balance, [Next]_vars, Aside, NEW d \in Devices, Counting(d)', base'[d] = base[d]
  PROVE  (PartRead(d) /\ PartInHand(d) /\ CurrentInHand(d) /\ Between(d) /\ Streaming(d))'
<1>1. Shape /\ Ages /\ Control /\ DocTypes
  BY DEF Paced, Shape, Typed, TypeOK
<1>2. /\ inst' = inst /\ seq.inst = inst /\ seq'.inst = inst /\ inst \in Nat
      /\ ~abandoned /\ sess[d] = "on"
      /\ \A n : Accounted(d, n) => Accounted(d, n)'
  BY Counted
<1>3. UNCHANGED <<seq, resync, abandoned, pc, doc, todo, fresh, caller, stream, republish, waitFor>>
  BY AsideIs
<1>4. ~resync /\ base[d].inst = inst /\ sess'[d] = "on"
  BY <1>2, <1>3 DEF Counting
<1>5. PartRead(d) /\ PartInHand(d) /\ CurrentInHand(d) /\ Between(d) /\ Streaming(d)
  BY <1>2, <1>4 DEF Balance, Complete, Counting
<1>6. /\ NextSequence \in Nat /\ doc.next \in Nat /\ seq.next \in Nat /\ stream.pos \in Nat
      /\ seq.floor[d] \in Nat
  BY <1>1, NextIs, InHandIs DEF DocTypes
<1>7. ASSUME NEW n \in Wanted(d)'
      PROVE  n \in Wanted(d) \/ n = NextSequence
  BY <1>1, <1>2, <1>7, LogMoves DEF Wanted, Of
<1>8. /\ pc \in Reads /\ doc.inst = inst => ~(NextSequence < doc.next)
      /\ ~(NextSequence < seq.next) /\ ~(NextSequence <= seq.floor[d])
      /\ pc \in {"drive", "serve", "serving", "judge"} /\ stream.inst = inst =>
           ~(NextSequence < stream.pos)
  <2>1. pc \in Reads /\ doc.inst = inst => doc.next <= NextSequence
    BY DEF Balance, Cursor
  <2>2. seq.next <= NextSequence /\ seq.floor[d] < NextSequence
    BY <1>2 DEF Balance, Cursor
  <2>3. pc \in {"drive", "serve", "serving", "judge"} /\ stream.inst = inst =>
           stream.pos <= NextSequence
    BY <1>2 DEF Balance, Cursor
  <2> QED BY <1>6, <2>1, <2>2, <2>3
<1>9. PartRead(d)'
  BY <1>2, <1>3, <1>5, <1>7, <1>8 DEF PartRead, Reads
<1>10. InHand(d)' <=> InHand(d)
  BY <1>3 DEF InHand
<1>11. PartInHand(d)'
  BY <1>2, <1>3, <1>5, <1>7, <1>8, <1>10 DEF PartInHand
<1>12. Square(d) => Square(d)'
  BY <1>2, <1>3, <1>7, <1>8 DEF Square
<1>13. CurrentInHand(d)'
  BY <1>3, <1>5, <1>10, <1>12 DEF CurrentInHand
<1>14. Between(d)'
  BY <1>2, <1>3, <1>4, <1>5, <1>12 DEF Between, Steady, AtConnect
<1>15. Streaming(d)'
  BY <1>2, <1>3, <1>5, <1>7, <1>8 DEF Streaming
<1> QED BY <1>9, <1>11, <1>13, <1>14, <1>15

\* A part is what the stream delivers beyond what is accounted for.
LEMMA PartReadStep ==
  ASSUME Paced, Balance, [Next]_vars, NEW d \in Devices, Counting(d)', Counting(d), log' = log,
         base'[d] = base[d], ~Aside
  PROVE  PartRead(d)'
<1>1. /\ inst' = inst /\ inst \in Nat
      /\ \A n : Accounted(d, n) => Accounted(d, n)'
  BY Counted
<1> SUFFICES ASSUME pc' = "ingest", doc'.kind = "part", NEW n \in Wanted(d)', n < doc'.next
             PROVE  Accounted(d, n)' \/ n \in doc'.obs[d]
  BY DEF PartRead
<1>2. PICK k \in 0 .. MaxSeq : ReadPart(k)
  BY IngestFrom, FetchIs
<1>3. n \in Of(d) /\ n \in Wanted(d)
  BY DEF Wanted, Of
<1>4. n \in Nat
  BY <1>3, OfIs DEF Paced
<1>5. /\ pc = "drive" /\ stream.inst = inst /\ doc'.next = k + 1 /\ stream.pos \in Nat
      /\ doc'.obs[d] = {m \in stream.pos .. k : log[m] = d}
  BY <1>2, ReadPartIs
<1>6. CASE n < stream.pos
  <2>1. Accounted(d, n)
    BY <1>3, <1>5, <1>6 DEF Balance, Complete, Streaming
  <2> QED BY <1>1, <2>1
<1>7. CASE ~(n < stream.pos)
  <2>1. n \in stream.pos .. k /\ log[n] = d
    BY <1>3, <1>4, <1>5, <1>7 DEF Of
  <2> QED BY <1>5, <2>1
<1> QED BY <1>6, <1>7

LEMMA PartInHandStep ==
  ASSUME Paced, Balance, [Next]_vars, NEW d \in Devices, Counting(d)', Counting(d), log' = log,
         base'[d] = base[d], ~Aside
  PROVE  PartInHand(d)'
<1>1. Shape /\ Ages /\ Control /\ Asked /\ DocTypes /\ TaskTypes /\ setup \in Setups
  BY DEF Paced, Shape, Typed, TypeOK
<1>2. /\ inst' = inst /\ seq.inst = inst /\ seq'.inst = inst /\ inst \in Nat
      /\ ~abandoned /\ sess[d] = "on" /\ ~resync /\ ~resync'
      /\ \A n : Accounted(d, n) => Accounted(d, n)'
  BY Counted DEF Counting
<1> SUFFICES ASSUME pc' \in {"measure", "dispatch"}, doc'.kind = "part", NEW n \in Wanted(d)'
             PROVE  /\ n < seq'.next => \/ Accounted(d, n)'
                                        \/ /\ d \in ToSet(todo') /\ n \in doc'.obs[d]
                                           /\ InHand(d)' => n \in fresh'
                    /\ n <= seq'.floor[d] => Accounted(d, n)' \/ (InHand(d)' /\ n \in fresh')
  BY DEF PartInHand
<1>3. n \in Wanted(d) /\ n \in Of(d)
  BY DEF Wanted, Of
<1>4. n \in Nat /\ doc.obs[d] \in SUBSET (1 .. MaxSeq) /\ MaxSeq \in Nat /\ seq.floor[d] \in Nat
      /\ doc.next \in Nat
  <2>1. n \in Nat
    BY <1>1, <1>3, OfIs
  <2> QED BY <1>1, <2>1, InHandIs
<1>5. /\ pc \in Reads /\ doc' = doc /\ ~doc.rebase /\ ~doc.republish
  BY <1>1, DocStands DEF Asked
<1>6. CASE Ingest
  <2>1. /\ pc = "ingest" /\ pc' = "measure" /\ seq'.next = doc.next /\ doc.inst = inst
        /\ todo' = Boot
    BY <1>2, <1>6, SeqStands DEF Ingest
  <2>2. seq'.floor = seq.floor
    <3>1. Steady(d)
      BY <1>1, <1>2, <1>5, <2>1 DEF Steady, AtConnect
    <3> QED BY <1>2, <1>6, <3>1, HeaderKeepsFloors
  <2>3. Square(d)
    <3>1. Steady(d) /\ ~AtConnect
      BY <1>1, <1>2, <1>5, <2>1 DEF Steady, AtConnect
    <3> QED BY <2>1, <3>1 DEF Balance, Complete, Between
  <2>4. d \in ToSet(todo') /\ ~InHand(d)'
    BY <1>1, <2>1, BootIs DEF InHand
  <2>5. n < doc.next => Accounted(d, n) \/ n \in doc.obs[d]
    BY <1>3, <1>5, <2>1 DEF Balance, Complete, PartRead
  <2>6. n <= seq.floor[d] => Accounted(d, n)
    BY <1>3, <2>3 DEF Square
  <2> QED BY <1>2, <1>5, <2>1, <2>2, <2>4, <2>5, <2>6
<1>7. CASE ~Ingest
  <2>1. pc \in {"measure", "dispatch"} /\ seq'.next = seq.next /\ seq.next = doc.next
    BY <1>5, <1>7, ActsAt, SeqStands DEF Reads, OutOfRange, Alive, Balance, Cursor
  <2>2. /\ n < seq.next => \/ Accounted(d, n)
                           \/ /\ d \in ToSet(todo) /\ n \in doc.obs[d]
                              /\ InHand(d) => n \in fresh
        /\ n <= seq.floor[d] => Accounted(d, n) \/ (InHand(d) /\ n \in fresh)
    BY <1>3, <1>5, <2>1 DEF Balance, Complete, PartInHand
  <2>3. CASE Measure
    <3>1. pc = "measure" /\ todo # <<>> /\ todo \in Seq(Devices) /\ ~InHand(d)
      BY <1>1, <2>3, MeasuredIs DEF TaskTypes, InHand
    <3>2. CASE d # Head(todo)
      <4>1. ~InHand(d)' /\ (d \in ToSet(todo) => d \in ToSet(todo'))
        BY <1>1, <2>3, <3>1, <3>2, MeasuredIs, TailIn DEF InHand
      <4>2. seq'.floor[d] = seq.floor[d]
        BY <1>7, <2>1, <2>3, <3>1, <3>2, FloorsMove DEF OutOfRange, Alive, ServeDelivered
      <4> QED BY <1>2, <1>5, <2>1, <2>2, <3>1, <4>1, <4>2
    <3>3. CASE d = Head(todo) /\ pc' = "measure"
      <4>1. /\ seq' = seq /\ \A m \in doc.obs[d] : m <= seq.floor[d]
        BY <1>1, <1>2, <2>3, <3>3, MeasuredIs
      <4>2. n < seq.next \/ n <= seq.floor[d] => Accounted(d, n)
        BY <2>2, <3>1, <4>1
      <4> QED BY <1>2, <4>1, <4>2
    <3>4. CASE d = Head(todo) /\ pc' = "dispatch"
      <4>1. /\ todo' = todo /\ fresh' = {m \in doc.obs[d] : m > seq.floor[d]}
        BY <1>1, <2>3, <3>4, MeasuredIs
      <4>2. InHand(d)' /\ d \in ToSet(todo')
        BY <3>1, <3>4, <4>1, TailIn DEF InHand
      <4>3. n < seq.next => Accounted(d, n) \/ n \in fresh'
        BY <1>4, <2>2, <3>1, <4>1
      <4>4. n <= seq'.floor[d] => n < seq.next \/ n <= seq.floor[d]
        <5>1. CASE seq'.floor[d] = seq.floor[d]
          BY <5>1
        <5>2. CASE seq'.floor[d] # seq.floor[d]
          <6>1. seq'.floor[d] \in doc.obs[d]
            BY <1>7, <3>1, <5>2, FloorsAre DEF Balance, OutOfRange, Alive
          <6>2. seq'.floor[d] < doc.next /\ seq'.floor[d] \in Nat
            BY <1>4, <1>5, <6>1 DEF Balance, Current
          <6> QED BY <1>4, <2>1, <6>2
        <5> QED BY <5>1, <5>2
      <4>5. fresh' \subseteq doc.obs[d]
        BY <4>1
      <4> QED BY <1>2, <1>5, <2>1, <2>2, <3>1, <4>2, <4>3, <4>4, <4>5
    <3> QED BY <1>1, <2>3, <3>2, <3>3, <3>4, MeasuredIs
  <2>4. CASE Dispatch \/ DispatchDropped
    <3>1. /\ pc = "dispatch" /\ pc' = "measure" /\ todo' = Tail(todo) /\ seq' = seq
          /\ todo # <<>> /\ todo \in Seq(Devices)
      BY <1>1, <2>4, BatchIs DEF Dispatch, DispatchDropped, TaskTypes
    <3>2. CASE d = Head(todo)
      <4>1. \A m \in fresh : Accounted(d, m)'
        <5>1. doc.inst = inst
          BY <1>1, <1>2, <3>1 DEF Ages
        <5> QED BY <1>2, <1>5, <2>4, <3>2, <5>1, DispatchAccounts
      <4>2. InHand(d)
        BY <3>1, <3>2 DEF InHand
      <4> QED BY <1>2, <2>2, <3>1, <4>1, <4>2
    <3>3. CASE d # Head(todo)
      <4>1. ~InHand(d) /\ ~InHand(d)' /\ (d \in ToSet(todo) => d \in ToSet(todo'))
        BY <3>1, <3>3, TailIn DEF InHand
      <4> QED BY <1>2, <1>5, <2>2, <3>1, <4>1
    <3> QED BY <3>2, <3>3
  <2>5. ~MarkUp
    BY DEF MarkUp
  <2> QED BY <2>1, <2>3, <2>4, <2>5, ActsAt
<1> QED BY <1>6, <1>7

\* A current view starts the account anew when its device is measured.
LEMMA CurrentInHandStep ==
  ASSUME Paced, Balance, [Next]_vars, NEW d \in Devices, Counting(d)', Counting(d), log' = log,
         base'[d] = base[d], ~Aside, ~(Measure /\ doc.kind = "current" /\ d = Head(todo))
  PROVE  CurrentInHand(d)'
<1>1. Shape /\ Ages /\ Control /\ DocTypes /\ TaskTypes /\ setup \in Setups
  BY DEF Paced, Shape, Typed, TypeOK
<1>2. /\ inst' = inst /\ seq.inst = inst /\ ~resync'
      /\ \A n : Accounted(d, n) => Accounted(d, n)'
  BY Counted DEF Counting
<1> SUFFICES ASSUME pc' \in {"measure", "dispatch"}, doc'.kind = "current",
                    d \notin ToSet(todo') \/ InHand(d)'
             PROVE  Square(d)'
  BY DEF CurrentInHand
<1>3. pc \in Reads /\ doc' = doc
  BY DocStands
<1>4. ~Ingest
  <2>1. Ingest => todo' = Boot /\ pc' = "measure"
    BY <1>2 DEF Ingest
  <2> QED BY <1>1, <2>1, BootIs DEF InHand
<1>5. pc \in {"measure", "dispatch"}
  BY <1>3, <1>4, ActsAt DEF Reads
<1>6. CASE Measure
  <2>1. d # Head(todo) /\ pc = "measure" /\ todo # <<>> /\ todo \in Seq(Devices)
    BY <1>1, <1>3, <1>6, MeasuredIs DEF TaskTypes
  <2>2. d \notin ToSet(todo)
    BY <1>1, <1>6, <2>1, MeasuredIs, TailIn DEF InHand
  <2>3. Square(d)
    BY <1>3, <1>5, <2>2 DEF Balance, Complete, CurrentInHand
  <2>4. seq'.floor[d] = seq.floor[d] /\ seq'.next = seq.next
    BY <1>4, <2>1, FloorsMove, SeqStands DEF OutOfRange, Alive, ServeDelivered
  <2> QED BY <1>2, <2>3, <2>4 DEF Square, Wanted, Of
<1>7. CASE Dispatch \/ DispatchDropped
  <2>1. /\ pc = "dispatch" /\ pc' = "measure" /\ todo' = Tail(todo) /\ seq' = seq
        /\ todo # <<>> /\ todo \in Seq(Devices)
    BY <1>1, <1>7, BatchIs DEF Dispatch, DispatchDropped, TaskTypes
  <2>2. d \notin ToSet(todo) \/ InHand(d)
    BY <2>1, TailIn DEF InHand
  <2>3. Square(d)
    BY <1>3, <1>5, <2>2 DEF Balance, Complete, CurrentInHand
  <2> QED BY <1>2, <2>1, <2>3 DEF Square, Wanted, Of
<1>8. ~MarkUp
  BY DEF MarkUp
<1> QED BY <1>5, <1>6, <1>7, <1>8, ActsAt

\* Once a recovery is over, the account is square between documents.
LEMMA BetweenStep ==
  ASSUME Paced, Balance, [Next]_vars, NEW d \in Devices, Counting(d)', Counting(d), log' = log,
         base'[d] = base[d], ~(ServeDelivered /\ d = Head(todo))
  PROVE  Between(d)'
<1>1. Shape /\ Ages /\ Control /\ DocTypes /\ TaskTypes
  BY DEF Paced, Shape, Typed, TypeOK
<1>2. /\ inst' = inst /\ seq.inst = inst /\ inst \in Nat /\ inst >= 1 /\ sess[d] = "on"
      /\ ~abandoned /\ ~resync
      /\ \A n : Accounted(d, n) => Accounted(d, n)'
  BY Counted DEF Counting
<1> SUFFICES ASSUME pc' \notin {"measure", "dispatch"}, ~AtConnect', Steady(d)'
             PROVE  Square(d)'
  BY DEF Between
<1>3. ASSUME seq'.next = seq.next, seq'.floor[d] = seq.floor[d], Square(d)
      PROVE  Square(d)'
  BY <1>2, <1>3 DEF Square, Wanted, Of
<1>4. CASE MarkUp
  <2>1. /\ pc = "measure" /\ todo = <<>> /\ seq' = seq
    BY <1>4 DEF MarkUp
  <2>2. d \notin ToSet(todo) /\ ~InHand(d)
    BY <2>1 DEF ToSet, InHand
  <2>3. doc.kind \in {"part", "current"}
    BY <1>1, <2>1 DEF Control, Reads
  <2>4. Square(d)
    <3>1. CASE doc.kind = "current"
      BY <2>1, <2>2, <3>1 DEF Balance, Complete, CurrentInHand
    <3>2. CASE doc.kind = "part"
      <4>1. \A n \in Wanted(d) : /\ n < seq.next => Accounted(d, n)
                                 /\ n <= seq.floor[d] => Accounted(d, n)
        BY <2>1, <2>2, <3>2 DEF Balance, Complete, PartInHand
      <4> QED BY <4>1 DEF Square
    <3> QED BY <2>3, <3>1, <3>2
  <2> QED BY <1>3, <2>1, <2>4
<1>5. CASE ~MarkUp
  <2>1. pc \notin {"measure", "dispatch"}
    BY <1>5, ActsAt, AsideIs DEF Measure, Dispatch, DispatchDropped
  <2>2. ~Ingest /\ ~OutOfRange
    BY OutOfRangeIs DEF Ingest, AtConnect
  <2>3. Steady(d)
    BY <1>2, SteadyStep DEF Dispatch, DispatchDropped
  <2>4. ~AtConnect
    <3>1. ASSUME AtConnect PROVE FALSE
      <4>1. ~republish
        BY <2>3, <3>1 DEF Steady
      <4> QED BY <1>2, <3>1, <4>1 DEF Balance, Unstarted
    <3> QED BY <3>1
  <2>5. Square(d)
    BY <2>1, <2>3, <2>4 DEF Balance, Complete, Between
  <2>6. seq'.next = seq.next
    BY <2>2, SeqStands
  <2>7. seq'.floor[d] = seq.floor[d]
    BY <2>2, FloorsMove
  <2> QED BY <1>3, <2>5, <2>6, <2>7
<1> QED BY <1>4, <1>5

\* A stream has passed nothing that is not accounted for.
LEMMA StreamingStep ==
  ASSUME Paced, Balance, [Next]_vars, NEW d \in Devices, Counting(d)', Counting(d), log' = log,
         base'[d] = base[d], ~Aside
  PROVE  Streaming(d)'
<1>1. Shape /\ Ages /\ Control /\ DocTypes /\ TaskTypes
  BY DEF Paced, Shape, Typed, TypeOK
<1>2. /\ inst' = inst /\ seq.inst = inst /\ inst \in Nat /\ sess[d] = "on"
      /\ ~abandoned /\ ~resync
      /\ \A n : Accounted(d, n) => Accounted(d, n)'
  BY Counted DEF Counting
<1> SUFFICES ASSUME pc' \in {"drive", "serve", "serving", "judge"}, stream'.inst = inst',
                    NEW n \in Wanted(d)', n < stream'.pos
             PROVE  Accounted(d, n)'
  BY DEF Streaming
<1>3. n \in Wanted(d) /\ n \in Of(d)
  BY DEF Wanted, Of
<1>4. n \in Nat
  BY <1>1, <1>3, OfIs
<1>5. CASE /\ pc \in {"drive", "serve", "serving", "judge"}
           /\ stream'.pos = stream.pos /\ stream'.inst = stream.inst
  <2>1. Accounted(d, n)
    BY <1>2, <1>3, <1>5 DEF Balance, Complete, Streaming
  <2> QED BY <1>2, <2>1
<1>6. CASE MarkUp
  <2>1. /\ pc = "measure" /\ todo = <<>> /\ stream' = stream /\ doc.kind = "part"
    BY <1>1, <1>6 DEF MarkUp, Control, Reads, Polling
  <2>2. stream.pos = seq.next
    BY <2>1 DEF Balance, Streamed, Cursor
  <2>3. d \notin ToSet(todo)
    BY <2>1 DEF ToSet
  <2>4. Accounted(d, n)
    BY <1>3, <2>1, <2>2, <2>3 DEF Balance, Complete, PartInHand
  <2> QED BY <1>2, <2>4
<1>7. CASE pc = "open" /\ stream'.pos = seq.next
  <2>1. Steady(d) /\ ~AtConnect
    BY <1>2, <1>7 DEF Steady, AtConnect
  <2>2. Square(d)
    BY <1>7, <2>1 DEF Balance, Complete, Between
  <2>3. Accounted(d, n)
    BY <1>3, <1>7, <2>2 DEF Square
  <2> QED BY <1>2, <2>3
<1>8. ASSUME NEW m \in 1 .. MaxSeq, PartGarbled(m)
      PROVE  Accounted(d, n)'
  <2>1. /\ pc = "drive" /\ stream.inst = inst /\ stream'.pos = m + 1 /\ stream.pos \in Nat
        /\ m \in Nat
        /\ lost'[d] = lost[d] \cup
             {[inst |-> inst, n |-> k, gen |-> model[d]] : k \in {i \in stream.pos .. m : log[i] = d}}
    BY <1>8, GarbledIs
  <2>2. CASE n < stream.pos
    <3>1. Accounted(d, n)
      BY <1>2, <1>3, <2>1, <2>2 DEF Balance, Complete, Streaming
    <3> QED BY <1>2, <3>1
  <2>3. CASE ~(n < stream.pos)
    <3>1. n \in {i \in stream.pos .. m : log[i] = d}
      BY <1>3, <1>4, <2>1, <2>3 DEF Of
    <3> DEFINE o == [inst |-> inst, n |-> n, gen |-> model[d]]
    <3>2. o \in lost'[d]
      BY <2>1, <3>1
    <3>3. o.inst = inst' /\ o.n = n
      BY <1>2
    <3>4. \E x \in given'[d] \cup lost'[d] : x.inst = inst' /\ x.n = n
      BY <3>2, <3>3
    <3> QED BY <3>4 DEF Accounted
  <2> QED BY <2>2, <2>3
<1>9. \A k \in 0 .. MaxSeq : ~ReadPart(k)
  BY ReadPartIs
<1>10. CASE stream' = stream /\ pc \notin {"drive", "serve", "serving", "judge"} /\ ~MarkUp
  <2>1. pc = "settle" => pc' # "judge"
    BY <1>1, ActsAt, AsideIs DEF Settle, Control, Polling
  <2>2. pc' = "drive" /\ pc = "open"
    BY <1>1, <1>10, <2>1, Paths
  <2>3. stream'.pos = seq.next
    BY <2>2, ActsAt, AsideIs DEF Open, OpenRefused, OpenFailed, EstablishFailed
  <2> QED BY <1>7, <2>2, <2>3
<1>11. Judge => pc = "judge"
  BY DEF Judge
<1> QED BY <1>5, <1>6, <1>7, <1>8, <1>9, <1>10, <1>11, StreamMoves

LEMMA CompleteStep ==
  ASSUME Paced, Balance, [Next]_vars
  PROVE  Complete'
<1>1. Shape /\ Ages /\ Control /\ Asked /\ DocTypes
  BY DEF Paced, Shape, Typed, TypeOK
<1> SUFFICES ASSUME NEW d \in Devices, Counting(d)'
             PROVE  (PartRead(d) /\ PartInHand(d) /\ CurrentInHand(d) /\ Between(d)
                       /\ Streaming(d))'
  BY DEF Complete
<1>2. /\ inst' = inst /\ seq.inst = inst /\ inst \in Nat /\ inst >= 1 /\ ~abandoned
      /\ sess[d] = "on" /\ (~resync \/ Reprobed)
  BY Counted
<1>3. sess'[d] = "on" /\ base'[d].inst = inst' /\ ~resync'
  BY DEF Counting
<1>4. CASE Reprobed
  <2>1. pc = "reprobe" /\ pc' = "fetch" /\ doc' = doc
    BY <1>4 DEF Reprobed, workVars
  <2>2. ~Steady(d)'
    BY <1>1, <2>1 DEF Asked, Steady
  <2> QED BY <2>1, <2>2 DEF PartRead, PartInHand, CurrentInHand, Between, Streaming
<1>5. CASE Measure /\ doc.kind = "current" /\ d = Head(todo)
  <2>1. pc' \in {"measure", "dispatch"} /\ doc' = doc
    BY <1>5 DEF Measure
  <2>2. Square(d)'
    BY <1>2, <1>5, BaseMoved
  <2> QED BY <1>5, <2>1, <2>2 DEF PartRead, PartInHand, CurrentInHand, Between, Streaming
<1>6. CASE ServeDelivered /\ d = Head(todo)
  <2>1. pc' = "serve"
    BY <1>6 DEF ServeDelivered, EndServing
  <2>2. /\ Square(d)'
        /\ stream'.inst = inst' => \A n \in Wanted(d)' : ~(n < stream'.pos)
    BY <1>6, <2>1, BaseMoved
  <2> QED BY <2>1, <2>2 DEF PartRead, PartInHand, CurrentInHand, Between, Streaming
<1>7. CASE /\ ~Reprobed /\ ~(Measure /\ doc.kind = "current" /\ d = Head(todo))
           /\ ~(ServeDelivered /\ d = Head(todo))
  <2>1. base'[d] = base[d]
    BY <1>2, <1>3, <1>7, AccountMoves
  <2>2. Counting(d)
    BY <1>2, <1>3, <1>7, <2>1 DEF Counting
  <2>3. CASE Aside
    BY <2>1, <2>3, AsideCompletes
  <2>4. CASE ~Aside
    <3>1. log' = log
      BY <1>1, <1>2, <2>4, LogMoves
    <3> QED BY <1>7, <2>1, <2>2, <2>4, <3>1, PartReadStep, PartInHandStep, CurrentInHandStep,
             BetweenStep, StreamingStep
  <2> QED BY <2>3, <2>4
<1> QED BY <1>4, <1>5, <1>6, <1>7

LEMMA BalanceKept == Spec => []Balance
<1>1. Init => Streamed /\ Cursor /\ Current /\ Complete
  BY AccountInit
<1>2. /\ Paced /\ Held /\ Unstarted /\ Streamed /\ Cursor /\ Current /\ Complete
      /\ [Next]_vars
      => Streamed' /\ Cursor' /\ Current' /\ Complete'
  BY StreamedStep, CursorStep, CurrentStep, CompleteStep DEF Balance
<1>3. Spec => [](Streamed /\ Cursor /\ Current /\ Complete)
  BY <1>1, <1>2, PacedKept, FlowKept, PTL DEF Spec
<1> QED BY <1>3, FlowKept, PTL DEF Balance

\* Nothing is lost silently: while a stream is being opened or read, everything an
\* attached session is owed since its /current has been given to it or counted as
\* dropped, whatever recoveries, re-opened streams, attach snapshots and degraded polls
\* came between (the ladders of run_streaming, snapshot_cycle, service_attach_snapshots).
THEOREM NothingLostSilently == Spec => []StreamComplete
<1>1. ASSUME Paced, Balance PROVE StreamComplete
  <2>1. Shape /\ Control /\ QueueTypes /\ setup \in Setups /\ seq.next \in Nat /\ MaxSeq \in Nat
    BY <1>1, InHandIs DEF Paced, Shape, Typed, TypeOK
  <2> SUFFICES ASSUME Settled, ~resync, ~abandoned, seq.inst = inst, NEW d \in attached,
                      base[d].inst = inst, NEW n \in Owed(d)
               PROVE  \E o \in given[d] \cup lost[d] : o.inst = inst /\ o.n = n
    BY DEF StreamComplete
  <2>2. d \in Devices /\ sess[d] = "on" /\ pc \in {"open", "drive"}
    BY DEF attached, Settled
  <2>3. Counting(d) /\ Steady(d) /\ ~AtConnect
    BY <2>2 DEF Counting, Steady, AtConnect
  <2>4. Square(d)
    BY <1>1, <2>2, <2>3 DEF Balance, Complete, Between
  <2>5. base[d].n \in Nat
    BY <2>1, <2>2 DEF QueueTypes
  <2>6. n \in Wanted(d) /\ n < seq.next
    BY <2>1, <2>5 DEF Owed, Wanted, Of
  <2> QED BY <2>4, <2>6 DEF Square, Accounted
<1> QED BY <1>1, PacedKept, BalanceKept, PTL
=============================================================================
