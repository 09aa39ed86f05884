------------------------- MODULE DeviceTask_proofs -------------------------
(***************************************************************************)
(* What a device task guarantees for every set of signals, policies and    *)
(* contents, and for every bound.                                          *)
(***************************************************************************)
EXTENDS DeviceTask, SequenceTheorems, TLAPS

----------------------------------------------------------------------------
(* Maps of some of the signals.                                            *)

LEMMA MapIs ==
  ASSUME NEW R, NEW f \in MapsTo(R)
  PROVE  DOMAIN f \subseteq Signals /\ f \in [DOMAIN f -> R]
BY DEF MapsTo

LEMMA IsMap ==
  ASSUME NEW R, NEW S \in SUBSET Signals, NEW f \in [S -> R]
  PROVE  f \in MapsTo(R) /\ DOMAIN f = S
BY DEF MapsTo

LEMMA NothingIsMap ==
  ASSUME NEW R
  PROVE  Nothing \in MapsTo(R) /\ DOMAIN Nothing = {}
<1>1. Nothing \in [{} -> R] /\ {} \in SUBSET Signals
  BY DEF Nothing
<1> QED BY <1>1, IsMap

LEMMA OverIs ==
  ASSUME NEW f, NEW g
  PROVE  /\ DOMAIN Over(f, g) = DOMAIN f \cup DOMAIN g
         /\ \A s \in DOMAIN f : Over(f, g)[s] = f[s]
         /\ \A s \in DOMAIN g : s \notin DOMAIN f => Over(f, g)[s] = g[s]
BY DEF Over

LEMMA OverIsMap ==
  ASSUME NEW R, NEW f \in MapsTo(R), NEW g \in MapsTo(R)
  PROVE  Over(f, g) \in MapsTo(R)
<1>1. /\ DOMAIN f \subseteq Signals /\ f \in [DOMAIN f -> R]
      /\ DOMAIN g \subseteq Signals /\ g \in [DOMAIN g -> R]
  BY MapIs
<1>2. Over(f, g) \in [DOMAIN f \cup DOMAIN g -> R]
  BY <1>1 DEF Over
<1> QED BY <1>1, <1>2, IsMap

----------------------------------------------------------------------------
(* Readings, and the windows that hold them.                               *)

LEMMA ReadingIs ==
  ASSUME NEW n \in 1..MaxSeq, NEW c \in Contents
  PROVE  Reading(n, c) \in ReadingType
BY ContentsTyped DEF Reading, ReadingType

LEMMA BaselineIs ==
  ASSUME NEW f \in [Signals -> ReadingType]
  PROVE  /\ Baseline(f) \in ReadingMap /\ DOMAIN Baseline(f) = Signals
         /\ \A s \in Signals : Baseline(f)[s].seq = f[s].seq /\ Baseline(f)[s].snap
<1>1. \A r \in ReadingType : /\ [r EXCEPT !.snap = TRUE] \in ReadingType
                             /\ [r EXCEPT !.snap = TRUE].seq = r.seq
                             /\ [r EXCEPT !.snap = TRUE].snap
  BY DEF ReadingType
<1>2. Baseline(f) = [s \in Signals |-> [f[s] EXCEPT !.snap = TRUE]]
  BY DEF Baseline
<1> DEFINE b == Baseline(f)
<1>3. b \in [Signals -> ReadingType] /\ \A s \in Signals : b[s] = [f[s] EXCEPT !.snap = TRUE]
  BY <1>1, <1>2
<1>4. b \in ReadingMap /\ DOMAIN b = Signals
  BY <1>3, IsMap DEF ReadingMap
<1>5. \A s \in Signals : f[s] \in ReadingType
  OBVIOUS
<1> HIDE DEF b
<1>6. ASSUME NEW s \in Signals PROVE b[s].seq = f[s].seq /\ b[s].snap
  <2>1. PICK r : r = f[s]
    OBVIOUS
  <2>2. r \in ReadingType /\ b[s] = [r EXCEPT !.snap = TRUE]
    BY <1>3, <1>5, <2>1
  <2> QED BY <1>1, <2>1, <2>2
<1> QED BY <1>4, <1>6 DEF b

LEMMA NewQuality ==
  ASSUME NEW r \in ReadingType, NEW x \in Qualities
  PROVE  [r EXCEPT !.q = x] \in ReadingType
BY DEF ReadingType

LEMMA OwnQuality ==
  ASSUME NEW r \in ReadingType
  PROVE  [r EXCEPT !.q = r.q] = r /\ r.q \in Qualities
BY DEF ReadingType

LEMMA NumbersAre ==
  ASSUME NEW w \in Seq(ReadingType)
  PROVE  /\ Numbers(w) = {w[i].seq : i \in 1..Len(w)}
         /\ Numbers(w) \in SUBSET (1..MaxSeq)
<1>1. \A i \in 1..Len(w) : w[i] \in ReadingType
  BY ElementOfSeq
<1>2. \A i \in 1..Len(w) : w[i].seq \in 1..MaxSeq
  BY <1>1 DEF ReadingType
<1>3. DOMAIN w = 1..Len(w)
  OBVIOUS
<1>4. Numbers(w) = {w[i].seq : i \in 1..Len(w)}
  BY <1>3 DEF Numbers, ToSet
<1> QED BY <1>2, <1>4

LEMMA NumbersOfNone == Numbers(<<>>) = {}
BY DEF Numbers, ToSet

LEMMA NumbersOfOne ==
  ASSUME NEW r \in ReadingType
  PROVE  Numbers(<<r>>) = {r.seq}
<1> DEFINE w == <<r>>
<1>1. w \in Seq(ReadingType) /\ Len(w) = 1 /\ w[1] = r
  OBVIOUS
<1> HIDE DEF w
<1>2. Numbers(w) = {w[i].seq : i \in 1..1}
  BY <1>1, NumbersAre
<1> QED BY <1>1, <1>2 DEF w

LEMMA NumbersOfAppend ==
  ASSUME NEW w \in Seq(ReadingType), NEW r \in ReadingType
  PROVE  Numbers(Append(w, r)) = Numbers(w) \cup {r.seq}
<1> DEFINE a == Append(w, r)
<1>1. /\ a \in Seq(ReadingType) /\ Len(a) = Len(w) + 1
      /\ \A i \in 1..Len(w) : a[i] = w[i]
      /\ a[Len(w) + 1] = r
  BY AppendProperties
<1>2. Len(w) \in Nat
  OBVIOUS
<1> HIDE DEF a
<1>3. Numbers(a) = {a[i].seq : i \in 1..Len(a)}
  BY <1>1, NumbersAre
<1>4. Numbers(w) = {w[i].seq : i \in 1..Len(w)}
  BY NumbersAre
<1>5. 1..(Len(w) + 1) = 1..Len(w) \cup {Len(w) + 1}
  BY <1>2
<1>6. Numbers(a) = {a[i].seq : i \in 1..Len(w)} \cup {a[Len(w) + 1].seq}
  BY <1>1, <1>3, <1>5
<1>7. {a[i].seq : i \in 1..Len(w)} = {w[i].seq : i \in 1..Len(w)}
  BY <1>1
<1> QED BY <1>1, <1>4, <1>6, <1>7 DEF a

LEMMA LastIs ==
  ASSUME NEW R, NEW w \in Seq(R), w # <<>>
  PROVE  Last(w) \in R
<1>1. Len(w) \in 1..Len(w)
  OBVIOUS
<1> QED BY <1>1, ElementOfSeq DEF Last

LEMMA NoWindowIs ==
  NoWindow \in [Signals -> Seq(ReadingType)] /\ \A s \in Signals : NoWindow[s] = <<>>
BY DEF NoWindow

LEMMA FlushedIs ==
  ASSUME window \in [Signals -> Seq(ReadingType)], NEW S \in SUBSET Signals
  PROVE  /\ Flushed(S) \in ReadingMap
         /\ DOMAIN Flushed(S) = {s \in S : window[s] # <<>>}
<1> DEFINE D == {s \in S : window[s] # <<>>}
<1>1. \A s \in D : Last(window[s]) \in ReadingType
  BY LastIs
<1>2. Flushed(S) = [s \in D |-> Last(window[s])]
  BY DEF Flushed
<1>3. Flushed(S) \in [D -> ReadingType] /\ D \in SUBSET Signals
  BY <1>1, <1>2
<1> QED BY <1>3, IsMap DEF ReadingMap

----------------------------------------------------------------------------
(* The verdicts of the watchdog.                                           *)

LEMMA PhaseIs ==
  ASSUME NEW u, NEW a \in Ages
  PROVE  PhaseOf(u, a) \in Phases
BY DEF PhaseOf, Ages, Phases

LEMMA QualityIs ==
  ASSUME NEW next \in Phases, NEW x \in Qualities
  PROVE  transition_quality(next, x) \in Qualities
BY DEF transition_quality, Phases, Qualities

LEMMA SyntheticIs ==
  ASSUME NEW next \in Phases, NEW h \in ReadingMap, NEW d
  PROVE  /\ Synthetic(next, h, d) \in ReadingMap
         /\ DOMAIN Synthetic(next, h, d) =
              IF next = phase THEN {} ELSE Moving(next, h, d)
         /\ DOMAIN Synthetic(next, h, d) \subseteq DOMAIN h
         /\ \A s \in DOMAIN Synthetic(next, h, d) :
              Synthetic(next, h, d)[s] =
                [h[s] EXCEPT !.q = transition_quality(next, h[s].q)]
<1> DEFINE D == IF next = phase THEN {} ELSE Moving(next, h, d)
           v(s) == [h[s] EXCEPT !.q = transition_quality(next, h[s].q)]
<1>1. DOMAIN h \subseteq Signals /\ h \in [DOMAIN h -> ReadingType]
  BY MapIs DEF ReadingMap
<1>2. D \subseteq DOMAIN h
  BY DEF Moving
<1>3. Synthetic(next, h, d) = [s \in D |-> v(s)]
  BY DEF Synthetic
<1>4. \A s \in D : v(s) \in ReadingType
  <2> SUFFICES ASSUME NEW s \in D PROVE v(s) \in ReadingType
    OBVIOUS
  <2>1. h[s] \in ReadingType
    BY <1>1, <1>2
  <2>2. transition_quality(next, h[s].q) \in Qualities
    BY <2>1, OwnQuality, QualityIs
  <2> QED BY <2>1, <2>2, NewQuality
<1> HIDE DEF D, v
<1>5. Synthetic(next, h, d) \in [D -> ReadingType] /\ D \in SUBSET Signals
  BY <1>1, <1>2, <1>3, <1>4
<1>6. Synthetic(next, h, d) \in ReadingMap /\ DOMAIN Synthetic(next, h, d) = D
  BY <1>5, IsMap DEF ReadingMap
<1> QED BY <1>2, <1>3, <1>6 DEF D, v

----------------------------------------------------------------------------
(* Type correctness.                                                       *)

LEMMA InitTyped == Init => TypeOK
<1> SUFFICES ASSUME Init PROVE TypeOK
  OBVIOUS
<1>1. Reading(1, Boot) \in ReadingType
  BY ReadingIs, BootTyped, BoundsNat
<1>2. EnvironmentTyped
  BY <1>1, BoundsNat DEF Init, EnvironmentTyped, Ages
<1>3. TaskTyped
  BY DEF Init, TaskTyped
<1>4. SessionTyped
  BY EmptySeq DEF Init, SessionTyped
<1>5. ShaperTyped
  BY NothingIsMap, NoWindowIs, BoundsNat DEF Init, ShaperTyped, EntryMap
<1>6. WatchdogTyped
  BY NothingIsMap DEF Init, WatchdogTyped, Phases, ReadingMap
<1>7. HistoryTyped
  BY NothingIsMap DEF Init, HistoryTyped, ReadingMap, NobodyOwed
<1> QED BY <1>2, <1>3, <1>4, <1>5, <1>6, <1>7 DEF TypeOK

LEMMA FlushTyped ==
  ASSUME TypeOK, NEW S \in SUBSET Signals, FlushAccounts(S)
  PROVE  flowed' \in ReadingMap /\ owed' \in [Signals -> SUBSET (1..MaxSeq)]
<1>1. Flushed(S) \in ReadingMap
  BY FlushedIs DEF TypeOK, ShaperTyped
<1>2. flowed' \in ReadingMap
  BY <1>1, OverIsMap DEF FlushAccounts, TypeOK, HistoryTyped, ReadingMap
<1>3. owed' \in [Signals -> SUBSET (1..MaxSeq)]
  BY DEF FlushAccounts, TypeOK, HistoryTyped
<1> QED BY <1>2, <1>3

LEMMA PublishedTyped ==
  ASSUME NEW u \in ReadingMap, NEW h \in ReadingMap, NEW d \in SUBSET DOMAIN h,
         on_published(u, h, d)
  PROVE  held' \in ReadingMap /\ degraded' \subseteq DOMAIN held'
<1>1. held' \in ReadingMap
  BY OverIsMap DEF on_published, ReadingMap
<1>2. DOMAIN held' = DOMAIN u \cup DOMAIN h
  BY OverIs DEF on_published
<1> QED BY <1>1, <1>2 DEF on_published

LEMMA DropTyped ==
  ASSUME TypeOK, NEW next \in {"down", "up", "stopped"}, Drop(next)
  PROVE  /\ EnvironmentTyped' /\ TaskTyped' /\ SessionTyped' /\ ShaperTyped'
         /\ WatchdogTyped' /\ offered' \in ReadingMap
<1>1. EnvironmentTyped'
  BY DEF Drop, TypeOK, EnvironmentTyped, environment, linkVars, configVars
<1>2. TaskTyped'
  BY DEF Drop, TypeOK, TaskTyped
<1>3. SessionTyped'
  BY EmptySeq DEF Drop, TypeOK, SessionTyped
<1>4. ShaperTyped'
  BY NothingIsMap, NoWindowIs DEF Drop, TypeOK, ShaperTyped, EntryMap
<1>5. WatchdogTyped' /\ offered' \in ReadingMap
  BY NothingIsMap DEF Drop, WatchdogTyped, Phases, ReadingMap
<1> QED BY <1>1, <1>2, <1>3, <1>4, <1>5

LEMMA FlushAndDropTyped ==
  ASSUME TypeOK, NEW next \in {"down", "up", "stopped"}, FlushAndDrop(next)
  PROVE  TypeOK'
<1>1. Drop(next) /\ FlushAccounts(Signals)
  BY DEF FlushAndDrop
<1>2. Flushed(Signals) \in ReadingMap
  BY FlushedIs DEF TypeOK, ShaperTyped
<1>3. shown' \in ReadingMap
  BY <1>2, OverIsMap DEF FlushAndDrop, TypeOK, HistoryTyped, ReadingMap
<1> QED BY <1>1, <1>3, DropTyped, FlushTyped DEF TypeOK, HistoryTyped

LEMMA LoseLinkTyped ==
  ASSUME TypeOK, LoseLink
  PROVE  TypeOK'
<1> DEFINE flushed == Flushed(Signals)
           h == Over(flushed, held)
           verdicts == Synthetic("Unreachable", h, degraded \ DOMAIN flushed)
<1>1. Drop("down") /\ FlushAccounts(Signals)
  BY DEF LoseLink
<1>2. flushed \in ReadingMap
  BY FlushedIs DEF TypeOK, ShaperTyped
<1>3. h \in ReadingMap
  BY <1>2, OverIsMap DEF TypeOK, WatchdogTyped, ReadingMap
<1>4. verdicts \in ReadingMap
  BY <1>3, SyntheticIs DEF Phases
<1>5. shown' = Over(verdicts, Over(flushed, shown))
  BY DEF LoseLink
<1> HIDE DEF flushed, h, verdicts
<1>6. shown' \in ReadingMap
  BY <1>2, <1>4, <1>5, OverIsMap DEF TypeOK, HistoryTyped, ReadingMap
<1> QED BY <1>1, <1>6, DropTyped, FlushTyped DEF TypeOK, HistoryTyped

\* What the environment leaves alone keeps its type.
LEMMA EnvironmentStepTyped ==
  ASSUME TypeOK, Environment
  PROVE  TypeOK'
<1> USE DEF linkVars, configVars, taskVars, shaperVars, holdVars, flowVars,
            taskAndBelow
<1>1. ASSUME UNCHANGED taskAndBelow
      PROVE  TaskTyped' /\ ShaperTyped' /\ WatchdogTyped' /\ HistoryTyped'
  <2>1. TaskTyped'
    BY <1>1 DEF TypeOK, TaskTyped
  <2>2. ShaperTyped' /\ WatchdogTyped'
    BY <1>1 DEF TypeOK, ShaperTyped, WatchdogTyped
  <2>3. HistoryTyped'
    BY <1>1 DEF TypeOK, HistoryTyped
  <2> QED BY <2>1, <2>2, <2>3
<1>2. ASSUME NEW event \in ReadingMap, UNCHANGED taskAndBelow,
             \/ critical' = Append(critical, event) /\ data' = data
             \/ data' = Append(data, event) /\ critical' = critical
      PROVE  SessionTyped'
  <2>1. batch' = batch /\ resynced' = resynced
    BY <1>2
  <2>2. /\ critical \in Seq(ReadingMap) /\ data \in Seq(ReadingMap)
        /\ batch \in Seq(ReadingMap) /\ resynced \in BOOLEAN
    BY DEF TypeOK, SessionTyped
  <2>3. Append(critical, event) \in Seq(ReadingMap) /\ Append(data, event) \in Seq(ReadingMap)
    BY <2>2, AppendProperties
  <2> QED BY <1>2, <2>1, <2>2, <2>3 DEF SessionTyped
<1>3. ASSUME UNCHANGED <<lanes, taskAndBelow>>
      PROVE  SessionTyped'
  BY <1>3 DEF TypeOK, SessionTyped, lanes
<1>4. ASSUME NEW s \in Signals, NEW c \in Contents, Observe(s, c)
      PROVE  TypeOK'
  <2> DEFINE r == Reading(latest[s].seq + 1, c)
             event == [t \in {s} |-> r]
  <2>1. latest[s].seq \in 1..MaxSeq /\ latest[s].seq < MaxSeq
    BY <1>4 DEF TypeOK, EnvironmentTyped, ReadingType, Observe
  <2>2. r \in ReadingType
    BY <2>1, ReadingIs, BoundsNat
  <2>3. event \in ReadingMap
    BY <2>2, IsMap DEF ReadingMap
  <2>4. data' = Append(data, event) \/ data' = data
    BY <1>4 DEF Observe
  <2>5. /\ latest' = [latest EXCEPT ![s] = r]
        /\ age' = "inside"
        /\ UNCHANGED <<connected, lapses, configVars, critical, taskAndBelow>>
    BY <1>4 DEF Observe
  <2> HIDE DEF r, event
  <2>6. EnvironmentTyped'
    BY <2>2, <2>5 DEF TypeOK, EnvironmentTyped, Ages
  <2>7. SessionTyped'
    BY <1>2, <1>3, <2>3, <2>4, <2>5 DEF lanes
  <2> QED BY <1>1, <2>5, <2>6, <2>7 DEF TypeOK
<1>5. CASE Snapshot
  <2>2. Baseline(latest) \in ReadingMap
    BY BaselineIs DEF TypeOK, EnvironmentTyped
  <2>3. /\ critical' = Append(critical, Baseline(latest)) /\ data' = data
        /\ UNCHANGED taskAndBelow
    BY <1>5 DEF Snapshot
  <2>4. EnvironmentTyped'
    BY <1>5 DEF Snapshot, TypeOK, EnvironmentTyped, Ages
  <2>5. SessionTyped'
    BY <1>2, <2>2, <2>3
  <2> QED BY <1>1, <2>3, <2>4, <2>5 DEF TypeOK
<1>6. ASSUME \/ Heartbeat \/ Silence \/ MarkDown \/ MarkUp \/ Reload
      PROVE  TypeOK'
  <2>1. UNCHANGED <<lanes, taskAndBelow>>
    BY <1>6 DEF Heartbeat, Silence, MarkDown, MarkUp, Reload
  <2>2. EnvironmentTyped'
    <3> USE BoundsNat DEF TypeOK, EnvironmentTyped, Ages
    <3>1. CASE Heartbeat
      BY <3>1 DEF Heartbeat
    <3>2. CASE Silence
      <4>1. lapses' \in 0..MaxLapses
        BY <3>2 DEF Silence, Lapse
      <4>2. age' \in Ages
        BY <3>2 DEF Silence
      <4> QED BY <3>2, <4>1, <4>2 DEF Silence
    <3>3. CASE MarkDown
      <4>1. lapses' \in 0..MaxLapses
        BY <3>3 DEF MarkDown, Lapse
      <4> QED BY <3>3, <4>1 DEF MarkDown
    <3>4. CASE MarkUp
      BY <3>4 DEF MarkUp
    <3>5. CASE Reload
      BY <3>5 DEF Reload
    <3> QED BY <1>6, <3>1, <3>2, <3>3, <3>4, <3>5
  <2> QED BY <1>1, <1>3, <2>1, <2>2 DEF TypeOK
<1> QED BY <1>4, <1>5, <1>6 DEF Environment

----------------------------------------------------------------------------
(* What offer makes of one event.                                          *)

LEMMA AcceptedIs ==
  ASSUME TypeOK, NEW e \in ReadingMap
  PROVE  /\ Accepted(e) \in SUBSET Signals /\ Waiting(e) \subseteq Accepted(e)
         /\ \A s \in Accepted(e) : e[s] \in ReadingType
<1>1. DOMAIN e \subseteq Signals /\ e \in [DOMAIN e -> ReadingType]
  BY MapIs DEF ReadingMap
<1> QED BY <1>1 DEF Accepted, Waiting

LEMMA EnterIs ==
  ASSUME TypeOK, NEW s \in Signals, NEW r \in ReadingType
  PROVE  /\ Enter(s, r) \in Seq(ReadingType) /\ Leftover(s) \in Seq(ReadingType)
         /\ UpdateOf(s, r) \in Seq(ReadingType) /\ UpdateOf(s, r) # <<>>
<1>1. window[s] \in Seq(ReadingType)
  BY DEF TypeOK, ShaperTyped
<1>2. Append(window[s], r) \in Seq(ReadingType) /\ Append(window[s], r) # <<>>
  BY <1>1, AppendProperties
<1>3. <<r>> \in Seq(ReadingType) /\ <<r>> # <<>> /\ <<>> \in Seq(ReadingType)
  OBVIOUS
<1> QED BY <1>1, <1>2, <1>3 DEF Enter, Leftover, UpdateOf

LEMMA UpdatesAre ==
  ASSUME TypeOK, NEW e \in ReadingMap
  PROVE  /\ DOMAIN Updates(e) = Accepted(e) \ Waiting(e)
         /\ DOMAIN Finals(e) = DOMAIN Updates(e)
         /\ Finals(e) \in ReadingMap
         /\ \A s \in DOMAIN Updates(e) : /\ Updates(e)[s] = UpdateOf(s, e[s])
                                         /\ Updates(e)[s] \in Seq(ReadingType)
<1> DEFINE D == Accepted(e) \ Waiting(e)
<1>1. D \in SUBSET Signals /\ \A s \in D : e[s] \in ReadingType
  BY AcceptedIs
<1>2. DOMAIN Updates(e) = D /\ \A s \in D : Updates(e)[s] = UpdateOf(s, e[s])
  BY DEF Updates
<1>3. \A s \in D : Updates(e)[s] \in Seq(ReadingType) /\ Updates(e)[s] # <<>>
  BY <1>1, <1>2, EnterIs
<1>4. \A s \in D : Last(Updates(e)[s]) \in ReadingType
  BY <1>3, LastIs
<1>5. Finals(e) = [s \in D |-> Last(Updates(e)[s])]
  BY <1>2 DEF Finals
<1> HIDE DEF D
<1>6. Finals(e) \in [D -> ReadingType]
  BY <1>4, <1>5
<1>7. Finals(e) \in ReadingMap /\ DOMAIN Finals(e) = D
  BY <1>1, <1>6, IsMap DEF ReadingMap
<1> QED BY <1>2, <1>3, <1>7 DEF D

LEMMA NotedIs ==
  ASSUME TypeOK, NEW e \in ReadingMap
  PROVE  Noted(e) \in EntryMap
<1> DEFINE D == {t \in Accepted(e) : Shaped(t)}
<1>1. D \in SUBSET Signals /\ \A s \in D : e[s] \in ReadingType
  BY AcceptedIs
<1>2. \A s \in DOMAIN entries : entries[s] \in EntryType
  BY MapIs DEF TypeOK, ShaperTyped, EntryMap
<1>3. \A s \in D : note_entry(s, e[s]) \in EntryType
  BY <1>1, <1>2 DEF note_entry, EntryType, ReadingType
<1>4. Noted(e) = [s \in D |-> note_entry(s, e[s])]
  BY DEF Noted
<1> HIDE DEF D
<1>5. Noted(e) \in [D -> EntryType]
  BY <1>3, <1>4
<1> QED BY <1>1, <1>5, IsMap DEF EntryMap

LEMMA EventIs ==
  ASSUME TypeOK, batch # <<>>
  PROVE  Head(batch) \in ReadingMap /\ Tail(batch) \in Seq(ReadingMap)
BY HeadTailProperties DEF TypeOK, SessionTyped

LEMMA OfferTyped ==
  ASSUME TypeOK, Offer
  PROVE  TypeOK'
<1> DEFINE e == Head(batch)
<1>1. e \in ReadingMap /\ batch' \in Seq(ReadingMap)
  BY EventIs DEF Offer
<1>2. /\ entries' = Over(Noted(e), entries)
      /\ window' = [s \in Signals |->
                      IF s \in Waiting(e) THEN Enter(s, e[s])
                      ELSE IF s \in DOMAIN Updates(e) THEN Leftover(s)
                      ELSE window[s]]
      /\ owed' = [s \in Signals |->
                    IF s \in Waiting(e) THEN Owing(s, e[s])
                    ELSE IF s \in DOMAIN Updates(e)
                    THEN owed[s] \ Numbers(Updates(e)[s])
                    ELSE owed[s]]
      /\ flowed' = Over(Finals(e), flowed)
      /\ offered' = Over(e, offered)
      /\ on_published(Finals(e), held, degraded)
      /\ shown' = Over(Finals(e), shown)
      /\ UNCHANGED <<environment, taskVars, sessionVars, shapingGen, phase>>
  BY DEF Offer
<1> HIDE DEF e
<1>3. Accepted(e) \in SUBSET Signals /\ Waiting(e) \subseteq Accepted(e)
  BY <1>1, AcceptedIs
<1>4. \A s \in Accepted(e) : e[s] \in ReadingType
  BY <1>1, AcceptedIs
<1>5. EnvironmentTyped' /\ TaskTyped'
  BY <1>2 DEF TypeOK, EnvironmentTyped, TaskTyped, environment, linkVars,
              configVars, taskVars
<1>6. SessionTyped'
  BY <1>1, <1>2 DEF TypeOK, SessionTyped, sessionVars, lanes
<1>7. ShaperTyped'
  <2>1. entries' \in EntryMap
    BY <1>1, <1>2, NotedIs, OverIsMap DEF TypeOK, ShaperTyped, EntryMap
  <2>2. \A s \in Waiting(e) : Enter(s, e[s]) \in Seq(ReadingType)
    BY <1>3, <1>4, EnterIs
  <2>3. DOMAIN Updates(e) \subseteq Accepted(e)
    BY <1>1, UpdatesAre
  <2>4. \A s \in DOMAIN Updates(e) : Leftover(s) \in Seq(ReadingType)
    BY <1>3, <1>4, <2>3, EnterIs
  <2>5. window' \in [Signals -> Seq(ReadingType)]
    BY <1>2, <2>2, <2>4 DEF TypeOK, ShaperTyped
  <2> QED BY <1>2, <2>1, <2>5 DEF TypeOK, ShaperTyped
<1>8. WatchdogTyped'
  <2>1. Finals(e) \in ReadingMap
    BY <1>1, UpdatesAre
  <2>2. held' \in ReadingMap /\ degraded' \subseteq DOMAIN held'
    BY <1>2, <2>1, PublishedTyped DEF TypeOK, WatchdogTyped
  <2> QED BY <1>2, <2>2 DEF TypeOK, WatchdogTyped
<1>9. HistoryTyped'
  <2>1. Finals(e) \in ReadingMap
    BY <1>1, UpdatesAre
  <2>2. shown' \in ReadingMap /\ flowed' \in ReadingMap /\ offered' \in ReadingMap
    BY <1>1, <1>2, <2>1, OverIsMap DEF TypeOK, HistoryTyped, ReadingMap
  <2>3. \A s \in Waiting(e) : e[s].seq \in 1..MaxSeq
    BY <1>3, <1>4 DEF ReadingType
  <2>4. owed' \in [Signals -> SUBSET (1..MaxSeq)]
    BY <1>2, <2>3 DEF TypeOK, HistoryTyped, Owing
  <2> QED BY <2>2, <2>4 DEF HistoryTyped
<1> QED BY <1>5, <1>6, <1>7, <1>8, <1>9 DEF TypeOK

----------------------------------------------------------------------------
(* The other steps of the task.                                            *)

LEMMA ConnectTyped ==
  ASSUME TypeOK, Connect
  PROVE  TypeOK'
<1> USE DEF environment, linkVars, configVars, sessionVars, lanes, holdVars
<1>1. EnvironmentTyped' /\ TaskTyped'
  BY DEF Connect, TypeOK, EnvironmentTyped, TaskTyped
<1>4. SessionTyped'
  <2>1. latest \in ReadingMap
    BY IsMap DEF TypeOK, EnvironmentTyped, ReadingMap
  <2>2. <<latest>> \in Seq(ReadingMap) /\ <<>> \in Seq(ReadingMap)
    BY <2>1
  <2>3. /\ data' = <<>> \/ data' = <<latest>>
        /\ UNCHANGED <<critical, resynced, batch>>
    BY DEF Connect
  <2> QED BY <2>2, <2>3 DEF TypeOK, SessionTyped
<1>2. ShaperTyped' /\ WatchdogTyped'
  BY DEF Connect, TypeOK, EnvironmentTyped, ShaperTyped, WatchdogTyped
<1>3. HistoryTyped'
  BY NothingIsMap DEF Connect, TypeOK, HistoryTyped, ReadingMap
<1> QED BY <1>1, <1>2, <1>3, <1>4 DEF TypeOK

LEMMA TickPausedTyped ==
  ASSUME TypeOK, TickPaused
  PROVE  TypeOK'
<1> USE DEF environment, linkVars, configVars, taskVars, shaperVars, holdVars,
            flowVars
<1>1. EnvironmentTyped' /\ TaskTyped'
  BY DEF TickPaused, TypeOK, EnvironmentTyped, TaskTyped
<1>2. SessionTyped'
  <2>1. /\ critical' \in Seq(ReadingMap) /\ data' \in Seq(ReadingMap)
        /\ batch' \in Seq(ReadingMap)
    BY EmptySeq DEF TickPaused, TypeOK, SessionTyped
  <2>2. resynced' \in BOOLEAN
    BY DEF TickPaused, TypeOK, SessionTyped
  <2> QED BY <2>1, <2>2 DEF SessionTyped
<1>3. ShaperTyped' /\ WatchdogTyped'
  BY DEF TickPaused, TypeOK, ShaperTyped, WatchdogTyped
<1>4. HistoryTyped'
  BY DEF TickPaused, TypeOK, HistoryTyped
<1> QED BY <1>1, <1>2, <1>3, <1>4 DEF TypeOK

LEMMA TickReadTyped ==
  ASSUME TypeOK, TickRead
  PROVE  TypeOK'
<1> DEFINE rebaselined == resynced \/ critical # <<>>
           h == IF rebaselined THEN Nothing ELSE held
           d == IF rebaselined THEN {} ELSE degraded
           flushed == Flushed(Superseded)
<1>1. Superseded \in SUBSET Signals
  BY DEF Superseded
<1>2. flushed \in ReadingMap
  BY <1>1, FlushedIs DEF TypeOK, ShaperTyped
<1>3. h \in ReadingMap /\ d \in SUBSET DOMAIN h
  BY NothingIsMap DEF TypeOK, WatchdogTyped, ReadingMap
<1>4. /\ critical' = <<>> /\ data' = <<>> /\ resynced' = FALSE
      /\ entries' = (IF rebaselined THEN Nothing ELSE entries)
      /\ phase' = (IF rebaselined THEN "Fresh" ELSE phase)
      /\ window' = [s \in Signals |->
                      IF s \in Superseded THEN <<>> ELSE window[s]]
      /\ shapingGen' = slotGen
      /\ FlushAccounts(Superseded)
      /\ on_published(flushed, h, d)
      /\ shown' = Over(flushed, shown)
      /\ batch' = critical \o data
      /\ pc' = "publish"
      /\ UNCHANGED <<environment, sess, paused, offered>>
  BY DEF TickRead
<1> HIDE DEF rebaselined, h, d, flushed
<1>5. EnvironmentTyped'
  BY <1>4 DEF TypeOK, EnvironmentTyped, environment, linkVars, configVars
<1>6. TaskTyped'
  BY <1>4 DEF TypeOK, TaskTyped
<1>7. SessionTyped'
  <2>1. critical \o data \in Seq(ReadingMap)
    BY ConcatProperties DEF TypeOK, SessionTyped
  <2> QED BY <1>4, <2>1, EmptySeq DEF SessionTyped
<1>8. ShaperTyped'
  <2>1. entries' \in EntryMap
    BY <1>4, NothingIsMap DEF TypeOK, ShaperTyped, EntryMap
  <2>2. window' \in [Signals -> Seq(ReadingType)]
    BY <1>4, EmptySeq DEF TypeOK, ShaperTyped
  <2> QED BY <1>4, <2>1, <2>2 DEF TypeOK, EnvironmentTyped, ShaperTyped
<1>9. WatchdogTyped'
  <2>1. held' \in ReadingMap /\ degraded' \subseteq DOMAIN held'
    BY <1>2, <1>3, <1>4, PublishedTyped
  <2>2. phase' \in Phases
    BY <1>4 DEF TypeOK, WatchdogTyped, Phases
  <2> QED BY <2>1, <2>2 DEF WatchdogTyped
<1>10. HistoryTyped'
  <2>1. flowed' \in ReadingMap /\ owed' \in [Signals -> SUBSET (1..MaxSeq)]
    BY <1>1, <1>4, FlushTyped
  <2>2. shown' \in ReadingMap
    BY <1>2, <1>4, OverIsMap DEF TypeOK, HistoryTyped, ReadingMap
  <2> QED BY <1>4, <2>1, <2>2 DEF TypeOK, HistoryTyped
<1> QED BY <1>5, <1>6, <1>7, <1>8, <1>9, <1>10 DEF TypeOK

LEMMA EvaluateTyped ==
  ASSUME TypeOK, Evaluate
  PROVE  TypeOK'
<1> DEFINE next == PhaseOf(~connected, age)
           synthetic == Synthetic(next, held, degraded)
<1>1. next \in Phases
  <2>1. age \in Ages
    BY DEF TypeOK, EnvironmentTyped
  <2> QED BY <2>1, PhaseIs
<1>2. /\ phase' = next /\ held' = held
      /\ shown' = Over(synthetic, shown)
      /\ degraded' = IF next = "Fresh" THEN degraded \ DOMAIN synthetic
                                       ELSE degraded \cup DOMAIN synthetic
      /\ pc' = "loop"
      /\ UNCHANGED <<environment, sess, paused, sessionVars, shaperVars, batch,
                     flowVars>>
  BY DEF Evaluate, evaluate
<1> HIDE DEF next
<1>3. synthetic \in ReadingMap /\ DOMAIN synthetic \subseteq DOMAIN held
  BY <1>1, SyntheticIs DEF TypeOK, WatchdogTyped
<1> HIDE DEF synthetic
<1> USE DEF environment, linkVars, configVars, sessionVars, lanes, shaperVars, flowVars
<1>4. EnvironmentTyped' /\ TaskTyped'
  BY <1>2 DEF TypeOK, EnvironmentTyped, TaskTyped
<1>5. SessionTyped' /\ ShaperTyped'
  BY <1>2 DEF TypeOK, SessionTyped, ShaperTyped
<1>6. WatchdogTyped'
  BY <1>1, <1>2, <1>3 DEF TypeOK, WatchdogTyped
<1>7. HistoryTyped'
  BY <1>2, <1>3, OverIsMap DEF TypeOK, HistoryTyped, ReadingMap
<1> QED BY <1>4, <1>5, <1>6, <1>7 DEF TypeOK

LEMMA DueTyped ==
  ASSUME TypeOK, NEW s \in Signals, Due(s)
  PROVE  TypeOK'
<1>1. Flushed({s}) \in ReadingMap
  BY FlushedIs DEF TypeOK, ShaperTyped
<1> USE DEF environment, linkVars, configVars, taskVars, sessionVars, lanes
<1>2. EnvironmentTyped' /\ TaskTyped' /\ SessionTyped'
  BY DEF Due, TypeOK, EnvironmentTyped, TaskTyped, SessionTyped
<1>3. ShaperTyped'
  BY EmptySeq DEF Due, TypeOK, ShaperTyped
<1>4. WatchdogTyped'
  <2>1. held' \in ReadingMap /\ degraded' \subseteq DOMAIN held'
    BY <1>1, PublishedTyped DEF Due, TypeOK, WatchdogTyped
  <2> QED BY <2>1 DEF Due, TypeOK, WatchdogTyped
<1>5. HistoryTyped'
  <2>1. flowed' \in ReadingMap /\ owed' \in [Signals -> SUBSET (1..MaxSeq)]
    BY FlushTyped DEF Due
  <2>2. shown' \in ReadingMap
    BY <1>1, OverIsMap DEF Due, TypeOK, HistoryTyped, ReadingMap
  <2> QED BY <2>1, <2>2 DEF Due, TypeOK, HistoryTyped
<1> QED BY <1>2, <1>3, <1>4, <1>5 DEF TypeOK

LEMMA SnapshotTyped ==
  ASSUME TypeOK, PublishSnapshot
  PROVE  /\ age' \in Ages /\ shown' \in ReadingMap
         /\ held' \in ReadingMap /\ degraded' \subseteq DOMAIN held'
<1>1. latest \in ReadingMap
  BY IsMap DEF TypeOK, EnvironmentTyped, ReadingMap
<1>2. held' \in ReadingMap /\ degraded' \subseteq DOMAIN held'
  BY <1>1, PublishedTyped DEF PublishSnapshot, TypeOK, WatchdogTyped
<1>3. shown' \in ReadingMap
  BY <1>1, OverIsMap DEF PublishSnapshot, TypeOK, HistoryTyped, ReadingMap
<1>4. age' \in Ages
  BY DEF PublishSnapshot, Ages
<1> QED BY <1>2, <1>3, <1>4

LEMMA ControlTyped ==
  ASSUME TypeOK,
         Pause \/ ResumeDown \/ Resume \/ ResumeEnd \/ Repoll \/ RepollAnswered
  PROVE  TypeOK'
<1> USE DEF environment, linkVars, configVars, sessionVars, lanes, shaperVars, holdVars,
            flowVars
<1>1. CASE Pause
  <2>1. EnvironmentTyped' /\ TaskTyped'
    BY <1>1 DEF Pause, TypeOK, EnvironmentTyped, TaskTyped
  <2>2. SessionTyped' /\ WatchdogTyped'
    BY <1>1 DEF Pause, TypeOK, SessionTyped, WatchdogTyped
  <2>3. ShaperTyped'
    BY <1>1, NoWindowIs DEF Pause, clear_buffers, TypeOK, ShaperTyped
  <2>4. HistoryTyped'
    BY <1>1, NothingIsMap DEF Pause, clear_buffers, TypeOK, HistoryTyped,
                              ReadingMap, NobodyOwed
  <2> QED BY <2>1, <2>2, <2>3, <2>4 DEF TypeOK
<1>2. CASE ResumeDown \/ Repoll
  <2>1. EnvironmentTyped' /\ TaskTyped'
    BY <1>2 DEF ResumeDown, Repoll, TypeOK, EnvironmentTyped, TaskTyped
  <2>2. SessionTyped' /\ WatchdogTyped'
    BY <1>2 DEF ResumeDown, Repoll, TypeOK, SessionTyped, WatchdogTyped
  <2>3. ShaperTyped' /\ HistoryTyped'
    BY <1>2 DEF ResumeDown, Repoll, TypeOK, ShaperTyped, HistoryTyped
  <2> QED BY <2>1, <2>2, <2>3 DEF TypeOK
<1>3. CASE Resume
  <2>1. EnvironmentTyped' /\ TaskTyped'
    BY <1>3 DEF Resume, TypeOK, EnvironmentTyped, TaskTyped
  <2>2. SessionTyped' /\ ShaperTyped' /\ HistoryTyped'
    BY <1>3 DEF Resume, TypeOK, SessionTyped, ShaperTyped, HistoryTyped
  <2>3. WatchdogTyped'
    BY <1>3, NothingIsMap DEF Resume, WatchdogTyped, Phases, ReadingMap
  <2> QED BY <2>1, <2>2, <2>3 DEF TypeOK
<1>4. CASE ResumeEnd \/ RepollAnswered
  <2>1. /\ age' \in Ages /\ shown' \in ReadingMap
        /\ held' \in ReadingMap /\ degraded' \subseteq DOMAIN held'
    <3>1. CASE PublishSnapshot
      BY <3>1, SnapshotTyped
    <3>2. CASE UNCHANGED <<age, held, degraded, shown>>
      BY <3>2 DEF TypeOK, EnvironmentTyped, WatchdogTyped, HistoryTyped
    <3> QED BY <1>4, <3>1, <3>2 DEF ResumeEnd, RepollAnswered
  <2>2. EnvironmentTyped' /\ TaskTyped'
    BY <1>4, <2>1 DEF ResumeEnd, RepollAnswered, TypeOK, EnvironmentTyped, TaskTyped
  <2>3. SessionTyped'
    BY <1>4 DEF ResumeEnd, RepollAnswered, TypeOK, SessionTyped
  <2>4. ShaperTyped'
    BY <1>4, NothingIsMap DEF ResumeEnd, RepollAnswered, TypeOK, ShaperTyped, EntryMap
  <2>5. WatchdogTyped' /\ HistoryTyped'
    BY <1>4, <2>1 DEF ResumeEnd, RepollAnswered, TypeOK, WatchdogTyped, HistoryTyped
  <2> QED BY <2>2, <2>3, <2>4, <2>5 DEF TypeOK
<1> QED BY <1>1, <1>2, <1>3, <1>4

LEMMA StutterTyped ==
  ASSUME TypeOK, UNCHANGED vars
  PROVE  TypeOK'
<1> USE DEF vars, linkVars, configVars, taskVars, sessionVars, lanes, shaperVars, holdVars,
            flowVars
<1>1. EnvironmentTyped' /\ TaskTyped' /\ SessionTyped'
  BY DEF TypeOK, EnvironmentTyped, TaskTyped, SessionTyped
<1>2. ShaperTyped' /\ WatchdogTyped' /\ HistoryTyped'
  BY DEF TypeOK, ShaperTyped, WatchdogTyped, HistoryTyped
<1> QED BY <1>1, <1>2 DEF TypeOK

LEMMA NextTyped == TypeOK /\ [Next]_vars => TypeOK'
<1> SUFFICES ASSUME TypeOK, [Next]_vars PROVE TypeOK'
  OBVIOUS
<1>1. CASE Environment
  BY <1>1, EnvironmentStepTyped
<1>2. CASE Connect
  BY <1>2, ConnectTyped
<1>3. CASE TickPaused
  BY <1>3, TickPausedTyped
<1>4. CASE TickRead
  BY <1>4, TickReadTyped
<1>5. CASE Offer
  BY <1>5, OfferTyped
<1>6. CASE Evaluate
  BY <1>6, EvaluateTyped
<1>7. ASSUME NEW s \in Signals, Due(s) PROVE TypeOK'
  BY <1>7, DueTyped
<1>8. CASE TickBroken \/ RepollFailed
  BY <1>8, LoseLinkTyped DEF TickBroken, RepollFailed
<1>9. CASE Reconnect \/ Stop
  BY <1>9, FlushAndDropTyped DEF Reconnect, Stop
<1>10. CASE Pause \/ ResumeDown \/ Resume \/ ResumeEnd \/ Repoll \/ RepollAnswered
  BY <1>10, ControlTyped
<1>11. CASE UNCHANGED vars
  BY <1>11, StutterTyped
<1> QED BY <1>1, <1>2, <1>3, <1>4, <1>5, <1>6, <1>7, <1>8, <1>9, <1>10, <1>11
        DEF Next, Task

\* The state of a device task keeps its type; what is degraded is held.
THEOREM TypeCorrect == Spec => []TypeOK
BY InitTyped, NextTyped, PTL DEF Spec

----------------------------------------------------------------------------
(* Where the windows are open, and what is owed for them.                  *)

\* Without a session nothing is buffered, held or under way.
Rested ==
  sess # "up" => /\ pc = "loop" /\ DOMAIN held = {}
                 /\ \A s \in Signals : window[s] = <<>>

\* While paused no window is open, and nothing is under way.
Hushed == paused => pc = "loop" /\ \A s \in Signals : window[s] = <<>>

\* A window is open only under a policy that has one.
Windowed ==
  \A s \in Signals : window[s] # <<>> => policy[shapingGen][s].window

Buffering == Rested /\ Hushed /\ Windowed /\ Accounted

LEMMA InitBuffers == Init => Buffering
<1> SUFFICES ASSUME Init PROVE Buffering
  OBVIOUS
<1>1. \A s \in Signals : window[s] = <<>> /\ owed[s] = {}
  BY DEF Init, NoWindow, NobodyOwed
<1> QED BY <1>1, NothingIsMap, NumbersOfNone
        DEF Init, Buffering, Rested, Hushed, Windowed, Accounted

LEMMA FlushAccounted ==
  ASSUME TypeOK, Accounted, NEW S \in SUBSET Signals, FlushAccounts(S)
  PROVE  \A s \in Signals : owed'[s] = IF s \in S THEN {} ELSE owed[s]
BY DEF FlushAccounts, Accounted, TypeOK, HistoryTyped

LEMMA DropBuffers ==
  ASSUME TypeOK, Buffering, NEW next, Drop(next), FlushAccounts(Signals)
  PROVE  Buffering'
<1>1. \A s \in Signals : window'[s] = <<>> /\ owed'[s] = {}
  BY FlushAccounted, NoWindowIs DEF Drop, Buffering
<1>2. pc' = "loop" /\ DOMAIN held' = {}
  BY NothingIsMap DEF Drop
<1> QED BY <1>1, <1>2, NumbersOfNone
        DEF Buffering, Rested, Hushed, Windowed, Accounted

LEMMA TickReadBuffers ==
  ASSUME TypeOK, Buffering, TickRead
  PROVE  Buffering'
<1>1. /\ sess = "up" /\ ~paused /\ sess' = sess /\ paused' = paused
      /\ shapingGen' = slotGen /\ policy' = policy
      /\ window' = [s \in Signals |-> IF s \in Superseded THEN <<>> ELSE window[s]]
      /\ FlushAccounts(Superseded)
  BY DEF TickRead, InLoop, environment, configVars
<1>2. Superseded \in SUBSET Signals
  BY DEF Superseded
<1>3. \A s \in Signals : owed'[s] = IF s \in Superseded THEN {} ELSE owed[s]
  BY <1>1, <1>2, FlushAccounted DEF Buffering
<1>4. Accounted'
  BY <1>1, <1>3, NumbersOfNone DEF Buffering, Accounted
<1>5. Windowed'
  <2> SUFFICES ASSUME NEW s \in Signals, window'[s] # <<>>
               PROVE  policy'[shapingGen'][s].window
    BY DEF Windowed
  <2>1. s \notin Superseded /\ window[s] # <<>>
    BY <1>1
  <2>2. SamePolicy(policy[shapingGen][s], policy[slotGen][s])
    BY <2>1 DEF Superseded
  <2>3. policy[shapingGen][s].window
    BY <2>1 DEF Buffering, Windowed
  <2> QED BY <1>1, <2>2, <2>3 DEF SamePolicy, is_trivial
<1> QED BY <1>1, <1>4, <1>5 DEF Buffering, Rested, Hushed

LEMMA OfferBuffers ==
  ASSUME TypeOK, Buffering, Offer
  PROVE  Buffering'
<1> DEFINE e == Head(batch)
<1>1. e \in ReadingMap /\ pc = "publish"
  BY EventIs DEF Offer
<1>2. /\ window' = [s \in Signals |->
                      IF s \in Waiting(e) THEN Enter(s, e[s])
                      ELSE IF s \in DOMAIN Updates(e) THEN Leftover(s)
                      ELSE window[s]]
      /\ owed' = [s \in Signals |->
                    IF s \in Waiting(e) THEN Owing(s, e[s])
                    ELSE IF s \in DOMAIN Updates(e)
                    THEN owed[s] \ Numbers(Updates(e)[s])
                    ELSE owed[s]]
      /\ policy' = policy /\ shapingGen' = shapingGen
      /\ sess' = sess /\ paused' = paused
  BY DEF Offer, environment, configVars, taskVars
<1> HIDE DEF e
<1>3. sess = "up" /\ ~paused
  BY <1>1 DEF Buffering, Rested, Hushed, TypeOK, TaskTyped
<1>4. Windowed' /\ Accounted'
  <2> SUFFICES ASSUME NEW s \in Signals
               PROVE  /\ window'[s] # <<>> => policy[shapingGen][s].window
                      /\ owed'[s] = Numbers(window'[s])
    BY <1>2 DEF Windowed, Accounted
  <2>1. /\ window[s] \in Seq(ReadingType) /\ owed[s] = Numbers(window[s])
        /\ window[s] # <<>> => policy[shapingGen][s].window
    BY DEF TypeOK, ShaperTyped, Buffering, Accounted, Windowed
  <2>2. CASE s \in Waiting(e)
    <3>1. e[s] \in ReadingType /\ policy[shapingGen][s].window
      BY <1>1, <2>2, AcceptedIs DEF Waiting, Waits
    <3>2. window'[s] = Enter(s, e[s]) /\ owed'[s] = Owing(s, e[s])
      BY <1>2, <2>2
    <3>3. Numbers(Enter(s, e[s])) = Owing(s, e[s])
      BY <2>1, <3>1, NumbersOfOne, NumbersOfAppend DEF Enter, Owing
    <3> QED BY <3>1, <3>2, <3>3
  <2>3. CASE s \in DOMAIN Updates(e)
    <3>1. /\ s \notin Waiting(e) /\ e[s] \in ReadingType
          /\ Updates(e)[s] = UpdateOf(s, e[s])
      BY <1>1, <2>3, AcceptedIs, UpdatesAre
    <3>2. window'[s] = Leftover(s) /\ owed'[s] = owed[s] \ Numbers(UpdateOf(s, e[s]))
      BY <1>2, <2>3, <3>1
    <3>3. CASE policy[shapingGen][s].window
      BY <2>1, <3>1, <3>2, <3>3, NumbersOfAppend, NumbersOfNone DEF UpdateOf, Leftover
    <3>4. CASE ~policy[shapingGen][s].window
      BY <2>1, <3>2, <3>4, NumbersOfNone DEF Leftover
    <3> QED BY <3>3, <3>4
  <2>4. CASE s \notin Waiting(e) /\ s \notin DOMAIN Updates(e)
    BY <1>2, <2>1, <2>4
  <2> QED BY <2>2, <2>3, <2>4
<1> QED BY <1>2, <1>3, <1>4 DEF Buffering, Rested, Hushed

LEMMA NextBuffers == TypeOK /\ Buffering /\ [Next]_vars => Buffering'
<1> SUFFICES ASSUME TypeOK, Buffering, [Next]_vars PROVE Buffering'
  OBVIOUS
<1> USE DEF environment, linkVars, configVars, taskVars, sessionVars, lanes, shaperVars,
            holdVars, flowVars
<1>1. ASSUME UNCHANGED <<sess, pc, paused, held, window, owed, policy, shapingGen>>
      PROVE  Buffering'
  BY <1>1 DEF Buffering, Rested, Hushed, Windowed, Accounted
<1>2. CASE Environment
  <2>1. UNCHANGED <<sess, pc, paused, held, window, owed, policy, shapingGen>>
    BY <1>2 DEF Environment, Observe, Snapshot, Heartbeat, Silence, MarkDown, MarkUp,
                Reload, taskAndBelow
  <2> QED BY <1>1, <2>1
<1>3. CASE Connect
  BY <1>3 DEF Connect, Buffering, Rested, Hushed, Windowed, Accounted
<1>4. CASE TickBroken \/ RepollFailed \/ Reconnect \/ Stop
  <2>1. FlushAccounts(Signals) /\ \E next \in {"down", "stopped"} : Drop(next)
    BY <1>4 DEF TickBroken, RepollFailed, LoseLink, Reconnect, Stop, FlushAndDrop
  <2> QED BY <2>1, DropBuffers
<1>5. CASE TickPaused
  BY <1>1, <1>5 DEF TickPaused
<1>6. CASE TickRead
  BY <1>6, TickReadBuffers
<1>7. CASE Offer
  BY <1>7, OfferBuffers
<1>8. CASE Evaluate
  <2>1. /\ pc' = "loop" /\ held' = held
        /\ UNCHANGED <<sess, paused, window, owed, policy, shapingGen>>
    BY <1>8 DEF Evaluate, evaluate
  <2> QED BY <2>1 DEF Buffering, Rested, Hushed, Windowed, Accounted
<1>9. ASSUME NEW s \in Signals, Due(s) PROVE Buffering'
  <2>1. /\ sess = "up" /\ window' = [window EXCEPT ![s] = <<>>]
        /\ UNCHANGED <<sess, pc, paused, policy, shapingGen>>
    BY <1>9 DEF Due, InLoop
  <2>2. \A t \in Signals : owed'[t] = IF t = s THEN {} ELSE owed[t]
    BY <1>9, FlushAccounted DEF Due, Buffering
  <2>3. \A t \in Signals : window'[t] = IF t = s THEN <<>> ELSE window[t]
    BY <2>1 DEF TypeOK, ShaperTyped
  <2> QED BY <2>1, <2>2, <2>3, NumbersOfNone
          DEF Buffering, Rested, Hushed, Windowed, Accounted
<1>10. CASE Pause
  <2>1. \A s \in Signals : window'[s] = <<>> /\ owed'[s] = {}
    BY <1>10, NoWindowIs DEF Pause, clear_buffers, NobodyOwed
  <2>2. pc' = "loop" /\ held' = held /\ sess' = sess
    BY <1>10 DEF Pause
  <2> QED BY <2>1, <2>2, NumbersOfNone
          DEF Buffering, Rested, Hushed, Windowed, Accounted
<1>11. CASE ResumeDown
  BY <1>11 DEF ResumeDown, Buffering, Rested, Hushed, Windowed, Accounted
<1>12. CASE Resume \/ ResumeEnd \/ Repoll \/ RepollAnswered
  <2>1. /\ sess = "up" /\ sess' = sess /\ ~paused'
        /\ UNCHANGED <<window, owed, policy, shapingGen>>
    BY <1>12 DEF Resume, ResumeEnd, Repoll, RepollAnswered, InLoop, Buffering, Rested,
                 Hushed, TypeOK, TaskTyped
  <2> QED BY <2>1 DEF Buffering, Rested, Hushed, Windowed, Accounted
<1>13. CASE UNCHANGED vars
  BY <1>1, <1>13 DEF vars
<1> QED BY <1>2, <1>3, <1>4, <1>5, <1>6, <1>7, <1>8, <1>9, <1>10, <1>11, <1>12, <1>13
        DEF Next, Task

\* Every reading given to the shaper is published, superseded, suppressed,
\* discarded by a pause, or still in its window: no exit from the poll loop
\* and no change of policy loses one (driver.rs flush_open_windows).
THEOREM NothingBufferedIsLost == Spec => []Accounted
<1>1. TypeOK /\ Buffering /\ [Next]_vars => (TypeOK /\ Buffering)'
  BY NextTyped, NextBuffers
<1>2. Buffering => Accounted
  BY DEF Buffering
<1> QED BY <1>1, <1>2, InitTyped, InitBuffers, PTL DEF Spec

----------------------------------------------------------------------------
(* What the watchdog holds, and what the fleet sees.                       *)

\* The fleet sees of everything held the held verdict, or the phase's.
Agrees(h, d, p, sh) ==
  \A s \in DOMAIN h :
    /\ s \in DOMAIN sh
    /\ sh[s] = IF s \in d THEN [h[s] EXCEPT !.q = transition_quality(p, h[s].q)]
                          ELSE h[s]

Seen == Agrees(held, degraded, phase, shown)

LEMMA PublishAgrees ==
  ASSUME NEW u, NEW h, NEW d, Agrees(h, d, phase', shown),
         on_published(u, h, d), shown' = Over(u, shown)
  PROVE  Seen'
<1>1. /\ held' = Over(u, h) /\ degraded' = d \ DOMAIN u
  BY DEF on_published
<1>2. /\ DOMAIN held' = DOMAIN u \cup DOMAIN h
      /\ \A s \in DOMAIN u : held'[s] = u[s]
      /\ \A s \in DOMAIN h : s \notin DOMAIN u => held'[s] = h[s]
  BY <1>1 DEF Over
<1>3. /\ DOMAIN shown' = DOMAIN u \cup DOMAIN shown
      /\ \A s \in DOMAIN u : shown'[s] = u[s]
      /\ \A s \in DOMAIN shown : s \notin DOMAIN u => shown'[s] = shown[s]
  BY DEF Over
<1> SUFFICES ASSUME NEW s \in DOMAIN held'
             PROVE  /\ s \in DOMAIN shown'
                    /\ shown'[s] =
                         IF s \in degraded'
                         THEN [held'[s] EXCEPT
                                !.q = transition_quality(phase', held'[s].q)]
                         ELSE held'[s]
  BY DEF Seen, Agrees
<1>4. CASE s \in DOMAIN u
  <2>1. held'[s] = u[s] /\ s \in DOMAIN shown' /\ shown'[s] = u[s]
    BY <1>2, <1>4, <1>3
  <2>2. s \notin degraded'
    BY <1>1, <1>4
  <2> QED BY <2>1, <2>2
<1>5. CASE s \notin DOMAIN u
  <2>1. s \in DOMAIN h /\ held'[s] = h[s]
    BY <1>2, <1>5
  <2>2. s \in DOMAIN shown' /\ shown'[s] = shown[s]
    BY <1>5, <1>3, <2>1 DEF Agrees
  <2>3. s \in degraded' <=> s \in d
    BY <1>1, <1>5
  <2> QED BY <2>1, <2>2, <2>3 DEF Agrees
<1> QED BY <1>4, <1>5

LEMMA BadStaysBad ==
  ASSUME NEW p \in Phases
  PROVE  transition_quality(p, "BAD") = "BAD"
BY DEF transition_quality, Phases

\* A transition speaks for the held signals it moves, and the others are BAD
\* already or were not degraded.
LEMMA EvaluateAgrees ==
  ASSUME TypeOK, Seen, NEW next \in Phases, evaluate(next)
  PROVE  Seen'
<1> DEFINE synthetic == Synthetic(next, held, degraded)
<1>1. /\ phase' = next /\ held' = held /\ shown' = Over(synthetic, shown)
      /\ degraded' = IF next = "Fresh" THEN degraded \ DOMAIN synthetic
                                       ELSE degraded \cup DOMAIN synthetic
  BY DEF evaluate
<1>2. /\ DOMAIN synthetic = IF next = phase THEN {} ELSE Moving(next, held, degraded)
      /\ DOMAIN synthetic \subseteq DOMAIN held
      /\ \A s \in DOMAIN synthetic :
           synthetic[s] = [held[s] EXCEPT !.q = transition_quality(next, held[s].q)]
  BY SyntheticIs DEF TypeOK, WatchdogTyped
<1> HIDE DEF synthetic
<1> SUFFICES ASSUME NEW s \in DOMAIN held
             PROVE  /\ s \in DOMAIN shown'
                    /\ shown'[s] =
                         IF s \in degraded'
                         THEN [held[s] EXCEPT
                                !.q = transition_quality(next, held[s].q)]
                         ELSE held[s]
  BY <1>1 DEF Seen, Agrees
<1>3. held[s] \in ReadingType
  BY MapIs DEF TypeOK, WatchdogTyped, ReadingMap
<1>4. /\ s \in DOMAIN shown
      /\ shown[s] = IF s \in degraded
                    THEN [held[s] EXCEPT !.q = transition_quality(phase, held[s].q)]
                    ELSE held[s]
  BY DEF Seen, Agrees
<1>5. /\ DOMAIN shown' = DOMAIN synthetic \cup DOMAIN shown
      /\ \A t \in DOMAIN synthetic : shown'[t] = synthetic[t]
      /\ \A t \in DOMAIN shown : t \notin DOMAIN synthetic => shown'[t] = shown[t]
  BY <1>1 DEF Over
<1>6. s \in DOMAIN shown'
  BY <1>4, <1>5
<1>7. CASE s \in DOMAIN synthetic
  <2>1. shown'[s] = [held[s] EXCEPT !.q = transition_quality(next, held[s].q)]
    BY <1>2, <1>7, <1>5
  <2>2. CASE next = "Fresh"
    <3>1. s \notin degraded'
      BY <1>1, <1>7, <2>2
    <3>2. transition_quality(next, held[s].q) = held[s].q
      BY <2>2 DEF transition_quality
    <3> QED BY <1>3, <1>6, <2>1, <3>1, <3>2, OwnQuality
  <2>3. CASE next # "Fresh"
    BY <1>1, <1>6, <1>7, <2>1, <2>3
  <2> QED BY <2>2, <2>3
<1>8. CASE s \notin DOMAIN synthetic
  <2>1. shown'[s] = shown[s] /\ (s \in degraded' <=> s \in degraded)
    BY <1>1, <1>4, <1>8, <1>5
  <2>2. CASE next = phase
    BY <1>4, <1>6, <2>1, <2>2
  <2>3. CASE s \notin degraded
    BY <1>4, <1>6, <2>1, <2>3
  <2>4. CASE next # phase /\ s \in degraded
    <3>1. held[s].q = "BAD"
      BY <1>2, <1>8, <2>4 DEF Moving
    <3>2. transition_quality(phase, held[s].q) = transition_quality(next, held[s].q)
      BY <3>1, BadStaysBad DEF TypeOK, WatchdogTyped
    <3> QED BY <1>4, <1>6, <2>1, <2>4, <3>2
  <2> QED BY <2>2, <2>3, <2>4
<1> QED BY <1>7, <1>8

LEMMA NothingHeldAgrees ==
  ASSUME NEW h, DOMAIN h = {}, NEW d, NEW p, NEW sh
  PROVE  Agrees(h, d, p, sh)
BY DEF Agrees

LEMMA NextSeen == TypeOK /\ Rested /\ Seen /\ [Next]_vars => Seen'
<1> SUFFICES ASSUME TypeOK, Rested, Seen, [Next]_vars PROVE Seen'
  OBVIOUS
<1>1. ASSUME UNCHANGED <<held, degraded, phase, shown>>
      PROVE  Seen'
  BY <1>1 DEF Seen, Agrees
<1>2. ASSUME held' = Nothing PROVE Seen'
  BY <1>2, NothingIsMap, NothingHeldAgrees DEF Seen
<1>3. CASE Environment
  <2>1. UNCHANGED <<held, degraded, phase, shown>>
    BY <1>3 DEF Environment, Observe, Snapshot, Heartbeat, Silence, MarkDown, MarkUp,
                Reload, taskAndBelow, holdVars
  <2> QED BY <1>1, <2>1
<1>4. CASE Connect
  <2>1. held' = held /\ DOMAIN held = {}
    BY <1>4 DEF Connect, Rested, holdVars
  <2> QED BY <2>1, NothingHeldAgrees DEF Seen
<1>5. CASE TickBroken \/ RepollFailed \/ Reconnect \/ Stop
  BY <1>2, <1>5 DEF TickBroken, RepollFailed, LoseLink, Reconnect, Stop, FlushAndDrop,
                    Drop
<1>6. CASE TickPaused \/ Pause \/ ResumeDown \/ Repoll
  BY <1>1, <1>6 DEF TickPaused, Pause, ResumeDown, Repoll, holdVars
<1>7. CASE TickRead
  <2> DEFINE rebaselined == resynced \/ critical # <<>>
             h == IF rebaselined THEN Nothing ELSE held
             d == IF rebaselined THEN {} ELSE degraded
  <2>1. /\ phase' = (IF rebaselined THEN "Fresh" ELSE phase)
        /\ on_published(Flushed(Superseded), h, d)
        /\ shown' = Over(Flushed(Superseded), shown)
    BY <1>7 DEF TickRead
  <2>2. Agrees(h, d, phase', shown)
    BY <2>1, NothingIsMap, NothingHeldAgrees DEF Seen
  <2> HIDE DEF rebaselined, h, d
  <2> QED BY <2>1, <2>2, PublishAgrees
<1>8. CASE Offer
  BY <1>8, PublishAgrees DEF Offer, Seen
<1>9. CASE Evaluate
  <2>1. PhaseOf(~connected, age) \in Phases
    BY PhaseIs DEF TypeOK, EnvironmentTyped
  <2> QED BY <1>9, <2>1, EvaluateAgrees DEF Evaluate
<1>10. ASSUME NEW s \in Signals, Due(s) PROVE Seen'
  BY <1>10, PublishAgrees DEF Due, Seen
<1>11. CASE Resume
  BY <1>2, <1>11 DEF Resume
<1>12. CASE ResumeEnd \/ RepollAnswered
  <2>1. phase' = phase
    BY <1>12 DEF ResumeEnd, RepollAnswered
  <2>2. CASE PublishSnapshot
    BY <2>1, <2>2, PublishAgrees DEF PublishSnapshot, Seen
  <2>3. CASE UNCHANGED <<age, held, degraded, shown>>
    BY <1>1, <2>1, <2>3
  <2> QED BY <1>12, <2>2, <2>3 DEF ResumeEnd, RepollAnswered
<1>13. CASE UNCHANGED vars
  BY <1>1, <1>13 DEF vars, holdVars
<1> QED BY <1>3, <1>4, <1>5, <1>6, <1>7, <1>8, <1>9, <1>10, <1>11, <1>12, <1>13
        DEF Next, Task

\* The inductive invariant of the task.
Sound == TypeOK /\ Buffering /\ Seen

LEMMA InitSound == Init => Sound
<1> SUFFICES ASSUME Init PROVE Sound
  OBVIOUS
<1>1. Seen
  BY NothingIsMap, NothingHeldAgrees DEF Init, Seen
<1> QED BY <1>1, InitTyped, InitBuffers DEF Sound

LEMMA NextSound == Sound /\ [Next]_vars => Sound'
<1>1. Buffering => Rested
  BY DEF Buffering
<1> QED BY <1>1, NextTyped, NextBuffers, NextSeen DEF Sound

\* What the watchdog believes the fleet sees is what it sees: recovery
\* restores the held verdict verbatim (staleness.rs transition_quality).
THEOREM FleetSeesWhatIsHeld == Spec => []ShownIsHeld
<1>1. Sound => ShownIsHeld
  BY DEF Sound, Seen, Agrees, ShownIsHeld
<1> QED BY <1>1, InitSound, NextSound, PTL DEF Spec

----------------------------------------------------------------------------
(* What a pause and the loss of the link do.                               *)

LEMMA OverNothing ==
  ASSUME NEW R, NEW f, DOMAIN f = {}, NEW g \in MapsTo(R)
  PROVE  Over(f, g) = g
<1>1. g = [s \in DOMAIN g |-> g[s]]
  BY MapIs
<1>2. Over(f, g) = [s \in DOMAIN g |-> g[s]]
  BY DEF Over
<1> QED BY <1>1, <1>2

\* The verdicts on a lost link: everything held that is not BAD yet.
LEMMA LossVerdicts ==
  ASSUME TypeOK, LoseLink
  PROVE  \E h \in ReadingMap, v \in ReadingMap :
           /\ h = Over(Flushed(Signals), held)
           /\ shown' = Over(v, Over(Flushed(Signals), shown))
           /\ DOMAIN v \subseteq DOMAIN h
           /\ phase # "Unreachable" =>
                \A s \in DOMAIN h : h[s].q # "BAD" => s \in DOMAIN v
           /\ \A s \in DOMAIN v : v[s] = [h[s] EXCEPT !.q = "BAD"]
<1> DEFINE f == Flushed(Signals)
           h == Over(f, held)
           d == degraded \ DOMAIN f
           v == Synthetic("Unreachable", h, d)
<1>1. shown' = Over(v, Over(f, shown))
  BY DEF LoseLink
<1>2. f \in ReadingMap
  BY FlushedIs DEF TypeOK, ShaperTyped
<1>3. h \in ReadingMap
  BY <1>2, OverIsMap DEF TypeOK, WatchdogTyped, ReadingMap
<1> HIDE DEF f, h, d
<1>4. /\ v \in ReadingMap /\ DOMAIN v \subseteq DOMAIN h
      /\ DOMAIN v = IF "Unreachable" = phase THEN {} ELSE Moving("Unreachable", h, d)
      /\ \A s \in DOMAIN v :
           v[s] = [h[s] EXCEPT !.q = transition_quality("Unreachable", h[s].q)]
  BY <1>3, SyntheticIs DEF Phases
<1> HIDE DEF v
<1>5. \A s \in DOMAIN v : v[s] = [h[s] EXCEPT !.q = "BAD"]
  BY <1>4 DEF transition_quality
<1>6. phase # "Unreachable" => \A s \in DOMAIN h : h[s].q # "BAD" => s \in DOMAIN v
  BY <1>4 DEF Moving
<1> QED BY <1>1, <1>3, <1>4, <1>5, <1>6 DEF f, h

\* With every window empty there is nothing to flush.
LEMMA NothingToFlush ==
  ASSUME TypeOK, \A s \in Signals : window[s] = <<>>
  PROVE  /\ Over(Flushed(Signals), held) = held
         /\ Over(Flushed(Signals), shown) = shown
         /\ Over(Flushed(Signals), flowed) = flowed
<1>1. DOMAIN Flushed(Signals) = {}
  BY FlushedIs DEF TypeOK, ShaperTyped
<1> QED BY <1>1, OverNothing
        DEF TypeOK, WatchdogTyped, HistoryTyped, ReadingMap

\* Losing the link in a pause changes verdicts only.
LEMMA QuietLoss ==
  ASSUME Sound, LoseLink, \A s \in Signals : window[s] = <<>>
  PROVE  /\ flowed' = flowed /\ DOMAIN shown' = DOMAIN shown
         /\ \A s \in DOMAIN shown' :
              shown'[s] \in {shown[s], [shown[s] EXCEPT !.q = "BAD"]}
<1> USE DEF Sound
<1>1. PICK v \in ReadingMap :
        /\ shown' = Over(v, shown)
        /\ DOMAIN v \subseteq DOMAIN held
        /\ \A s \in DOMAIN v : v[s] = [held[s] EXCEPT !.q = "BAD"]
  BY LossVerdicts, NothingToFlush
<1>2. flowed' = flowed
  BY NothingToFlush DEF LoseLink, FlushAccounts
<1>3. /\ DOMAIN shown' = DOMAIN v \cup DOMAIN shown
      /\ \A s \in DOMAIN v : shown'[s] = v[s]
      /\ \A s \in DOMAIN shown : s \notin DOMAIN v => shown'[s] = shown[s]
  BY <1>1 DEF Over
<1>4. DOMAIN shown' = DOMAIN shown
  BY <1>1, <1>3 DEF Seen, Agrees
<1>5. ASSUME NEW s \in DOMAIN v
      PROVE  shown'[s] = [shown[s] EXCEPT !.q = "BAD"]
  <2>1. /\ shown[s] = IF s \in degraded
                      THEN [held[s] EXCEPT !.q = transition_quality(phase, held[s].q)]
                      ELSE held[s]
        /\ shown'[s] = [held[s] EXCEPT !.q = "BAD"]
    BY <1>1, <1>3, <1>5 DEF Seen, Agrees
  <2>2. held[s] \in ReadingType
    BY <1>1, <1>5, MapIs DEF TypeOK, WatchdogTyped, ReadingMap
  <2> QED BY <2>1, <2>2 DEF ReadingType
<1> QED BY <1>2, <1>3, <1>4, <1>5

LEMMA StepIsSilent ==
  ASSUME Sound, [Next]_vars, paused, sess = "up"
  PROVE  /\ flowed' = flowed /\ DOMAIN shown' = DOMAIN shown
         /\ \A s \in DOMAIN shown' :
              shown'[s] \in {shown[s], [shown[s] EXCEPT !.q = "BAD"]}
<1>1. pc = "loop" /\ \A s \in Signals : window[s] = <<>>
  BY DEF Sound, Buffering, Hushed
<1>2. ASSUME flowed' = flowed, shown' = shown
      PROVE  /\ flowed' = flowed /\ DOMAIN shown' = DOMAIN shown
             /\ \A s \in DOMAIN shown' :
                  shown'[s] \in {shown[s], [shown[s] EXCEPT !.q = "BAD"]}
  BY <1>2
<1>3. CASE Environment \/ TickPaused \/ Resume \/ UNCHANGED vars
  <2>1. flowed' = flowed /\ shown' = shown
    BY <1>3 DEF Environment, Observe, Snapshot, Heartbeat, Silence, MarkDown, MarkUp,
                Reload, taskAndBelow, TickPaused, Resume, flowVars, vars
  <2> QED BY <1>2, <2>1
<1>4. CASE TickBroken \/ RepollFailed
  BY <1>1, <1>4, QuietLoss DEF TickBroken, RepollFailed
<1>5. CASE Reconnect \/ Stop
  <2>1. flowed' = flowed /\ shown' = shown
    BY <1>1, <1>5, NothingToFlush
       DEF Reconnect, Stop, FlushAndDrop, FlushAccounts, Sound
  <2> QED BY <1>2, <2>1
<1>6. ~(\E s \in Signals : Due(s))
  BY <1>1 DEF Due
<1>7. ~(\/ Connect \/ TickRead \/ Offer \/ Evaluate \/ Pause \/ ResumeDown
        \/ ResumeEnd \/ Repoll \/ RepollAnswered)
  BY <1>1 DEF Connect, TickRead, Offer, Evaluate, Pause, ResumeDown, ResumeEnd,
              Repoll, RepollAnswered
<1> QED BY <1>3, <1>4, <1>5, <1>6, <1>7 DEF Next, Task

\* While an instance is paused no reading reaches the wire, and of what the
\* fleet sees only a lost link's verdict changes (driver.rs run_polling, the
\* pause semantics).
THEOREM PauseIsSilent == Spec => PausedGate
<1>1. Sound /\ [Next]_vars =>
        [paused /\ sess = "up" =>
           /\ flowed' = flowed
           /\ DOMAIN shown' = DOMAIN shown
           /\ \A s \in DOMAIN shown' :
                shown'[s] \in {shown[s], [shown[s] EXCEPT !.q = "BAD"]}]_vars
  BY StepIsSilent
<1> QED BY <1>1, InitSound, NextSound, PTL DEF Spec, PausedGate

LEMMA LossBlames ==
  ASSUME Sound, LoseLink, phase # "Unreachable", NEW s \in DOMAIN held
  PROVE  shown'[s].q = "BAD"
<1> USE DEF Sound
<1>1. PICK h \in ReadingMap, v \in ReadingMap :
        /\ h = Over(Flushed(Signals), held)
        /\ shown' = Over(v, Over(Flushed(Signals), shown))
        /\ \A t \in DOMAIN h : h[t].q # "BAD" => t \in DOMAIN v
        /\ \A t \in DOMAIN v : v[t] = [h[t] EXCEPT !.q = "BAD"]
        /\ DOMAIN v \subseteq DOMAIN h
  BY LossVerdicts
<1> DEFINE f == Flushed(Signals)
<1>2. s \in DOMAIN shown /\ (held[s].q = "BAD" => shown[s].q = "BAD")
  <2>1. /\ s \in DOMAIN shown
        /\ shown[s] = IF s \in degraded
                      THEN [held[s] EXCEPT !.q = transition_quality(phase, held[s].q)]
                      ELSE held[s]
    BY DEF Seen, Agrees
  <2>2. held[s] \in ReadingType
    BY MapIs DEF TypeOK, WatchdogTyped, ReadingMap
  <2>3. transition_quality(phase, "BAD") = "BAD"
    BY BadStaysBad DEF TypeOK, WatchdogTyped
  <2> QED BY <2>1, <2>2, <2>3 DEF ReadingType
<1>3. s \in DOMAIN h /\ h[s] = IF s \in DOMAIN f THEN f[s] ELSE held[s]
  BY <1>1 DEF Over
<1>4. /\ s \in DOMAIN v => shown'[s] = v[s]
      /\ s \notin DOMAIN v =>
           shown'[s] = IF s \in DOMAIN f THEN f[s] ELSE shown[s]
  BY <1>1, <1>2 DEF Over
<1> HIDE DEF f
<1>5. CASE s \in DOMAIN v
  <2>1. h[s] \in ReadingType
    BY <1>3, MapIs DEF ReadingMap
  <2> QED BY <1>1, <1>4, <1>5, <2>1 DEF ReadingType
<1>6. CASE s \notin DOMAIN v
  <2>1. h[s].q = "BAD"
    BY <1>1, <1>3, <1>6
  <2> QED BY <1>2, <1>3, <1>4, <1>6, <2>1
<1> QED BY <1>5, <1>6

\* A session that dies with its link leaves everything it held BAD, unless
\* the link had been judged unreachable before (driver.rs lost_link).
THEOREM LossIsShown == Spec => LossShowsBad
<1>1. Sound /\ [Next]_vars =>
        [TickBroken \/ RepollFailed =>
           \A s \in DOMAIN held :
             phase # "Unreachable" => shown'[s].q = "BAD"]_vars
  BY LossBlames DEF TickBroken, RepollFailed
<1> QED BY <1>1, InitSound, NextSound, PTL DEF Spec, LossShowsBad

----------------------------------------------------------------------------
(* The order of the flow, from the agent to the wire.                      *)

\* What the events of a queue say of a signal.
Told(q, s) == {q[i][s] : i \in {j \in 1..Len(q) : s \in DOMAIN q[j]}}

\* What went out last.
Flown(s) == {flowed[t] : t \in {s} \cap DOMAIN flowed}

\* The readings of a window.
In(w) == {w[i] : i \in 1..Len(w)}

\* What the shaper has let in: it went out, or is in the signal's window.
Past(s) == Flown(s) \cup In(window[s])

\* What is in the two lanes of the session.
Waited(s) == Told(critical, s) \cup Told(data, s)

\* B comes after A, but for what a Snapshot of A overtook.
Ahead(A, B) == \A a \in A, b \in B : Follows(b, a)

\* Nothing of B is older than anything of A.
Older(A, B) == \A a \in A, b \in B : a.seq <= b.seq

\* The events of a queue never go back, but to what a Snapshot overtook.
Rising(q, s) ==
  \A i, j \in 1..Len(q) :
    i < j /\ s \in DOMAIN q[i] /\ s \in DOMAIN q[j] => Follows(q[j][s], q[i][s])

Climbing(w) == \A i, j \in 1..Len(w) : i < j => Follows(w[j], w[i])

\* One lane brings Snapshots only, the other what each observation said.
Sorted(s) ==
  /\ \A r \in Told(critical, s) : r.snap
  /\ \A r \in Told(data, s) \cup {latest[s]} : ~r.snap
  /\ Rising(critical, s) /\ Rising(data, s)

\* A signal's readings stand in line: out, in its window, in the batch of the
\* tick, in the session's lanes, at the agent.
InLine(s) ==
  /\ Climbing(window[s])
  /\ Ahead(Flown(s), In(window[s]))
  /\ Ahead(Past(s), Told(batch, s))
  /\ Rising(batch, s)
  /\ Sorted(s)
  /\ Older(Past(s) \cup Told(batch, s), Waited(s))
  /\ Older(Past(s) \cup Told(batch, s) \cup Waited(s), {latest[s]})

Lined == \A s \in Signals : InLine(s)

----------------------------------------------------------------------------
(* How far the flow may be from what was read.                             *)

\* A signal whose policy shaped it once and stopped gets no deadband again.
DeadbandsStand ==
  \A s \in Signals : \A g, h, i \in 0..MaxGen :
    g < h /\ h < i /\ ~is_trivial(policy[g][s]) /\ is_trivial(policy[h][s]) =>
      ~policy[i][s].deadband

\* What the flow of a signal comes to: the end of its window, or what went out.
HasEnd(s) == window[s] # <<>> \/ s \in DOMAIN flowed
End(s) == IF window[s] # <<>> THEN Last(window[s]) ELSE flowed[s]

\* An anchor is what the flow came to, or what it was the last time it came to
\* a number.
Anchored(s) ==
  /\ HasEnd(s)
  /\ End(s).q = entries[s].q
  /\ End(s).val = entries[s].val \/ End(s).val = NoValue

\* No deadband reads the anchor now, nor after any reload.
NoBandAhead(s) == \A g \in shapingGen..MaxGen : ~policy[g][s].deadband

\* Once shaped: some generation up to the present one had a policy of its own.
OnceShaped(s) == \E g \in 0..shapingGen : ~is_trivial(policy[g][s])

AnchorsHold ==
  \A s \in DOMAIN entries :
    /\ OnceShaped(s)
    /\ ~paused /\ pc # "resume" => Anchored(s) \/ NoBandAhead(s)

Tracks(r, o) ==
  \/ r = o
  \/ r.q = o.q /\ (Near(r.val, o.val) \/ r.val = NoValue)

OffersTracked ==
  \A s \in DOMAIN offered : HasEnd(s) /\ Tracks(End(s), offered[s])

\* Nothing is anchored or offered without a session, nothing offered while
\* paused or resuming; the policies applied are never ahead of the slot's.
Blank ==
  /\ sess # "up" => DOMAIN entries = {} /\ DOMAIN offered = {}
  /\ paused \/ pc = "resume" => DOMAIN offered = {}
  /\ shapingGen <= slotGen

Tracking == Blank /\ AnchorsHold /\ OffersTracked

LEMMA ToldIs ==
  ASSUME NEW q \in Seq(ReadingMap), NEW s
  PROVE  /\ \A i \in 1..Len(q) : s \in DOMAIN q[i] => q[i][s] \in Told(q, s)
         /\ Told(q, s) \subseteq ReadingType
<1>1. \A i \in 1..Len(q) : q[i] \in ReadingMap
  BY ElementOfSeq
<1>2. \A i \in 1..Len(q) : s \in DOMAIN q[i] => q[i][s] \in ReadingType
  BY <1>1, MapIs DEF ReadingMap
<1> QED BY <1>2 DEF Told

LEMMA ToldOfNone ==
  ASSUME NEW s
  PROVE  Told(<<>>, s) = {} /\ Rising(<<>>, s)
BY DEF Told, Rising

LEMMA ToldOfAppend ==
  ASSUME NEW q \in Seq(ReadingMap), NEW e \in ReadingMap, NEW s
  PROVE  /\ Told(Append(q, e), s) =
              Told(q, s) \cup (IF s \in DOMAIN e THEN {e[s]} ELSE {})
         /\ Rising(q, s) /\ (s \in DOMAIN e => Ahead(Told(q, s), {e[s]}))
              => Rising(Append(q, e), s)
<1> DEFINE a == Append(q, e)
<1>1. /\ Len(a) = Len(q) + 1 /\ Len(q) \in Nat
      /\ \A i \in 1..Len(q) : a[i] = q[i]
      /\ a[Len(q) + 1] = e
  BY AppendProperties
<1> HIDE DEF a
<1>2. 1..Len(a) = 1..Len(q) \cup {Len(q) + 1}
  BY <1>1
<1>3. Told(a, s) = Told(q, s) \cup (IF s \in DOMAIN e THEN {e[s]} ELSE {})
  BY <1>1, <1>2 DEF Told
<1>4. ASSUME Rising(q, s), s \in DOMAIN e => Ahead(Told(q, s), {e[s]})
      PROVE  Rising(a, s)
  <2> SUFFICES ASSUME NEW i \in 1..Len(a), NEW j \in 1..Len(a), i < j,
                      s \in DOMAIN a[i], s \in DOMAIN a[j]
               PROVE  Follows(a[j][s], a[i][s])
    BY DEF Rising
  <2>1. i \in 1..Len(q) /\ a[i] = q[i]
    BY <1>1
  <2>2. CASE j \in 1..Len(q)
    BY <1>1, <1>4, <2>1, <2>2 DEF Rising
  <2>3. CASE j = Len(q) + 1
    <3>1. a[j] = e /\ Ahead(Told(q, s), {e[s]})
      BY <1>1, <1>4, <2>3
    <3>2. q[i][s] \in Told(q, s)
      BY <2>1, ToldIs
    <3> QED BY <2>1, <3>1, <3>2 DEF Ahead
  <2> QED BY <1>2, <2>2, <2>3
<1> QED BY <1>3, <1>4 DEF a

LEMMA ToldOfTail ==
  ASSUME NEW q \in Seq(ReadingMap), q # <<>>, NEW s, Rising(q, s)
  PROVE  /\ Told(Tail(q), s) \subseteq Told(q, s) /\ Rising(Tail(q), s)
         /\ s \in DOMAIN Head(q) => /\ Head(q)[s] \in Told(q, s)
                                   /\ Ahead({Head(q)[s]}, Told(Tail(q), s))
<1> DEFINE t == Tail(q)
<1>1. /\ Len(t) = Len(q) - 1 /\ Len(q) \in Nat /\ Len(q) # 0
      /\ \A i \in 1..Len(t) : t[i] = q[i + 1]
      /\ Head(q) = q[1]
  BY HeadTailProperties
<1> HIDE DEF t
<1>2. \A i \in 1..Len(t) : i + 1 \in 1..Len(q)
  BY <1>1
<1>3. 1 \in 1..Len(q) /\ \A i \in 1..Len(t) : 1 < i + 1
  BY <1>1
<1>4. Told(t, s) \subseteq Told(q, s)
  BY <1>1, <1>2 DEF Told
<1>5. Rising(t, s)
  BY <1>1, <1>2 DEF Rising
<1>6. ASSUME s \in DOMAIN Head(q)
      PROVE  Ahead({Head(q)[s]}, Told(t, s))
  BY <1>1, <1>2, <1>3, <1>6 DEF Rising, Ahead, Told
<1>7. s \in DOMAIN Head(q) => Head(q)[s] \in Told(q, s)
  BY <1>1, <1>3, ToldIs
<1> QED BY <1>4, <1>5, <1>6, <1>7 DEF t

\* A drained queue: the Snapshots, and then what they may have overtaken.
LEMMA DrainedRises ==
  ASSUME NEW p \in Seq(ReadingMap), NEW q \in Seq(ReadingMap), NEW s,
         Rising(p, s), Rising(q, s),
         \A r \in Told(p, s) : r.snap, \A r \in Told(q, s) : ~r.snap
  PROVE  /\ Rising(p \o q, s)
         /\ Told(p \o q, s) \subseteq Told(p, s) \cup Told(q, s)
<1> DEFINE c == p \o q
<1>1. /\ Len(c) = Len(p) + Len(q) /\ Len(p) \in Nat /\ Len(q) \in Nat
      /\ \A i \in 1..Len(c) : c[i] = IF i <= Len(p) THEN p[i] ELSE q[i - Len(p)]
  BY ConcatProperties
<1>2. \A i \in 1..Len(c) : IF i <= Len(p) THEN i \in 1..Len(p)
                                         ELSE i - Len(p) \in 1..Len(q)
  BY <1>1
<1>3. \A i \in 1..Len(c) : s \in DOMAIN c[i] =>
        IF i <= Len(p) THEN c[i][s] \in Told(p, s) ELSE c[i][s] \in Told(q, s)
  BY <1>1, <1>2, ToldIs
<1>4. Rising(c, s)
  <2> SUFFICES ASSUME NEW i \in 1..Len(c), NEW j \in 1..Len(c), i < j,
                      s \in DOMAIN c[i], s \in DOMAIN c[j]
               PROVE  Follows(c[j][s], c[i][s])
    BY DEF Rising
  <2>1. CASE j <= Len(p)
    <3>1. /\ i \in 1..Len(p) /\ j \in 1..Len(p) /\ c[i] = p[i] /\ c[j] = p[j]
      BY <1>1, <2>1
    <3> QED BY <3>1 DEF Rising
  <2>2. CASE i <= Len(p) /\ ~(j <= Len(p))
    BY <1>3, <2>2 DEF Follows
  <2>3. CASE ~(i <= Len(p)) /\ ~(j <= Len(p))
    <3>1. /\ i - Len(p) \in 1..Len(q) /\ j - Len(p) \in 1..Len(q)
          /\ i - Len(p) < j - Len(p)
          /\ c[i] = q[i - Len(p)] /\ c[j] = q[j - Len(p)]
      BY <1>1, <2>3
    <3> QED BY <3>1 DEF Rising
  <2> QED BY <1>1, <2>1, <2>2, <2>3
<1>5. Told(c, s) \subseteq Told(p, s) \cup Told(q, s)
  <2> SUFFICES ASSUME NEW i \in 1..Len(c), s \in DOMAIN c[i]
               PROVE  c[i][s] \in Told(p, s) \cup Told(q, s)
    BY DEF Told
  <2> QED BY <1>3
<1> QED BY <1>4, <1>5 DEF c

LEMMA InOfNone == In(<<>>) = {}
BY DEF In

LEMMA InOfAppend ==
  ASSUME NEW w \in Seq(ReadingType), NEW r \in ReadingType
  PROVE  /\ In(Append(w, r)) = In(w) \cup {r}
         /\ Climbing(w) /\ Ahead(In(w), {r}) => Climbing(Append(w, r))
<1> DEFINE a == Append(w, r)
<1>1. /\ Len(a) = Len(w) + 1 /\ Len(w) \in Nat
      /\ \A i \in 1..Len(w) : a[i] = w[i]
      /\ a[Len(w) + 1] = r
  BY AppendProperties
<1> HIDE DEF a
<1>2. 1..Len(a) = 1..Len(w) \cup {Len(w) + 1}
  BY <1>1
<1>3. In(a) = In(w) \cup {r}
  BY <1>1, <1>2 DEF In
<1>4. ASSUME Climbing(w), Ahead(In(w), {r}) PROVE Climbing(a)
  <2> SUFFICES ASSUME NEW i \in 1..Len(a), NEW j \in 1..Len(a), i < j
               PROVE  Follows(a[j], a[i])
    BY DEF Climbing
  <2>1. i \in 1..Len(w) /\ a[i] = w[i] /\ w[i] \in In(w)
    BY <1>1 DEF In
  <2>2. CASE j \in 1..Len(w)
    BY <1>1, <1>4, <2>1, <2>2 DEF Climbing
  <2>3. CASE j = Len(w) + 1
    BY <1>1, <1>4, <2>1, <2>3 DEF Ahead
  <2> QED BY <1>2, <2>2, <2>3
<1> QED BY <1>3, <1>4 DEF a

LEMMA InLineTyped ==
  ASSUME TypeOK, NEW s \in Signals
  PROVE  /\ window[s] \in Seq(ReadingType) /\ In(window[s]) \subseteq ReadingType
         /\ Flown(s) \subseteq ReadingType /\ Past(s) \subseteq ReadingType
         /\ Told(batch, s) \subseteq ReadingType /\ Waited(s) \subseteq ReadingType
         /\ latest[s] \in ReadingType
         /\ \A r \in ReadingType : r.seq \in Int
<1>1. window[s] \in Seq(ReadingType) /\ latest[s] \in ReadingType
  BY DEF TypeOK, ShaperTyped, EnvironmentTyped
<1>2. In(window[s]) \subseteq ReadingType
  BY <1>1, ElementOfSeq DEF In
<1>3. Flown(s) \subseteq ReadingType
  BY MapIs DEF Flown, TypeOK, HistoryTyped, ReadingMap
<1>4. Told(batch, s) \subseteq ReadingType /\ Waited(s) \subseteq ReadingType
  BY ToldIs DEF TypeOK, SessionTyped, Waited
<1>5. \A r \in ReadingType : r.seq \in Int
  BY DEF ReadingType
<1> QED BY <1>1, <1>2, <1>3, <1>4, <1>5 DEF Past

\* Nothing new comes to the flow of this signal: its window and what went out
\* stand, or the window is emptied, onto the wire or not.
Settled(s) ==
  \/ window'[s] = window[s] /\ Flown(s)' \subseteq Flown(s)
  \/ window'[s] = <<>> /\ Flown(s)' \subseteq Past(s)

LEMMA SettledInLine ==
  ASSUME TypeOK, NEW s \in Signals, InLine(s), Settled(s), latest' = latest,
         \/ UNCHANGED <<lanes, batch>>
         \/ critical' = <<>> /\ data' = <<>> /\ batch' \in {batch, critical \o data}
  PROVE  InLine(s)'
<1> USE DEF lanes
<1>1. In(<<>>) = {} /\ Told(<<>>, s) = {} /\ Rising(<<>>, s)
  BY InOfNone, ToldOfNone
<1>2. Climbing(window'[s])
  BY DEF Settled, InLine, Climbing
<1>3. /\ In(window'[s]) \subseteq In(window[s])
      /\ Past(s)' \subseteq Past(s)
      /\ Ahead(Flown(s)', In(window'[s]))
  BY <1>1 DEF Settled, Past, InLine, Ahead
<1>4. Sorted(s)' /\ Waited(s)' \subseteq Waited(s)
  BY <1>1 DEF InLine, Sorted, Waited
<1>5. /\ Rising(batch', s)
      /\ \/ Told(batch', s) \subseteq Told(batch, s)
         \/ Told(batch', s) \subseteq Waited(s) /\ Waited(s)' = {}
  <2>1. CASE batch' = batch
    BY <2>1 DEF InLine
  <2>2. CASE batch' = critical \o data /\ critical' = <<>> /\ data' = <<>>
    BY <1>1, <2>2, DrainedRises DEF InLine, Sorted, Waited, TypeOK, SessionTyped
  <2> QED BY <2>1, <2>2
<1>6. Ahead(Past(s)', Told(batch', s))
  BY <1>3, <1>5 DEF InLine, Ahead, Older, Follows
<1>7. Older(Past(s)' \cup Told(batch', s), Waited(s)')
  BY <1>3, <1>4, <1>5 DEF InLine, Older
<1>8. Older(Past(s)' \cup Told(batch', s) \cup Waited(s)', {latest'[s]})
  BY <1>3, <1>4, <1>5 DEF InLine, Older
<1> QED BY <1>2, <1>3, <1>4, <1>5, <1>6, <1>7, <1>8 DEF InLine

\* An event that says what the agent said last comes to the end of its lane.
LEMMA GrownInLine ==
  ASSUME TypeOK, TypeOK', NEW s \in Signals, InLine(s), NEW e \in ReadingMap,
         \/ UNCHANGED lanes
         \/ /\ critical' = Append(critical, e) /\ data' = data
            /\ s \in DOMAIN e => e[s].snap
         \/ /\ data' = Append(data, e) \/ data' = <<e>>
            /\ critical' = critical
            /\ s \in DOMAIN e => ~e[s].snap,
         s \in DOMAIN e => e[s].seq = latest'[s].seq,
         latest[s].seq <= latest'[s].seq, ~latest'[s].snap,
         UNCHANGED <<window, batch>>, Flown(s)' \subseteq Flown(s)
  PROVE  InLine(s)'
<1>1. critical \in Seq(ReadingMap) /\ data \in Seq(ReadingMap)
  BY DEF TypeOK, SessionTyped
<1>2. /\ Past(s) \cup Told(batch, s) \cup Waited(s) \subseteq ReadingType
      /\ latest[s] \in ReadingType /\ latest'[s] \in ReadingType
      /\ \A r \in ReadingType : r.seq \in Int
  BY InLineTyped DEF TypeOK, EnvironmentTyped
<1>3. Older(Past(s) \cup Told(batch, s) \cup Waited(s), {latest'[s]})
  BY <1>2 DEF InLine, Older
<1>4. /\ \A r \in Waited(s)' : r \in Waited(s) \/ r.seq = latest'[s].seq
      /\ Sorted(s)'
  <2> DEFINE new == IF s \in DOMAIN e THEN {e[s]} ELSE {}
  <2>1. \A r \in new : r.seq = latest'[s].seq
    OBVIOUS
  <2>2. s \in DOMAIN e => Ahead(Told(critical, s), {e[s]}) /\ Ahead(Told(data, s), {e[s]})
    BY <1>3 DEF Ahead, Older, Follows, Waited
  <2>3. CASE UNCHANGED lanes
    BY <2>3 DEF lanes, Waited, Sorted, InLine
  <2>4. CASE critical' = Append(critical, e) /\ data' = data /\ (s \in DOMAIN e => e[s].snap)
    <3>1. Told(critical', s) = Told(critical, s) \cup new /\ Rising(critical', s)
      BY <1>1, <2>2, <2>4, ToldOfAppend DEF InLine, Sorted
    <3>2. \A r \in new : r.snap
      BY <2>4
    <3> HIDE DEF new
    <3> QED BY <2>1, <2>4, <3>1, <3>2 DEF Waited, Sorted, InLine
  <2>6. CASE data' = <<e>> /\ critical' = critical /\ (s \in DOMAIN e => ~e[s].snap)
    <3>1. Append(<<>>, e) = <<e>> /\ <<>> \in Seq(ReadingMap)
      OBVIOUS
    <3>2. Told(<<>>, s) = {} /\ Rising(<<>>, s) /\ Ahead({}, {e[s]})
      BY ToldOfNone DEF Ahead
    <3>3. Told(data', s) = new /\ Rising(data', s)
      BY <2>6, <3>1, <3>2, ToldOfAppend
    <3>4. \A r \in new : ~r.snap
      BY <2>6
    <3> HIDE DEF new
    <3> QED BY <2>1, <2>6, <3>3, <3>4 DEF Waited, Sorted, InLine
  <2>5. CASE data' = Append(data, e) /\ critical' = critical /\ (s \in DOMAIN e => ~e[s].snap)
    <3>1. Told(data', s) = Told(data, s) \cup new /\ Rising(data', s)
      BY <1>1, <2>2, <2>5, ToldOfAppend DEF InLine, Sorted
    <3>2. \A r \in new : ~r.snap
      BY <2>5
    <3> HIDE DEF new
    <3> QED BY <2>1, <2>5, <3>1, <3>2 DEF Waited, Sorted, InLine
  <2> QED BY <2>3, <2>4, <2>5, <2>6
<1>5. Past(s)' \subseteq Past(s) /\ Told(batch, s)' = Told(batch, s)
  BY DEF Past
<1>6. Older(Past(s)' \cup Told(batch, s), Waited(s)')
  BY <1>3, <1>4, <1>5 DEF InLine, Older
<1>7. Older(Past(s)' \cup Told(batch, s) \cup Waited(s)', {latest'[s]})
  BY <1>2, <1>3, <1>4, <1>5 DEF Older
<1>8. Ahead(Flown(s)', In(window'[s])) /\ Ahead(Past(s)', Told(batch', s))
  BY <1>5 DEF InLine, Ahead
<1> QED BY <1>4, <1>5, <1>6, <1>7, <1>8 DEF InLine

\* The event the next offer takes from the batch.
Offering == Head(batch)

\* What has gone out of a signal stands.
Unsent(s) ==
  /\ s \in DOMAIN flowed' <=> s \in DOMAIN flowed
  /\ s \in DOMAIN flowed => flowed'[s] = flowed[s]

\* What an offer does to the flow of one signal.
OffersWaiting(s) ==
  /\ s \in DOMAIN Offering /\ Offering[s] \in ReadingType
  /\ window'[s] = Enter(s, Offering[s])
  /\ Enter(s, Offering[s]) # <<>> /\ Last(Enter(s, Offering[s])) = Offering[s]
  /\ Unsent(s)

OffersSent(s) ==
  /\ s \in DOMAIN Offering /\ Offering[s] \in ReadingType
  /\ window'[s] = <<>>
  /\ s \in DOMAIN flowed' /\ flowed'[s] = Offering[s]

OffersNothing(s) == window'[s] = window[s] /\ Unsent(s)

LEMMA OfferIs ==
  ASSUME TypeOK, Buffering, Offer, NEW s \in Signals
  PROVE  /\ Offering \in ReadingMap
         /\ UNCHANGED <<policy, slotGen, shapingGen, sess, paused, pc, latest, lanes>>
         /\ pc = "publish" /\ sess = "up" /\ ~paused
         /\ batch' = Tail(batch) /\ batch # <<>>
         /\ offered' = Over(Offering, offered)
         /\ entries' = Over(Noted(Offering), entries)
         /\ s \in Waiting(Offering) => OffersWaiting(s)
         /\ s \in Accepted(Offering) \ Waiting(Offering) => OffersSent(s)
         /\ s \notin Accepted(Offering) => OffersNothing(s)
<1>1. /\ entries' = Over(Noted(Offering), entries)
      /\ window' = [t \in Signals |->
                      IF t \in Waiting(Offering) THEN Enter(t, Offering[t])
                      ELSE IF t \in DOMAIN Updates(Offering) THEN Leftover(t)
                      ELSE window[t]]
      /\ flowed' = Over(Finals(Offering), flowed)
      /\ offered' = Over(Offering, offered)
      /\ batch' = Tail(batch) /\ batch # <<>> /\ pc = "publish"
      /\ UNCHANGED <<policy, shapingGen, sess, paused, pc, slotGen, latest, lanes>>
  BY DEF Offer, Offering, environment, configVars, taskVars, sessionVars, lanes
<1>2. Offering \in ReadingMap
  BY <1>1, EventIs DEF Offering
<1>3. sess = "up" /\ ~paused
  BY <1>1 DEF Buffering, Rested, Hushed, TypeOK, TaskTyped
<1>4. /\ Accepted(Offering) \subseteq DOMAIN Offering /\ Waiting(Offering) \subseteq Accepted(Offering)
      /\ \A t \in Accepted(Offering) : Offering[t] \in ReadingType
  BY <1>2, AcceptedIs DEF Accepted
<1>5. /\ DOMAIN Updates(Offering) = Accepted(Offering) \ Waiting(Offering)
      /\ DOMAIN Finals(Offering) = Accepted(Offering) \ Waiting(Offering)
      /\ \A t \in DOMAIN Updates(Offering) : Updates(Offering)[t] = UpdateOf(t, Offering[t])
  BY <1>2, UpdatesAre
<1>6. /\ DOMAIN flowed' = DOMAIN Finals(Offering) \cup DOMAIN flowed
      /\ \A t \in DOMAIN Finals(Offering) : flowed'[t] = Finals(Offering)[t]
      /\ \A t \in DOMAIN flowed : t \notin DOMAIN Finals(Offering) => flowed'[t] = flowed[t]
  <2> DEFINE f == Finals(Offering)
             o == Over(f, flowed)
  <2>1. /\ DOMAIN o = DOMAIN f \cup DOMAIN flowed
        /\ \A t \in DOMAIN f : o[t] = f[t]
        /\ \A t \in DOMAIN flowed : t \notin DOMAIN f => o[t] = flowed[t]
    BY DEF Over
  <2>2. flowed' = o
    BY <1>1
  <2> QED BY <2>1, <2>2
<1>7. window[s] \in Seq(ReadingType)
  BY DEF TypeOK, ShaperTyped
<1>8. \A r \in ReadingType : /\ Last(<<r>>) = r /\ <<r>> # <<>>
                             /\ Last(Append(window[s], r)) = r
                             /\ Append(window[s], r) # <<>>
  BY <1>7, AppendProperties DEF Last
<1>9. CASE s \in Waiting(Offering)
  <2>1. /\ Offering[s] \in ReadingType /\ window'[s] = Enter(s, Offering[s])
        /\ s \notin DOMAIN Finals(Offering)
    BY <1>1, <1>4, <1>5, <1>9
  <2>2. Enter(s, Offering[s]) # <<>> /\ Last(Enter(s, Offering[s])) = Offering[s]
    BY <1>8, <2>1 DEF Enter
  <2> QED BY <1>1, <1>2, <1>3, <1>4, <1>6, <1>9, <2>1, <2>2 DEF OffersWaiting, Unsent
<1>10. CASE s \in Accepted(Offering) \ Waiting(Offering)
  <2>1. /\ Offering[s] \in ReadingType /\ window'[s] = Leftover(s)
        /\ s \in DOMAIN flowed' /\ flowed'[s] = Finals(Offering)[s]
    BY <1>1, <1>4, <1>5, <1>6, <1>10
  <2>2. Finals(Offering)[s] = Last(UpdateOf(s, Offering[s]))
    BY <1>5, <1>10 DEF Finals
  <2>3. Last(UpdateOf(s, Offering[s])) = Offering[s]
    BY <1>8, <2>1 DEF UpdateOf
  <2>4. Leftover(s) = <<>>
    BY DEF Leftover, Buffering, Windowed
  <2> QED BY <1>1, <1>2, <1>3, <1>4, <1>10, <2>1, <2>2, <2>3, <2>4 DEF OffersSent
<1>11. CASE s \notin Accepted(Offering)
  <2>1. s \notin Waiting(Offering) /\ s \notin DOMAIN Updates(Offering) /\ s \notin DOMAIN Finals(Offering)
    BY <1>4, <1>5, <1>11
  <2>2. window'[s] = window[s]
    BY <1>1, <2>1
  <2>3. s \in DOMAIN flowed' <=> s \in DOMAIN flowed
    BY <1>6, <2>1
  <2>4. s \in DOMAIN flowed => flowed'[s] = flowed[s]
    BY <1>6, <2>1
  <2> QED BY <1>1, <1>2, <1>3, <1>11, <2>1, <2>2, <2>3, <2>4 DEF OffersNothing, Unsent
<1> QED BY <1>9, <1>10, <1>11

LEMMA OfferInLine ==
  ASSUME TypeOK, Buffering, Offer, NEW s \in Signals, InLine(s)
  PROVE  InLine(s)'
<1> DEFINE e == Offering
           w == window[s]
<1>1. /\ e \in ReadingMap /\ latest' = latest /\ UNCHANGED lanes
      /\ batch' = Tail(batch) /\ batch # <<>>
      /\ s \in Waiting(e) => OffersWaiting(s)
      /\ s \in Accepted(e) \ Waiting(e) => OffersSent(s)
      /\ s \notin Accepted(e) => OffersNothing(s)
  BY OfferIs
<1>2. /\ Told(batch', s) \subseteq Told(batch, s) /\ Rising(batch', s)
      /\ s \in DOMAIN e => /\ e[s] \in Told(batch, s)
                           /\ Ahead({e[s]}, Told(batch', s))
  BY <1>1, ToldOfTail DEF Offering, InLine, TypeOK, SessionTyped
<1> HIDE DEF e
<1>3. w \in Seq(ReadingType) /\ Climbing(w) /\ Ahead(Flown(s), In(w))
  BY InLineTyped DEF InLine
<1>4. s \in DOMAIN e => Ahead(Past(s), {e[s]})
  BY <1>2 DEF InLine, Ahead
<1>5. ASSUME Climbing(window'[s]), Ahead(Flown(s)', In(window'[s])),
             Past(s)' \subseteq Past(s) \cup (IF s \in DOMAIN e THEN {e[s]} ELSE {})
      PROVE  InLine(s)'
  <2>1. Ahead(Past(s)', Told(batch', s))
    BY <1>2, <1>5 DEF InLine, Ahead
  <2>2. Waited(s)' = Waited(s) /\ Sorted(s)'
    BY <1>1 DEF Waited, lanes, InLine, Sorted
  <2>3. Past(s)' \cup Told(batch', s) \subseteq Past(s) \cup Told(batch, s)
    BY <1>2, <1>5
  <2>4. Older(Past(s)' \cup Told(batch', s), Waited(s))
    BY <2>3 DEF InLine, Older
  <2>5. Older(Past(s)' \cup Told(batch', s) \cup Waited(s), {latest[s]})
    BY <2>3 DEF InLine, Older
  <2> QED BY <1>1, <1>2, <1>5, <2>1, <2>2, <2>4, <2>5 DEF InLine
<1> HIDE DEF w
<1>6. CASE s \in Waiting(e)
  <2>1. /\ Flown(s)' = Flown(s) /\ s \in DOMAIN e /\ e[s] \in ReadingType
        /\ window'[s] = Enter(s, e[s])
    BY <1>1, <1>6 DEF Flown, OffersWaiting, Unsent, e
  <2>2. Ahead(Flown(s), {e[s]}) /\ Ahead(In(w), {e[s]})
    BY <1>4, <2>1 DEF Past, Ahead, w
  <2>3. CASE policy[shapingGen][s].latest
    <3>1. window'[s] = <<e[s]>>
      BY <2>1, <2>3 DEF Enter
    <3>2. In(<<e[s]>>) = {e[s]} /\ Climbing(<<e[s]>>)
      BY DEF In, Climbing
    <3> QED BY <1>5, <2>1, <2>2, <3>1, <3>2 DEF Past
  <2>4. CASE ~policy[shapingGen][s].latest
    <3>1. window'[s] = Append(w, e[s])
      BY <2>1, <2>4 DEF Enter, w
    <3>2. In(Append(w, e[s])) = In(w) \cup {e[s]} /\ Climbing(Append(w, e[s]))
      BY <1>3, <2>1, <2>2, InOfAppend
    <3>3. Ahead(Flown(s)', In(window'[s]))
      BY <1>3, <2>1, <2>2, <3>1, <3>2 DEF Ahead
    <3> QED BY <1>5, <2>1, <3>1, <3>2, <3>3 DEF Past, w
  <2> QED BY <2>3, <2>4
<1>7. CASE s \in Accepted(e) \ Waiting(e)
  <2>1. /\ window'[s] = <<>> /\ Flown(s)' = {e[s]} /\ s \in DOMAIN e
        /\ In(window'[s]) = {}
    BY <1>1, <1>7, InOfNone DEF Flown, OffersSent, e
  <2> QED BY <1>5, <2>1 DEF Past, Climbing, Ahead
<1>8. CASE s \notin Accepted(e)
  <2>1. window'[s] = window[s] /\ Flown(s)' = Flown(s)
    BY <1>1, <1>8 DEF Flown, OffersNothing, Unsent
  <2> QED BY <1>3, <1>5, <2>1 DEF Past, w
<1> QED BY <1>6, <1>7, <1>8

\* The windows of these signals go out, or stand empty.
Flushes(S) ==
  /\ flowed' = Over(Flushed(S), flowed)
  /\ \A s \in Signals : window'[s] = IF s \in S THEN <<>> ELSE window[s]

LEMMA FlushEnds ==
  ASSUME TypeOK, NEW S \in SUBSET Signals, Flushes(S), NEW s \in Signals
  PROVE  /\ Settled(s)
         /\ HasEnd(s)' <=> HasEnd(s)
         /\ HasEnd(s) => End(s)' = End(s)
<1> DEFINE f == Flushed(S)
           w == window[s]
<1>1. DOMAIN f = {t \in S : window[t] # <<>>}
  BY FlushedIs DEF TypeOK, ShaperTyped
<1>2. \A t \in DOMAIN f : f[t] = Last(window[t])
  BY <1>1 DEF Flushed
<1>3. /\ DOMAIN flowed' = DOMAIN f \cup DOMAIN flowed
      /\ \A t \in DOMAIN f : flowed'[t] = f[t]
      /\ \A t \in DOMAIN flowed : t \notin DOMAIN f => flowed'[t] = flowed[t]
  BY DEF Flushes, Over
<1>4. window'[s] = IF s \in S THEN <<>> ELSE w
  BY DEF Flushes
<1> HIDE DEF f
<1>5. CASE s \in DOMAIN f
  <2>1. /\ window'[s] = <<>> /\ w # <<>>
        /\ s \in DOMAIN flowed' /\ flowed'[s] = Last(w)
    BY <1>1, <1>2, <1>3, <1>4, <1>5
  <2>2. Last(w) \in In(w)
    <3>1. w \in Seq(ReadingType)
      BY DEF TypeOK, ShaperTyped
    <3>2. Len(w) \in 1..Len(w) /\ Last(w) = w[Len(w)]
      BY <2>1, <3>1 DEF Last
    <3> QED BY <3>2 DEF In
  <2>3. Flown(s)' \subseteq Past(s)
    BY <2>1, <2>2 DEF Flown, Past
  <2> QED BY <2>1, <2>3 DEF Settled, HasEnd, End
<1>6. CASE s \notin DOMAIN f
  <2>1. window'[s] = w
    BY <1>1, <1>4, <1>6
  <2>2. /\ s \in DOMAIN flowed' <=> s \in DOMAIN flowed
        /\ s \in DOMAIN flowed => flowed'[s] = flowed[s]
    BY <1>3, <1>6
  <2>3. Flown(s)' = Flown(s)
    BY <2>2 DEF Flown
  <2> QED BY <2>1, <2>2, <2>3 DEF Settled, HasEnd, End
<1> QED BY <1>5, <1>6

LEMMA DropFlushes ==
  ASSUME TypeOK, TickBroken \/ RepollFailed \/ Reconnect \/ Stop
  PROVE  /\ Flushes(Signals)
         /\ critical' = <<>> /\ data' = <<>>
         /\ DOMAIN entries' = {} /\ DOMAIN offered' = {}
         /\ pc' = "loop"
         /\ UNCHANGED <<latest, policy, slotGen, shapingGen, batch, paused>>
<1>1. FlushAccounts(Signals) /\ \E next \in {"down", "stopped"} : Drop(next)
  BY DEF TickBroken, RepollFailed, LoseLink, Reconnect, Stop, FlushAndDrop
<1>2. \A s \in Signals : window'[s] = <<>>
  BY <1>1, NoWindowIs DEF Drop
<1>3. Flushes(Signals)
  BY <1>1, <1>2 DEF FlushAccounts, Flushes
<1> QED BY <1>1, <1>3, NothingIsMap DEF Drop, environment, linkVars, configVars

LEMMA TickReadFlushes ==
  ASSUME TypeOK, TickRead
  PROVE  /\ Flushes(Superseded) /\ Superseded \in SUBSET Signals
         /\ critical' = <<>> /\ data' = <<>> /\ batch' = critical \o data
         /\ entries' = entries \/ DOMAIN entries' = {}
         /\ pc' = "publish" /\ sess = "up" /\ ~paused /\ pc = "loop"
         /\ shapingGen' = slotGen
         /\ UNCHANGED <<latest, policy, slotGen, sess, paused, offered>>
<1>1. Superseded \in SUBSET Signals
  BY DEF Superseded
<1>2. /\ flowed' = Over(Flushed(Superseded), flowed)
      /\ \A s \in Signals : window'[s] = IF s \in Superseded THEN <<>> ELSE window[s]
  BY DEF TickRead, FlushAccounts
<1> QED BY <1>1, <1>2, NothingIsMap
        DEF Flushes, TickRead, InLoop, environment, linkVars, configVars

LEMMA DueFlushes ==
  ASSUME TypeOK, NEW s \in Signals, Due(s)
  PROVE  Flushes({s})
<1>1. \A t \in Signals : window'[t] = IF t \in {s} THEN <<>> ELSE window[t]
  BY DEF Due, TypeOK, ShaperTyped
<1> QED BY <1>1 DEF Due, FlushAccounts, Flushes

LEMMA EnvironmentInLine ==
  ASSUME TypeOK, TypeOK', Environment, NEW s \in Signals, InLine(s)
  PROVE  InLine(s)'
<1>1. UNCHANGED <<window, flowed, batch>> /\ Flown(s)' = Flown(s)
  BY DEF Environment, Observe, Snapshot, Heartbeat, Silence, MarkDown, MarkUp,
         Reload, taskAndBelow, shaperVars, flowVars, Flown
<1>2. /\ latest[s] \in ReadingType /\ latest[s].seq \in Int /\ ~latest[s].snap
      /\ latest \in [Signals -> ReadingType]
  BY DEF TypeOK, EnvironmentTyped, ReadingType, InLine, Sorted
<1>3. CASE UNCHANGED <<lanes, latest>>
  <2>1. Past(s)' = Past(s) /\ Waited(s)' = Waited(s)
    BY <1>1, <1>3 DEF Past, Waited, lanes
  <2> QED BY <1>1, <1>3, <2>1 DEF InLine, Sorted, lanes
<1>4. CASE Snapshot
  <2> DEFINE e == Baseline(latest)
  <2>1. e \in ReadingMap /\ e[s].snap /\ e[s].seq = latest[s].seq
    BY <1>2, BaselineIs
  <2>2. latest' = latest /\ critical' = Append(critical, e) /\ data' = data
    BY <1>4 DEF Snapshot
  <2> HIDE DEF e
  <2>3. latest[s].seq <= latest'[s].seq
    BY <1>2, <2>2
  <2> QED BY <1>1, <1>2, <2>1, <2>2, <2>3, GrownInLine
<1>5. ASSUME NEW t \in Signals, NEW c \in Contents, Observe(t, c)
      PROVE  InLine(s)'
  <2> DEFINE r == Reading(latest[t].seq + 1, c)
             e == [u \in {t} |-> r]
  <2>1. latest[t].seq \in 1..MaxSeq /\ latest[t].seq < MaxSeq
    BY <1>5 DEF TypeOK, EnvironmentTyped, ReadingType, Observe
  <2>2. r \in ReadingType
    BY <2>1, ReadingIs, BoundsNat
  <2>3. r.seq = latest[t].seq + 1 /\ ~r.snap
    BY DEF Reading
  <2>4. e \in ReadingMap
    BY <2>2, IsMap DEF ReadingMap
  <2>5. /\ latest' = [latest EXCEPT ![t] = r] /\ critical' = critical
        /\ data' = Append(data, e) \/ data' = data
    BY <1>5 DEF Observe
  <2>6. s \in DOMAIN e => s = t /\ e[s] = r
    OBVIOUS
  <2> HIDE DEF r, e
  <2>7. latest'[s] = IF s = t THEN r ELSE latest[s]
    BY <2>5 DEF TypeOK, EnvironmentTyped
  <2>8. s \in DOMAIN e => e[s].seq = latest'[s].seq /\ ~e[s].snap
    BY <2>3, <2>6, <2>7
  <2>9. latest[s].seq <= latest'[s].seq /\ ~latest'[s].snap
    BY <1>2, <2>3, <2>7
  <2> QED BY <1>1, <2>4, <2>5, <2>8, <2>9, GrownInLine DEF lanes
<1>6. Heartbeat \/ Silence \/ MarkDown \/ MarkUp \/ Reload => UNCHANGED <<lanes, latest>>
  BY DEF Heartbeat, Silence, MarkDown, MarkUp, Reload, linkVars
<1> QED BY <1>3, <1>4, <1>5, <1>6 DEF Environment

LEMMA NextLined == TypeOK /\ TypeOK' /\ Buffering /\ Lined /\ [Next]_vars => Lined'
<1> SUFFICES ASSUME TypeOK, TypeOK', Buffering, Lined, [Next]_vars, NEW s \in Signals
             PROVE  InLine(s)'
  BY DEF Lined
<1>1. InLine(s)
  BY DEF Lined
<1> USE DEF environment, linkVars, configVars, taskVars, sessionVars, lanes, shaperVars,
            holdVars, flowVars
<1>2. CASE Environment
  BY <1>1, <1>2, EnvironmentInLine
<1>3. ASSUME UNCHANGED <<window, flowed, latest, batch>>,
             UNCHANGED lanes \/ (critical' = <<>> /\ data' = <<>>)
      PROVE  InLine(s)'
  <2>1. Settled(s)
    BY <1>3 DEF Settled, Flown
  <2> QED BY <1>1, <1>3, <2>1, SettledInLine
<1>4. CASE Connect
  <2>1. Flown(s)' = {}
    BY <1>4, NothingIsMap DEF Connect, Flown
  <2>2. /\ UNCHANGED <<window, batch, critical, latest>>
        /\ data' = <<>> \/ data' = <<latest>>
    BY <1>4 DEF Connect
  <2>3. CASE data' = <<latest>>
    <3>0. latest \in ReadingMap
      BY IsMap DEF TypeOK, EnvironmentTyped, ReadingMap
    <3>1. latest[s].seq <= latest'[s].seq /\ ~latest[s].snap
      BY <1>1, <2>2 DEF TypeOK, EnvironmentTyped, ReadingType, InLine, Sorted
    <3> QED BY <1>1, <2>1, <2>2, <2>3, <3>0, <3>1, GrownInLine
  <2>4. CASE data' = <<>>
    <3>1. Flown(s)' \subseteq Flown(s) /\ Past(s)' \subseteq Past(s)
      BY <2>1, <2>2 DEF Past
    <3>2. Told(data', s) = {} /\ Rising(data', s)
      BY <2>4, ToldOfNone
    <3>3. Waited(s)' \subseteq Waited(s) /\ Sorted(s)'
      BY <1>1, <2>2, <3>2 DEF Waited, Sorted, InLine
    <3> QED BY <1>1, <2>2, <3>1, <3>3 DEF InLine, Ahead, Older
  <2> QED BY <2>2, <2>3, <2>4
<1>5. CASE TickBroken \/ RepollFailed \/ Reconnect \/ Stop
  <2>1. /\ Flushes(Signals) /\ critical' = <<>> /\ data' = <<>>
        /\ UNCHANGED <<latest, batch>>
    BY <1>5, DropFlushes
  <2>2. Settled(s)
    BY <2>1, FlushEnds
  <2> QED BY <1>1, <2>1, <2>2, SettledInLine
<1>6. CASE TickRead
  <2>1. /\ Flushes(Superseded) /\ Superseded \in SUBSET Signals
        /\ critical' = <<>> /\ data' = <<>> /\ batch' = critical \o data
        /\ latest' = latest
    BY <1>6, TickReadFlushes
  <2>2. Settled(s)
    BY <2>1, FlushEnds
  <2> QED BY <1>1, <2>1, <2>2, SettledInLine
<1>7. ASSUME NEW t \in Signals, Due(t) PROVE InLine(s)'
  <2>1. Flushes({t}) /\ UNCHANGED <<latest, batch, lanes>>
    BY <1>7, DueFlushes DEF Due
  <2>2. Settled(s)
    BY <2>1, FlushEnds
  <2> QED BY <1>1, <2>1, <2>2, SettledInLine
<1>8. CASE Offer
  BY <1>1, <1>8, OfferInLine
<1>9. CASE Pause
  <2>1. window'[s] = <<>> /\ UNCHANGED <<flowed, latest, batch, lanes>>
    BY <1>9, NoWindowIs DEF Pause, clear_buffers
  <2>2. Settled(s)
    BY <2>1 DEF Settled, Past, Flown
  <2> QED BY <1>1, <2>1, <2>2, SettledInLine
<1>10. CASE TickPaused \/ Evaluate \/ ResumeDown \/ Resume \/ ResumeEnd
            \/ Repoll \/ RepollAnswered \/ UNCHANGED vars
  <2>1. /\ UNCHANGED <<window, flowed, latest, batch>>
        /\ UNCHANGED lanes \/ (critical' = <<>> /\ data' = <<>>)
    BY <1>10 DEF TickPaused, Evaluate, ResumeDown, Resume, ResumeEnd, Repoll,
                 RepollAnswered, vars
  <2> QED BY <1>3, <2>1
<1> QED BY <1>2, <1>4, <1>5, <1>6, <1>7, <1>8, <1>9, <1>10 DEF Next, Task

LEMMA InitLined == Init => Lined
<1> SUFFICES ASSUME Init, NEW s \in Signals PROVE InLine(s)
  BY DEF Lined
<1>1. /\ Flown(s) = {} /\ window[s] = <<>> /\ In(window[s]) = {}
      /\ Told(batch, s) = {} /\ Told(critical, s) = {} /\ Told(data, s) = {}
      /\ Rising(batch, s) /\ Rising(critical, s) /\ Rising(data, s)
  BY NothingIsMap, InOfNone, ToldOfNone, NoWindowIs DEF Init, Flown
<1>2. ~latest[s].snap
  BY DEF Init, Reading
<1> QED BY <1>1, <1>2 DEF InLine, Ahead, Older, Past, Climbing, Sorted, Waited

LEMMA LinedFlows == TypeOK /\ Lined => FlowInOrder
<1> SUFFICES ASSUME TypeOK, NEW s \in Signals, InLine(s)
             PROVE  LET w == window[s] IN
                    /\ \A i, j \in 1..Len(w) : i < j => Follows(w[j], w[i])
                    /\ s \in DOMAIN flowed =>
                         \A i \in 1..Len(w) : Follows(w[i], flowed[s])
  BY DEF Lined, FlowInOrder
<1>1. \A i \in 1..Len(window[s]) : window[s][i] \in In(window[s])
  BY DEF In
<1>2. s \in DOMAIN flowed => flowed[s] \in Flown(s)
  BY DEF Flown
<1> QED BY <1>1, <1>2 DEF InLine, Climbing, Ahead

LEMMA AnchorKept ==
  ASSUME NEW s, entries'[s] = entries[s],
         (HasEnd(s)' <=> HasEnd(s)), HasEnd(s) => End(s)' = End(s), Anchored(s)
  PROVE  Anchored(s)'
BY DEF Anchored

LEMMA OfferTracked ==
  ASSUME TypeOK, Buffering, Tracking, DeadbandsStand, Offer
  PROVE  Tracking'
<1> DEFINE e == Offering
<1>1. /\ e \in ReadingMap
      /\ UNCHANGED <<policy, slotGen, shapingGen, sess, paused, pc>>
      /\ pc = "publish" /\ sess = "up" /\ ~paused
      /\ offered' = Over(e, offered) /\ entries' = Over(Noted(e), entries)
  <2>1. CASE Signals = {}
    BY <2>1, EventIs, MapIs DEF Offer, Offering, Buffering, Rested, Hushed, TypeOK,
       TaskTyped, environment, configVars, taskVars
  <2>2. CASE Signals # {}
    <3>1. PICK t \in Signals : TRUE
      BY <2>2
    <3> QED BY <3>1, OfferIs
  <2> QED BY <2>1, <2>2
<1>2. \A s \in Signals : /\ s \in Waiting(e) => OffersWaiting(s)
                         /\ s \in Accepted(e) \ Waiting(e) => OffersSent(s)
                         /\ s \notin Accepted(e) => OffersNothing(s)
  BY OfferIs
<1> HIDE DEF e
<1>3. /\ DOMAIN e \subseteq Signals /\ Accepted(e) \subseteq DOMAIN e
      /\ \A s \in DOMAIN e : e[s] \in ReadingType
      /\ DOMAIN entries \subseteq Signals /\ DOMAIN offered \subseteq Signals
  BY <1>1, MapIs DEF Accepted, ReadingMap, EntryMap, TypeOK, ShaperTyped, HistoryTyped
<1>4. \A s \in Accepted(e) : HasEnd(s)' /\ End(s)' = e[s]
  <2> SUFFICES ASSUME NEW s \in Accepted(e) PROVE HasEnd(s)' /\ End(s)' = e[s]
    OBVIOUS
  <2>1. CASE s \in Waiting(e)
    BY <1>2, <1>3, <2>1 DEF OffersWaiting, HasEnd, End, e
  <2>2. CASE s \notin Waiting(e)
    BY <1>2, <1>3, <2>2 DEF OffersSent, HasEnd, End, e
  <2> QED BY <2>1, <2>2
<1>5. \A s \in Signals \ Accepted(e) : /\ HasEnd(s)' <=> HasEnd(s)
                                       /\ HasEnd(s) => End(s)' = End(s)
  BY <1>2 DEF OffersNothing, Unsent, HasEnd, End
<1>6. /\ DOMAIN entries' = {t \in Accepted(e) : Shaped(t)} \cup DOMAIN entries
      /\ \A s \in Accepted(e) : Shaped(s) => entries'[s] = note_entry(s, e[s])
      /\ \A s \in DOMAIN entries :
           ~(s \in Accepted(e) /\ Shaped(s)) => entries'[s] = entries[s]
  <2> DEFINE n == Noted(e)
  <2>1. /\ DOMAIN n = {t \in Accepted(e) : Shaped(t)}
        /\ \A s \in DOMAIN n : n[s] = note_entry(s, e[s])
    BY DEF Noted
  <2> HIDE DEF n
  <2>2. /\ DOMAIN entries' = DOMAIN n \cup DOMAIN entries
        /\ \A s \in DOMAIN n : entries'[s] = n[s]
        /\ \A s \in DOMAIN entries : s \notin DOMAIN n => entries'[s] = entries[s]
    BY <1>1 DEF Over, n
  <2> QED BY <2>1, <2>2
<1>7. shapingGen \in 0..MaxGen /\ MaxGen \in Nat
  BY BoundsNat DEF TypeOK, ShaperTyped
<1>8. AnchorsHold'
  <2> SUFFICES ASSUME NEW s \in DOMAIN entries'
               PROVE  OnceShaped(s)' /\ (Anchored(s)' \/ NoBandAhead(s)')
    BY DEF AnchorsHold
  <2>1. s \in Signals
    BY <1>3, <1>6
  <2>2. CASE s \in Accepted(e) /\ Shaped(s)
    <3>1. OnceShaped(s)'
      BY <1>1, <1>7, <2>2 DEF OnceShaped, Shaped
    <3>2. entries'[s] = note_entry(s, e[s])
      BY <1>6, <2>2
    <3>3. Anchored(s)'
      BY <1>4, <2>2, <3>2 DEF Anchored, note_entry
    <3> QED BY <3>1, <3>3
  <2>3. CASE s \in Accepted(e) /\ ~Shaped(s)
    <3>1. s \in DOMAIN entries
      BY <1>6, <2>3
    <3>2. PICK g \in 0..shapingGen : ~is_trivial(policy[g][s])
      BY <3>1 DEF Tracking, AnchorsHold, OnceShaped
    <3>3. is_trivial(policy[shapingGen][s])
      BY <2>3 DEF Shaped
    <3>4. g < shapingGen /\ g \in 0..MaxGen
      BY <1>7, <3>2, <3>3
    <3>5. \A i \in 0..MaxGen : shapingGen < i => ~policy[i][s].deadband
      BY <1>7, <2>1, <3>2, <3>3, <3>4 DEF DeadbandsStand
    <3>6. ~policy[shapingGen][s].deadband
      BY <3>3 DEF is_trivial
    <3>7. NoBandAhead(s)
      BY <1>7, <3>5, <3>6 DEF NoBandAhead
    <3> QED BY <1>1, <3>1, <3>7 DEF NoBandAhead, OnceShaped, Tracking, AnchorsHold
  <2>4. CASE s \notin Accepted(e)
    <3>1. s \in DOMAIN entries /\ entries'[s] = entries[s]
      BY <1>6, <2>4
    <3>2. OnceShaped(s) /\ (Anchored(s) \/ NoBandAhead(s))
      BY <1>1, <3>1 DEF Tracking, AnchorsHold
    <3>3. Anchored(s) => Anchored(s)'
      BY <1>5, <2>1, <2>4, <3>1, AnchorKept
    <3> QED BY <1>1, <3>2, <3>3 DEF OnceShaped, NoBandAhead
  <2> QED BY <2>2, <2>3, <2>4
<1>9. OffersTracked'
  <2> SUFFICES ASSUME NEW s \in DOMAIN offered'
               PROVE  HasEnd(s)' /\ Tracks(End(s)', offered'[s])
    BY DEF OffersTracked
  <2>1. /\ s \in DOMAIN e \cup DOMAIN offered
        /\ s \in DOMAIN e => offered'[s] = e[s]
        /\ s \notin DOMAIN e => offered'[s] = offered[s]
    BY <1>1 DEF Over
  <2>2. CASE s \in Accepted(e)
    BY <1>3, <1>4, <2>1, <2>2 DEF Tracks
  <2>3. CASE s \in DOMAIN e \ Accepted(e)
    <3>1. deadband_suppresses(s, e[s])
      BY <2>3 DEF Accepted
    <3>2. s \in DOMAIN entries /\ policy[shapingGen][s].deadband
      BY <3>1 DEF deadband_suppresses
    <3>3. ~NoBandAhead(s)
      BY <1>7, <3>2 DEF NoBandAhead
    <3>4. Anchored(s)
      BY <1>1, <3>2, <3>3 DEF Tracking, AnchorsHold
    <3>5. HasEnd(s)' /\ End(s)' = End(s)
      BY <1>3, <1>5, <2>3, <3>4 DEF Anchored
    <3>6. Near(e[s].val, entries[s].val) /\ entries[s].q = e[s].q
      BY <3>1 DEF deadband_suppresses
    <3>7. Tracks(End(s), e[s])
      BY <3>4, <3>6 DEF Anchored, Tracks, Near
    <3> QED BY <2>1, <2>3, <3>5, <3>7
  <2>4. CASE s \notin DOMAIN e
    <3>1. s \in Signals \ Accepted(e) /\ HasEnd(s) /\ Tracks(End(s), offered[s])
      BY <1>3, <2>1, <2>4 DEF Tracking, OffersTracked
    <3> QED BY <1>5, <2>1, <2>4, <3>1
  <2> QED BY <2>2, <2>3, <2>4
<1>10. Blank'
  BY <1>1 DEF Blank, Tracking
<1> QED BY <1>8, <1>9, <1>10 DEF Tracking

\* The steps that leave where the flow of each signal ends.
LEMMA EndsKept ==
  ASSUME TypeOK, Tracking, policy' = policy,
         shapingGen' \in 0..MaxGen, shapingGen <= shapingGen', Blank',
         entries' = entries \/ DOMAIN entries' = {},
         offered' = offered \/ DOMAIN offered' = {},
         \A s \in Signals : HasEnd(s)' <=> HasEnd(s),
         \A s \in Signals : HasEnd(s) => End(s)' = End(s),
         DOMAIN entries' # {} /\ ~paused' /\ pc' # "resume" => ~paused /\ pc # "resume"
  PROVE  Tracking'
<1>1. DOMAIN entries \subseteq Signals /\ DOMAIN offered \subseteq Signals
  BY MapIs DEF ReadingMap, EntryMap, TypeOK, ShaperTyped, HistoryTyped
<1>2. shapingGen \in 0..MaxGen /\ MaxGen \in Nat
  BY BoundsNat DEF TypeOK, ShaperTyped
<1>3. ASSUME NEW s \in DOMAIN entries'
      PROVE  OnceShaped(s)' /\ (~paused' /\ pc' # "resume" => Anchored(s)' \/ NoBandAhead(s)')
  <2>1. entries' = entries /\ s \in DOMAIN entries /\ s \in Signals
    BY <1>1, <1>3
  <2>2. OnceShaped(s)'
    BY <1>2, <2>1 DEF OnceShaped, Tracking, AnchorsHold
  <2>3. ASSUME ~paused', pc' # "resume" PROVE Anchored(s)' \/ NoBandAhead(s)'
    <3>1. Anchored(s) \/ NoBandAhead(s)
      BY <1>3, <2>1, <2>3 DEF Tracking, AnchorsHold
    <3>2. NoBandAhead(s) => NoBandAhead(s)'
      BY <1>2 DEF NoBandAhead
    <3>3. Anchored(s) => Anchored(s)'
      BY <2>1, AnchorKept
    <3> QED BY <3>1, <3>2, <3>3
  <2> QED BY <2>2, <2>3
<1>4. ASSUME NEW s \in DOMAIN offered'
      PROVE  HasEnd(s)' /\ Tracks(End(s)', offered'[s])
  <2>1. offered' = offered /\ s \in Signals
    BY <1>1, <1>4
  <2>2. HasEnd(s) /\ Tracks(End(s), offered[s])
    BY <1>4, <2>1 DEF Tracking, OffersTracked
  <2>3. HasEnd(s)' /\ End(s)' = End(s)
    BY <2>1, <2>2
  <2> QED BY <2>1, <2>2, <2>3
<1> QED BY <1>3, <1>4 DEF Tracking, AnchorsHold, OffersTracked

LEMMA NextTracking ==
  TypeOK /\ Buffering /\ (DeadbandsStand => Tracking) /\ [Next]_vars
    => (DeadbandsStand => Tracking)'
<1> USE DEF environment, linkVars, configVars, taskVars, sessionVars, lanes, shaperVars,
            holdVars, flowVars
<1> SUFFICES ASSUME TypeOK, Buffering, DeadbandsStand => Tracking, [Next]_vars,
                    DeadbandsStand'
             PROVE  Tracking'
  OBVIOUS
<1>1. policy' = policy
  BY DEF Next, Task, Environment, vars, Connect, TickBroken, Reconnect, Stop,
         TickPaused, TickRead, Offer, Evaluate, Due, Pause, ResumeDown, Resume,
         ResumeEnd, Repoll, RepollAnswered, RepollFailed, LoseLink, FlushAndDrop,
         Drop, Observe, Snapshot, Heartbeat, Silence, MarkDown, MarkUp, Reload
<1>2. DeadbandsStand /\ Tracking /\ Blank
  BY <1>1 DEF DeadbandsStand, Tracking
<1>3. /\ shapingGen \in 0..MaxGen /\ slotGen \in 0..MaxGen /\ MaxGen \in Nat
      /\ shapingGen <= slotGen
  BY <1>2, BoundsNat DEF TypeOK, ShaperTyped, EnvironmentTyped, Blank
<1>4. ASSUME UNCHANGED <<window, flowed, shapingGen>>, Blank',
             entries' = entries \/ DOMAIN entries' = {},
             offered' = offered \/ DOMAIN offered' = {},
             DOMAIN entries' # {} /\ ~paused' /\ pc' # "resume" => ~paused /\ pc # "resume"
      PROVE  Tracking'
  <2>1. \A s : (HasEnd(s)' <=> HasEnd(s)) /\ (HasEnd(s) => End(s)' = End(s))
    BY <1>4 DEF HasEnd, End
  <2> QED BY <1>1, <1>2, <1>3, <1>4, <2>1, EndsKept
<1>5. CASE Environment
  <2>1. UNCHANGED <<window, flowed, shapingGen, entries, offered, sess, paused, pc>>
    BY <1>5 DEF Environment, Observe, Snapshot, Heartbeat, Silence, MarkDown,
                MarkUp, Reload, taskAndBelow
  <2>2. Reload => slotGen' = slotGen + 1
    BY DEF Reload
  <2>3. ~Reload => slotGen' = slotGen
    BY <1>5 DEF Environment, Observe, Snapshot, Heartbeat, Silence, MarkDown, MarkUp
  <2>4. shapingGen <= slotGen'
    BY <1>3, <2>2, <2>3
  <2>5. Blank'
    BY <1>2, <2>1, <2>4 DEF Blank
  <2> QED BY <1>4, <2>1, <2>5
<1>6. CASE Connect
  <2>1. DOMAIN entries = {} /\ DOMAIN offered = {} /\ sess = "down"
    BY <1>2, <1>6 DEF Connect, Blank
  <2>2. UNCHANGED <<entries, offered, paused, pc, slotGen>> /\ shapingGen' = slotGen
    BY <1>6 DEF Connect
  <2>3. Blank'
    BY <1>3, <2>1, <2>2 DEF Blank
  <2> QED BY <2>1, <2>2, <2>3 DEF Tracking, AnchorsHold, OffersTracked
<1>7. CASE TickBroken \/ RepollFailed \/ Reconnect \/ Stop
  <2>1. /\ DOMAIN entries' = {} /\ DOMAIN offered' = {}
        /\ UNCHANGED <<shapingGen, slotGen>>
    BY <1>7, DropFlushes
  <2>2. Blank'
    BY <1>3, <2>1 DEF Blank
  <2> QED BY <2>1, <2>2 DEF Tracking, AnchorsHold, OffersTracked
<1>8. CASE TickRead
  <2>1. /\ Flushes(Superseded) /\ Superseded \in SUBSET Signals
        /\ entries' = entries \/ DOMAIN entries' = {}
        /\ pc' = "publish" /\ sess = "up" /\ ~paused /\ pc = "loop"
        /\ shapingGen' = slotGen
        /\ UNCHANGED <<slotGen, sess, paused, offered>>
    BY <1>8, TickReadFlushes
  <2>2. Blank'
    BY <1>2, <1>3, <2>1 DEF Blank
  <2>3. \A s \in Signals : (HasEnd(s)' <=> HasEnd(s)) /\ (HasEnd(s) => End(s)' = End(s))
    BY <2>1, FlushEnds
  <2> QED BY <1>1, <1>2, <1>3, <2>1, <2>2, <2>3, EndsKept
<1>9. ASSUME NEW t \in Signals, Due(t) PROVE Tracking'
  <2>1. Flushes({t}) /\ {t} \in SUBSET Signals
    BY <1>9, DueFlushes
  <2>2. UNCHANGED <<shapingGen, slotGen, entries, offered, sess, paused, pc>>
    BY <1>9 DEF Due
  <2>3. Blank'
    BY <1>2, <2>2 DEF Blank
  <2>4. \A s \in Signals : (HasEnd(s)' <=> HasEnd(s)) /\ (HasEnd(s) => End(s)' = End(s))
    BY <2>1, FlushEnds
  <2> QED BY <1>1, <1>2, <1>3, <2>2, <2>3, <2>4, EndsKept
<1>10. CASE Offer
  BY <1>2, <1>10, OfferTracked
<1>11. CASE Pause
  <2>1. /\ paused' /\ DOMAIN offered' = {}
        /\ UNCHANGED <<entries, shapingGen, slotGen, sess>>
    BY <1>11, NothingIsMap DEF Pause
  <2>2. Blank'
    BY <1>2, <2>1 DEF Blank
  <2>3. policy' = policy
    BY <1>1
  <2>4. AnchorsHold'
    BY <1>2, <2>1, <2>3 DEF Tracking, AnchorsHold, OnceShaped
  <2> QED BY <2>1, <2>2, <2>4 DEF Tracking, OffersTracked
<1>12. CASE Resume
  <2>1. pc' = "resume" /\ paused /\ ~paused' /\ sess = "up" /\ sess' = sess
    BY <1>12 DEF Resume, InLoop
  <2>2. UNCHANGED <<window, flowed, shapingGen, slotGen, entries, offered>>
    BY <1>12 DEF Resume
  <2>3. Blank'
    BY <1>2, <2>1, <2>2 DEF Blank
  <2> QED BY <1>4, <2>1, <2>2, <2>3
<1>13. CASE ResumeEnd
  <2>1. /\ pc = "resume" /\ pc' = "loop" /\ DOMAIN entries' = {}
        /\ UNCHANGED <<window, flowed, shapingGen, slotGen, offered, sess, paused>>
    BY <1>13, NothingIsMap DEF ResumeEnd
  <2>2. Blank'
    BY <1>2, <2>1 DEF Blank
  <2> QED BY <1>4, <2>1, <2>2
<1>14. CASE ResumeDown
  <2>1. /\ sess = "down" /\ ~paused'
        /\ UNCHANGED <<window, flowed, shapingGen, slotGen, entries, offered, sess, pc>>
    BY <1>14 DEF ResumeDown
  <2>2. Blank' /\ DOMAIN entries = {}
    BY <1>2, <2>1 DEF Blank
  <2> QED BY <1>4, <2>1, <2>2
<1>15. CASE TickPaused \/ Evaluate \/ Repoll \/ RepollAnswered \/ UNCHANGED vars
  <2>1. /\ UNCHANGED <<window, flowed, shapingGen, slotGen, entries, offered, sess, paused>>
        /\ pc' \in {"loop", "repoll"} \/ pc' = pc
        /\ pc = "resume" => pc' = pc
    BY <1>15 DEF TickPaused, Evaluate, Repoll, RepollAnswered, InLoop, vars
  <2>2. Blank'
    BY <1>2, <2>1 DEF Blank
  <2> QED BY <1>4, <2>1, <2>2
<1> QED BY <1>5, <1>6, <1>7, <1>8, <1>9, <1>10, <1>11, <1>12, <1>13, <1>14, <1>15
        DEF Next, Task

LEMMA InitTracking == Init => Tracking
<1> SUFFICES ASSUME Init PROVE Tracking
  OBVIOUS
<1>1. DOMAIN entries = {} /\ DOMAIN offered = {} /\ shapingGen = slotGen /\ slotGen = 0
  BY NothingIsMap DEF Init
<1> QED BY <1>1 DEF Tracking, Blank, AnchorsHold, OffersTracked

LEMMA TrackedIsFaithful == Tracking => FlowTracksOffered
BY DEF Tracking, OffersTracked, FlowTracksOffered, Tracks, HasEnd, End

----------------------------------------------------------------------------
(* The flow is faithful.                                                   *)

FlowInv == TypeOK /\ Buffering /\ Lined /\ (DeadbandsStand => Tracking)

LEMMA FlowInvHolds == Spec => []FlowInv
<1>1. Init => FlowInv
  BY InitTyped, InitBuffers, InitLined, InitTracking DEF FlowInv
<1>2. FlowInv /\ [Next]_vars => FlowInv'
  BY NextTyped, NextBuffers, NextLined, NextTracking DEF FlowInv
<1> QED BY <1>1, <1>2, PTL DEF Spec

\* Whatever is held back in a window, flushed, superseded by a reload or still
\* in a lane, a signal's flow goes back only to readings that a Snapshot of the
\* same drain overtook: what a window holds follows what went out, in the order
\* it was read (driver.rs, shaping.rs set_policies, mtconnect/mod.rs drain).
THEOREM FlowBacksOnlyBehindSnapshots == Spec => []FlowInOrder
<1>1. FlowInv => FlowInOrder
  BY LinedFlows DEF FlowInv
<1> QED BY <1>1, FlowInvHolds, PTL

\* The flow is faithful to what was read, in that order and never far from it,
\* for every table of policies in which a signal that stopped being shaped gets
\* no deadband again; one reload of any two tables is always of that kind.
THEOREM FlowStaysFaithful == Spec => [](DeadbandsStand => FlowFaithful)
<1>1. FlowInv => (DeadbandsStand => FlowFaithful)
  BY LinedFlows, TrackedIsFaithful DEF FlowInv, FlowFaithful
<1> QED BY <1>1, FlowInvHolds, PTL

=============================================================================
