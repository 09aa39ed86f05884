----------------------------- MODULE DeviceTask -----------------------------
(***************************************************************************)
(* The task of one device instance: its poll loop (src/src/driver.rs), the *)
(* shaper every reading passes through (shaping.rs), the watchdog that     *)
(* degrades what the fleet was told when the agent goes silent             *)
(* (staleness.rs), and the session it drains (device.rs).                  *)
(*                                                                         *)
(* The agent runtime is the environment: it delivers readings and          *)
(* snapshots into the session's queue, owns the connectivity flag and the  *)
(* liveness clock, and may change either between any two steps of the      *)
(* task.  A reload swaps the signal slot at any time.  The task is         *)
(* sequential, so what it does between two awaits that read something the  *)
(* environment owns is one action; a tick reads the session first and the  *)
(* link last, and is therefore several.                                    *)
(*                                                                         *)
(* A reading is the number of the observation it carries, whether it came  *)
(* in a Snapshot, a value and a quality.  The signals here are values: a   *)
(* condition rides the loss-intolerant lane and is module Session's.  A    *)
(* hash map keyed by signal is a function whose domain is the keys         *)
(* present.  A window's deadline is not modelled: it may pass at any       *)
(* moment.  A publish on the wire succeeds.                                *)
(***************************************************************************)
EXTENDS Integers, Sequences, FiniteSets, SequencesExt

CONSTANTS
  Signals,     \* the signals the session serves
  Policies,    \* the publish policies a configuration may give a signal
  Contents,    \* what an observation may say: a value and a quality
  Boot,        \* what the agent says of a signal first
  NoValue,     \* the value of an observation that is not a number
  Deadband,    \* the width of a deadband
  MaxSeq,      \* bound: observations of one signal
  MaxBuffered, \* bound: events not yet on the wire, in queue or window
  MaxGen,      \* bound: reloads of the configuration
  MaxLapses    \* bound: times the agent goes silent or down

Qualities == {"GOOD", "UNCERTAIN", "BAD"}
Phases    == {"Fresh", "Stale", "Expired", "Unreachable"}
Ages      == {"inside", "missed", "expired"}
PolicyType == [window : BOOLEAN, latest : BOOLEAN, deadband : BOOLEAN]

ASSUME PoliciesTyped == Policies \subseteq PolicyType
ASSUME BootTyped     == Boot \in Contents
ASSUME ContentsTyped == \A c \in Contents : /\ DOMAIN c = {"val", "q"}
                                            /\ c.val \in Int \cup {NoValue}
                                            /\ c.q \in Qualities
ASSUME BoundsNat     == MaxSeq \in Nat \ {0} /\ {MaxGen, MaxLapses} \subseteq Nat

VARIABLES
  connected, age,   \* AgentInfo::connected, and where the liveness age falls
  lapses,           \* how much of MaxLapses is spent
  latest,           \* the agent's newest reading of each signal
  policy, slotGen,  \* each generation's policies, and the SignalSlot's
  sess, pc, paused, \* the session, where the task is, Health's paused flag
  critical, data,   \* the session's queue: its two lanes
  resynced,         \* MtcSession::resynced
  shapingGen,       \* the generation whose policies the shaper applies
  window, entries,  \* Shaper: open windows, deadband entry states
  batch,            \* the readings of this tick not yet offered
  held, degraded,   \* QualityWatchdog: SignalRecord::held and ::degraded
  phase,            \* QualityWatchdog::phase
  shown,            \* history: each signal's last sample of this session
  flowed,           \* history: the last reading the shaper let through
  offered,          \* history: the last reading offered, since a pause
  owed              \* history: readings offered and not accounted for

linkVars    == <<connected, age, lapses>>
configVars  == <<policy, slotGen>>
taskVars    == <<sess, pc, paused>>
lanes       == <<critical, data>>
sessionVars == <<lanes, resynced>>
shaperVars  == <<shapingGen, window, entries>>
holdVars    == <<held, degraded, phase>>
flowVars    == <<flowed, offered, owed>>
vars == <<linkVars, latest, configVars, taskVars, sessionVars, shaperVars,
          batch, holdVars, shown, flowVars>>

Reading(n, c) == [seq |-> n, snap |-> FALSE, val |-> c.val, q |-> c.q]

\* What a Snapshot says of each signal.
Baseline(readings) ==
  [s \in DOMAIN readings |-> [readings[s] EXCEPT !.snap = TRUE]]

Nothing  == [s \in {} |-> 0]
NoWindow == [s \in Signals |-> <<>>]
NobodyOwed == [s \in Signals |-> {}]

\* What f says, and g where f is silent.
Over(f, g) ==
  [s \in DOMAIN f \cup DOMAIN g |-> IF s \in DOMAIN f THEN f[s] ELSE g[s]]

Numbers(readings) == {r.seq : r \in ToSet(readings)}

----------------------------------------------------------------------------
(* The publish policies.                                                   *)

is_trivial(p) == ~p.window /\ ~p.deadband

\* The table holds only the policies that shape something.
Shaped(s) == ~is_trivial(policy[shapingGen][s])

SamePolicy(p, p2) == p = p2 \/ (is_trivial(p) /\ is_trivial(p2))

\* Mutation: a window outlives the policy that opened it.
Superseded_Kept == {s \in {} : window[s] # <<>>}

\* The open windows set_policies flushes: their policy is another one now.
Superseded == {s \in Signals : /\ window[s] # <<>>
                               /\ ~SamePolicy(policy[shapingGen][s],
                                              policy[slotGen][s])}

----------------------------------------------------------------------------
(* The shaper (shaping.rs).                                                *)

Near(v, w) == /\ v # NoValue /\ w # NoValue
              /\ v - w < Deadband /\ w - v < Deadband

deadband_suppresses(s, r) ==
  /\ policy[shapingGen][s].deadband
  /\ s \in DOMAIN entries
  /\ entries[s].q = r.q
  /\ Near(r.val, entries[s].val)

\* The readings this tick's event makes the shaper accept.
Accepted(e) == {s \in DOMAIN e : ~deadband_suppresses(s, e[s])}

\* The anchor moves only on a number.
note_entry(s, r) ==
  [val |-> IF r.val = NoValue /\ s \in DOMAIN entries
           THEN entries[s].val ELSE r.val,
   q   |-> r.q]

\* An accepted reading that must wait for its window to expire.
Waits(s, r) == policy[shapingGen][s].window /\ r.q = "GOOD"

Enter(s, r) ==
  IF policy[shapingGen][s].latest THEN <<r>> ELSE Append(window[s], r)

\* Mutation: a reading of bad quality leaves its window behind.
UpdateOf_Alone(s, r) == <<r>>

\* An accepted reading that does not wait: alone, or closing its window.
UpdateOf(s, r) ==
  IF policy[shapingGen][s].window THEN Append(window[s], r) ELSE <<r>>

Leftover(s) == IF policy[shapingGen][s].window THEN <<>> ELSE window[s]

\* What offer makes of one event: what it notes of the readings it accepts,
\* those that wait in a window, and the others, as updates with a last sample.
Noted(e) == [s \in {t \in Accepted(e) : Shaped(t)} |-> note_entry(s, e[s])]
Waiting(e) == {s \in Accepted(e) : Waits(s, e[s])}
Updates(e) == [s \in Accepted(e) \ Waiting(e) |-> UpdateOf(s, e[s])]
Finals(e) == [s \in DOMAIN Updates(e) |-> Last(Updates(e)[s])]

\* The windows of these signals, as the updates that flush them.
Flushed(S) == [s \in {t \in S : window[t] # <<>>} |-> Last(window[s])]

\* History: only the latest reading of an interval is owed.
Owing(s, r) ==
  {r.seq} \cup IF policy[shapingGen][s].latest THEN {} ELSE owed[s]

\* What the history learns of the flush of these signals' windows.
FlushAccounts(S) ==
  /\ flowed' = Over(Flushed(S), flowed)
  /\ owed' = [s \in Signals |->
                IF s \in S THEN owed[s] \ Numbers(window[s]) ELSE owed[s]]

----------------------------------------------------------------------------
(* The watchdog (staleness.rs).                                            *)

PhaseOf(unreachable, a) ==
  IF unreachable THEN "Unreachable"
  ELSE CASE a = "inside"  -> "Fresh"
         [] a = "missed"  -> "Stale"
         [] a = "expired" -> "Expired"

\* A reading on the wire is held, and is nobody's degradation any more.
on_published(updates, h, d) ==
  /\ held' = Over(updates, h)
  /\ degraded' = d \ DOMAIN updates

\* Mutation: recovery restores every held signal to GOOD.
transition_quality_RestoresGood(next, q) ==
  CASE next = "Fresh" -> "GOOD"
    [] next = "Stale" -> IF q = "GOOD" THEN "UNCERTAIN" ELSE q
    [] next \in {"Expired", "Unreachable"} -> "BAD"

transition_quality(next, q) ==
  CASE next = "Fresh" -> q
    [] next = "Stale" -> IF q = "GOOD" THEN "UNCERTAIN" ELSE q
    [] next \in {"Expired", "Unreachable"} -> "BAD"

\* The signals a transition into this phase republishes.
Moving(next, h, d) ==
  {s \in DOMAIN h : IF next = "Fresh" THEN s \in d ELSE h[s].q # "BAD"}

\* The synthetic readings of a transition; none when the phase stands.
Synthetic(next, h, d) ==
  [s \in IF next = phase THEN {} ELSE Moving(next, h, d) |->
     [h[s] EXCEPT !.q = transition_quality(next, h[s].q)]]

evaluate(next) ==
  LET synthetic == Synthetic(next, held, degraded) IN
  /\ phase' = next
  /\ shown' = Over(synthetic, shown)
  /\ degraded' = IF next = "Fresh" THEN degraded \ DOMAIN synthetic
                                   ELSE degraded \cup DOMAIN synthetic
  /\ held' = held

----------------------------------------------------------------------------
(* The agent runtime and the configuration: the task's environment.        *)

Init ==
  /\ connected = TRUE /\ age = "inside" /\ lapses = 0
  /\ latest = [s \in Signals |-> Reading(1, Boot)]
  /\ policy \in [0..MaxGen -> [Signals -> Policies]] /\ slotGen = 0
  /\ sess = "down" /\ pc = "loop" /\ paused = FALSE
  /\ critical = <<>> /\ data = <<>> /\ resynced = FALSE
  /\ shapingGen = 0 /\ window = NoWindow /\ entries = Nothing
  /\ batch = <<>>
  /\ held = Nothing /\ degraded = {} /\ phase = "Fresh"
  /\ shown = Nothing
  /\ flowed = Nothing /\ offered = Nothing /\ owed = NobodyOwed

taskAndBelow == <<taskVars, resynced, shaperVars, batch, holdVars, shown,
                  flowVars>>

Buffered(s) == Len(critical) + Len(data) + Len(batch) + Len(window[s])

Delivering == connected /\ \A s \in Signals : Buffered(s) < MaxBuffered

\* A new observation of one signal: given to the session, or lost in a gap
\* and left to the Snapshot that recovers from it.
Observe(s, c) ==
  /\ Delivering
  /\ latest[s].seq < MaxSeq
  /\ LET r == Reading(latest[s].seq + 1, c) IN
       /\ latest' = [latest EXCEPT ![s] = r]
       /\ \/ sess = "up" /\ data' = Append(data, [t \in {s} |-> r])
          \/ data' = data
  /\ age' = "inside"
  /\ UNCHANGED <<connected, lapses, configVars, critical, taskAndBelow>>

\* The attach snapshot, or one of the resync ladder.
Snapshot ==
  /\ sess = "up"
  /\ Delivering
  /\ critical' = Append(critical, Baseline(latest))
  /\ age' = "inside"
  /\ UNCHANGED <<connected, lapses, latest, configVars, data, taskAndBelow>>

Heartbeat ==
  /\ connected /\ age # "inside"
  /\ age' = "inside"
  /\ UNCHANGED <<connected, lapses, latest, configVars, lanes, taskAndBelow>>

Lapse == lapses < MaxLapses /\ lapses' = lapses + 1

\* How old the last word is matters only while the agent is connected.
Silence ==
  /\ connected /\ age # "expired" /\ Lapse
  /\ age' = IF age = "inside" THEN "missed" ELSE "expired"
  /\ UNCHANGED <<connected, latest, configVars, lanes, taskAndBelow>>

MarkDown ==
  /\ connected /\ Lapse
  /\ connected' = FALSE
  /\ UNCHANGED <<age, latest, configVars, lanes, taskAndBelow>>

MarkUp ==
  /\ ~connected
  /\ connected' = TRUE /\ age' = "inside"
  /\ UNCHANGED <<lapses, latest, configVars, lanes, taskAndBelow>>

Reload ==
  /\ slotGen < MaxGen
  /\ slotGen' = slotGen + 1
  /\ UNCHANGED <<linkVars, latest, policy, lanes, taskAndBelow>>

----------------------------------------------------------------------------
(* The task: connecting, and every way out of the poll loop.               *)

environment == <<linkVars, latest, configVars>>

InLoop == sess = "up" /\ pc = "loop"

\* A polled agent may tell the new session what stands before its first read,
\* as ordinary observations.
Connect ==
  /\ sess = "down" /\ connected
  /\ sess' = "up"
  /\ data' \in {<<>>, <<latest>>}
  /\ shapingGen' = slotGen
  /\ shown' = Nothing /\ flowed' = Nothing
  /\ UNCHANGED <<environment, pc, paused, critical, resynced, window, entries,
                 batch, holdVars, offered, owed>>

\* The session, the shaper and the watchdog go together.
Drop(next) ==
  /\ sess' = next /\ pc' = "loop"
  /\ critical' = <<>> /\ data' = <<>> /\ resynced' = FALSE
  /\ window' = NoWindow /\ entries' = Nothing
  /\ held' = Nothing /\ degraded' = {} /\ phase' = "Fresh"
  /\ offered' = Nothing
  /\ UNCHANGED <<environment, paused, shapingGen, batch>>

\* Flush what is buffered, and drop the session.
FlushAndDrop(next) ==
  /\ FlushAccounts(Signals)
  /\ shown' = Over(Flushed(Signals), shown)
  /\ Drop(next)

\* Mutation: the verdict is the link's, not that of the read that failed.
LoseLink_AsSeen ==
  LET flushed == Flushed(Signals)
      verdicts == Synthetic(PhaseOf(~connected, age), Over(flushed, held),
                            degraded \ DOMAIN flushed)
  IN /\ FlushAccounts(Signals)
     /\ shown' = Over(verdicts, Over(flushed, shown))
     /\ Drop("down")

\* ... and say of everything held that the link is lost.
LoseLink ==
  LET flushed == Flushed(Signals)
      verdicts == Synthetic("Unreachable", Over(flushed, held),
                            degraded \ DOMAIN flushed)
  IN /\ FlushAccounts(Signals)
     /\ shown' = Over(verdicts, Over(flushed, shown))
     /\ Drop("down")

Reconnect == InLoop /\ FlushAndDrop("down")

Stop == \/ InLoop /\ FlushAndDrop("stopped")
        \/ sess = "down" /\ FlushAndDrop("stopped")

----------------------------------------------------------------------------
(* The tick.                                                               *)

\* The read finds the agent unreachable: what was drained goes nowhere.
TickBroken == InLoop /\ ~connected /\ LoseLink

\* While paused the drain goes on, and nothing else does.
TickPaused ==
  /\ InLoop /\ connected /\ paused
  /\ critical' = <<>> /\ data' = <<>>
  /\ resynced' = (resynced \/ critical # <<>>)
  /\ UNCHANGED <<environment, taskVars, shaperVars, batch, holdVars, shown,
                 flowVars>>

\* The drain hands over the loss-intolerant lane first.  A baseline forgets the
\* anchors and what is held; a new generation swaps the policies, and flushes
\* the windows whose policy it changed.
TickRead ==
  LET rebaselined == resynced \/ critical # <<>>
      h == IF rebaselined THEN Nothing ELSE held
      d == IF rebaselined THEN {} ELSE degraded
      flushed == Flushed(Superseded)
  IN /\ InLoop /\ connected /\ ~paused
     /\ critical' = <<>> /\ data' = <<>> /\ resynced' = FALSE
     /\ entries' = IF rebaselined THEN Nothing ELSE entries
     /\ phase' = IF rebaselined THEN "Fresh" ELSE phase
     /\ window' = [s \in Signals |->
                     IF s \in Superseded THEN <<>> ELSE window[s]]
     /\ shapingGen' = slotGen
     /\ FlushAccounts(Superseded)
     /\ on_published(flushed, h, d)
     /\ shown' = Over(flushed, shown)
     /\ batch' = critical \o data
     /\ pc' = "publish"
     /\ UNCHANGED <<environment, sess, paused, offered>>

\* One event of the tick through the shaper; its signals go their own ways.
Offer ==
  /\ pc = "publish" /\ batch # <<>>
  /\ LET e == Head(batch) IN
       /\ entries' = Over(Noted(e), entries)
       /\ window' = [s \in Signals |->
                       IF s \in Waiting(e) THEN Enter(s, e[s])
                       ELSE IF s \in DOMAIN Updates(e) THEN Leftover(s)
                       ELSE window[s]]
       /\ owed' = [s \in Signals |->
                     IF s \in Waiting(e) THEN Owing(s, e[s])
                     ELSE IF s \in DOMAIN Updates(e)
                     THEN owed[s] \ Numbers(Updates(e)[s])
                     ELSE owed[s]]
       /\ flowed' = Over(Finals(e), flowed)
       /\ offered' = Over(e, offered)
       /\ on_published(Finals(e), held, degraded)
       /\ shown' = Over(Finals(e), shown)
  /\ batch' = Tail(batch)
  /\ UNCHANGED <<environment, taskVars, sessionVars, shapingGen, phase>>

\* The link is read only now that the tick's readings are on the wire.
Evaluate ==
  /\ pc = "publish" /\ batch = <<>>
  /\ evaluate(PhaseOf(~connected, age))
  /\ pc' = "loop"
  /\ UNCHANGED <<environment, sess, paused, sessionVars, shaperVars, batch,
                 flowVars>>

Due(s) ==
  /\ InLoop /\ window[s] # <<>>
  /\ FlushAccounts({s})
  /\ on_published(Flushed({s}), held, degraded)
  /\ shown' = Over(Flushed({s}), shown)
  /\ window' = [window EXCEPT ![s] = <<>>]
  /\ UNCHANGED <<environment, taskVars, sessionVars, shapingGen, entries,
                 batch, phase, offered>>

----------------------------------------------------------------------------
(* The control channel.                                                    *)

\* Mutation: pausing leaves the windows open.
clear_buffers_Kept == window' = window /\ owed' = owed

\* Pausing discards the open windows: resuming tells the fleet anew.
clear_buffers ==
  /\ window' = NoWindow
  /\ owed' = NobodyOwed

Pause ==
  /\ sess # "stopped" /\ pc = "loop" /\ ~paused
  /\ paused' = TRUE
  /\ clear_buffers
  /\ offered' = Nothing
  /\ UNCHANGED <<environment, sess, pc, sessionVars, shapingGen, entries,
                 batch, holdVars, shown, flowed>>

ResumeDown ==
  /\ sess = "down" /\ paused
  /\ paused' = FALSE
  /\ UNCHANGED <<environment, sess, pc, sessionVars, shaperVars, batch,
                 holdVars, shown, flowVars>>

\* What was held is forgotten before the snapshot is asked for.
Resume ==
  /\ InLoop /\ paused
  /\ paused' = FALSE
  /\ held' = Nothing /\ degraded' = {} /\ phase' = "Fresh"
  /\ pc' = "resume"
  /\ UNCHANGED <<environment, sess, sessionVars, shaperVars, batch, shown,
                 flowVars>>

Repoll ==
  /\ InLoop /\ ~paused
  /\ pc' = "repoll"
  /\ UNCHANGED <<environment, sess, paused, sessionVars, shaperVars, batch,
                 holdVars, shown, flowVars>>

\* A forced snapshot goes straight to the wire.  An agent that answers vouches
\* for its data, and says nothing of the acquisition: connected stands.
PublishSnapshot ==
  /\ age' = "inside"
  /\ on_published(latest, held, degraded)
  /\ shown' = Over(latest, shown)

ResumeEnd ==
  /\ pc = "resume"
  /\ \/ PublishSnapshot
     \/ UNCHANGED <<age, held, degraded, shown>>
  /\ entries' = Nothing
  /\ pc' = "loop"
  /\ UNCHANGED <<connected, lapses, latest, configVars, sess, paused,
                 sessionVars, shapingGen, window, batch, phase, flowVars>>

RepollAnswered ==
  /\ pc = "repoll"
  /\ PublishSnapshot
  /\ pc' = "loop"
  /\ UNCHANGED <<connected, lapses, latest, configVars, sess, paused,
                 sessionVars, shaperVars, batch, phase, flowVars>>

RepollFailed == pc = "repoll" /\ LoseLink

Task ==
  \/ Connect \/ TickBroken \/ Reconnect \/ Stop \/ TickPaused
  \/ TickRead \/ Offer \/ Evaluate
  \/ \E s \in Signals : Due(s)
  \/ Pause \/ ResumeDown \/ Resume \/ ResumeEnd
  \/ Repoll \/ RepollAnswered \/ RepollFailed

Environment ==
  \/ \E s \in Signals, c \in Contents : Observe(s, c)
  \/ Snapshot \/ Heartbeat \/ Silence \/ MarkDown \/ MarkUp \/ Reload

Next == Task \/ Environment

Spec == Init /\ [][Next]_vars

----------------------------------------------------------------------------
(* What the task promises.                                                 *)

ReadingType == [seq : 1..MaxSeq, snap : BOOLEAN,
                val : {c.val : c \in Contents}, q : Qualities]

MapsTo(R) == UNION {[S -> R] : S \in SUBSET Signals}

ReadingMap == MapsTo(ReadingType)

EntryType == [val : {c.val : c \in Contents}, q : Qualities]

EntryMap == MapsTo(EntryType)

EnvironmentTyped ==
  /\ connected \in BOOLEAN /\ age \in Ages /\ lapses \in 0..MaxLapses
  /\ latest \in [Signals -> ReadingType]
  /\ policy \in [0..MaxGen -> [Signals -> Policies]] /\ slotGen \in 0..MaxGen

TaskTyped ==
  /\ sess \in {"down", "up", "stopped"}
  /\ pc \in {"loop", "publish", "resume", "repoll"}
  /\ paused \in BOOLEAN

SessionTyped ==
  /\ critical \in Seq(ReadingMap) /\ data \in Seq(ReadingMap)
  /\ batch \in Seq(ReadingMap)
  /\ resynced \in BOOLEAN

ShaperTyped ==
  /\ shapingGen \in 0..MaxGen
  /\ window \in [Signals -> Seq(ReadingType)]
  /\ entries \in EntryMap

\* What is degraded is held.
WatchdogTyped ==
  /\ held \in ReadingMap
  /\ degraded \subseteq DOMAIN held
  /\ phase \in Phases

HistoryTyped ==
  /\ shown \in ReadingMap /\ flowed \in ReadingMap /\ offered \in ReadingMap
  /\ owed \in [Signals -> SUBSET (1..MaxSeq)]

\* The types of the variables; nothing is marked degraded that is not held
\* (driver.rs, shaping.rs, staleness.rs).
TypeOK ==
  /\ EnvironmentTyped /\ TaskTyped /\ SessionTyped
  /\ ShaperTyped /\ WatchdogTyped /\ HistoryTyped

\* Every reading given to the shaper was published, superseded within its
\* interval, suppressed by its deadband or discarded by a pause -- or is in
\* its signal's window; and no window is lost with a session (driver.rs
\* flush_open_windows: no exit may drop buffered readings).
Accounted == \A s \in Signals : owed[s] = Numbers(window[s])

\* This reading may come after that one: it is no older, or that one came in a
\* Snapshot and overtook it in its lane.
Follows(after, r) == r.seq <= after.seq \/ (r.snap /\ ~after.snap)

\* What a signal's window holds follows what already went out, in order:
\* whatever flushes it, the shaped flow goes back only to readings a Snapshot
\* overtook, never behind another of them (driver.rs, the readings of a window
\* in arrival order; shaping.rs set_policies; mtconnect/mod.rs drain).
FlowInOrder ==
  \A s \in Signals :
    LET w == window[s] IN
    /\ \A i, j \in 1..Len(w) : i < j => Follows(w[j], w[i])
    /\ s \in DOMAIN flowed => \A i \in 1..Len(w) : Follows(w[i], flowed[s])

\* The deadband never hides more than its width: with nothing in its window,
\* a signal's last published reading is of the quality of the last one offered
\* and near it, or was no number (shaping.rs: compares against the last
\* accepted value, never suppresses a change of quality, and moves the anchor
\* only on a number: after a text, a number near the anchor is suppressed).  A
\* policy that stops shaping and gets a deadband again is the exception, which
\* takes two reloads: QualityPasses.
FlowTracksOffered ==
  \A s \in DOMAIN offered :
    window[s] = <<>> =>
      /\ s \in DOMAIN flowed
      /\ \/ flowed[s] = offered[s]
         \/ /\ flowed[s].q = offered[s].q
            /\ \/ Near(flowed[s].val, offered[s].val)
               \/ flowed[s].val = NoValue

\* The shaped flow is faithful to what was read: in order, and never far from it.
FlowFaithful == FlowInOrder /\ FlowTracksOffered

\* What the watchdog believes the fleet sees is what it sees: the held
\* reading, with the verdict of the present phase if it is marked degraded
\* and its own otherwise (staleness.rs: recovery restores the held verdict).
ShownIsHeld ==
  \A s \in DOMAIN held :
    shown[s] = IF s \in degraded
               THEN [held[s] EXCEPT !.q = transition_quality(phase, held[s].q)]
               ELSE held[s]

\* While the instance is paused no reading of the machine reaches the wire:
\* what changes there is the verdict of a link that is lost (driver.rs, the
\* pause semantics of run_polling).
PausedGate ==
  [][paused /\ sess = "up" =>
               /\ flowed' = flowed
               /\ DOMAIN shown' = DOMAIN shown
               /\ \A s \in DOMAIN shown' :
                    shown'[s] \in {shown[s], [shown[s] EXCEPT !.q = "BAD"]}]_vars

\* A session that dies with its link leaves everything it held BAD, unless
\* the link had been judged unreachable before (driver.rs lost_link).
LossShowsBad ==
  [][TickBroken \/ RepollFailed =>
       \A s \in DOMAIN held : phase # "Unreachable" => shown'[s].q = "BAD"]_vars

\* driver.rs:506-508: "the fleet must see BAD, not a GOOD value frozen at the
\* moment the link went".
NoFrozenGood ==
  [][TickBroken \/ RepollFailed =>
       \A s \in DOMAIN held : shown'[s].q = "BAD"]_vars

\* docs/reference/configuration.md:86: "any `quality`/`qualityRaw` change
\* always passes" the deadband.
QualityPasses ==
  \A s \in DOMAIN offered :
    window[s] = <<>> => s \in DOMAIN flowed /\ flowed[s].q = offered[s].q

=============================================================================
