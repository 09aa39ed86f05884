------------------------------ MODULE Metrics -------------------------------
(***************************************************************************)
(* The operational metrics (src/src/metrics.rs): each instance's counters, *)
(* fed by its device task and by the command surface, and each agent's,    *)
(* fed by lock-free bumps (src/src/mtconnect/stats.rs) and by the parse    *)
(* counters; and the emitters that turn them into rows of totals and       *)
(* intervals.                                                              *)
(*                                                                         *)
(* An emitter drains a family's counters, then defines the metric and      *)
(* hands its row to the metric service, which keeps one definition per     *)
(* family name.  Between these steps anything may be recorded, and other   *)
(* emitters define and emit.  A row counts as handed over whether or not   *)
(* the service accepts it: the code logs a refusal and goes on.            *)
(* Latencies, gauges and the other measures of southbound_health are left  *)
(* out: they are summed, or swapped to zero, as the measures kept are.     *)
(***************************************************************************)
EXTENDS Integers, Sequences, FiniteSets, Functions

CONSTANTS
  Devices,     \* the instances, all served by one agent
  Agent,       \* the emitter of the agent's own families, no instance's id
  VerbOrder,   \* the verbs whose outcomes are recorded here, sorted
  Budgets      \* bounds: what may be recorded and emitted, one is chosen:
               \*   [outcomes: by each recorder of the agent,
               \*    commands: with the ticks that shape something,
               \*    rounds: of each emitter, attempts: to connect]

Results == {"success", "error"}
Verbs   == Range(VerbOrder)

\* The verbs are a list of distinct ones, and the agent's id is no instance's.
VerbsApart == VerbOrder \in Seq(Verbs) /\ IsInjective(VerbOrder)
AgentApart == Agent \notin Devices

---------------------------------------------------------------------------
(* The families, their dimensions and measures.                            *)

ParseOf(result) ==
  IF result = "success" THEN {"documentsParsed"}
  ELSE {"parseErrors", "rejectedObservations"}
ParseNames == UNION {ParseOf(r) : r \in Results}

\* Each counter of the acquisition belongs to the cell of its outcome.
StreamOf(result) ==
  IF result = "success" THEN {"documents", "observations", "heartbeats"}
  ELSE {"documentsFailed", "reconnects", "gaps", "outOfRange"}
ProbeOf(result) ==
  IF result = "success" THEN {"probes", "modelChanges"} ELSE {"probesFailed"}

\* AgentStats::snapshot loads the counters one by one, in this order.
StatOrder == <<"documents", "documentsFailed", "observations", "heartbeats",
               "reconnects", "gaps", "outOfRange",
               "probes", "probesFailed", "modelChanges">>
StatNames == Range(StatOrder)

Measures(family) ==
  CASE family = "health"     -> {"reconnects"}
    [] family = "connection" -> {"connectAttempts", "connectFailures",
                                 "reconnectAttempts", "connectionDrops"}
    [] family = "command"    -> {"commandRequests", "commandErrors"}
    [] family = "shaping"    -> {"published", "coalesced", "deadbandDropped"}

Periodic   == <<"health", "connection", "command", "shaping", "parse">>
Transition == <<"health", "connection">>

\* A family's cells, in the order their rows go out: the commands' is the
\* order of their map, by verb and then by result.
Combos(family) ==
  CASE family = "command" -> [n \in 1..2 * Len(VerbOrder) |->
                                <<VerbOrder[(n + 1) \div 2],
                                  IF n % 2 = 1 THEN "error" ELSE "success">>]
    [] family = "parse"   -> <<<<"success">>, <<"error">>>>
    [] OTHER              -> <<<< >>>>

Cells(family) == {family} \X Range(Combos(family))
PairKeys == UNION {Cells(f) \X Measures(f) : f \in {"connection", "command", "shaping"}}
ParseKeys == {<<<<"parse", <<r>>>>, n>> : r \in Results, n \in ParseNames}
AgentKeys == {<<<<f, <<r>>>>, n>> : f \in {"stream", "probe"}, r \in Results, n \in StatNames}
Reconnects == <<<<"health", << >>>>, "reconnects">>
DeviceKeys == PairKeys \cup ParseKeys \cup {Reconnects}
Keys(e) == IF e = Agent THEN AgentKeys ELSE DeviceKeys

Families  == Range(Periodic) \cup {"stream", "probe"}
Emitters  == Devices \cup {Agent}
Recorders == {"acquisition", "asker"}

---------------------------------------------------------------------------
VARIABLES
  stats,    \* the agent's AgentStats and ParseCounters
  opened,   \* streams_opened is not zero
  bumps,    \* what each recorder of the agent has yet to bump
  pair,     \* DeviceMetrics::inner: total and interval of every pair
  lost,     \* Health::reconnects
  ever,     \* ConnCounters::ever_connected
  link,     \* where the device task is: "idle", "connecting", "polling", "stopped"
  parsed,   \* Inner::previous_parse
  previous, \* AgentMetrics::previous
  seen,     \* the agent's snapshot, as far as it is loaded
  plan,     \* the families an emitter has yet to drain
  rows,     \* the rows it has drained and not handed over
  defined,  \* the dimensions the service has for each family
  ready,    \* the emitter has defined its next row's metric
  handed,   \* what has been handed over: the intervals' sum of every key
  left      \* bounds: what is left of the budget

agentVars  == <<stats, opened, bumps>>
deviceVars == <<pair, lost, ever, link>>
baseVars   == <<parsed, previous, seen>>
outVars    == <<plan, rows, defined, ready, handed>>
vars       == <<agentVars, deviceVars, baseVars, outVars, left>>

Zero == [total |-> 0, interval |-> 0]
Add(p, n) == [total |-> p.total + n, interval |-> p.interval + n]
Count(counters, names) == [n \in names |-> counters[n]]
None(names) == [n \in names |-> 0]

Init ==
  /\ stats = None(StatNames \cup ParseNames) /\ opened = FALSE
  /\ bumps = [r \in Recorders |-> << >>]
  /\ pair = [d \in Devices |-> [k \in PairKeys |-> Zero]]
  /\ lost = [d \in Devices |-> 0]
  /\ ever = [d \in Devices |-> FALSE]
  /\ link = [d \in Devices |-> "idle"]
  /\ parsed = [d \in Devices |-> None(ParseNames)]
  /\ previous = None(StatNames) /\ seen = << >>
  /\ plan = [e \in Emitters |-> << >>] /\ rows = [e \in Emitters |-> << >>]
  \* define_all has run for the agent, then for the devices one by one; of a
  \* family's cells the failures come last.
  /\ \E d \in Devices, v \in Verbs :
       defined = [f \in Families |->
                    CASE f \in {"stream", "probe"} -> <<Agent, <<"error">>>>
                      [] f = "parse"   -> <<d, <<"error">>>>
                      [] f = "command" -> <<d, <<v, "error">>>>
                      [] OTHER         -> <<d, << >>>>]
  /\ ready = [e \in Emitters |-> FALSE]
  /\ handed = [e \in Emitters |-> [k \in Keys(e) |-> 0]]
  /\ left \in Budgets

---------------------------------------------------------------------------
(* Recording, the agent's side: one bump at a time.                        *)

\* record_document: an empty document is the agent's heartbeat.
Document(n) ==
  <<<<"documents", 1>>, <<"observations", n>>>>
    \o (IF n = 0 THEN <<<<"heartbeats", 1>>>> ELSE << >>)
Undecodable == <<<<"parseErrors", 1>>, <<"documentsFailed", 1>>>>
Parsed == <<<<"documentsParsed", 1>>>>

\* What the acquisition task records of one exchange: a document, one with
\* an observation refused, a heartbeat, an overrun, an undecodable one.
Exchanges ==
  {Parsed \o Document(2), Parsed \o <<<<"rejectedObservations", 1>>>> \o Document(0),
   Parsed \o Document(0) \o <<<<"outOfRange", 1>>, <<"gaps", 2>>>>, Undecodable}

\* What any task records of a probe, or of a snapshot it asked for.
Requests ==
  {Parsed, Undecodable, <<<<"probesFailed", 1>>>>, Parsed \o <<<<"probes", 1>>>>,
   Parsed \o <<<<"modelChanges", 1>>, <<"probes", 1>>>>,
   Undecodable \o <<<<"probesFailed", 1>>>>}

Record(r, series) ==
  /\ bumps[r] = << >> /\ left.outcomes[r] > 0
  /\ bumps' = [bumps EXCEPT ![r] = series]
  /\ left' = [left EXCEPT !.outcomes[r] = @ - 1]

Exchange ==
  /\ \E series \in Exchanges : Record("acquisition", series)
  /\ UNCHANGED <<stats, opened, deviceVars, baseVars, outVars>>

Request ==
  /\ \E series \in Requests : Record("asker", series)
  /\ UNCHANGED <<stats, opened, deviceVars, baseVars, outVars>>

\* record_stream_opened: the first stream is not a reconnect.
StreamOpened ==
  /\ Record("acquisition", IF opened THEN <<<<"reconnects", 1>>>> ELSE << >>)
  /\ opened' = TRUE
  /\ UNCHANGED <<stats, deviceVars, baseVars, outVars>>

Bump(r) ==
  /\ bumps[r] # << >>
  /\ LET name == Head(bumps[r])[1] IN
     stats' = [stats EXCEPT ![name] = @ + Head(bumps[r])[2]]
  /\ bumps' = [bumps EXCEPT ![r] = Tail(@)]
  /\ UNCHANGED <<opened, deviceVars, baseVars, outVars, left>>

---------------------------------------------------------------------------
(* Recording, the instance's side, under the lock of its counters.         *)

Own(family, name) == <<<<family, << >>>>, name>>
Idle(e) == plan[e] = << >> /\ rows[e] = << >>
Bumped(d, key, n) == [pair EXCEPT ![d][key] = Add(@, n)]

\* The device task attempts to connect ...
Attempt(d) ==
  /\ link[d] = "idle" /\ Idle(d) /\ left.attempts > 0
  /\ link' = [link EXCEPT ![d] = "connecting"]
  /\ pair' = Bumped(d, Own("connection", "connectAttempts"), 1)
  /\ left' = [left EXCEPT !.attempts = @ - 1]
  /\ UNCHANGED <<agentVars, lost, ever, baseVars, outVars>>

\* ... on_connected and emit_now: a link established again is a reconnect ...
Connected(d) ==
  /\ link[d] = "connecting"
  /\ link' = [link EXCEPT ![d] = "polling"]
  /\ pair' = Bumped(d, Own("connection", "reconnectAttempts"), IF ever[d] THEN 1 ELSE 0)
  /\ ever' = [ever EXCEPT ![d] = TRUE]
  /\ plan' = [plan EXCEPT ![d] = Transition]
  /\ UNCHANGED <<agentVars, lost, baseVars, rows, defined, ready, handed, left>>

\* ... or on_connect_failure.
ConnectFailed(d) ==
  /\ link[d] = "connecting"
  /\ link' = [link EXCEPT ![d] = "idle"]
  /\ pair' = Bumped(d, Own("connection", "connectFailures"), 1)
  /\ UNCHANGED <<agentVars, lost, ever, baseVars, outVars, left>>

\* on_shaping: what the shaper did in a tick, or in the flush of an exit.
Shaped(p, c) ==
  [k \in PairKeys |-> IF k[1][1] = "shaping" THEN Add(p[k], c[k[2]]) ELSE p[k]]
Shapings == {[published |-> 1, coalesced |-> 0, deadbandDropped |-> 1],
             [published |-> 0, coalesced |-> 2, deadbandDropped |-> 0]}
Flushes  == {None(Measures("shaping")),
             [published |-> 1, coalesced |-> 0, deadbandDropped |-> 0]}

Tick(d) ==
  /\ link[d] = "polling" /\ Idle(d) /\ left.commands > 0
  /\ \E c \in Shapings : pair' = [pair EXCEPT ![d] = Shaped(@, c)]
  /\ left' = [left EXCEPT !.commands = @ - 1]
  /\ UNCHANGED <<agentVars, lost, ever, link, baseVars, outVars>>

\* The metrics interval has passed.
Emission(d) ==
  /\ link[d] = "polling" /\ Idle(d) /\ left.rounds[d] > 0
  /\ plan' = [plan EXCEPT ![d] = Periodic]
  /\ left' = [left EXCEPT !.rounds[d] = @ - 1]
  /\ UNCHANGED <<agentVars, deviceVars, baseVars, rows, defined, ready, handed>>

\* The link is lost: the windows are flushed, the loss counted, emit_now.
Dropped(d) ==
  /\ link[d] = "polling" /\ Idle(d)
  /\ \E c \in Flushes :
       pair' = [pair EXCEPT ![d] =
                  [Shaped(pair[d], c) EXCEPT ![Own("connection", "connectionDrops")] = Add(@, 1)]]
  /\ lost' = [lost EXCEPT ![d] = @ + 1]
  /\ link' = [link EXCEPT ![d] = "idle"]
  /\ plan' = [plan EXCEPT ![d] = Transition]
  /\ UNCHANGED <<agentVars, ever, baseVars, rows, defined, ready, handed, left>>

\* A deliberate stop flushes and emits nothing.
Stopped(d) ==
  /\ link[d] = "polling" /\ Idle(d)
  /\ \E c \in Flushes : pair' = [pair EXCEPT ![d] = Shaped(@, c)]
  /\ link' = [link EXCEPT ![d] = "stopped"]
  /\ UNCHANGED <<agentVars, lost, ever, baseVars, outVars, left>>

\* record_command, from a task of the command surface.
Recorded(p, verb, result) ==
  LET cell == <<"command", <<verb, result>>>> IN
  [p EXCEPT ![<<cell, "commandRequests">>] = Add(@, 1),
            ![<<cell, "commandErrors">>] = Add(@, IF result = "error" THEN 1 ELSE 0)]

Command(d) ==
  /\ left.commands > 0
  /\ \E v \in Verbs, r \in Results : pair' = [pair EXCEPT ![d] = Recorded(@, v, r)]
  /\ left' = [left EXCEPT !.commands = @ - 1]
  /\ UNCHANGED <<agentVars, lost, ever, link, baseVars, outVars>>

---------------------------------------------------------------------------
(* Emitting.                                                               *)

Row(cell, values) == [cell |-> cell, values |-> values]
Difference(total, before, names) ==
  [n \in names |-> [total |-> total[n], interval |-> total[n] - before[n]]]

\* Mutation: the interval is kept when it is drained.
X_Drained(p) == p

\* Pair::drain_into: both measures go out and the interval starts over.
Drained(p) == [p EXCEPT !.interval = 0]
Values(p, cell) == [n \in Measures(cell[1]) |-> p[<<cell, n>>]]

DrainPairs(d, family) ==
  /\ family \in {"connection", "command", "shaping"}
  /\ rows' = [rows EXCEPT ![d] =
                [n \in DOMAIN Combos(family) |->
                   LET cell == <<family, Combos(family)[n]>> IN Row(cell, Values(pair[d], cell))]]
  /\ pair' = [pair EXCEPT ![d] =
                [k \in PairKeys |-> IF k[1][1] = family THEN Drained(@[k]) ELSE @[k]]]
  /\ UNCHANGED <<lost, parsed>>

\* southbound_health carries intervals only: the counter is swapped for zero.
DrainHealth(d, family) ==
  /\ family = "health"
  /\ rows' = [rows EXCEPT ![d] =
                <<Row(<<family, << >>>>,
                      [n \in Measures(family) |-> [total |-> 0, interval |-> lost[d]]])>>]
  /\ lost' = [lost EXCEPT ![d] = 0]
  /\ UNCHANGED <<pair, parsed>>

\* The agent's parse totals against this instance's previous emission.
DrainParse(d, family) ==
  /\ family = "parse"
  /\ LET total == Count(stats, ParseNames) IN
     /\ rows' = [rows EXCEPT ![d] =
                   [n \in DOMAIN Combos(family) |->
                      LET combo == Combos(family)[n] IN
                      Row(<<family, combo>>, Difference(total, parsed[d], ParseOf(combo[1])))]]
     /\ parsed' = [parsed EXCEPT ![d] = total]
  /\ UNCHANGED <<pair, lost>>

Drain(d) ==
  /\ plan[d] # << >> /\ rows[d] = << >>
  /\ \/ DrainPairs(d, Head(plan[d]))
     \/ DrainHealth(d, Head(plan[d]))
     \/ DrainParse(d, Head(plan[d]))
  /\ plan' = [plan EXCEPT ![d] = Tail(@)]
  /\ UNCHANGED <<agentVars, ever, link, previous, seen, defined, ready, handed, left>>

\* The agent's ticker fires: the snapshot is loaded counter by counter ...
Load ==
  /\ Idle(Agent) /\ Len(seen) < Len(StatOrder)
  /\ seen = << >> => left.rounds[Agent] > 0
  /\ seen' = Append(seen, stats[StatOrder[Len(seen) + 1]])
  /\ left' = IF seen = << >> THEN [left EXCEPT !.rounds[Agent] = @ - 1] ELSE left
  /\ UNCHANGED <<agentVars, deviceVars, parsed, previous, outVars>>

\* ... becomes the baseline of the next, and its differences are the rows.
AgentRows(total, before) ==
  LET stream(r) == Row(<<"stream", <<r>>>>, Difference(total, before, StreamOf(r)))
      probe(r)  == Row(<<"probe", <<r>>>>, Difference(total, before, ProbeOf(r))) IN
  <<stream("success"), probe("success"), stream("error"), probe("error")>>

Rebase ==
  /\ Len(seen) = Len(StatOrder)
  /\ LET total == [n \in StatNames |-> seen[CHOOSE i \in DOMAIN StatOrder : StatOrder[i] = n]] IN
     /\ rows' = [rows EXCEPT ![Agent] = AgentRows(total, previous)]
     /\ previous' = total
  /\ seen' = << >>
  /\ UNCHANGED <<agentVars, deviceVars, parsed, plan, defined, ready, handed, left>>

\* define: the service keeps one definition for each family name ...
Define(e) ==
  /\ rows[e] # << >> /\ ~ready[e]
  /\ LET cell == Head(rows[e]).cell IN defined' = [defined EXCEPT ![cell[1]] = <<e, cell[2]>>]
  /\ ready' = [ready EXCEPT ![e] = TRUE]
  /\ UNCHANGED <<agentVars, deviceVars, baseVars, plan, rows, handed, left>>

\* ... and emit_metric hands it the values under that name.
Emit(e) ==
  /\ rows[e] # << >> /\ ready[e]
  /\ LET row == Head(rows[e]) IN
     handed' = [handed EXCEPT ![e] =
                  [k \in DOMAIN @ |-> IF k[1] = row.cell /\ k[2] \in DOMAIN row.values
                                      THEN @[k] + row.values[k[2]].interval ELSE @[k]]]
  /\ rows' = [rows EXCEPT ![e] = Tail(@)]
  /\ ready' = [ready EXCEPT ![e] = FALSE]
  /\ UNCHANGED <<agentVars, deviceVars, baseVars, plan, defined, left>>

---------------------------------------------------------------------------
Next ==
  \/ Exchange \/ Request \/ StreamOpened \/ \E r \in Recorders : Bump(r)
  \/ \E d \in Devices :
       \/ Attempt(d) \/ Connected(d) \/ ConnectFailed(d) \/ Tick(d) \/ Emission(d)
       \/ Dropped(d) \/ Stopped(d) \/ Command(d) \/ Drain(d)
  \/ Load \/ Rebase
  \/ \E e \in Emitters : Define(e) \/ Emit(e)

Spec == Init /\ [][Next]_vars

---------------------------------------------------------------------------
(* Properties.                                                             *)

Carried(row, k) ==
  IF row.cell = k[1] /\ k[2] \in DOMAIN row.values THEN row.values[k[2]].interval ELSE 0

\* A cell has one row on its way at most, so that what it carries is all there is.
OneRowEach ==
  \A e \in Emitters : \A i, j \in DOMAIN rows[e] : rows[e][i].cell = rows[e][j].cell => i = j
InFlight(e, k) ==
  LET at == {i \in DOMAIN rows[e] : rows[e][i].cell = k[1]} IN
  IF at = {} THEN 0 ELSE Carried(rows[e][CHOOSE i \in at : TRUE], k)
Reported(e, k) == handed[e][k] + InFlight(e, k)

\* Each counter and the cell of its family that reports it.
ParseSeries == UNION {{<<<<"parse", <<r>>>>, n>> : n \in ParseOf(r)} : r \in Results}
AgentSeries == UNION {{<<<<"stream", <<r>>>>, n>> : n \in StreamOf(r)}
                        \cup {<<<<"probe", <<r>>>>, n>> : n \in ProbeOf(r)} : r \in Results}

\* Whatever the interleaving of recording, draining, handing over and link
\* changes, no count is reported twice and none is dropped: what was ever
\* counted is what the rows' intervals add up to, handed over or on their
\* way, and what still waits in the counter; and a row's total is the sum
\* of its series up to it (Pair, pair_values, Health's swapped counters).
IntervalsAddUp ==
  /\ OneRowEach
  /\ \A d \in Devices :
       /\ \A k \in PairKeys : pair[d][k].total = Reported(d, k) + pair[d][k].interval
       /\ pair[d][Own("connection", "connectionDrops")].total = Reported(d, Reconnects) + lost[d]
       /\ \A k \in ParseSeries : parsed[d][k[2]] = Reported(d, k) /\ parsed[d][k[2]] <= stats[k[2]]
  /\ \A k \in AgentSeries : previous[k[2]] = Reported(Agent, k) /\ previous[k[2]] <= stats[k[2]]
  /\ \A e \in Emitters : \A i \in DOMAIN rows[e] :
       LET row == rows[e][i] IN
       row.cell[1] # "health" =>
         \A n \in DOMAIN row.values :
           row.values[n].total = handed[e][<<row.cell, n>>] + row.values[n].interval

\* The link's counters tell one story in every row of the connection
\* family: an attempt has failed, or made the first link, or a reconnect;
\* and every link but the one that stands has dropped (on_connect_attempt,
\* on_connected, on_connect_failure, on_connection_dropped, emit_now).
LifecycleAddsUp ==
  \A d \in Devices : \A i \in DOMAIN rows[d] :
    LET row == rows[d][i]
        of(name) == row.values[name].total IN
    row.cell[1] = "connection" =>
      /\ of("connectAttempts") = of("connectFailures") + of("reconnectAttempts") + 1
      /\ of("connectionDrops") = of("reconnectAttempts") + (IF link[d] = "polling" THEN 0 ELSE 1)

\* A row reaches the service while the service's definition of its family
\* carries the row's own dimensions (emit_combo, emit_family).
RowsAreOwned ==
  \A e \in Emitters : ready[e] =>
    LET cell == Head(rows[e]).cell IN defined[cell[1]] = <<e, cell[2]>>

\* A document and its heartbeat are recorded in one call, so a row never
\* shows more heartbeats than documents (AgentStats::record_document).
NeverDisagree ==
  \A i \in DOMAIN rows[Agent] :
    LET row == rows[Agent][i] IN
    row.cell = <<"stream", <<"success">>>> =>
      /\ row.values["heartbeats"].total <= row.values["documents"].total
      /\ row.values["heartbeats"].interval <= row.values["documents"].interval
=============================================================================
