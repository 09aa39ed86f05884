# A TLA+ development of the MTConnect adapter

The adapter (`src/`) connects MTConnect agents to an edgecommons bus. For each
agent one *acquisition task* probes the device models, takes `/current`
snapshots and follows a multipart `/sample` stream; it demultiplexes documents
into one event queue per attached device. For each device a *device task* opens
a session, drains that queue, maps observations to readings, shapes them and
publishes them. Commands, reloads, metrics and a staged shutdown surround the two.

This directory models what the parts do to each other where that is hard to test
(two tasks, an agent that restarts, overruns, falls silent or refuses, commands,
reloads and a shutdown in the midst of all of it), and, as pure algorithms
checked against reference definitions, what turns the agent's documents and the
component's configuration into signals and samples.

Line numbers below are of `src/src/mtconnect/mod.rs` unless a file is named.
Definitions named `X_Something` after a definition `X`, and those a comment
introduces as a mutation, are plausible slips in that piece of code. Each is seen
to break the property it was written for, which is how the properties are known
to say something. They are not part of any specification.

## 1. Inventory

| Part | State | Operations | Talks to |
|---|---|---|---|
| Instance queue (232-464) | two lanes, `detached`, counters | `send_data`, `send_critical`, `drain`, drop of the receiver | written by the acquisition task and by whoever broadcasts; drained by the session |
| Acquisition task (855-1181, 1408-1934) | `resync_needed`, `attach_pending`, `attach_notify`, locals of `run_streaming`, the open stream | `snapshot_cycle`, `ingest_streams_doc`, `drive_stream`, `service_attach_snapshots`, `wait_serving_ctl` | the agent over HTTP, the queues, the control channel |
| Sequence state (`sequence.rs`) | `instance_id`, `next`, dedupe floors | `observe_header`, `should_publish`, `reset_dedupe` | the acquisition task, under one mutex |
| Published state (1136-1181, 2048-2067) | `AgentInfo`, `last_down`, liveness clock, refusal streak | `mark_up`, `mark_down`, `update_info`, `refresh_model` | written by the acquisition task, device tasks and command reads; read by everyone |
| Stream reader (`multipart.rs`, `stream.rs`) | buffer, state, heartbeat watch | `push`, `next_part`, `drive_stream`, `handle_part` | transport, acquisition task |
| Documents (`xml.rs`, `observations.rs`, `model.rs`) | none | parse, decode, digest, project | acquisition task, session |
| Device session (`device.rs`) | compiled signals, model, queue end, condition ledgers | `connect`, `read_signals`, `read_named`, `snapshot_now`, `close` | the runtime; owned by one device task |
| Device task (`driver.rs`) | shaper, watchdog, paused flag, pending replies | `run_device`, `run_polling`, `serve_while_down`, `stop_cleanly` | session, publisher, commands, reload |
| Shaping (`shaping.rs`) | open windows, deadband references, policies | `offer`, `due`, `flush_all`, `clear_buffers`, `set_policies` | device task |
| Passive quality (`staleness.rs`) | held readings, phase | `on_published`, `evaluate`, `on_rebaseline` | device task |
| Selection (`selection.rs`) | none | `served_set`, `derive_channel`, matchers | session, commands, reload |
| Reload (`reload.rs`) | signal slots, generations | `classify`, `apply` | configuration listener, sessions, commands |
| Commands (`commands.rs`) | none of its own | nine verbs | published state, the tasks' control channels |
| Supervisor (`supervisor.rs`, `app.rs`, `main.rs`) | tasks, tokens, health | `App::new`, `run`, `shutdown_within` | all of the above |
| Metrics (`metrics.rs`, `stats.rs`) | counters, name-keyed definitions | `record_*`, `drain`, `emit_*` | every task |
| HTTP client, configuration, errors (`client.rs`, `config.rs`, `error.rs`) | none | requests, validation, codes | acquisition task, start-up, commands |

The runtime is multi-threaded (`main.rs`, `#[tokio::main]`), so the acquisition
task, the device tasks, the command handlers and the emitters really run in
parallel: every lock section and every `await` is a point where another may step in.

What makes each part correct:

* **Queue**: bounded memory; every loss counted, once; per-class order; a blocked
  send always ends, and sees a drain or the end of its consumer.
* **Acquisition**: between a session's snapshot and the stream's cursor nothing is
  missing and nothing repeated; after a restart of the agent nothing is published
  before the models have been probed again; every gap ends in a re-baseline; with
  a live agent the machine always gets back to a stream.
* **Published state**: every instance ends up with its session if, and only if, the agent delivers.
* **Device task**: a paused instance is silent; the shaped flow never goes back and
  loses no buffered reading; a deadband hides no more than its width; a held value
  degrades with the link, is restored exactly, and does not survive the link as GOOD.
* **Condition ledger**: a signal is as bad as its worst active condition, and an
  activation is never taken back to an earlier report.
* **Reload**: whole or not at all; what it leaves is what a restart would make; sessions settle on it.
* **Commands**: every command is answered; what is answered is about what was asked.
* **Shutdown**: within its budgets, device tasks before agents, every task accounted for.
* **Documents, selection, metrics**: read as written, published as meant; the served
  set is its definition; what is counted is reported once.

## 2. Modules

### The event queue: `InstanceQueue`, `MCInstanceQueue`, `InstanceQueue_proofs`

A step is one section under the queue's mutex or one arm of the `select!` a blocked
`send_critical` waits in:

| Action | Code |
|---|---|
| `SendDataDetached/Room/Coalesce/Evict` | the four ways through `send_data` (323-347) |
| `BeginCritical`, `CheckCancel`, `Push`, `Arm`, `Offer`, `Wake`, `GiveUp`, `SpendBudget`, `count_critical_drop` | `send_critical` (357-424): token, push, `notified().enable()`, second offer, the three arms of the wait |
| `Abandon` | a blocked send whose future is dropped: by the `select!` around the acquisition (1416-1421), or with a device task that ends |
| `FoldCounters` | the tail of `send_on` (1990-2028): take the counters, fold them, answer |
| `Drain`, `DropReceiver`, `NotifyWaiters` | `drain` and `Drop` (431-464): the locked section and the notification after it are two steps |
| `Cancel` | the token of `shutdown` |

An event is a key and an id; `LossIntolerant` is what `is_loss_intolerant` says of the
key. `sent`, `drained`, `discarded`, `seen`, `queued` are history. An event whose send is
abandoned is neither delivered nor counted; `Conserved` allows one for each task so ended,
and `CancelledIsCounted` says there is none. The order of the lanes is promised to a
sender that is `Alone`, and so is the truth of an answer; that every answer is true
(`DeliveredIsLanded`) does not hold of two, as `send_on` may answer from the other one's
counters.

### Acquisition: `Acquisition`, `MCAcquisition`, `Acquisition_proofs`

One agent, its acquisition task and the sessions of its devices. The agent is the
environment: a log, a buffer of `buffer`, an incarnation. The task is a program counter
over `snapshot_cycle`, `ingest_streams_doc`, `run_streaming` and `drive_stream`:

    connect|idle|wait -> [reprobe] -> fetch -> ingest -> measure <-> dispatch -> settle -> open
    open -> drive -> ingest -> measure <-> dispatch -> judge -> drive | connect
    drive -> serve <-> serving -> drive          (attach snapshots)
    drive -> open | wait | connect               (ladders 1, degradation, 2 and 3)

`seq` is `SequenceState`, `resync` is `resync_needed`, `pending` and `permit` are
`attach_pending` and the permit of `attach_notify`, `failures`, `degraded`, `republish`
the locals of `run_streaming`. One data item stands for each device, so an observation is
its incarnation and its number; `gen` is the incarnation the model it was decoded with
was probed from. Sessions connect, attach, drain and close at any point of the task.
The floors of a device outlive its session, as `detach` leaves them.
`given`, `lost`, `base`, `since`, `marked` are history, and so is `abandoned`: a
recovery was given up after its re-probe (see (b) in section 4). Requests fail by a bound, whatever
the reason; a part carries some prefix of what is new; the lanes are unbounded here, a lane
that drops is a fault; backoff is a wait that ends; `Connect` answers `ensure_model` at
once (`SignalViews` and `AgentState` take it apart).

### The agent's published state: `AgentState`

`update_info` takes no lock: `Load` and `Store` are two actions of any task (acquisition,
or a device task that probes), with the announcement (`Tell`) a third. `Reprobe…`,
`Delivered`, `Refused` (the streak of refusals up to `CURRENT_ERROR_DOWN_STREAK`), `Failed`
are the acquisition task's; `Connect`, `Probed`, `ProbeFailed`, `Seed`, `Attach`, `Read`,
`Leave` a device task's: `Seed` reads the connected flag before `Attach` makes the queue a
sink, `Read` asks the flag again at each drain. The agent delivers, refuses or is dead, and
may restart with another description.

### The wire: `Wire`, `MCWire`, `Inbound_proofs`

The multipart body cut into chunks by the transport, the splitter that frames it and the
loop that reads it: `Chunk` is `push`, `Split`/`Unframeable`/`Starved` are the outcomes of
`next_part` (`Seek`, `AfterMarker`, `HeaderBlock`, `BodyOf` are its states), `Handle` is
`handle_part` with the count of parts in a row that could not be used, `Cut`, `Missed`,
`Tick` the other arms of `drive_stream`. Bytes are tokens, CRLF or LF one of them; sizes
count tokens. What an agent may send is given by `Scripts`, with the `Stream` of each and
the place where each part starts in it; the assumptions say that a stream is its parts
and an epilogue (`StreamIsItsParts`) and that they can be told apart: no marker in the text
before one or in a body that ends at one, and nothing between such a body and the next
marker (`PartsCanBeFramed`). `BadLines` are header lines without a colon or with a length that is no number. `MCWire`
writes the streams out. The transport's chunks are of any size up to `MaxChunk`: the cap is
on everything held, so a chunk larger than the room left makes `push` (`multipart.rs:157`)
refuse a stream whose parts all fit (`Crowded`).

### Documents and readings: `Documents`, `Observations`, `MCDocuments`

Pure: the tokenizer's events folded into a tree within the caps (`Push`, `Opened`, `Wrote`,
`Closed`, `Latched` are the arms of `parse_document`), the tree read as a Streams, Errors or
Devices document, and the canonical text a device's digest is taken of (`Documents`); an
entry decoded against the model, made the reading of a signal, a sample, an update
(`Observations`: `decode_value`, `decode`, `reading_from_observation`, `build_sample`,
`update`). `MCDocuments` writes trees and reports in several styles (CDATA, references,
comments, prefixes, order of attributes, blanks) and states what reading them must give.
A symbol stands for a word in any case, for a blank, or for a reference: `&amp;` and
`&#32;` are defined, `&x;` is not and must be kept as inert text. Both modules are
recursive and only model-checked.

### What a session shows: `Conditions`, `Session`, `ConditionView`, `MCSession`, `Session_proofs`

`Conditions` is `ConditionLedger` (`device.rs` 1654-1782): `apply` one condition, `Folded`
a batch in closed form, `aggregate`, `condition_quality`. `Session` composes the agent's log, the acquisition
task's documents (`StreamPart`, `Poll`, `Reopen`, `Recover`, `DispatchObs`,
`DispatchSnapshot`, `CycleDone`, `ServeAttach`, `ServeAttachUndelivered`,
`ServeAttachFailed`), the two lanes and `MtcSession` (`Attach`,
`Detach`, `Read`, `Ask`, `Served`) for one condition and the value bound to it.
A send to the loss-intolerant lane may run out of its budget (`BudgetEnds`): `DropObs` and
`DropSnapshot` lose what a document brought, its floors already raised;
`ServeAttachUndelivered` clears the debt and raises none. A drop ends what the session may
claim (`whole`, `exact`) until a whole `/current` is given to it again. What `send` answers
is taken at its word here (`DeliveredIsLanded` is the queue's matter), and the data lane
loses nothing: a value is resampled, and its losses are `InstanceQueue`'s.
`ConditionView` is the abstract promise: per activation, what a session shows is something
the agent said, and its flow never moves back. `Session` implements it
(`ShowsWhatWasSaid == View!Spec`, with `said <- agent`, `on <- attached`,
`behind <- drained`, `shows <- ledger.active`).

### The device task: `DeviceTask`, `MCDeviceTask`, `DeviceTask_proofs`

`run_polling` with the `Shaper` and the `QualityWatchdog`:

| Action | Code |
|---|---|
| `Observe`, `Snapshot`, `Heartbeat`, `Silence`, `MarkDown`, `MarkUp` | what the acquisition task does to this instance: its queue, `connected`, the liveness clock |
| `Reload` | a swap of the `SignalSlot` (`reload.rs`) |
| `Connect` | a connect that succeeds, and the preamble of `run_polling` |
| `TickBroken`, `TickPaused`, `TickRead`, `Offer`, `Evaluate` | the tick arm (`driver.rs` 497-553): the read fails, is drained unpublished, or is followed by re-baseline and policy swap, then each event through the shaper, then the verdict on the link |
| `Due` | the arm of the windows' deadline (557-561) |
| `Pause`, `ResumeDown`, `Resume`, `ResumeEnd`, `Repoll`, `RepollAnswered`, `RepollFailed`, `Reconnect`, `Stop` | the control arm (353-493), `serve_while_down`, `stop_cleanly` |

A tick is three kinds of step because it reads the session first and the link last
(`pc = "publish"` between them); a resume and a repoll are two because the agent's answer
is awaited. `window`, `entries` are the shaper's; `held`, `degraded`, `phase` the watchdog's;
`shown`, `flowed`, `offered`, `owed` history. The queue has its two lanes, and a drain hands
over the one with the Snapshots first: `Follows` says which readings may then come after
which. An observation may be lost in a gap and come with the Snapshot that recovers from it.
The signals here are values; the
liveness age is the band it falls in; a deadline may pass at any moment; a publish on the
wire succeeds; the served set does not change.

### Life and death of the tasks: `Lifecycle`, `MCLifecycle`, `Lifecycle_proofs`

`run_device`'s two loops with the commands that reach them and the teardown that ends them.
A caller `Ask`s and `Send`s into a bounded channel; the task `Take`s and `Serve`s, `Refuse`s
(no session), `Hasten`s (a reconnect while down) or holds the reply of a `Reconnect` until
the next attempt (`ConnectOk`, `ConnectFail`, `Announce`) or its `End`. `Shutdown` and the
`Teardown` steps (`Join`, `Abort`, `AbortLands`, `CancelAgents`, `StopAcknowledged`, `StopUnanswered`, `FlushMetrics`, `Flushed`, `FlushUnanswered`,
`Tick`) are `shutdown_within` with its three budgets and its report. `Raise` and the link
token are the `device-unreachable` alarm and `LinkState`.

### Configuration to signals: `ProbeModel`, `ProbeWalk`, `Selection`, `Browse`, `Expansion`, `MCSelection`, `SignalViews`, `MCSignalViews`, `SignalViews_proofs`

`ProbeWalk` is `from_device_element`/`walk` (`model.rs`), from a description to its tree;
`ProbeModel` what is read of a tree; `Selection` is `served_set` with its fill of explicit
entries, its matchers, its ids and `derive_channel` with its budget; `Browse` the pages of
`sb/browse`, `Expansion` its hierarchical form. The walk and the expansion recurse over a
tree and stand in modules of their own, so that the others can be proved about; `Picking`
has the one helper they share, the elements of a list that are in a set. Sanitizing a token
and its width are tables. `MCSelection` holds the reference definitions.

`SignalViews` is who serves which of them, and when they agree: `Rebuild` (the agent comes
back with another description), `BeginReprobe`/`FetchProbe`/`ProbeFailed`/`StoreProbe` (the re-probe of the acquisition task),
`EnsureCached`/`EnsureFetch`/`EnsureStore` (`ensure_model` of a device task, fetch and store
apart), `Attach`, `Read`, `Serve`, `Close` of a session, `Reload` and `StoreSlot` (slots
swapped one by one), `LoadModel` and `Answer` (`browse_model` loads model and slot at two
moments). A generation is named by what it is the hash of: `Docs` and `Trees` give each
agent's descriptions and their trees (`MCSignalViews` fills them from documents it walks),
`Signals` the configuration behind each generation.

### Start-up and reload: `Startup`, `Setup`, `MCSetup`, `Setup_proofs`

`Load` (the validator of `main.rs`), `Build` (`App::new`: `CompileWith`, agents, registry),
`Host` (`run`: credentials, clients, one `Entry`, view, slot and telemetry per instance),
`Offer` (the configuration listener: classify, apply). `Generation` is the hash's input as
`generation_of` feeds it, absent fields and separators included, so that two signal sets
whose input is one text would be one generation. That the signal sets of the documents'
entries have texts that differ is the assumption `DigestTells`, which TLC evaluates for the
documents of the run; `DocumentsAreRead` is what serde makes of a document: a list of
instances, each with its fields.

### Commands: `Commands`, `MCCommands`, `Setup_proofs`

`Ask`/`Handle` is the dispatch of a verb with its address; `status`, `signals`, `write`,
`read`, `browse`, `pause`, `resume`, `reconnect`, `repoll` the handlers; `ReadNamed`,
`ReadSim`, `BrowseSim`, `SetPaused`, `Resume`, `Reconnect`, `Repoll`, `Refuse`, `Dropped`
what the task makes of them; `Reload`, `Drift`, `Adopt`, `Connect`, `LoseLink`, `TaskEnds`
move beside the command. `Failure` is the client's way from a response to an `MtcError`,
`Display` its text as the words something later looks for, `agent_failure_code` the code
recovered from it. One handler at a time; several are `Lifecycle`'s subject. A reply of a
session keeps beside it what the session read with (`Saw`), which `ReadAnswersEach`
compares the entries with. Assumed of the tables: simulators are not this adapter's
instances (`KindsApart`), no description is the absent one (`UnprobedIsNoModel`), signal
sets are lists (`ListsOfSignals`), a derived signal is bound to an item of its model
(`DiscoveredAreBound`), and the ids a session serves are apart (`IdsApart`: the validator
refuses an id given twice, `served_set` derives free ones only).

### Metrics: `Metrics`, `Inbound`, `Inbound_proofs`

Recorders (`Exchange`, `Request`, `StreamOpened` with their `Bump`s one counter at a time;
`Attempt`, `Connected`, `ConnectFailed`, `Tick`, `Dropped`, `Stopped`, `Command`) under the
emitters of the agent and of each instance (`Emission`, `Drain`, `Load`, `Rebase`, `Define`,
`Emit`): a drain is one step under its lock, the snapshot of the agent's statistics is loaded counter by counter,
definition and emission are two awaits. The rows of a family go out in the code's order
(`Combos`), one for each cell. Assumed: the verbs are a list of distinct ones, and the
agent's emitter is no instance. Latencies and gauges are left out.

### Compositions: `Inbound`, `MCInbound`, `Setup`, `MCSetup`

`Inbound` puts `Wire` beside `Metrics`, `Setup` puts `Commands` beside `Startup`; the
theorems about either pair are stated there. `MCInbound` adds the documents, `MCSetup` the
selection and its pages. The three parts of each are checked in one run because they share
no variable: an interleaving of two is no more than both, so each moves while the others
rest where they begin.

## 3. Runs

| Run | Shows | Instance | Distinct states |
|---|---|---|---|
| `iq` | `Conserved`, `NoMissedWakeup`, `AloneIsExact`, `EitherWaySettles` | two senders, two readings' keys and one critical, lanes of 2, 4 sends (3 mixed) | 231 k |
| `acq_stream` | `StreamComplete`, `RestartRebaselined`, `FlowKeepsFaith` | one device: buffer 2, limit 2, 3 observations, 2 incarnations, 1 fault; buffer 1, limit 1, 4 observations, 1 fault, 1 close; buffer 2, limit 1, 2 observations, 2 incarnations, 2 faults, 1 close | 2.79 M |
| `acq_settle` | `Recovers`, `AttachServed` | recoveries of one device: buffer 1, limit 1, 2 incarnations, 1 fault; buffer 1, limit 2, 4 observations, 1 fault, 1 close; attachments of two: polled with 1 close, 1 fault or a restart, streamed with 1 close or 1 fault | 325 k |
| `agent_state` | `InstancesFollow` | two devices, streak of 2, one restart, one change of ways, one fault | 952 k |
| `task` | `Accounted`, `FlowFaithful`, `ShownIsHeld`, `PausedGate`, `LossShowsBad` | one signal, four policies, five contents, 2 observations, 2 buffered, 1 reload, 1 lapse | 3.98 M |
| `session` | `NoAlarmMissed`, `ExactWhileStreaming`, `ShowsWhatWasSaid`, `FaultDegradesWhatFollows` | two activations, 4 or 5 observations, nine mixtures of breaks, sessions, served reads and drops | 1.17 M |
| `views` | `ReloadWhole`, `WalkIsOneView`, `Settles`, `ChangeAnnounced` | two instances, one rebuild, one reload, one close, pages of 2 | 156 k |
| `lifecycle` | `HeldOnce`, `AlarmTellsOutage`, `DrainedBeforeAgents`, `StopsInTime`, `ReconnectMeansNew`, `NothingHangs` | one device, two agents' tasks, two callers, channel of 1, budgets 1/1/0 | 167 k |
| `setup` | `AcceptedIsHosted`, `ReloadIsRestart`, `ServedSound`, `BrowseFaithful`, `ReadAnswersEach` | documents with up to two reloads under four vaults; probes of up to four components; one command amid 3 changes | 319 k |
| `inbound` | `PartsAsSent`, `DroppedForCause`, `DocumentsAsWritten`, `ReportsAsSent`, `DriftSeen`, `RowsAddUp` | scripts of up to 3 parts (4 of two shapes); chunks of up to 9 against a cap of 8; trees on either side of each cap; four budgets of recording | 638 k |
| `iq_cancel` | **violated**: a blocked send that is cancelled is counted | as `iq` | |
| `agent_digest` | **violated**: the digest of a probed device ends up published | two devices, an agent that only delivers | |

Why the bounds are enough.

* *Queue.* A lane of two is the smallest in which coalescing can meet two readings of one
  item and eviction neither; two critical events fill a lane and the third blocks. Two
  senders interleave their counter takes.
* *Acquisition.* The cursor can fall behind a buffer (4 observations against 1); an
  incarnation can die while a part, a `/current` or an attach snapshot is in flight; a
  recovery can fail on its way, and with two faults fail after its re-probe; a session can
  close and attach again before, in or after any of these. The establish limit is 3 in the code; 1 and 2 reach the
  degraded state and the count that has not yet reached it.
* *Agent state.* A lost update takes one load and one store of another task between the
  two of the first; two device tasks and the acquisition task give every pairing, with a
  seed between a load and a store. The streak limit of 2 has a count on either side.
* *Task.* Windows, anchors and policies are per signal, so one signal suffices; two buffered
  readings make a window of two and one with a newer event behind it; a reload meets every
  ordered pair of the policies; two observations and
  a Snapshot put each before the other in the lanes; one lapse takes the watchdog through every phase and back.
  The proofs do not depend on any of these.
* *Session.* Two activations, of an agent that identifies them and of one that does not, are
  what sweeps and bulk Normals can confuse; 5 observations let one rise, clear and rise again
  beside the other. A drop is followed by a break and its recovery, by a second session, or
  by a poll. The agents of the run list activations in sequence order; the proofs also
  take agents that do not, and any number of activations.
* *Views.* A drift and a reload can each fall between any two steps of an attach, a drain
  and a walk of three pages; the two instances differ in what a reload does to them.
* *Lifecycle.* Two callers compete for one place in the channel and one hand; a budget of 1
  can be met or overrun; two agents' tasks can return in and out of the join order.
* *Setup.* Two reloads return to a set that was left; the documents have every binding,
  duplicate ids, absent fields, refused limits and vaults that miss each kind of secret.
  Four components make siblings of one name, a path longer than the token budget, two ids
  that sanitize to one, and a cap that falls inside a component.
* *Inbound.* Every cut of every script; bodies that end in half a marker, a length line that
  is absent or present or cannot be read, parts of exactly the cap and one more, a part that
  waits and a chunk above the caps together and below them, three undecodable parts in a
  row and three with a good one between. Trees stand one below and one above each of the
  caps on depth, attributes and nodes.

`CHECK_DEADLOCK FALSE` in every configuration: once the bounds are spent the agent is
silent, the queues are empty and the tasks wait in their `select!`, which is a legal end.

Fairness, and why the code justifies it. Failures, restarts, observations, closes and
reloads are never fair.

* `iq`: a sender that can run is run, and a drain reaches its notification.
  `EitherWaySettles` adds, one at a time, a consumer that keeps draining and the timer of
  the send budget.
* `acq_settle`: the task runs, its timers fire, the agent answers what it is asked,
  sessions tick. Strong fairness is for the deadline and the polling tick of a degraded
  wait: each `/current` takes the task out of the `select!` and back, and neither timer
  loses its place meanwhile.
* `agent_state`: each task is scheduled and every exchange ends; nothing is said of which way.
* `views`: the tasks keep running, and a probe is not refused for ever (the one strong
  fairness: a failed probe is tried again at the next cycle).
* `lifecycle`: `TeardownFairness` is the scheduler and the timers of the teardown alone, so a
  shutdown ends even if no task takes another step. That every command is answered needs
  more and takes `TaskFairness` as its hypothesis: a task whose awaits answer, with strong
  fairness for taking from the channel (the arms of a `select!` are tried in random order)
  and for a send into a channel that is full now and then.
* `task`, `session`, `inbound`, `setup` state safety only.

The two parts that need most care to read: `AloneIsExact` says nothing of a moment when
both senders are under way, and what `FlowKeepsFaith`, `StreamComplete` and
`RestartRebaselined` promise ends where a recovery is given up half-way: (b) and (c) below
say what happens then. What the session's properties promise ends with a drop and begins
again with a whole `/current`: 6 below is what a drop costs in between. The first two runs of acquisition once held only because their
faults were too few to get there; the inductive invariant showed it.

## 4. What was found

Two statements the repository makes of itself are refuted by a run; `PROJECT.json` quotes
them under `findings`.

1. `update_info` loads, edits and stores without a compare-and-swap. A `mark_up` that loaded
   before `refresh_model` stored a digest writes the state back without it; the model is
   cached by then, so nothing probes again, and `sb/status` reports `probeDigest: null` for
   good (`agent_digest`).
2. A blocked `send_critical` whose token fires is said to count its event (350). The whole
   acquisition is one branch of a `select!` on the same token (1416): if that one is polled
   first, the future is dropped as it waits, and the event is counted by nobody
   (`iq_cancel`).

Seven more are stated as definitions beside the properties. The model checker refutes each
on the instance named; no run is kept for them.

3. `send_on` answers from counters that another sender may have taken: "delivered" of an event
   that was dropped (1987; `DeliveredIsLanded`, with the constants of `iq`).
4. `/current` is said to cover every attachment of a polled agent "through the unset dedupe
   floors" (546, 914). They are not unset for a session that attaches again, since `detach`
   (754) keeps them: while nothing new is observed it is given nothing
   (`CurrentCoversAttachments`, setups `Reattached`).
5. A session that attaches after its device's turn in a cycle has its debt cleared at the
   cycle's end (916) with nothing given (the same, setups `MidCycle`).
6. A floor is to be raised only once a snapshot is known to have landed (1873). The other way
   to a session raises it first (1107) and never asks: a condition that runs out of its
   budget is behind its floor, and a standing alarm is missed until a restart or an overrun
   (`FloorsAreTrue`, setups `Dropping`).
7. An attach snapshot that is not delivered "republishes next cycle" (1885). While streaming
   there is no next cycle, and the debt is gone (`UnclaimedIsOwed`, setups `Dropping`).
8. `push` is said to refuse an incomplete part over the cap (`multipart.rs:153`). It counts all
   it holds and the whole of the chunk, so that a stream of parts within the cap is dropped
   when one chunk ends a part and brings what follows (`DroppedAtAPart`, `MCWire` with
   a cap of 5 on a part, 4 on its headers, chunks of up to 6).
9. `agent_failure_code` (`commands.rs:1435`) recovers an error's code from its text. Refused
   credentials are reported `HTTP`, because the text contains it; `TOO_LARGE`,
   `UNSUPPORTED_VERSION` and `NO_SUCH_DEVICE` are reported `UNREACHABLE`; a connection error
   that names an `http://` URL is reported `HTTP` (`ReadCodeIsErrorCode`, with the constants
   of `setup`, against `error.rs:88`).

What the runs check stops short of these, and says so: `Conserved` allows an event gone with
an ended task, `AloneIsExact` is about a lone sender, `AttachServed` about devices with
something new and debts that stand, the session's properties about sessions to which
nothing was dropped, `DroppedForCause` names the crowd among the causes.

More was met while modelling. Where a definition states what does not hold, it is named.

*Queue and acquisition*

* (a) `send_data` coalesces into the *first* queued reading of an item: after `x, x` fill the
  lane, a third `x` replaces the older and is drained before the newer (`DataKeyOrder`).
  `drain` hands over the loss-intolerant lane first, so a `Snapshot` overtakes older readings:
  these are then published behind it, and an older value may be the last one. `FlowFaithful`
  allows that step back and no other. `src/docs/explanation.md:63` says that only the data
  lane drops, and the sentences after it how the other one does.
* (b) `snapshot_cycle` clears `resync_needed` after the re-probe (892) and before the fetch.
  A fetch that then fails leaves the restart half done and forgotten: a session of the old
  incarnation stays un-baselined (`RestartCovered`), the next `/current` is an ordinary one,
  and the stream that follows may begin past observations no session was given. `abandoned`
  marks that moment.
* (c) The once-only and gap clauses of `FlowKeepsFaith`, `StreamComplete` and
  `RestartRebaselined` say nothing after such a moment. `Reverified` is about what the
  dispatch of a document gives; an attach snapshot is decoded against the model at hand.
* (d) A device between two sessions during ladder 3 keeps its cached model, and
  `ensure_model` answers from the cache thereafter. `AttachServed` promises what is left of 4
  and 5 above: polling, whoever has an observation above its floor; streaming, a debt that is open
  while the stream is read and no fetch fails. Attach snapshots bypass the generation gate;
  one whose fetch fails while streaming is not retried.
* (e) A failed probe by one device task, or a failed snapshot for `sb/read` (1200), marks the
  whole agent down; the line at 1165 calls `mark_up` and `mark_down` the only writers of
  `connected`, which the store of `refresh_model` also overwrites. What an instance was told
  last may be false between updates (`ToldTheTruth`).
* (f) An empty body without a length swallows the next part; a part without headers is misread.

*Device task and session*

* (g) The link can be lost between the read of a tick and its verdict. The watchdog is then
  `Unreachable` while the session lives on; a repoll or a deadline publishes GOOD, and the
  next verdict changes nothing (`NoFrozenGood`). While the session lives, a window flushed
  after the transition publishes GOOD likewise (`src/README.md:257`).
* (h) A reload that takes a deadband away leaves its anchor in `entries`; one that gives it
  back compares with it and can hide a change of quality (`QualityPasses`). A repoll
  publishes past the shaper and does not reset the anchor.
* (i) The verdict on a lost link is published while paused, though
  `src/docs/reference/configuration.md:108` says nothing reaches the wire; `PausedGate` is
  about readings of the machine.
* (j) A bound value is not published again when its condition degrades (`BoundDegrades`,
  `src/README.md:236`, `device.rs:1308`); an activation that ends during a gap of an agent
  that identifies nothing may stand on (`ClearedIsCleared`); a session may end on an older
  value where its lanes overtook (`EndsOnTheLatest`). `should_publish` keeps one floor per
  data item: an agent whose `/current` lists the activations of a condition out of sequence
  order loses all behind the highest, so `NoAlarmMissed` needs `setup.ascending`.
* (k) `CONNECTING` is documented (`app.rs:309`) as the state before the first attempt ends,
  and is set at each (`LinkTokenTruthful`). A stopped device's link stays `ONLINE`; a
  deliberate reconnect raises the critical alarm; a failing start-up never does; a caller
  told *unavailable* after a pause may still have paused the instance.

*Signals, start-up, commands, metrics*

* (l) `sb/signals` and `sb/browse` can answer from another model than the session serves
  (`ViewsAgree`, `commands.rs:183`); siblings of one name share an id and bind each other's
  conditions (`BindsItsOwnComponent`, `configuration.md:137`); `refs_of` gives `refs: []`
  when its budget is spent; the change event of a reconnect can be spurious or missing.
* (m) The validator accepts an empty list of instances, ids that are no tokens and credentials
  that do not resolve, which `App::new` or `run` then refuse (`BeyondTheValidator` names
  them); duplicate instance ids go unnoticed and the last slot wins; an unknown adapter is
  accepted and not hosted; a reload of connection, adapter or poll settings is accepted and
  never applied; an endpoint "derived, never configured" (`app.rs:73`) is kept when
  configured.
* (n) `sb/read` resolves a name with the handler's view and the id with the session's
  (`commands.rs:1045`). Failures of `resolve()`, `BAD_ARGS` and the `DEVICE_UNAVAILABLE` of
  four verbs are not recorded, though `commands.rs:31` says every verb records. An id the
  session does not serve is answered `NO_DATA`, which the table of codes lacks. A repoll
  failure whose text contains "paused" is reported as `PAUSED`; an agent's own error whose
  text contains "no dataitem" as `MTC_NO_SUCH_DATAITEM`.
* (o) The statistics' snapshot is loaded one counter at a time, so its measures can disagree
  (`NeverDisagree`, `stats.rs:79`). Metric definitions are kept by name, so with two
  instances a row can be emitted under another's dimensions (`RowsAreOwned`). What a final
  flush counts is not emitted; the command and shaping intervals rest while a device is
  down; an error document counts as a document and as a heartbeat.
* (p) The first `urn:mtconnect.org:` declaration is latched even if its version does not
  parse, which skips the version floor; a second root replaces the first; references that
  are not defined are counted outside the root too; numbers of the header are not trimmed,
  `sequence` is; a value's shape goes by the group its entry stands in, its `category` by
  the model; the digest leaves the text of elements out (`model.rs:340-358`), though a "changed
  model never digests the same" (`model.rs:13`): `DriftSeen` is about names, attributes and
  structure; a window is published under the name and path of its first reading.

## 5. What is proved

**`InstanceQueue_proofs`**, for every number of senders, keys, sends and all depths:
`TypeCorrect`, `BoundedLanes`, `NothingForTheGone`, `WakeupNotMissed` (`NoMissedWakeup`),
`DataNeverLostSilently`, `CriticalLossesAccounted`, and both together,
`LossesAccounted` (`Conserved`): what is lost is counted, but for the one event of each task
that was ended in a blocked send. Assumed: a finite set of senders, loss-intolerant keys
are keys, positive depths (the constants of 93-127). The inductive invariant is `Shape`: the
type, the lanes' bounds and classes, the class of the event each sender holds at each `pc`,
and `detached` against the receiver's state. Without it the laws are not inductive: the
class of the held event says which lane a push extends, and `detached` with `rcv` says a
notification is still to come. `CriticalConserved` counts the senders that hold an event,
so its proof rests on lemmas about how that set gains or loses a member.

`AloneMeansExact` (`AloneIsExact`) is the order of the loss-intolerant lane and the truth of
the answer for a sender that is alone: the lane rises in the order of sending and lies above
what was drained of each key (`InSendOrder`), and a loss counted and not yet folded is that
of the present send (`Answerable`).

**`Acquisition_proofs`**, for every set of devices and every setup (buffer, limit, bounds):
`ShapeKept` and `TypesKept` (`TypeOK`), `RecoveryReachesAll` (`RestartRebaselined`) and, on
top of them, `NothingTwice` (`FlowKeepsFaith`) and `NothingLostSilently` (`StreamComplete`). Assumed: finitely many devices, setups of the
right kind, and room for every boot within the log's bound. The inductive invariant
is a conjunction of parts, each proved once over all actions:

* `Shape`: the types, an observation of every device in the log (`Logged`), and what each
  place of the program counter implies of document, stream and locals (`Control`).
* `Asked`: a recovery once begun is asked for until it is done, by the flags outside of a
  cycle and by the document in hand inside of one. `Ages`: nothing is of an incarnation to
  come, and the sequence state is not ahead of what is read.
* `Debts`, `Told`: a session that survives a restart (`Survivor`) is owed its snapshot by
  the recovery's document only, has been sent it once the recovery has got to it, and until
  then its floor stands at zero. They give `RestartRebaselined`; `Verified`, that the
  document in hand was decoded with the model of its own incarnation, gives `Reverified`.
* `Held`, `Once`: a batch is what is new of a document, and what a session was given lies at
  or below its floor, or below the batch in hand; they give `OnceOnly`. `Unstarted`: a cycle
  at the head of the loop that republishes nothing is the first; it gives `GapIsRebased`.
* `Streamed`, `Cursor`, `Current`, `Complete`: no cursor is beyond the log, a current view
  covers what was read before it, and what the cursor or the floor has passed since the
  session's base was given, counted as dropped, or is in hand (`Accounted`, `Square`).
  `StreamComplete` alone is not inductive: between a document's arrival and the last of its
  dispatches the cursor has passed what nobody was yet given.

**`DeviceTask_proofs`**, for every set of signals, policies and contents: `TypeCorrect`,
`NothingBufferedIsLost` (`Accounted`), `FleetSeesWhatIsHeld` (`ShownIsHeld`), `PauseIsSilent`
(`PausedGate`), `LossIsShown` (`LossShowsBad`). Assumed: a policy is a combination of window,
latest-only and deadband; a content has a value and one of three qualities; bounds are
numbers. The inductive invariant `Sound` has three parts: `TypeOK`; `Buffering` (a session
that is not up holds nothing, a paused task has no open window, a window is open only under
a policy that has one, `Accounted`); `Seen` (a held signal was told to the fleet in this
session, `ShownIsHeld`). `Accounted` alone is not inductive: an accepted reading whose policy
has no window goes out alone and would leave one behind. The clause on a pause is what makes
it silent: whatever ends the session flushes nothing. `FlowBacksOnlyBehindSnapshots` (`FlowInOrder`) and
`FlowStaysFaithful` (`FlowFaithful`, for every table of policies in which a signal that
stopped being shaped gets no deadband again, `DeadbandsStand`; with one reload that is every
table) rest on two more parts. `Lined`: for each signal, what flowed, the open window, the
batch in hand, the lanes and the agent's newest reading follow each other in the order they
were read, but for what a Snapshot overtook; each lane by itself keeps that order
(`Sorted`), and a drained batch has it but for that (`DrainedRises`). `Tracking`: an anchor is what the flow came to, or the
last number it came to, and what was offered is no further from the flow's end than the
deadband allows. The condition is the code's, not the proof's: (h) in section 4 is what
happens without it.

**`Session_proofs`**, first of the ledger alone, for every set of identities: `FoldIsApply` (the closed form of a
batch is `apply`, condition by condition), `NothingInvented`, `ActivationsCommute` (two
conditions about different codes leave one ledger in either order), `WorstIsShown` (the
aggregate is as severe as any active condition, and overlaying it never improves a reading).
`FoldIsApply` is the equation of one step, for every prefix of a batch; the last condition that
concerns a key exists by a least-number lemma. Assumed: the absent
identity is none of the others.

Then of the session, for every set of identities, every agent and all bounds: `TypeCorrect`
(`TypeOK`), `SessionImplementsView` (`ShowsWhatWasSaid`, the refinement), `NoAlarmIsMissed`
(`NoAlarmMissed`), `StreamedIsExact` (`ExactWhileStreaming`), `FaultDegrades`
(`FaultDegradesWhatFollows`). Assumed: a value is told from the conditions, a part's length
is a number, every bound leaves room for the first value and the first condition.
`NoAlarmIsMissed` speaks of agents that list activations in sequence order
(`setup.ascending`): (j) in section 4 is what happens with others; the other four do not
need it. Those three speak of a session to which nothing was dropped since (`whole`,
`exact`): a drop leaves lanes, floors and ledger as they would be without the event, and takes
the claim back (`DropIs`); the next whole `/current` brings it again. First come lemmas on what the operators bring: places in order (`RisingIs`,
`TakenIs`), what `/current`, a part and a cycle carry (`CurrentIs`, `PartBrings`,
`CycleBrings`), what a batch makes of the ledger (`FoldTyped`, `FoldIs`). The invariants on
top of them:

* `Logged`: the log and what stands after each of its observations agree, activation by
  activation (`SaidSo`); an assertion changes what stands.
* `InFlow`, `NotBehind`, `Shows`: the lane comes before the document, neither is behind what
  was drained, the lane is past neither cursor nor floor (`Reached`), and the ledger shows of
  an activation what stood when the flow last brought it, or since. A served read may be
  ahead of the flow, never behind.
* `NoneLost`: the latest report of what stands, once reached, is on its way (`Pending`) or
  was drained. It holds from the first whole `/current` on, or from the document that
  brings one.
* `KeysExact`, `FlagExact`: while the stream is unbroken the last report of an activation,
  once reached, is on its way, or nothing on its way concerns the activation and the ledger
  shows what stood then or later (`Certain`); the data item's own say is that of the last
  condition in the document, else in the lane, else in the reply, else the ledger's
  (`Flagged`).
* `Led`, `Accompanied`: when a value on its way was observed a part's length after a standing
  report, that report is no longer in the document; a served value has the reports it
  follows beside it.

**`Inbound_proofs`**, of `Wire`, for every alphabet, every set of scripts, every way of cutting their
streams into chunks and all sizes of the caps: `WireTypes`, `PartsArriveAsSent`
(`PartsAsSent`), `RunIsCounted`, `DropsAreForCause` (`DroppedForCause`). Assumed: what the
agent sends is its parts and can be told apart (see `Wire` above); tokens that frame are in
the alphabet and are no length lines, nor are the lines that cannot be read; the caps on a
part and on a chunk are positive. No size is assumed of a chunk: that more than the caps
arrived behind the last part (`Crowded`) is one of the causes `DropsAreForCause` names, and
8 in section 4 is what it costs. The argument:

* First the stream (`SentIs`, `PlacesAre`, `LayoutIs`): which token stands where in a part
  and where the next one starts; then where there is no marker (`NoMarkBefore`) and no
  delimiter (`NoDelimBefore`), also not one that begins in the text and ends in the marker
  behind it.
* `Framing` is the invariant that `PartsAsSent` lacks: while the stream is open, the buffer is
  what arrived after a place of the stream (`Suffix`), this place is the one the splitter's
  state speaks of, in the part after those handled (`At`), and a loop that waits has less than
  the state asks for (`Waits`). In `Seek` the place may lie one token before the part, on the
  line break that ends a body.
* One lemma for each state says where a turn takes it (`SeekTurn`, `AfterMarkerTurn`,
  `HeadersTurn`, `BodyTurn`), and `TurnIs` puts them together; `Handed` says that what was
  handed on is the script's, part for part.
* `Counted` and `Caused` give `DroppedForCause`: what is held arrived behind the last part
  handed on (`HeldIsBehind`), so a refusal of `push` is a crowd; a refusal of `next_part` is
  for the headers or the length of the part the place is in.

And of `Metrics`, for all sets of instances, lists of verbs and budgets: `MetricsAddUp`
(`RowsAddUp`). The inductive invariant is `MInv`, which the model checker confirmed on the
run before it was proved:

* `RowsTyped`, `CountersTyped`: an emitter's rows are of its own cells, with a measure for
  each series of the cell, and no two of one cell; so what a cell has on its way is what
  one row carries (`Flight`).
* `PairsAddUp`, `ParseAddsUp`, `AgentAddsUp`: a counter against what its rows carried. A drain
  moves an interval from the counter to the rows, an emission from the rows to what was
  handed over, and recording moves a total with its interval (`Moved`). The
  agent's baseline is what was reported; a snapshot that is half loaded is nowhere ahead
  of the counters, and no row is on its way while it is loaded.
* `TotalsAddUp`: the total of a row is what was handed over of its series and its interval.
* `LinksAddUp`: an attempt has failed, made the first link or a reconnect, or is under way;
  a link but the one that stands has dropped; and a row of these counters is what they still
  are. The last clause is why `RowsAddUp` holds at all, and not visible in it: the device task
  that emits does nothing else, so no counter of its link moves while a row is on its way.

**`SignalViews_proofs`**, for every list of instances, the descriptions, trees and signal
configurations of each, all candidates of a reload, pages of any size and all bounds:
`PickedIs` (what a pick of a list is), `Invariance`, `TypesHold` (`TypeOK`), `ReloadsAreWhole`
(`ReloadWhole`), `WalksAreOneView` (`WalkIsOneView`), `ChangesAreAnnounced`
(`ChangeAnnounced`). Assumed: there is an instance; each agent gives some description, and
has a tree for each; candidates are configurations of known generations; the component
started with a configuration that compiles. The invariant has three parts:

* `Typing`: what is cached, fetched by a re-probe or held by a session is a description its
  own agent may give (`OwnProbes`), and the stage of a session says what it holds
  (`Attached`). `ChangeAnnounced` needs it: a change of ids is judged by two descriptions.
* `Whole`: a slot is on the configuration in force or still staged for it.
* `Paged`: what a client has is the beginning of the entries of one view, of the length its
  cursor stands at. A cursor is bound to a generation, and one generation is one view
  (`Views`); a page that ends neither loses nor repeats an entry (`EndsAt`).

**`Setup_proofs`**, of `Commands`, for all instances of both kinds, configurations, models,
requests, agents and vaults, under the assumptions named above: `Invariance` and
`ReadsAnswerEach` (`ReadAnswersEach`). The invariant: `CallTyped` (the record of the command),
`Pending` (a task is asked only what has been planned, one entry for each reference, and
nothing of an answer is in it yet), `World` (a session that is on has a description, the one
it was compiled against) and the property itself. `World` is what the property lacks: a
reload, a drift or a lost link may fall between the request and the read, and the answer is
right because signals and items are of one description, whichever it is. Most of the rest is
about lists: of the readings of a batch the last of an id is the one that answers, and ids
that are apart have one.

Of `Startup`, for all documents that are read, all vaults and every room of a channel:
`AcceptedAreHosted` (`AcceptedIsHosted`) and `ReloadsAreRestarts` (`ReloadIsRestart`). `Started`
says what each phase has made of the document; the argument is that the budgets an entry is
stamped with are no part of what makes it valid, so `App::new` compiles what the validator
compiled, although with other budgets. `Reloaded` says that each slot
is an entry's, and the one of the document in force; the argument is that a generation that
did not change is the same signals, which is where `DigestTells` is used, and needed.

**`Lifecycle_proofs`**, for every number of devices, agents and callers and all budgets:
`TypeCorrect`, `AlarmIsRight` (`AlarmTellsOutage`), `RepliesHeldOnce` (`HeldOnce`),
`SuccessMeansNew` (`ReconnectMeansNew`), `TimelyStop` (`StopsInTime`), `AgentsStopLast`
(`DrainedBeforeAgents`). The inductive invariants: `DeviceInv` (where a task stands decides
its alarm, link and hand), `Clocked` (the time spent in each phase of the teardown against
its budget), `Joined` and `Reported` (a task behind the join's place has returned or was
aborted), `CallInv` (a waiting command is in the one channel it was sent through or in its
task's hand, once; a hand is free where the code takes from the channel; a renewed session
is younger than the request). Device steps are grouped by what they do to calls (quiet,
replying, ending, taking, connecting), so each invariant meets a group once. Assumed: at
least one device, the depth positive, budgets numbers, the join orders cover all tasks,
devices and agents apart.

Three properties were corrected because their proof failed. `FlowFaithful` compared with an
anchor that moved on any reading; in the code it moves on a number only. `StreamComplete`
and `RestartRebaselined` held on the runs because the bound on faults hid (b). `Reverified`
claimed of attach snapshots what only dispatches keep.

Only model-checked:

* `AgentState`, whose promise (`InstancesFollow`) is liveness.
* `DocumentsAsWritten`, `ReportsAsSent`, `DriftSeen`, `ServedSound`, `BrowseFaithful`: what a
  recursion over a tree or a fold over data computes, against a reference definition. The
  induction they need takes an operator as its parameter, which is out of the provers' reach.
* All liveness: `EitherWaySettles`, `Recovers`, `AttachServed`, `InstancesFollow`, `Settles`,
  `NothingHangs`.

## 6. Plan

Done: the queue, acquisition, the agent's state, the device task with shaping and passive
quality, the session with its refinement, the lifecycle, signal views, selection and browse,
wire, documents, start-up and reload, commands, metrics. Proved: every safety property and
action property of the runs but those listed above as model-checked only. What is left, in
order:

1. `AgentState`: type correctness, and that only a task that loaded stores.
2. Publishes that fail: the shaper has counted the reading, its anchor has moved.
3. The session's end-to-end promise with `InstanceQueue`'s lanes in place of `Session`'s: how
   long a consumer must stall for a drop, and with an answer that may be another's (3 in section 4).

## 7. Not modelled, and why

* The HTTP exchange, the tokenizer (`quick_xml`), regular expressions, the platform's
  library (bus, heartbeat, vault, metric service): external or pure I/O. What they may
  answer is an input; `PROJECT.json` marks the definitions that stand for them.
* The layout of the `sb/status` and `sb/signals` replies, the console panels (static data), texts of notices,
  the rate limit of condition events (one a minute per data item), drop warnings.
* Numbers of backoff, latencies, gauges; the mode, header facts and versions of `AgentInfo`,
  which travel as the connected flag does and are only reported.
* A reconnect of the whole agent through its control channel; `browse` of an MTConnect
  session through the device seam; `is_multipart` and `boundary_from_content_type`.
* A publish on the wire that fails: the reading is logged and gone, by design.
* `host-leg`, `k8s-leg`, `lab-leg` and `tests/` are test rigs (`host-leg/src/main.rs`: "HARNESS,
  not product code"). Together with the tests inside
  the source files they are about half of its lines.
