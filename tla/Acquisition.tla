---------------------------- MODULE Acquisition ----------------------------
(***************************************************************************)
(* The acquisition task of one agent (src/src/mtconnect/mod.rs,            *)
(* run_poll_only and run_streaming), the sequence bookkeeping it drives    *)
(* (sequence.rs) and the device sessions it feeds (device.rs).             *)
(*                                                                         *)
(* The agent is the environment: it numbers the observations of its log,   *)
(* keeps the last BufSize of them for /sample, answers /current with the   *)
(* latest of each data item, and may restart under a new instanceId.  One  *)
(* data item stands for each device, so an observation is its incarnation  *)
(* and its sequence number.  The task's awaits are step boundaries; what a *)
(* step does under one lock, or between two awaits, is one action.         *)
(*                                                                         *)
(* An instance queue is its two lanes, unbounded (InstanceQueue models the *)
(* bounds); what a full lane costs, an event that is dropped and counted,  *)
(* is one of the faults of a setup, and so is a part that does not decode. *)
(***************************************************************************)
EXTENDS Integers, Sequences, FiniteSets, FiniteSetsExt, SequencesExt

CONSTANTS
  Devices,  \* the agent's devices, one data item each
  Setups    \* the adapters, agents and bounds to consider, each [prefer, limit,
            \* buffer, seq, inst, faults, closes]: the configured StreamPolicy
            \* (Prefer, else PollOnly), STREAM_ESTABLISH_FAILURE_LIMIT, the
            \* agent's bufferSize; bounds on the observations of an incarnation,
            \* on incarnations, on requests, streams, parts and events that
            \* fail, and on sessions closed while the agent is delivering

ASSUME SetupsTyped ==
  Setups \subseteq [prefer : BOOLEAN, limit : Nat \ {0}, buffer : Nat \ {0}, seq : Nat \ {0},
                   inst : Nat \ {0}, faults : Nat, closes : Nat]

\* An agent describes finitely many devices, and a log has room to boot them all.
ASSUME DevicesFinite == IsFiniteSet(Devices)
ASSUME RoomToBoot == \A s \in Setups : Cardinality(Devices) <= s.seq

VARIABLES
  setup,             \* the member of Setups this behaviour is of
  inst, log,         \* the agent: its incarnation, and its log of devices
  faults, closes,    \* how much of the two budgets is spent
  connected,         \* AgentInfo::connected
  model,             \* the incarnation each cached model was probed from
  pending, permit,   \* attach_pending, and the permit of attach_notify
  sess,              \* each device's session
  critical, data,    \* the two lanes of each session's queue
  seq,               \* SequenceState: instance_id, next, last_published
  resync,            \* resync_needed
  pc,                \* where the acquisition task is
  caller,            \* which loop asked for the present cycle or part
  doc, todo, fresh,  \* the document in hand, devices left, new observations
  stream,            \* the open multipart stream
  failures, degraded, republish, waitFor,   \* locals of run_streaming
  given,             \* history: observations put in a session's queue
  lost,              \* history: observations dropped, and counted as such
  base,              \* history: the /current observation it starts from
  since, marked,     \* history: incarnation at attach, of the last Snapshot sent
  abandoned          \* history: the last restart's recovery was given up half-way

agentVars   == <<setup, inst, log, faults, closes>>
deviceVars  == <<sess, since>>
queueVars   == <<critical, data, given, lost, marked>>
workVars    == <<doc, todo, fresh, caller>>
loopVars    == <<failures, degraded, republish, waitFor>>
debtVars    == <<pending, permit>>
resyncVars  == <<resync, abandoned>>
vars == <<agentVars, connected, model, debtVars, deviceVars, queueVars, seq,
          resyncVars, pc, workVars, stream, loopVars, base>>

EstablishLimit == setup.limit
BufSize        == setup.buffer
MaxSeq         == setup.seq
MaxInst        == setup.inst

NoBase   == [inst |-> 0, n |-> 0]
NoDoc    == [kind |-> "none", inst |-> 0, next |-> 0, rebase |-> FALSE,
             republish |-> FALSE, obs |-> [d \in Devices |-> {}]]
Closed   == [open |-> FALSE, inst |-> 0, pos |-> 0, lively |-> FALSE]
NoFloors == [d \in Devices |-> 0]

attached == {d \in Devices : sess[d] = "on"}

----------------------------------------------------------------------------
(* The agent.                                                              *)

\* A freshly started agent has one observation of every data item.
Boot == SetToSeq(Devices)

Latest(d)     == Max({n \in DOMAIN log : log[n] = d})
FirstSequence == Max({1, Len(log) - BufSize + 1})
NextSequence  == Len(log) + 1
InWindow(n)   == FirstSequence <= n /\ n <= NextSequence

\* What /current answers with now.
CurrentDoc == [d \in Devices |-> {Latest(d)}]

Fault == faults < setup.faults /\ faults' = faults + 1

Observe(d) ==
  /\ Len(log) < MaxSeq
  /\ log' = Append(log, d)
  /\ UNCHANGED <<setup, inst, faults, closes, connected, model, debtVars, deviceVars,
                 queueVars, seq, resyncVars, pc, workVars, stream, loopVars, base>>

Restart ==
  /\ inst < MaxInst
  /\ inst' = inst + 1
  /\ log' = Boot
  /\ UNCHANGED <<setup, faults, closes, connected, model, debtVars, deviceVars,
                 queueVars, seq, resyncVars, pc, workVars, stream, loopVars, base>>

----------------------------------------------------------------------------
(* SequenceState (sequence.rs).                                            *)

\* What a document's header means for the acquisition state.
InstanceChanged(d) == seq.inst # 0 /\ seq.inst # d.inst

\* Mutation: a restart leaves the floors of the dead incarnation standing.
observe_header_KeepFloors(d) ==
  [inst  |-> d.inst,
   next  |-> d.next,
   floor |-> IF d.republish THEN NoFloors ELSE seq.floor]

\* reset_dedupe when the caller republishes, then observe_header, which resets
\* everything on a change of incarnation before it takes the cursor.
observe_header(d) ==
  [inst  |-> d.inst,
   next  |-> d.next,
   floor |-> IF d.republish \/ InstanceChanged(d) THEN NoFloors ELSE seq.floor]

\* Mutation: the floors are kept by data item alone, and two devices share one.
should_publish_Shared(d, n) == \A e \in Devices : n > seq.floor[e]

should_publish(d, n) == n > seq.floor[d]

----------------------------------------------------------------------------

Init ==
  /\ setup \in Setups
  /\ inst = 1 /\ log = Boot /\ faults = 0 /\ closes = 0
  /\ connected = FALSE
  /\ model = [d \in Devices |-> 0]
  /\ pending = {} /\ permit = FALSE
  /\ sess = [d \in Devices |-> "off"]
  /\ critical = [d \in Devices |-> <<>>] /\ data = [d \in Devices |-> <<>>]
  /\ seq = [inst |-> 0, next |-> 0, floor |-> NoFloors]
  /\ resync = FALSE /\ abandoned = FALSE
  /\ pc = IF setup.prefer THEN "connect" ELSE "idle"
  /\ caller = "none" /\ doc = NoDoc /\ todo = <<>> /\ fresh = {}
  /\ stream = Closed
  /\ failures = 0 /\ degraded = FALSE /\ republish = FALSE /\ waitFor = "none"
  /\ given = [d \in Devices |-> {}] /\ lost = [d \in Devices |-> {}]
  /\ base = [d \in Devices |-> NoBase]
  /\ since = [d \in Devices |-> 0] /\ marked = [d \in Devices |-> 0]

----------------------------------------------------------------------------
(* snapshot_cycle.                                                         *)

\* Mutation: the flag is read once the re-probe has cleared it.
BeginCycle_Late ==
  /\ pc \in {"idle", "connect"} \/ (pc = "wait" /\ waitFor = "open" /\ degraded)
  /\ caller' = pc
  /\ LET again == pc = "connect" /\ republish
     IN  doc' = [NoDoc EXCEPT !.kind = "current", !.republish = again,
                              !.rebase = again]
  /\ IF resync THEN /\ pc' = "reprobe"
                    /\ todo' = SetToSeq(attached)
               ELSE /\ pc' = "fetch"
                    /\ UNCHANGED todo
  /\ UNCHANGED <<agentVars, connected, model, debtVars, deviceVars, queueVars,
                 seq, resyncVars, fresh, stream, loopVars, base>>

\* Entered on the poll-only tick, at the head of 'connect, and on the tick of
\* a degraded wait.  Whether the cycle is a re-baseline is read first.
BeginCycle ==
  /\ pc \in {"idle", "connect"} \/ (pc = "wait" /\ waitFor = "open" /\ degraded)
  /\ caller' = pc
  /\ LET again == pc = "connect" /\ republish
     IN  doc' = [NoDoc EXCEPT !.kind = "current", !.republish = again,
                              !.rebase = again \/ resync]
  /\ IF resync THEN /\ pc' = "reprobe"
                    /\ todo' = SetToSeq(attached)
               ELSE /\ pc' = "fetch"
                    /\ UNCHANGED todo
  /\ UNCHANGED <<agentVars, connected, model, debtVars, deviceVars, queueVars,
                 seq, resyncVars, fresh, stream, loopVars, base>>

\* The cycle's error return: from 'connect, back off without polling.
CycleFailed ==
  /\ IF caller = "connect" THEN pc' = "wait" /\ waitFor' = "connect"
                           ELSE pc' = caller /\ UNCHANGED waitFor
  /\ doc' = NoDoc /\ todo' = <<>> /\ fresh' = {} /\ caller' = "none"

\* Ladder 3: every attached device is re-probed before anything is fetched.
\* refresh_model of one of them...
Reprobe ==
  /\ pc = "reprobe" /\ todo # <<>>
  /\ model' = [model EXCEPT ![Head(todo)] = inst]
  /\ todo' = Tail(todo)
  /\ UNCHANGED <<agentVars, connected, debtVars, deviceVars, queueVars, seq,
                 resyncVars, pc, doc, fresh, caller, stream, loopVars, base>>

\* ...or its failure: marked down, and the resync stays pending.
ReprobeFailed ==
  /\ pc = "reprobe" /\ todo # <<>>
  /\ Fault /\ CycleFailed
  /\ connected' = FALSE
  /\ UNCHANGED <<setup, inst, log, closes, model, debtVars, deviceVars, queueVars, seq,
                 resyncVars, stream, failures, degraded, republish, base>>

\* Mutation: the flag is not cleared once the re-probe has answered.
Reprobed_Sticky ==
  /\ pc = "reprobe" /\ todo = <<>>
  /\ pc' = "fetch"
  /\ UNCHANGED <<agentVars, connected, model, debtVars, deviceVars, queueVars,
                 seq, resyncVars, workVars, stream, loopVars, base>>

Reprobed ==
  /\ pc = "reprobe" /\ todo = <<>>
  /\ resync' = FALSE /\ UNCHANGED abandoned
  /\ pc' = "fetch"
  /\ UNCHANGED <<agentVars, connected, model, debtVars, deviceVars, queueVars,
                 seq, workVars, stream, loopVars, base>>

Fetch ==
  /\ pc = "fetch"
  /\ doc' = [doc EXCEPT !.inst = inst, !.next = NextSequence, !.obs = CurrentDoc]
  /\ pc' = "ingest"
  /\ UNCHANGED <<agentVars, connected, model, debtVars, deviceVars, queueVars,
                 seq, resyncVars, todo, fresh, caller, stream, loopVars, base>>

\* No answer or an unreadable one marks the agent down; an error document does
\* so only at the end of a run of them.  The re-probe of a recovery has answered
\* by now and its flag is down: only a republish is asked for again.
FetchFailed ==
  /\ pc = "fetch"
  /\ Fault /\ CycleFailed
  /\ connected' \in {FALSE, connected}
  /\ abandoned' = (abandoned \/ (doc.rebase /\ ~doc.republish))
  /\ UNCHANGED <<setup, inst, log, closes, model, debtVars, deviceVars, queueVars, seq,
                 resync, stream, failures, degraded, republish, base>>

----------------------------------------------------------------------------
(* ingest_streams_doc, for a /current document and for a stream part.      *)

\* A document that reveals a restart asks for its recovery.
NoteRestart(d) ==
  /\ resync' = (resync \/ InstanceChanged(d))
  /\ abandoned' = (abandoned /\ ~InstanceChanged(d))

\* Mutation: only the document that reveals the restart is deferred.
Ingest_GateOnce ==
  /\ pc = "ingest"
  /\ seq' = observe_header(doc)
  /\ NoteRestart(doc)
  /\ todo' = IF InstanceChanged(doc) THEN <<>> ELSE Boot
  /\ pc' = "measure"
  /\ UNCHANGED <<agentVars, connected, model, debtVars, deviceVars, queueVars,
                 doc, fresh, caller, stream, loopVars, base>>

\* The header first; then the generation gate: a document that reveals a
\* restart, or arrives while its resync is pending, dispatches nothing.
Ingest ==
  /\ pc = "ingest"
  /\ seq' = observe_header(doc)
  /\ NoteRestart(doc)
  /\ todo' = IF resync' THEN <<>> ELSE Boot
  /\ pc' = "measure"
  /\ UNCHANGED <<agentVars, connected, model, debtVars, deviceVars, queueVars,
                 doc, fresh, caller, stream, loopVars, base>>

\* One device's entries against the dedupe floors, which are raised here.
Measure ==
  /\ pc = "measure" /\ todo # <<>>
  /\ LET d   == Head(todo)
         new == {n \in doc.obs[d] : should_publish(d, n)}
     IN  IF sess[d] # "on"
         THEN /\ todo' = Tail(todo)
              /\ UNCHANGED <<pc, seq, fresh, base>>
         ELSE /\ base' = IF doc.kind = "current"
                         THEN [base EXCEPT ![d] = [inst |-> doc.inst,
                                                   n |-> Max(doc.obs[d])]]
                         ELSE base
              /\ IF new = {}
                 THEN todo' = Tail(todo) /\ UNCHANGED <<pc, seq, fresh>>
                 ELSE /\ seq' = [seq EXCEPT !.floor[d] = Max(new)]
                      /\ fresh' = new
                      /\ pc' = "dispatch"
                      /\ UNCHANGED todo
  /\ UNCHANGED <<agentVars, connected, model, debtVars, deviceVars, queueVars,
                 resyncVars, doc, caller, stream, loopVars>>

\* The event an observation becomes, and what a re-baseline puts in the
\* loss-intolerant lane or on-change flow in the data lane.
Event(d, n) == [inst |-> doc.inst, n |-> n, gen |-> model[d]]

PushSnapshot(d) ==
  /\ critical' = [critical EXCEPT ![d] = Append(@, Event(d, Max(fresh)))]
  /\ given' = [given EXCEPT ![d] = @ \cup {Event(d, Max(fresh))}]
  /\ marked' = [marked EXCEPT ![d] = doc.inst]
  /\ UNCHANGED <<data, lost>>

\* The numbers of a batch, in the order of the log.
Ascending(S) ==
  CHOOSE f \in [1 .. Cardinality(S) -> S] : \A i, j \in DOMAIN f : i < j => f[i] < f[j]

PushObs(d) ==
  LET ordered == Ascending(fresh)
  IN  /\ data' = [data EXCEPT ![d] =
           @ \o [i \in DOMAIN ordered |-> Event(d, ordered[i])]]
      /\ given' = [given EXCEPT ![d] = @ \cup {Event(d, n) : n \in fresh}]
      /\ UNCHANGED <<critical, lost, marked>>

Dispatch ==
  /\ pc = "dispatch"
  /\ LET d == Head(todo)
     IN  IF sess[d] # "on" THEN UNCHANGED queueVars
         ELSE IF doc.rebase THEN PushSnapshot(d) ELSE PushObs(d)
  /\ pc' = "measure" /\ todo' = Tail(todo) /\ fresh' = {}
  /\ UNCHANGED <<agentVars, connected, model, debtVars, deviceVars, seq, resyncVars,
                 doc, caller, stream, loopVars, base>>

\* A lane drops the batch and counts it: its floors are already raised.
DispatchDropped ==
  /\ pc = "dispatch" /\ sess[Head(todo)] = "on"
  /\ Fault
  /\ lost' = [lost EXCEPT ![Head(todo)] = @ \cup {Event(Head(todo), n) : n \in fresh}]
  /\ marked' = IF doc.rebase THEN [marked EXCEPT ![Head(todo)] = doc.inst] ELSE marked
  /\ pc' = "measure" /\ todo' = Tail(todo) /\ fresh' = {}
  /\ UNCHANGED <<setup, inst, log, closes, connected, model, debtVars, deviceVars,
                 critical, data, given, seq, resyncVars, doc, caller, stream, loopVars,
                 base>>

\* mark_up: a Streams document IS delivery.
MarkUp ==
  /\ pc = "measure" /\ todo = <<>>
  /\ connected' = TRUE
  /\ pc' = IF caller = "drive" THEN "judge" ELSE "settle"
  /\ UNCHANGED <<agentVars, model, debtVars, deviceVars, queueVars, seq, resyncVars,
                 workVars, stream, loopVars, base>>

\* The end of snapshot_cycle.  A deferred document leaves the debts owed.
Settle ==
  /\ pc = "settle"
  /\ pending' = IF resync THEN pending ELSE {}
  /\ IF caller = "connect" THEN pc' = "open" /\ republish' = FALSE
                           ELSE pc' = caller /\ UNCHANGED republish
  /\ doc' = NoDoc /\ caller' = "none"
  /\ UNCHANGED <<agentVars, connected, model, permit, deviceVars, queueVars, seq,
                 resyncVars, todo, fresh, stream, failures, degraded, waitFor, base>>

----------------------------------------------------------------------------
(* run_streaming: open, drive, and the ladders out of a stream.            *)

machineVars == <<agentVars, model, debtVars, deviceVars, queueVars, base>>

\* One more failed attempt to establish, and degrade_if_exhausted.
EstablishFailed ==
  /\ failures' = Min({failures + 1, EstablishLimit})
  /\ degraded' = (degraded \/ failures' >= EstablishLimit)
  /\ pc' = "wait" /\ waitFor' = "open"

\* The sample request resumes from the cursor.  The agent serves a position in
\* its window; any other it refuses, or answers on the open stream.
Open ==
  /\ pc = "open"
  /\ stream' = [open |-> TRUE, inst |-> inst, pos |-> seq.next, lively |-> FALSE]
  /\ pc' = "drive"
  /\ UNCHANGED <<machineVars, connected, seq, resyncVars, workVars, loopVars>>

OpenRefused ==
  /\ pc = "open"
  /\ ~InWindow(seq.next)
  /\ EstablishFailed
  /\ UNCHANGED <<machineVars, connected, seq, resyncVars, workVars, stream, republish>>

OpenFailed ==
  /\ pc = "open"
  /\ Fault /\ EstablishFailed
  /\ UNCHANGED <<setup, inst, log, closes, model, debtVars, deviceVars, queueVars, base,
                 connected, seq, resyncVars, workVars, stream, republish>>

\* A part of the stream: what the agent has logged since the position, up to n.
\* A heartbeat is a part with no observation (one that would change nothing is
\* left out).
Alive == pc = "drive" /\ stream.inst = inst

ReadPart(n) ==
  /\ Alive /\ InWindow(stream.pos)
  /\ n \in stream.pos - 1 .. Len(log)
  /\ n = stream.pos - 1 => ~stream.lively \/ seq.next # stream.pos
  /\ doc' = [NoDoc EXCEPT !.kind = "part", !.inst = inst, !.next = n + 1,
               !.obs = [d \in Devices |-> {m \in stream.pos .. n : log[m] = d}]]
  /\ stream' = [stream EXCEPT !.pos = n + 1]
  /\ pc' = "ingest" /\ caller' = "drive"
  /\ UNCHANGED <<machineVars, connected, seq, resyncVars, todo, fresh, loopVars>>

\* A stream that delivered was a real establishment.
Proved(lively) ==
  /\ failures' = IF lively THEN 0 ELSE failures
  /\ degraded' = (degraded /\ ~lively)

\* A part that does not decode is dropped and counted, proves nothing, and the
\* stream goes on behind it.  (Three in a row are a lost stream.)
PartGarbled(n) ==
  /\ Alive /\ InWindow(stream.pos)
  /\ n \in stream.pos .. Len(log)
  /\ Fault
  /\ lost' = [d \in Devices |-> lost[d] \cup
       {[inst |-> inst, n |-> m, gen |-> model[d]] :
          m \in {i \in stream.pos .. n : log[i] = d}}]
  /\ stream' = [stream EXCEPT !.pos = n + 1]
  /\ UNCHANGED <<setup, inst, log, closes, connected, model, debtVars, deviceVars,
                 critical, data, given, marked, seq, resyncVars, pc, workVars,
                 loopVars, base>>

\* After the part: ladder 3 supersedes everything else it could say.
Judge ==
  /\ pc = "judge"
  /\ IF resync THEN /\ pc' = "connect" /\ stream' = Closed
                    /\ Proved(TRUE)
               ELSE /\ pc' = "drive"
                    /\ stream' = [stream EXCEPT !.lively = TRUE]
                    /\ UNCHANGED <<failures, degraded>>
  /\ doc' = NoDoc /\ caller' = "none"
  /\ UNCHANGED <<machineVars, connected, seq, resyncVars, todo, fresh, republish, waitFor>>

\* An OUT_OF_RANGE document, on a stream opened before the window or overtaken
\* by it.  Its header comes first (a restart beats the overrun); otherwise
\* ladder 2: the next snapshot republishes everything.
OutOfRange ==
  /\ Alive /\ ~InWindow(stream.pos)
  /\ LET header == [inst |-> inst, next |-> seq.next, republish |-> FALSE]
     IN  /\ NoteRestart(header)
         /\ IF InstanceChanged(header)
            THEN /\ seq' = [observe_header(header) EXCEPT !.next = 0]
                 /\ UNCHANGED republish
            ELSE /\ republish' = TRUE
                 /\ UNCHANGED seq
  /\ Proved(TRUE)
  /\ pc' = "connect" /\ stream' = Closed
  /\ UNCHANGED <<machineVars, connected, workVars, waitFor>>

\* Ladder 1: heartbeat missed, transport lost, malformed, or end of stream.  A
\* stream that delivered gets one immediate re-establish from the same cursor.
LadderOne ==
  /\ connected' = FALSE
  /\ stream' = Closed
  /\ IF stream.lively THEN Proved(TRUE) /\ pc' = "open" /\ UNCHANGED waitFor
                      ELSE EstablishFailed

StreamLost ==
  /\ Alive
  /\ Fault /\ LadderOne
  /\ UNCHANGED <<setup, inst, log, closes, model, debtVars, deviceVars, queueVars, base,
                 seq, resyncVars, workVars, republish>>

\* The stream of an agent that has restarted is dead.
StreamSevered ==
  /\ pc = "drive" /\ stream.inst # inst
  /\ LadderOne
  /\ UNCHANGED <<machineVars, seq, resyncVars, workVars, republish>>

\* A wait runs out (polling while degraded is BeginCycle).
Elapsed ==
  /\ pc = "wait"
  /\ pc' = waitFor /\ waitFor' = "none"
  /\ UNCHANGED <<machineVars, connected, seq, resyncVars, workVars, stream, failures,
                 degraded, republish>>

----------------------------------------------------------------------------
(* service_attach_snapshots: the /current a change-only stream owes.       *)

AttachNotified ==
  /\ pc = "drive" /\ permit
  /\ permit' = FALSE
  /\ pending' = {} /\ todo' = SetToSeq(pending)
  /\ pc' = "serve"
  /\ UNCHANGED <<agentVars, connected, model, deviceVars, queueVars, seq, resyncVars,
                 doc, fresh, caller, stream, loopVars, base>>

Serve ==
  /\ pc = "serve" /\ todo # <<>>
  /\ IF sess[Head(todo)] # "on"
     THEN todo' = Tail(todo) /\ UNCHANGED <<pc, doc, fresh>>
     ELSE /\ doc' = [NoDoc EXCEPT !.kind = "attach", !.inst = inst,
                                  !.next = NextSequence]
          /\ fresh' = {Latest(Head(todo))}
          /\ pc' = "serving"
          /\ UNCHANGED todo
  /\ UNCHANGED <<machineVars, connected, seq, resyncVars, caller, stream, loopVars>>

\* The scoped read fails, which marks down only on a failed request, and the
\* debt is gone.
ServeFailed ==
  /\ pc = "serve" /\ todo # <<>> /\ sess[Head(todo)] = "on"
  /\ Fault
  /\ connected' \in {FALSE, connected}
  /\ todo' = Tail(todo)
  /\ UNCHANGED <<setup, inst, log, closes, model, debtVars, deviceVars, queueVars, base,
                 seq, resyncVars, pc, doc, fresh, caller, stream, loopVars>>

EndServing ==
  /\ pc' = "serve" /\ todo' = Tail(todo) /\ fresh' = {} /\ doc' = NoDoc

\* The floors are recorded once the snapshot is known to have landed.
ServeDelivered ==
  /\ pc = "serving" /\ sess[Head(todo)] = "on"
  /\ PushSnapshot(Head(todo))
  /\ LET d == Head(todo)
     IN  /\ seq' = [seq EXCEPT !.floor[d] = Max(fresh \cup {@})]
         /\ base' = [base EXCEPT ![d] = [inst |-> doc.inst, n |-> Max(fresh)]]
  /\ EndServing
  /\ UNCHANGED <<agentVars, connected, model, debtVars, deviceVars, resyncVars,
                 caller, stream, loopVars>>

\* dispatch finds no sink: the session has closed meanwhile.
ServeGone ==
  /\ pc = "serving" /\ sess[Head(todo)] # "on"
  /\ EndServing
  /\ UNCHANGED <<machineVars, connected, seq, resyncVars, caller, stream, loopVars>>

\* The lane drops the snapshot: no floor is recorded, and the debt is gone.
ServeUndelivered ==
  /\ pc = "serving" /\ sess[Head(todo)] = "on"
  /\ Fault
  /\ EndServing
  /\ UNCHANGED <<setup, inst, log, closes, connected, model, debtVars, deviceVars,
                 queueVars, base, seq, resyncVars, caller, stream, loopVars>>

Served ==
  /\ pc = "serve" /\ todo = <<>>
  /\ pc' = "drive"
  /\ UNCHANGED <<machineVars, connected, seq, resyncVars, workVars, stream, loopVars>>

----------------------------------------------------------------------------
(* The device sessions.                                                    *)

sessionFrame == <<setup, inst, log, faults, connected, seq, resyncVars, pc, workVars,
                  stream, loopVars>>

\* MtcBackend::connect: the agent must be delivering; ensure_model probes a
\* device only when no model of it is cached...
Connect(d) ==
  /\ sess[d] = "off" /\ connected
  /\ sess' = [sess EXCEPT ![d] = "connecting"]
  /\ model' = [model EXCEPT ![d] = IF @ = 0 THEN inst ELSE @]
  /\ UNCHANGED <<sessionFrame, closes, debtVars, since, queueVars, base>>

\* ...and then attaches: a new queue, and a debt to the streaming task.
Attach(d) ==
  /\ sess[d] = "connecting"
  /\ sess' = [sess EXCEPT ![d] = "on"]
  /\ critical' = [critical EXCEPT ![d] = <<>>] /\ data' = [data EXCEPT ![d] = <<>>]
  /\ pending' = pending \cup {d} /\ permit' = TRUE
  /\ given' = [given EXCEPT ![d] = {}] /\ lost' = [lost EXCEPT ![d] = {}]
  /\ base' = [base EXCEPT ![d] = NoBase]
  /\ since' = [since EXCEPT ![d] = seq.inst] /\ marked' = [marked EXCEPT ![d] = 0]
  /\ UNCHANGED <<sessionFrame, closes, model>>

\* read_signals, while the agent delivers: the loss-intolerant lane first.
Drain(d) ==
  /\ sess[d] = "on" /\ connected
  /\ critical[d] \o data[d] # <<>>
  /\ critical' = [critical EXCEPT ![d] = <<>>] /\ data' = [data EXCEPT ![d] = <<>>]
  /\ UNCHANGED <<sessionFrame, closes, model, debtVars, sess, since, given, lost, marked,
                 base>>

CloseSession(d) ==
  /\ sess[d] = "on"
  /\ sess' = [sess EXCEPT ![d] = "off"]
  /\ critical' = [critical EXCEPT ![d] = <<>>] /\ data' = [data EXCEPT ![d] = <<>>]
  /\ UNCHANGED <<sessionFrame, model, debtVars, since, given, lost, marked,
                 base>>

\* read_signals against an agent that is down: what was drained is dropped,
\* the read fails and the device task closes the session.
LinkLost(d) == ~connected /\ CloseSession(d) /\ UNCHANGED closes

\* Anything else that ends a session (a reload, a reconnect command).
Close(d) == closes < setup.closes /\ closes' = closes + 1 /\ CloseSession(d)

----------------------------------------------------------------------------

TaskStep ==
  \/ Reprobe \/ Reprobed \/ Fetch \/ Ingest \/ Measure \/ Dispatch \/ MarkUp
  \/ Settle \/ Open \/ OpenRefused \/ Judge \/ OutOfRange \/ StreamSevered
  \/ AttachNotified \/ Serve \/ ServeDelivered \/ ServeGone \/ Served

Receive == \E n \in 0 .. MaxSeq : ReadPart(n)

Failure ==
  \/ ReprobeFailed \/ FetchFailed \/ DispatchDropped \/ OpenFailed
  \/ StreamLost \/ ServeFailed \/ ServeUndelivered
  \/ \E n \in 1 .. MaxSeq : PartGarbled(n)

SessionStep(d) == Connect(d) \/ Attach(d) \/ Drain(d) \/ LinkLost(d) \/ Close(d)

Next ==
  \/ BeginCycle \/ TaskStep \/ Receive \/ Elapsed \/ Failure
  \/ Restart
  \/ \E d \in Devices : Observe(d) \/ SessionStep(d)

Spec == Init /\ [][Next]_vars

\* The scheduler runs the task, timers fire, the agent answers what it is asked
\* and the session's ticker ticks.  A degraded wait starts its polling interval
\* afresh, so neither its first tick nor its deadline is passed over for ever.
TaskFairness ==
  /\ WF_vars(TaskStep) /\ WF_vars(Receive) /\ WF_vars(BeginCycle)
  /\ SF_vars(BeginCycle /\ pc = "wait") /\ SF_vars(Elapsed)

SessionFairness ==
  \A d \in Devices : WF_vars(Connect(d)) /\ WF_vars(Attach(d)) /\ WF_vars(Drain(d))
                     /\ WF_vars(LinkLost(d))

FairSpec == Spec /\ TaskFairness /\ SessionFairness

----------------------------------------------------------------------------
(* Properties.                                                             *)

Obs == [inst : 0 .. MaxInst, n : 0 .. MaxSeq, gen : 0 .. MaxInst]

AgentTypes ==
  /\ inst \in 1 .. MaxInst /\ log \in Seq(Devices) /\ Len(log) <= MaxSeq
  /\ faults \in 0 .. setup.faults /\ closes \in 0 .. setup.closes

SessionTypes ==
  /\ sess \in [Devices -> {"off", "connecting", "on"}]
  /\ model \in [Devices -> 0 .. MaxInst] /\ since \in [Devices -> 0 .. MaxInst]
  /\ connected \in BOOLEAN /\ permit \in BOOLEAN /\ pending \subseteq Devices

QueueTypes ==
  /\ critical \in [Devices -> Seq(Obs)] /\ data \in [Devices -> Seq(Obs)]
  /\ given \in [Devices -> SUBSET Obs] /\ lost \in [Devices -> SUBSET Obs]
  /\ marked \in [Devices -> 0 .. MaxInst]
  /\ base \in [Devices -> [inst : 0 .. MaxInst, n : 0 .. MaxSeq]]

SeqTypes ==
  seq \in [inst : 0 .. MaxInst, next : 0 .. MaxSeq + 1, floor : [Devices -> 0 .. MaxSeq]]

TaskTypes ==
  /\ pc \in {"idle", "connect", "reprobe", "fetch", "ingest", "measure", "dispatch",
             "settle", "open", "drive", "judge", "serve", "serving", "wait"}
  /\ caller \in {"none", "idle", "connect", "wait", "drive"}
  /\ waitFor \in {"none", "connect", "open"}
  /\ todo \in Seq(Devices) /\ fresh \subseteq 1 .. MaxSeq
  /\ failures \in 0 .. EstablishLimit
  /\ resync \in BOOLEAN /\ abandoned \in BOOLEAN
  /\ degraded \in BOOLEAN /\ republish \in BOOLEAN

DocTypes ==
  /\ doc \in [kind : {"none", "current", "part", "attach"}, inst : 0 .. MaxInst,
              next : 0 .. MaxSeq + 1, rebase : BOOLEAN, republish : BOOLEAN,
              obs : [Devices -> SUBSET (1 .. MaxSeq)]]
  /\ stream \in [open : BOOLEAN, inst : 0 .. MaxInst, pos : 0 .. MaxSeq + 1,
                 lively : BOOLEAN]

\* The type of the state.
TypeOK ==
  AgentTypes /\ SessionTypes /\ QueueTypes /\ SeqTypes /\ TaskTypes /\ DocTypes

\* Between two documents of a stream.
Settled == pc \in {"open", "drive"}

\* What the agent logged for d between the observation its session started from
\* and the cursor a stream resumes from.
Owed(d) == {n \in base[d].n + 1 .. seq.next - 1 : n \in DOMAIN log /\ log[n] = d}

\* Nothing is lost silently.  While a stream is being opened or read, an attached
\* session has been given every observation of its device from its /current up
\* to the cursor, except those counted as dropped: whatever ladders, re-opened
\* streams, attach snapshots and degraded polls came between.  (A recovery from a
\* restart that is given up half-way leaves a hole until the agent restarts again.)
StreamComplete ==
  Settled /\ ~resync /\ ~abandoned /\ seq.inst = inst =>
    \A d \in attached : base[d].inst = inst =>
      \A n \in Owed(d) : \E o \in given[d] \cup lost[d] : o.inst = inst /\ o.n = n

\* Dedupe: an observation enters a session's on-change flow at most once, however
\* /current, the stream's window and a re-established stream overlap.  (After a recovery
\* from a restart that was given up half-way some may be repeated.)
OnceOnly ==
  ~abandoned => \A d \in Devices :
    data'[d] # data[d] /\ sess'[d] = "on" /\ sess[d] = "on" /\ data'[d] # <<>> =>
      \A i \in Len(data[d]) + 1 .. Len(data'[d]) :
        ~\E o \in given[d] : o.inst = data'[d][i].inst /\ o.n = data'[d][i].n

\* The generation gate: a session that was attached when the agent restarted is
\* given an observation of the new incarnation only through a model probed from
\* that incarnation (re-probe, THEN snapshot).  Attach snapshots do not go through
\* the gate and are not covered.
Reverified ==
  pc = "dispatch" => \A d \in Devices :
    given'[d] \ given[d] # {} /\ doc.inst > since[d] => model[d] = doc.inst

\* Ladder 3 ends in a re-baseline: once a stream is open again after a restart whose
\* recovery was not given up half-way, every session attached across the restart has
\* been sent the Snapshot that tells it so.
RestartRebaselined ==
  Settled /\ ~resync /\ ~abandoned =>
    \A d \in attached : since[d] # seq.inst => marked[d] = seq.inst

\* Ladder 3 republishes everything as current: once a stream has settled on the
\* new incarnation, with no attach snapshot left to serve, no attached session is
\* left with the values of a dead one.
RestartCovered ==
  pc = "drive" /\ stream.lively /\ connected /\ ~resync /\ ~permit =>
    \A d \in attached :
      (\E o \in given[d] : o.inst < seq.inst)
        => \E o \in given[d] \cup lost[d] : o.inst = seq.inst

\* Ladder 2 ends in a re-baseline: a /current fetched on the way back to a stream that
\* moves the cursor over observations of the incarnation it has published from
\* republishes everything, even if earlier attempts of the recovery failed.
GapIsRebased ==
  ~abandoned /\ pc = "ingest" /\ pc' = "measure" /\ doc.kind = "current" /\ caller = "connect"
    /\ seq.inst = doc.inst /\ seq.floor # NoFloors /\ doc.next > seq.next
      => doc.rebase

\* What a step may put into a session's flow: nothing twice, nothing through a
\* model of a dead incarnation, and no gap without its republish (should_publish,
\* reset_dedupe, the ladders of run_streaming).
FlowKeepsFaith == [][OnceOnly /\ Reverified /\ GapIsRebased]_vars

\* The session of d is over, or has been given something (or had it dropped, and
\* counted).
Answered(d) == sess[d] # "on" \/ given[d] \cup lost[d] # {}

\* What the comments of the runtime say (mod.rs:546, 914): a /current covers every
\* attachment, through floors that are unset.  It does not hold where an earlier session
\* has left the floor of its device raised (detach keeps it), nor of a session
\* that attaches between its device's turn in a cycle and the end of the cycle.
CurrentCoversAttachments == \A d \in Devices : sess[d] = "on" ~> Answered(d)

\* The agent has something of d that lies above the floor, or numbers afresh.
Unseen(d) == seq.inst = inst => Latest(d) > seq.floor[d]

\* Polling, an attachment has a claim as soon as its device has an observation that no
\* earlier session was given; streaming, while its debt stands and a stream is read,
\* once nothing fails any more.
Claims(d) ==
  /\ sess[d] = "on"
  /\ IF setup.prefer
     THEN pc = "drive" /\ permit /\ d \in pending /\ faults = setup.faults
     ELSE Unseen(d)

\* Every such attachment is answered, unless the stream it waits beside ends first.
AttachServed ==
  \A d \in Devices : Claims(d) ~> (Answered(d) \/ (setup.prefer /\ ~stream.open))

\* With a live agent a streaming machine ends in a stream of its present incarnation,
\* read up to its last observation, with nothing left to recover.
Recovers ==
  setup.prefer => <>[](/\ pc = "drive" /\ stream.inst = inst
                 /\ ~resync /\ seq.inst = inst /\ seq.next = NextSequence)
=============================================================================
