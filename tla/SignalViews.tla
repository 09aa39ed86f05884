------------------------------ MODULE SignalViews ------------------------------
(***************************************************************************)
(* Who serves which signals, and when they agree.  The agent describes a   *)
(* device (device); the acquisition task caches what it last probed        *)
(* (cache); a reload stores new signal configurations (slot); a session    *)
(* serves what it compiled from the model it holds and the configuration   *)
(* it last adopted (sess); the command surface answers sb/browse from the  *)
(* cache and the slot.  No step waits for another: a drift reaches a       *)
(* session as an event in its queue, a reload when the session next looks. *)
(*                                                                         *)
(* Sources: src/reload.rs, src/supervisor.rs (ConfigListener),             *)
(* src/device.rs (MtcBackend::connect, MtcSession), src/mtconnect/mod.rs   *)
(* (ensure_model, refresh_model, attach, detach), src/commands.rs          *)
(* (browse_model).                                                         *)
(***************************************************************************)
EXTENDS Browse, Picking

CONSTANTS
  Order,        \* the configured instances, in order
  Docs,         \* [instance -> the probe digests its agent may give]
  Trees,        \* [digest -> the browse tree of the description it is the digest of]
  Signals,      \* [generation -> the signal configuration it is the hash of]
  Startup,      \* the configuration the component started with
  Candidates,   \* the configurations a reload may bring
  PageMax,      \* `max` of the browse client's requests
  MaxRebuilds,  \* bound: restarts of the agent with another description
  MaxReloads,   \* bound: reloads
  MaxCloses     \* bound: sessions closed

Instances == Range(Order)

ASSUME OrderAssumption  == Order \in Seq(Instances) /\ Order # <<>>
ASSUME ProbesAssumption ==
  /\ \A i \in Instances : Docs[i] \subseteq DOMAIN Trees
  /\ \A d \in DOMAIN Trees : Trees[d] \in Seq(Range(Trees[d]))
ASSUME PagesAssumption  == PageMax \in Nat
ASSUME ConfigurationsAssumption ==
  /\ Startup.conf \in [Instances -> DOMAIN Signals]
  /\ \A c \in Candidates : c.conf \in [DOMAIN c.conf -> DOMAIN Signals]

(***************************************************************************)
(* A description and a signal configuration are named by their content     *)
(* hashes, as the adapter names them: the probe digest and the generation, *)
(* which together are the viewGeneration.                                  *)
(***************************************************************************)
Views  == {<<d, g>> : d \in DOMAIN Trees, g \in DOMAIN Signals}
Served == [v \in Views |->
             ServedSet(Signals[v[2]].explicit, Signals[v[2]].selection, Trees[v[1]])]
Bodies == [v \in Views |-> Entries(Trees[v[1]], Served[v])]

VARIABLES
  device,    \* [instance -> what the agent's probe describes now]
  restarted, \* resync_needed: a restart was revealed and not yet re-probed
  cycle,     \* the acquisition task's re-probe: [todo, text]
  cache,     \* AgentRuntime::models: [instance -> option of a description]
  sink,      \* [instance -> attached]
  drift,     \* [instance -> a ModelDrift is in its queue]
  config,    \* the configuration in force: [agents, conf]
  staged,    \* SignalRegistry::apply: the slots still to be stored
  slot,      \* [instance -> its live InstanceSignals]
  sess,      \* [instance -> [at, model, conf]]
  notices,   \* [instance -> signal-set notices of the session's last compile]
  walk,      \* the browse client: [model, cursor, view, got]
  missed,    \* history: a drift passed while no sink could hear of it
  spent      \* bounds: [rebuilds, reloads, closes]

vars == <<device, restarted, cycle, cache, sink, drift, config, staged, slot,
          sess, notices, walk, missed, spent>>

Idle  == [todo |-> <<>>, text |-> None]
Off   == [at |-> "off", model |-> None, conf |-> None]
Fresh == [model |-> None, cursor |-> None, view |-> None, got |-> <<>>]

Init ==
  /\ device \in {f \in [Instances -> UNION {Docs[i] : i \in Instances}] :
                   \A i \in Instances : f[i] \in Docs[i]}
  /\ restarted = FALSE /\ cycle = Idle
  /\ cache = [i \in Instances |-> None]
  /\ sink = [i \in Instances |-> FALSE] /\ drift = [i \in Instances |-> FALSE]
  /\ config = Startup /\ staged = <<>> /\ slot = Startup.conf
  /\ sess = [i \in Instances |-> Off]
  /\ notices = [i \in Instances |-> {}]
  /\ walk = Fresh
  /\ missed = [i \in Instances |-> FALSE]
  /\ spent = [rebuilds |-> 0, reloads |-> 0, closes |-> 0]

(***************************************************************************)
(* The agent restarts with another description of a device; the next       *)
(* document's instanceId reveals it.                                       *)
(***************************************************************************)
Rebuild(i) ==
  /\ spent.rebuilds < MaxRebuilds
  /\ \E d \in Docs[i] \ {device[i]} : device' = [device EXCEPT ![i] = d]
  /\ restarted' = TRUE
  /\ spent' = [spent EXCEPT !.rebuilds = @ + 1]
  /\ UNCHANGED <<cycle, cache, sink, drift, config, staged, slot, sess, notices, walk, missed>>

(***************************************************************************)
(* refresh_model: the probe's text is fetched in one step, the model       *)
(* stored and a drift dispatched in another; the event goes to the sink    *)
(* that is attached at that moment, if one is.                             *)
(***************************************************************************)
Drifted(i, text) == cache[i] # None /\ cache[i] # Some(text)

(* Mutant: a refreshed model is stored and nobody told. *)
StoreModelQuiet(i, text) ==
  /\ cache' = [cache EXCEPT ![i] = Some(text)]
  /\ drift' = drift
  /\ missed' = [missed EXCEPT ![i] = @ \/ (Drifted(i, text) /\ ~sink[i])]

StoreModel(i, text) ==
  /\ cache' = [cache EXCEPT ![i] = Some(text)]
  /\ drift' = [drift EXCEPT ![i] = @ \/ (Drifted(i, text) /\ sink[i])]
  /\ missed' = [missed EXCEPT ![i] = @ \/ (Drifted(i, text) /\ ~sink[i])]

HoldsVoidModel(i) == ~ ({cache[i], sess[i].model} \subseteq {None, Some(device[i])})

(* snapshot_cycle with a resync pending: the devices attached now, in turn. *)
BeginReprobe ==
  /\ restarted /\ cycle = Idle
  /\ cycle' = [Idle EXCEPT !.todo = Picked(Order, {i \in Instances : sink[i]})]
  /\ restarted' = FALSE
  /\ missed' = [i \in Instances |-> missed[i] \/ (~sink[i] /\ HoldsVoidModel(i))]
  /\ UNCHANGED <<device, cache, sink, drift, config, staged, slot, sess, notices, walk, spent>>

FetchProbe ==
  /\ cycle.todo # <<>> /\ cycle.text = None
  /\ cycle' = [cycle EXCEPT !.text = Some(device[Head(cycle.todo)])]
  /\ UNCHANGED <<device, restarted, cache, sink, drift, config, staged, slot, sess, notices,
                 walk, missed, spent>>

(* The probe fails: the cycle ends with the resync still pending. *)
ProbeFailed ==
  /\ cycle.todo # <<>> /\ cycle.text = None
  /\ cycle' = Idle
  /\ restarted' = TRUE
  /\ UNCHANGED <<device, cache, sink, drift, config, staged, slot, sess, notices, walk, missed,
                 spent>>

StoreProbe ==
  /\ cycle.text # None
  /\ StoreModel(Head(cycle.todo), cycle.text[1])
  /\ cycle' = [todo |-> Tail(cycle.todo), text |-> None]
  /\ UNCHANGED <<device, restarted, sink, config, staged, slot, sess, notices, walk, spent>>

(***************************************************************************)
(* classify and SignalRegistry::apply.  A candidate is                     *)
(* [agents, conf]: the agents and, for each instance it declares, the      *)
(* generation of its signal configuration [explicit, selection].           *)
(***************************************************************************)
ValidConf(conf) ==
  /\ conf.selection = None \/ ValidSelection(conf.selection[1])
  /\ IsInjective([k \in 1..Len(conf.explicit) |-> conf.explicit[k].id])
  /\ \A k \in 1..Len(conf.explicit) :
       conf.explicit[k].binding = None
         \/ conf.explicit[k].item \notin Range(conf.explicit[k].binding[1])

Compiles(candidate) == \A i \in DOMAIN candidate.conf : ValidConf(Signals[candidate.conf[i]])

(* The component starts with what the validator accepted (Startup). *)
ASSUME StartupAssumption == Compiles(Startup)

Classify(candidate) ==
  IF candidate.agents # config.agents \/ DOMAIN candidate.conf # DOMAIN config.conf
  THEN "RESTART_REQUIRED"
  ELSE IF Compiles(candidate) THEN "ACCEPT" ELSE "INVALID_CONFIG"

(* Mutant: the first instance that changed is the only one staged. *)
StagedFirst(candidate) ==
  LET changed == Picked(Order, {i \in Instances : slot[i] # candidate.conf[i]})
  IN  [k \in 1..Min({1, Len(changed)}) |->
         [of |-> changed[k], conf |-> candidate.conf[changed[k]]]]

(* Only the generations that differ from the live ones are staged. *)
Staged(candidate) ==
  LET changed == Picked(Order, {i \in Instances : slot[i] # candidate.conf[i]})
  IN  [k \in 1..Len(changed) |-> [of |-> changed[k], conf |-> candidate.conf[changed[k]]]]

Reload ==
  /\ spent.reloads < MaxReloads /\ staged = <<>>
  /\ \E candidate \in Candidates :
       /\ Classify(candidate) = "ACCEPT"
       /\ config' = candidate
       /\ staged' = Staged(candidate)
  /\ spent' = [spent EXCEPT !.reloads = @ + 1]
  /\ UNCHANGED <<device, restarted, cycle, cache, sink, drift, slot, sess, notices, walk, missed>>

StoreSlot ==
  /\ staged # <<>>
  /\ slot' = [slot EXCEPT ![Head(staged).of] = Head(staged).conf]
  /\ staged' = Tail(staged)
  /\ UNCHANGED <<device, restarted, cycle, cache, sink, drift, config, sess, notices, walk, missed,
                 spent>>

(***************************************************************************)
(* recompile: what a session announces when the served set `now` replaces  *)
(* the one compiled `before` (none in a new session).                      *)
(***************************************************************************)
Compiled(model, conf) == Served[<<model[1], conf>>]

Cut(served) == <<served.matched, served.truncated>>

(* Mutant: derived sets of one size count as unchanged. *)
NoticesBySize(before, now) ==
  IF before # None
       /\ Cardinality(DerivedIds(before[1])) # Cardinality(DerivedIds(now))
  THEN {"set"} ELSE {}

Notices(before, now) ==
  {n \in {"set", "cap", "budget"} :
     CASE n = "set"    -> before # None /\ DerivedIds(before[1]) # DerivedIds(now)
       [] n = "cap"    -> now.truncated > 0 /\ (before = None \/ Cut(before[1]) # Cut(now))
       [] n = "budget" -> now.unfit > 0 /\ (before = None \/ before[1].unfit # now.unfit)}

(* adopt_current_signals, then adopt_current_model if a drift was drained. *)
Adopt(i, model) ==
  LET s == sess[i]
      resigned == Compiled(s.model, slot[i])
      remodelled == Compiled(model, slot[i])
  IN  /\ sess' = [sess EXCEPT ![i] = [s EXCEPT !.model = model, !.conf = Some(slot[i])]]
      /\ notices' = [notices EXCEPT ![i] =
           (IF s.conf = Some(slot[i]) THEN {}
            ELSE Notices(Some(Compiled(s.model, s.conf[1])), resigned))
           \union (IF model = s.model THEN {} ELSE Notices(Some(resigned), remodelled))]

(***************************************************************************)
(* MtcBackend::connect: ensure_model (from the cache, or a probe of its    *)
(* own), then attach and a session that compiles the startup configuration *)
(* and at once adopts the live one.                                        *)
(***************************************************************************)
EnsureCached(i) ==
  /\ sess[i].at = "off" /\ cache[i] # None
  /\ sess' = [sess EXCEPT ![i] = [Off EXCEPT !.at = "probed", !.model = cache[i]]]
  /\ UNCHANGED <<device, restarted, cycle, cache, sink, drift, config, staged, slot, notices, walk,
                 missed, spent>>

EnsureFetch(i) ==
  /\ sess[i].at = "off" /\ cache[i] = None
  /\ sess' = [sess EXCEPT ![i] = [Off EXCEPT !.at = "asked", !.model = Some(device[i])]]
  /\ UNCHANGED <<device, restarted, cycle, cache, sink, drift, config, staged, slot, notices, walk,
                 missed, spent>>

EnsureStore(i) ==
  /\ sess[i].at = "asked"
  /\ StoreModel(i, sess[i].model[1])
  /\ sess' = [sess EXCEPT ![i].at = "probed"]
  /\ UNCHANGED <<device, restarted, cycle, sink, config, staged, slot, notices, walk, spent>>

Attach(i) ==
  /\ sess[i].at = "probed"
  /\ sink' = [sink EXCEPT ![i] = TRUE]
  /\ drift' = [drift EXCEPT ![i] = FALSE]
  /\ LET first == Compiled(sess[i].model, Startup.conf[i])
         live  == Compiled(sess[i].model, slot[i])
     IN  notices' = [notices EXCEPT ![i] = Notices(None, first) \union
                       (IF slot[i] = Startup.conf[i] THEN {} ELSE Notices(Some(first), live))]
  /\ sess' = [sess EXCEPT ![i] = [@ EXCEPT !.at = "on", !.conf = Some(slot[i])]]
  /\ UNCHANGED <<device, restarted, cycle, cache, config, staged, slot, walk, missed, spent>>

(* read_signals: the live signals, then the queue and the cached model. *)
Read(i) ==
  /\ sess[i].at = "on"
  /\ Adopt(i, IF drift[i] THEN cache[i] ELSE sess[i].model)
  /\ drift' = [drift EXCEPT ![i] = FALSE]
  /\ UNCHANGED <<device, restarted, cycle, cache, sink, config, staged, slot, walk, missed, spent>>

(* read_named, snapshot_now: the live signals only. *)
Serve(i) ==
  /\ sess[i].at = "on"
  /\ Adopt(i, sess[i].model)
  /\ UNCHANGED <<device, restarted, cycle, cache, sink, drift, config, staged, slot, walk, missed,
                 spent>>

(* Mutant: a closed session stays attached. *)
CloseAttached(i) ==
  /\ sess[i].at = "on" /\ spent.closes < MaxCloses
  /\ sess' = [sess EXCEPT ![i] = Off]
  /\ notices' = [notices EXCEPT ![i] = {}]
  /\ spent' = [spent EXCEPT !.closes = @ + 1]
  /\ UNCHANGED <<device, restarted, cycle, cache, sink, drift, config, staged, slot, walk, missed>>

Close(i) ==
  /\ sess[i].at = "on" /\ spent.closes < MaxCloses
  /\ sink' = [sink EXCEPT ![i] = FALSE]
  /\ drift' = [drift EXCEPT ![i] = FALSE]
  /\ sess' = [sess EXCEPT ![i] = Off]
  /\ notices' = [notices EXCEPT ![i] = {}]
  /\ spent' = [spent EXCEPT !.closes = @ + 1]
  /\ UNCHANGED <<device, restarted, cycle, cache, config, staged, slot, walk, missed>>

(***************************************************************************)
(* sb/browse of the first instance, page after page: the handler loads the *)
(* cached model, then the slot; VIEW_CHANGED makes the client start over.  *)
(***************************************************************************)
Browsed == Head(Order)

LoadModel ==
  /\ walk.model = None /\ cache[Browsed] # None
  /\ walk.got = <<>> \/ walk.cursor # None
  /\ walk' = [walk EXCEPT !.model = cache[Browsed]]
  /\ UNCHANGED <<device, restarted, cycle, cache, sink, drift, config, staged, slot, sess, notices,
                 missed, spent>>

Answer ==
  /\ walk.model # None
  /\ LET gen   == <<walk.model[1], slot[Browsed]>>
         tree  == Trees[walk.model[1]]
         start == CursorStart(walk.cursor, gen)
     IN  walk' = IF start = None THEN Fresh
                 ELSE LET page == Page(tree, Compiled(walk.model, slot[Browsed]), gen,
                                       start[1], PageMax)
                      IN  [model |-> None, cursor |-> page.cursor, view |-> Some(gen),
                           got |-> walk.got \o page.entries]
  /\ UNCHANGED <<device, restarted, cycle, cache, sink, drift, config, staged, slot, sess, notices,
                 missed, spent>>

Step(i) == \/ EnsureCached(i) \/ EnsureFetch(i) \/ EnsureStore(i) \/ Attach(i) \/ Read(i)

Next ==
  \/ BeginReprobe \/ FetchProbe \/ ProbeFailed \/ StoreProbe
  \/ Reload \/ StoreSlot
  \/ LoadModel \/ Answer
  \/ \E i \in Instances : Rebuild(i) \/ Step(i) \/ Serve(i) \/ Close(i)

(* The tasks keep running; a probe is not refused for ever. *)
Fairness ==
  /\ WF_vars(BeginReprobe) /\ SF_vars(FetchProbe) /\ WF_vars(StoreProbe) /\ WF_vars(StoreSlot)
  /\ \A i \in Instances : WF_vars(Step(i))

Spec == Init /\ [][Next]_vars
FairSpec == Spec /\ Fairness

(***************************************************************************)
(* Types.                                                                  *)
(***************************************************************************)
AllDocs == UNION {Docs[i] : i \in Instances}
Opt(S)  == {None} \union {Some(x) : x \in S}

TypeOK ==
  /\ \A i \in Instances : device[i] \in Docs[i] /\ cache[i] \in Opt(Docs[i])
  /\ restarted \in BOOLEAN
  /\ cycle.text \in Opt(AllDocs) /\ Range(cycle.todo) \subseteq Instances
  /\ \A i \in Instances :
       /\ sess[i].at \in {"off", "asked", "probed", "on"}
       /\ sess[i].model \in Opt(Docs[i])
       /\ sess[i].conf # None <=> sess[i].at = "on"
       /\ sink[i] <=> sess[i].at = "on"
       /\ drift[i] => sink[i]

(***************************************************************************)
(* A reload is whole or nothing: once its slots are stored every instance  *)
(* is on the configuration in force, that configuration compiles, and its  *)
(* agents and instances are the ones the component is running.             *)
(***************************************************************************)
ReloadWhole ==
  /\ Compiles(config)
  /\ config.agents = Startup.agents /\ DOMAIN config.conf = Instances
  /\ staged = <<>> => slot = config.conf

(***************************************************************************)
(* A finished walk is one view: the entries are the whole tree, once and   *)
(* in order, flagged by the served set of one model and one configuration, *)
(* whatever was re-probed or reloaded between its pages.                   *)
(***************************************************************************)
WalkIsOneView ==
  walk.got # <<>> /\ walk.cursor = None =>
    walk.got = Bodies[walk.view[1]]

(***************************************************************************)
(* A session's view settles on what the agent describes and the slot       *)
(* holds, except after a drift that passed while it was not attached.      *)
(***************************************************************************)
Current(i) ==
  sess[i].at = "on" /\ sess[i].model = Some(device[i]) /\ sess[i].conf = Some(slot[i])

Settles == \A i \in Instances : <>[](Current(i) \/ missed[i])

(***************************************************************************)
(* src/commands.rs:183: "The same pure merge the session serves from, so   *)
(* this view and acquisition can never disagree": what sb/signals and      *)
(* sb/browse answer from is, in the end, what the session serves.          *)
(***************************************************************************)
ViewsAgree ==
  \A i \in Instances :
    <>[](sess[i].at = "on" => sess[i].model = cache[i] /\ sess[i].conf = Some(slot[i]))

(***************************************************************************)
(* A session that stays connected announces every change of its derived    *)
(* ids: "never a lingering BAD and never silence".                         *)
(***************************************************************************)
ChangeAnnounced ==
  [][\A i \in Instances :
       sess[i].at = "on" /\ sess'[i].at = "on" =>
         (DerivedIds(Compiled(sess[i].model, sess[i].conf[1]))
            # DerivedIds(Compiled(sess'[i].model, sess'[i].conf[1]))
          => "set" \in notices'[i])]_vars
=============================================================================
