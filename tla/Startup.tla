------------------------------ MODULE Startup ------------------------------
(***************************************************************************)
(* From a configuration document to hosted instances: the validator        *)
(* (src/src/main.rs, reload.rs classify), the compilation of instances     *)
(* against agents (app.rs compile_mtconnect, mtconnect/config.rs),         *)
(* App::new and the start of App::run (supervisor.rs), the backend's       *)
(* bindings (device.rs), and a reload of the signal slots (reload.rs).     *)
(*                                                                         *)
(* A document is [agents, defaults, instances].  `wellFormed` is what      *)
(* serde accepts of an entry; a blank token is "blank".  An instance's     *)
(* signals and selection are Selection's, before the compilation stamps    *)
(* the selection with the defaults and its channel budget.                 *)
(***************************************************************************)
EXTENDS Selection, Functions, Picking

CONSTANTS
  Documents,   \* the configuration documents that may be supplied
  Vaults,      \* what the vault may hold: [service, secrets]
  Room,        \* [instance ids -> channel budgets]: what the UNS identity leaves
  Legal,       \* the instance ids that are tokens of the namespace
  MaxReloads   \* bound: reloads offered

\* What serde makes of a document: a list of records, each of its fields.
DocumentsAreRead ==
  \A doc \in Documents :
    /\ doc.instances \in Seq(Range(doc.instances))
    /\ \A i \in Range(doc.instances) :
         /\ DOMAIN i = {"id", "wellFormed", "adapter", "connection", "signals", "selection"}
         /\ DOMAIN i.connection = {"agent", "uuid", "endpoint"}
         /\ i.selection # None =>
              {"mode", "include", "exclude", "max"} \subseteq DOMAIN i.selection[1]

MTConnect == "mtconnect"
Hostable  == {MTConnect, "sim"}

\* ChannelBudget::default, what the validator compiles against.
DefaultBudget == [tokens |-> 3, bytes |-> 256]
NoBudgets     == [i \in {} |-> DefaultBudget]
BudgetOf(budgets, id) == IF id \in DOMAIN budgets THEN budgets[id] ELSE DefaultBudget

---------------------------------------------------------------------------
(* The agents and the bindings.                                            *)

ValidAgent(a) ==
  /\ a.wellFormed /\ a.kebab
  /\ a.limits             \* intervals, document cap and reconnect bounds
  /\ (a.cert = None) <=> (a.key = None)

\* parse_agents
AgentsParse(doc) ==
  doc.agents # None /\ LET agents == doc.agents[1] IN
    /\ agents # << >>
    /\ \A n \in DOMAIN agents : ValidAgent(agents[n])
    /\ IsInjective([n \in DOMAIN agents |-> agents[n].id])
    /\ IsInjective([n \in DOMAIN agents |-> agents[n].url])

Serving(agents, id) == {n \in DOMAIN agents : agents[n].id = id}

\* connection_binding
Bound(connection) ==
  /\ connection.agent \notin {None, Some("blank")}
  /\ connection.uuid \notin {None, Some("blank")}
Binding(connection) == <<connection.agent[1], connection.uuid[1]>>

ValidSignals(signals) ==
  /\ IsInjective([k \in DOMAIN signals |-> signals[k].id])
  /\ \A k \in DOMAIN signals :
       /\ signals[k].item # "blank"
       /\ signals[k].binding # None => signals[k].item \notin Range(signals[k].binding[1])

\* Mutation: two instances may claim one device of one agent.
X_ValidBindings(agents, compiled) ==
  \A n \in DOMAIN compiled :
    /\ Serving(agents, compiled[n].agent) # {}
    /\ ValidSignals(compiled[n].signals)
    /\ compiled[n].selection # None => ValidSelection(compiled[n].selection[1])

\* validate_bindings
ValidBindings(agents, compiled) ==
  /\ \A n \in DOMAIN compiled :
       /\ Serving(agents, compiled[n].agent) # {}
       /\ ValidSignals(compiled[n].signals)
       /\ compiled[n].selection # None => ValidSelection(compiled[n].selection[1])
  /\ IsInjective([n \in DOMAIN compiled |-> <<compiled[n].agent, compiled[n].uuid>>])

---------------------------------------------------------------------------
(* The compilation.                                                        *)

\* publish_defaults_of: what is not a 32-bit number or "interval" is unset.
PublishDefaults(defaults) ==
  [batch |-> IF defaults.batch \in {"unset", "tooLarge"} THEN "0" ELSE defaults.batch,
   mode  |-> IF defaults.mode = "interval" THEN "interval" ELSE "on-change"]

Stamped(selection, defaults, budget) ==
  IF selection = None THEN None
  ELSE Some([selection[1] EXCEPT !.publish = <<defaults.mode, defaults.batch>>,
                                 !.budget = budget])

\* endpoint_description: the agent's authority and the encoded uuid.
Endpoint(agents, connection) ==
  LET n == CHOOSE k \in Serving(agents, Binding(connection)[1]) : TRUE IN
  <<agents[n].authority, Binding(connection)[2]>>

\* compile_mtconnect, of one instance: its entry, and its endpoint.
CompiledOf(i, defaults, budgets) ==
  [id |-> i.id, agent |-> Binding(i.connection)[1], uuid |-> Binding(i.connection)[2],
   signals |-> i.signals,
   selection |-> Stamped(i.selection, defaults, BudgetOf(budgets, i.id))]
WithEndpoint(i, agents) ==
  IF i.adapter = MTConnect /\ i.connection.endpoint = None
  THEN [i EXCEPT !.connection.endpoint = Some(Endpoint(agents, i.connection))] ELSE i

Compiled(instances, defaults, budgets) ==
  LET ours == Picked(instances, {i \in Range(instances) : i.adapter = MTConnect}) IN
  [n \in DOMAIN ours |-> CompiledOf(ours[n], defaults, budgets)]

Compiles(instances, agents, defaults, budgets) ==
  /\ \A n \in DOMAIN instances :
       IF instances[n].adapter = MTConnect
       THEN /\ Bound(instances[n].connection)
            /\ Serving(agents, Binding(instances[n].connection)[1]) # {}
       ELSE instances[n].selection = None
  /\ ValidBindings(agents, Compiled(instances, defaults, budgets))

NeedsAgents(instances) == \E n \in DOMAIN instances : instances[n].adapter = MTConnect
AgentsOf(doc) == IF doc.agents = None THEN << >> ELSE doc.agents[1]

\* compile_with: the validator's compilation, of the raw document.
CompilesWith(doc, budgets) ==
  /\ \A n \in DOMAIN doc.instances : doc.instances[n].wellFormed
  /\ IF NeedsAgents(doc.instances)
     THEN /\ AgentsParse(doc)
          /\ Compiles(doc.instances, AgentsOf(doc), PublishDefaults(doc.defaults), budgets)
     ELSE Compiles(doc.instances, << >>, PublishDefaults(doc.defaults), budgets)
CompileWith(doc, budgets) == Compiled(doc.instances, PublishDefaults(doc.defaults), budgets)

Ids(doc) == [n \in DOMAIN doc.instances |-> doc.instances[n].id]

\* classify; `current` is an option, absent on the initial load.
Classify(candidate, current) ==
  IF /\ current # None
     /\ \/ candidate.agents # current[1].agents
        \/ Ids(candidate) # Ids(current[1])
  THEN "RESTART_REQUIRED"
  ELSE IF CompilesWith(candidate, NoBudgets) THEN "ACCEPT" ELSE "INVALID_MTCONNECT_CONFIG"

---------------------------------------------------------------------------
(* The signal slots and their generations.                                 *)

Opt(option) == IF option = None THEN <<"00", "1f">> ELSE <<"01">> \o option[1] \o <<"1f">>
Joined(tokens) == FlattenSeq(tokens)
Plain(option) == IF option = None THEN None ELSE Some(<<option[1]>>)

HashedBinding(binding) ==
  IF binding = None THEN <<"00", "1f">>
  ELSE <<"01">> \o Joined([k \in DOMAIN binding[1] |-> <<binding[1][k], "1e">>]) \o <<"1f">>

HashedSignal(s) ==
  s.id \o <<"1f", s.item, "1f">> \o Opt(s.channel) \o HashedBinding(s.binding)
    \o (IF s.publish = None THEN <<"00">> ELSE <<"01", s.publish[1]>>) \o <<"1d">>

HashedMatcher(m) ==
  Opt(Plain(m.cat)) \o Opt(IF m.ids = None THEN None ELSE Some(SetToSeq(m.ids[1])))
    \o Opt(m.path) \o <<"1e">>
HashedMatchers(ms) == Joined([k \in DOMAIN ms |-> HashedMatcher(ms[k])]) \o <<"1d">>

HashedSelection(sel) ==
  <<"02", sel.mode, "1f">> \o HashedMatchers(sel.include) \o HashedMatchers(sel.exclude)
    \o <<ToString(sel.max), ToString(sel.autoBind)>> \o sel.publish
    \o <<ToString(sel.budget.tokens), ToString(sel.budget.bytes)>>

\* generation_of: what is hashed; the digest stands for it.
Generation(signals, selection) ==
  Joined([k \in DOMAIN signals |-> HashedSignal(signals[k])])
    \o (IF selection = None THEN << >> ELSE HashedSelection(selection[1]))

Slot(signals, selection) ==
  [signals |-> signals, selection |-> selection, generation |-> Generation(signals, selection)]

\* SignalRegistry::new: of two entries with one id the last stays.
LastOf(compiled, id) ==
  CHOOSE n \in DOMAIN compiled :
    compiled[n].id = id /\ \A k \in DOMAIN compiled : compiled[k].id = id => k <= n
Registry(compiled) ==
  [id \in {compiled[n].id : n \in DOMAIN compiled} |->
     LET c == compiled[LastOf(compiled, id)] IN Slot(c.signals, c.selection)]

\* The digest tells the signal sets apart that the documents' entries have.
DigestTells ==
  LET entries == UNION {Range(CompileWith(doc, Room)) : doc \in Documents} IN
  \A c, d \in entries :
    Generation(c.signals, c.selection) = Generation(d.signals, d.selection) =>
      c.signals = d.signals /\ c.selection = d.selection

\* The budget map is the authority on a slot's budget.
Restamped(c, budgets) ==
  [c EXCEPT !.selection = IF @ = None THEN None
                          ELSE Some([@[1] EXCEPT !.budget = BudgetOf(budgets, c.id)])]

\* MtcBackend::new: the compiled entries by agent and device.
Backend(compiled) ==
  [key \in {<<compiled[n].agent, compiled[n].uuid>> : n \in DOMAIN compiled} |->
     compiled[CHOOSE n \in DOMAIN compiled :
                /\ key = <<compiled[n].agent, compiled[n].uuid>>
                /\ \A k \in DOMAIN compiled :
                     key = <<compiled[k].agent, compiled[k].uuid>> => k <= n]]

---------------------------------------------------------------------------
(* Credentials.                                                            *)

Fetched(vault, ref) == ref # None => vault.secrets[ref[1]] \in {"good", "bad"}
Usable(vault, ref)  == ref # None => vault.secrets[ref[1]] = "good"

\* resolve_agent_credentials: any auth or tls section needs the service.
CredentialsResolve(a, vault) ==
  a.auth # None \/ a.tls =>
    /\ vault.service
    /\ \A ref \in {a.auth, a.ca, a.cert, a.key} : Fetched(vault, ref)

\* MtcClient::new refuses TLS material it cannot use.
ClientBuilds(a, vault) == \A ref \in {a.ca, a.cert, a.key} : Usable(vault, ref)

---------------------------------------------------------------------------
VARIABLES
  phase,    \* "loading", "rejected", "building", "failed", "hosting", "running"
  vault,
  booted,   \* the document the component was started with
  active,   \* the document in force
  app,      \* App: [instances, agents, backend]
  slots,    \* SignalRegistry::slots
  hosted,   \* the instances run() has spawned a task for, with their views
  last,     \* the last reload: [verdict, changed, before]
  reloads   \* bound: reloads offered

vars == <<phase, vault, booted, active, app, slots, hosted, last, reloads>>

NoDocument == [agents |-> None, defaults |-> [batch |-> "unset", mode |-> "unset"],
               instances |-> << >>]
NoApp  == [instances |-> << >>, agents |-> {}, backend |-> [k \in {} |-> 0]]
NoSlots == [i \in {} |-> Slot(<< >>, None)]
Silent == [verdict |-> "none", changed |-> {}, before |-> NoSlots]

Init ==
  /\ phase = "loading" /\ vault \in Vaults
  /\ booted = NoDocument /\ active = NoDocument
  /\ app = NoApp /\ slots = NoSlots /\ hosted = << >>
  /\ last = Silent /\ reloads = 0

\* The library offers the initial document to the validator.
Load ==
  /\ phase = "loading"
  /\ \E doc \in Documents :
       IF Classify(doc, None) = "ACCEPT"
       THEN phase' = "building" /\ booted' = doc /\ active' = doc
       ELSE phase' = "rejected" /\ UNCHANGED <<booted, active>>
  /\ UNCHANGED <<vault, app, slots, hosted, last, reloads>>

\* App::new: a malformed instance is skipped, one instance must be left.
Build ==
  /\ phase = "building"
  /\ LET devices  == Picked(active.instances, {i \in Range(active.instances) : i.wellFormed})
         agents   == IF NeedsAgents(devices) THEN AgentsOf(active) ELSE << >>
         defaults == PublishDefaults(active.defaults)
         compiled == Compiled(devices, defaults, Room) IN
     IF /\ devices # << >>
        /\ NeedsAgents(devices) => AgentsParse(active)
        /\ Compiles(devices, agents, defaults, Room)
        /\ \A n \in DOMAIN agents : CredentialsResolve(agents[n], vault)
                                      /\ ClientBuilds(agents[n], vault)
     THEN /\ app' = [instances |-> [n \in DOMAIN devices |-> WithEndpoint(devices[n], agents)],
                     agents |-> {agents[n].id : n \in DOMAIN agents},
                     backend |-> Backend(compiled)]
          /\ slots' = Registry([n \in DOMAIN compiled |-> Restamped(compiled[n], Room)])
          /\ phase' = "hosting"
     ELSE phase' = "failed" /\ UNCHANGED <<app, slots>>
  /\ UNCHANGED <<vault, booted, active, hosted, last, reloads>>

\* MtcBackend::binding, the entry a connection is served from.
Entry(i) == IF Bound(i.connection) /\ Binding(i.connection) \in DOMAIN app.backend
            THEN Some(app.backend[Binding(i.connection)]) ELSE None

\* backend_for, ProtocolView::of and agent_telemetry, of one instance.
Viewed(i) ==
  IF /\ i.adapter = MTConnect /\ Bound(i.connection)
     /\ i.connection.agent[1] \in app.agents /\ i.id \in DOMAIN slots
  THEN Some(Binding(i.connection)) ELSE None
Telemetry(i) ==
  IF i.adapter = MTConnect /\ Bound(i.connection) /\ i.connection.agent[1] \in app.agents
  THEN i.connection.agent ELSE None

\* run: an id that is no token ends it, an unknown adapter is passed over.
Host ==
  /\ phase = "hosting"
  /\ LET known == Picked(app.instances, {i \in Range(app.instances) : i.adapter \in Hostable}) IN
     IF \A n \in DOMAIN app.instances : app.instances[n].id \in Legal
     THEN /\ hosted' = [n \in DOMAIN known |->
                          [id |-> known[n].id, endpoint |-> known[n].connection.endpoint,
                           view |-> Viewed(known[n]), telemetry |-> Telemetry(known[n]),
                           entry |-> Entry(known[n])]]
          /\ phase' = "running"
     ELSE phase' = "failed" /\ UNCHANGED hosted
  /\ UNCHANGED <<vault, booted, active, app, slots, last, reloads>>

\* SignalRegistry::apply: all that differs is staged, then stored in order.
Staged(doc, budgets) ==
  LET all == CompileWith(doc, budgets) IN
  Picked(all, {c \in Range(all) : /\ c.id \in DOMAIN slots
                                 /\ slots[c.id].generation # Generation(c.signals, c.selection)})

\* Only what is there is stored again.
Stored(next) == [id \in DOMAIN slots |-> IF id \in DOMAIN next THEN next[id] ELSE slots[id]]

\* Mutation: the reload compiles against the validator's budgets.
X_Applied(doc) ==
  LET next == Registry(Staged(doc, NoBudgets)) IN
  [slots |-> Stored(next), changed |-> DOMAIN next]

Applied(doc) ==
  LET next == Registry(Staged(doc, Room)) IN
  [slots |-> Stored(next), changed |-> DOMAIN next]

\* A candidate is offered: the validator's verdict, then the listener.
Offer ==
  /\ phase = "running" /\ reloads < MaxReloads
  /\ reloads' = reloads + 1
  /\ \E doc \in Documents :
       LET verdict == Classify(doc, Some(active)) IN
       IF verdict = "ACCEPT"
       THEN /\ active' = doc
            /\ slots' = Applied(doc).slots
            /\ last' = [verdict |-> verdict, changed |-> Applied(doc).changed, before |-> slots]
       ELSE /\ last' = [verdict |-> verdict, changed |-> {}, before |-> slots]
            /\ UNCHANGED <<active, slots>>
  /\ UNCHANGED <<phase, vault, booted, app, hosted>>

Next == Load \/ Build \/ Host \/ Offer
Spec == Init /\ [][Next]_vars

---------------------------------------------------------------------------
(* Properties.                                                             *)

UniqueIds(doc) == IsInjective(Ids(doc))

\* What the validator does not see: an empty list of instances, ids that are
\* no tokens, and what the vault holds.
BeyondTheValidator ==
  \/ active.instances = << >>
  \/ Range(Ids(active)) \ Legal # {}
  \/ \E n \in DOMAIN AgentsOf(active) :
       ~(CredentialsResolve(AgentsOf(active)[n], vault) /\ ClientBuilds(AgentsOf(active)[n], vault))

\* A document the validator accepts starts, but for what it cannot see, and
\* every instance of a known adapter is hosted: its connection finds its own
\* entry in the backend, its view, telemetry and slot are its own, and it
\* has an endpoint (main.rs's validator, App::new, run, MtcBackend).
AcceptedIsHosted ==
  /\ phase = "failed" => BeyondTheValidator
  /\ phase = "running" /\ UniqueIds(booted) =>
       \A n \in DOMAIN booted.instances :
         LET i == booted.instances[n] IN
         i.adapter \in Hostable =>
           \E k \in DOMAIN hosted :
             LET h == hosted[k] IN
             /\ h.id = i.id
             /\ i.adapter = MTConnect =>
                  /\ h.entry # None /\ h.entry[1].id = i.id
                  /\ <<h.entry[1].agent, h.entry[1].uuid>> = Binding(i.connection)
                  /\ h.view = Some(Binding(i.connection))
                  /\ h.telemetry = i.connection.agent
                  /\ h.endpoint # None

Alike(one, other) ==
  \A n \in DOMAIN one.instances : one.instances[n].adapter = other.instances[n].adapter

\* After any reloads the slots are those a restart with the document in
\* force would make, if the instances' adapters are still those they were
\* started with (SignalRegistry::apply against SignalRegistry::new).
ReloadIsRestart ==
  phase = "running" /\ UniqueIds(active) /\ Alike(active, booted) =>
    slots = Registry(CompileWith(active, Room))

Content(slot) == <<slot.signals, slot.selection>>

\* A reload reports exactly the instances whose signal set in the new
\* document is not the one served before, so that no change hides in an equal
\* generation; a refused candidate changes nothing (generation_of, apply,
\* classify).
ChangedIsReported ==
  /\ last.verdict = "ACCEPT" /\ UniqueIds(active) =>
       LET wanted == Registry(CompileWith(active, Room)) IN
       last.changed = {id \in DOMAIN slots \cap DOMAIN wanted :
                         Content(wanted[id]) # Content(last.before[id])}
  /\ last.verdict \notin {"none", "ACCEPT"} => slots = last.before
=============================================================================
