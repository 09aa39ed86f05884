------------------------------- MODULE MCSetup -------------------------------
(***************************************************************************)
(* The component as it is set up and asked: configuration documents from   *)
(* the validator to the hosted instances and through reloads (Startup),    *)
(* the signals a document and a probe make together and the pages they are *)
(* browsed in (MCSelection), and the commands that read them (Commands).   *)
(* The three share no variable, so that an interleaving of two is no more  *)
(* than both: each moves while the others rest where they begin.           *)
(***************************************************************************)
EXTENDS MCCommands, Setup

VARIABLES doc, conf, tree, set   \* MCSelection

selection == <<doc, conf, tree, set>>

Some(x) == <<x>>

(***************************************************************************)
(* Startup's documents.                                                    *)
(***************************************************************************)
AnAgent(id, url) ==
  [id |-> id, url |-> url, authority |-> "host", wellFormed |-> TRUE, kebab |-> TRUE,
   limits |-> TRUE, auth |-> None, tls |-> FALSE, ca |-> None, cert |-> None, key |-> None]

a1 == AnAgent("a1", "u1")
a2 == AnAgent("a2", "u2")

\* One agent with everything a vault may refuse, two agents, and lists that
\* must be refused.
AgentLists ==
  {None, Some(<< >>), Some(<<a1>>), Some(<<a1, a2>>),
   Some(<<[a1 EXCEPT !.tls = TRUE, !.ca = Some("ca"), !.auth = Some("password")]>>),
   Some(<<[a1 EXCEPT !.tls = TRUE]>>),
   Some(<<a1, [a2 EXCEPT !.url = "u1"]>>), Some(<<a1, [a2 EXCEPT !.id = "a1"]>>),
   Some(<<[a1 EXCEPT !.cert = Some("ca")]>>), Some(<<[a1 EXCEPT !.limits = FALSE]>>)}

ASignal(id, binding) ==
  [id |-> <<id>>, item |-> "x", channel |-> None, binding |-> binding, publish |-> None]
SignalLists ==
  {<< >>, <<ASignal("s", None)>>, <<ASignal("s", Some(<< >>))>>,
   <<ASignal("s", Some(<<"c">>)), ASignal("t", None)>>}
BadSignals == {<<ASignal("s", Some(<<"x">>))>>, <<ASignal("s", None), ASignal("s", None)>>}

AnyItem == [cat |-> None, ids |-> None, path |-> None]
All     == [mode |-> "all", include |-> << >>, exclude |-> << >>, max |-> 9,
            autoBind |-> TRUE, publish |-> << >>, budget |-> [tokens |-> 0, bytes |-> 0]]
SelectionsOf ==
  {None, Some(All), Some([All EXCEPT !.exclude = <<[AnyItem EXCEPT !.cat = Some("EVENT")]>>]),
   Some([All EXCEPT !.mode = "include", !.include = <<[AnyItem EXCEPT !.path = Some(<<"**">>)]>>])}

NoConnection == [agent |-> None, uuid |-> None, endpoint |-> Some(<<"sim">>)]
To(agent, uuid) == [agent |-> Some(agent), uuid |-> Some(uuid), endpoint |-> None]
Hosted(id, adapter, connection, sigs, sel) ==
  [id |-> id, wellFormed |-> TRUE, adapter |-> adapter, connection |-> connection,
   signals |-> sigs, selection |-> sel]

\* An instance with every signal list; two of every binding; and simulators,
\* unknown adapters and malformed entries beside one.
First == {Hosted("i", "mtconnect", To("a1", "m"), sigs, sel) :
            sigs \in SignalLists \cup BadSignals, sel \in SelectionsOf}
Other == {Hosted(id, "mtconnect", To(agent, uuid), << >>, None) :
            id \in {"i", "j"}, agent \in {"a1", "a2"}, uuid \in {"m", "n"}}
         \cup {Hosted("j", "sim", NoConnection, << >>, None),
               Hosted("j", "sim", NoConnection, << >>, Some(All)),
               Hosted("j", "plc", NoConnection, << >>, None),
               Hosted("j", "mtconnect", To("a1", "blank"), << >>, None),
               [Hosted("j", "sim", NoConnection, << >>, None) EXCEPT !.wellFormed = FALSE],
               Hosted("_", "sim", NoConnection, << >>, None)}
Plain1 == Hosted("i", "mtconnect", To("a1", "m"), << >>, Some(All))

Unset    == [batch |-> "unset", mode |-> "unset"]
Defaults == {Unset, [batch |-> "500", mode |-> "interval"],
             [batch |-> "tooLarge", mode |-> "other"]}

Document(agents, defaults, instances) ==
  [agents |-> agents, defaults |-> defaults, instances |-> instances]

SmallDocuments ==
  {Document(Some(<<a1>>), defaults, <<i>>) : defaults \in Defaults, i \in First}
  \cup {Document(Some(<<a1, a2>>), Unset, <<Plain1, i>>) : i \in Other}
  \cup {Document(agents, Unset, instances) :
          agents \in AgentLists, instances \in {<< >>, <<Plain1>>,
            <<Hosted("j", "sim", NoConnection, << >>, None)>>}}

\* One that holds all, three that miss something.
NoSecrets   == [service |-> FALSE, secrets |-> [ca |-> "missing", password |-> "missing"]]
Vault(ca, password) == [service |-> TRUE, secrets |-> [ca |-> ca, password |-> password]]
SmallVaults ==
  {Vault("good", "good"), Vault("bad", "good"), Vault("good", "missing"), NoSecrets}

SmallRoom == [id \in {"i", "j", "_"} |->
                IF id = "_" THEN [tokens |-> 0, bytes |-> 0] ELSE [tokens |-> 2, bytes |-> 200]]

(***************************************************************************)
(* Selection's tokens: "A" and "a" sanitize to one token.                  *)
(***************************************************************************)
SanitizeToken == [x \in {"a", "A", "a2", "c", "d", "L", "R"} |->
                    CASE x \in {"a", "A"} -> <<"a">>
                      [] x = "a2" -> <<"a", "2">>
                      [] OTHER -> <<x>>]
PartWidth == [x \in {"a", "c", "d", "L", "R", "X", "2", "3"} |->
                IF x \in {"L", "R"} THEN 2 ELSE 1]

S == INSTANCE MCSelection

---------------------------------------------------------------------------
\* Nothing is loaded, nothing is configured, nothing is asked.
Bare == S!Elem("Device", << >>, << >>)
StartupRests   == phase = "loading" /\ vault = NoSecrets
SelectionRests == conf = S!Bare /\ doc = Bare
CommandsRest   == spent.commands + spent.changes = 0 /\ config = [i \in Ours |-> "c1"]

InitSetup ==
  /\ Init /\ T!Init /\ S!Init
  /\ \/ StartupRests /\ SelectionRests
     \/ StartupRests /\ CommandsRest
     \/ SelectionRests /\ CommandsRest

NextSetup ==
  \/ StartupRests /\ SelectionRests /\ Next /\ UNCHANGED <<startup, selection>>
  \/ SelectionRests /\ CommandsRest /\ T!Next /\ UNCHANGED <<vars, selection>>
  \/ StartupRests /\ CommandsRest /\ S!Next /\ UNCHANGED <<vars, startup>>

SpecSetup == InitSetup /\ [][NextSetup]_<<vars, startup, selection>>

\* The served set is what configuration and probe mean (MCSelection).
ServedSound == S!ServedSound

\* What sb/browse serves is the tree, paged or expanded (MCSelection).
BrowseFaithful == S!BrowseFaithful
=============================================================================
