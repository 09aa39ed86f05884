------------------------------ MODULE MCInbound ------------------------------
(***************************************************************************)
(* What an agent sends, from the tokens to the counters: the stream that   *)
(* is framed (Wire), the documents that are read and published             *)
(* (MCDocuments), and the statistics of both (Metrics).  The three share   *)
(* no state, so that an interleaving of two is no more than both: each     *)
(* moves while the others rest where they begin.                           *)
(***************************************************************************)
EXTENDS MCWire, Inbound

VARIABLES tree, style, said, read   \* MCDocuments

documents == <<tree, style, said, read>>

(***************************************************************************)
(* The documents' alphabet: no XML defines `&x;`, `&#32;` is a blank.      *)
(***************************************************************************)
DefinedRefs == ("&amp;" :> "&") @@ ("&#32;" :> " ")
Namespaces  == {"xmlns", "xmlns:m"}
Versions    == ("urn:1.3" :> <<<<1, 3>>>>) @@ ("urn:1.2" :> <<<<1, 2>>>>) @@ ("urn:odd" :> <<>>)
Digits      == ("0" :> 0) @@ ("1" :> 1) @@ ("2" :> 2) @@ ("3" :> 3)

D == INSTANCE MCDocuments WITH
       MaxDepth <- 8, MaxAttributes <- 5, MaxNodes <- 40,
       References <- DOMAIN DefinedRefs \cup {"&x;"}, Resolved <- DefinedRefs,
       Declarations <- Namespaces, Plumbing <- Namespaces \cup {"xsi:schemaLocation"},
       VersionIn <- Versions, MinVersion <- <<1, 3>>, Unsigned <- Digits,
       Numerals <- DOMAIN Digits \cup {"0.5"}, NumericTypes <- {"LINE"}

(***************************************************************************)
(* What is recorded and emitted: the agent's ticker under the recorders of *)
(* the acquisition and of requests, the parse family under both, and an    *)
(* instance's link, ticks and commands under its own emissions.            *)
(***************************************************************************)
Budget(acquisition, asker, commands, rounds, agentRounds, attempts) ==
  [outcomes |-> [acquisition |-> acquisition, asker |-> asker], commands |-> commands,
   rounds |-> [d1 |-> rounds, agent |-> agentRounds], attempts |-> attempts]
SmallVerbs   == <<"sb/read">>
SmallBudgets == {Budget(2, 0, 0, 0, 2, 0), Budget(0, 2, 0, 0, 1, 0),
                 Budget(1, 1, 0, 2, 0, 1), Budget(0, 0, 2, 1, 0, 3)}

---------------------------------------------------------------------------
\* Nothing has arrived, nothing is written, nothing of the budget is spent.
Beat     == <<Part(TRUE, <<"beat">>)>>
Unspent  == Budget(0, 0, 2, 1, 0, 3)
WireRests      == script = Beat /\ arrived = 0 /\ age = 0 /\ exit = "none"
DocumentsRest  == tree = D!Alone
MetricsRest    == left = Unspent

InitInbound == Init /\ D!Init /\ M!Init /\ (MetricsRest \/ WireRests)

NextInbound ==
  \/ DocumentsRest /\ MetricsRest /\ Next /\ UNCHANGED <<documents, metrics>>
  \/ WireRests /\ MetricsRest /\ D!Next /\ UNCHANGED <<vars, metrics>>
  \/ WireRests /\ DocumentsRest /\ M!Next /\ UNCHANGED <<vars, documents>>

SpecInbound == InitInbound /\ [][NextInbound]_<<vars, documents, metrics>>

\* A document is read as it was written (MCDocuments).
DocumentsAsWritten == D!DocumentsAsWritten

\* What is published of a document is what it reports (MCDocuments).
ReportsAsSent == D!ReportsAsSent

\* The digest changes with the device model and with nothing else (MCDocuments).
DriftSeen == [][D!DigestMoves]_documents
=============================================================================
