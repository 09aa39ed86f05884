----------------------------- MODULE MCCommands -----------------------------
(***************************************************************************)
(* Commands on one MTConnect device and one simulator.                     *)
(***************************************************************************)
EXTENDS Commands

Signal(id, name, item) == [id |-> id, name |-> name, item |-> item]

\* The reload moves a name to another id and an id to another item; the
\* drift takes an item away and brings another.
SmallExplicit ==
  [c1 |-> <<Signal("a", "A", "x")>>, c2 |-> <<Signal("b", "A", "x"), Signal("a", "-", "y")>>]
SmallDerived == [m1 |-> << >>, m2 |-> <<Signal("d", "D", "x")>>]
SmallItems   == [m1 |-> {"x"}, m2 |-> {"x", "y"}]

Ref(by, of) == [by |-> by, of |-> of]
RefLists == {<<Ref("id", "a"), Ref("name", "A")>>, <<Ref("name", "D"), Ref("id", "b")>>,
             <<Ref("neither", "-"), Ref("id", "d")>>, <<Ref("name", "nobody")>>,
             <<Ref("name", "Line"), Ref("id", "temperature")>>}
Request(verb, addressed) ==
  [verb |-> verb, addressed |-> addressed, refs |-> None, keys |-> {}, ref |-> ""]

Verbs == {"sb/status", "sb/signals", "sb/write", "sb/read", "sb/browse", "sb/pause", "sb/resume",
          "reconnect", "repoll"}
Addresses == {"mill", "sim"}
SmallRequests ==
  {Request(verb, addressed) : verb \in Verbs, addressed \in Addresses}
  \cup {Request("sb/read", "unaddressed"), Request("repoll", "nobody")}
  \cup {[Request("sb/read", addressed) EXCEPT !.refs = <<refs>>] :
          addressed \in Addresses, refs \in RefLists}
  \cup {[Request("sb/browse", addressed) EXCEPT !.keys = keys, !.ref = ref] :
          addressed \in Addresses, ref \in {"", "root", "pressure", "nothing"},
          keys \in {{"ref"}, {"depth"}, {"ref", "cursor"}}}

Response(s, body) == [status |-> s, body |-> body]
SmallResponses ==
  {Response(0, how) : how \in {"timeout", "connect", "reset"}}
  \cup {Response(s, "streams") : s \in {200, 401, 404, 503}}
  \cup {Response(200, body) : body \in DOMAIN Refused}
=============================================================================
