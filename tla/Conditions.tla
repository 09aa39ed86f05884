------------------------------ MODULE Conditions ------------------------------
(***************************************************************************)
(* The condition ledger of src/device.rs (ConditionLedger): the concurrent *)
(* activations of one condition data item, folded from its observations,   *)
(* and the quality a bound signal takes from it.                           *)
(*                                                                         *)
(* An activation is identified by conditionId, else nativeCode, else by    *)
(* the empty key.  An observation is [seq, key, state]; the map keyed by   *)
(* identity is a function to what is asserted under each, Clear where the  *)
(* map has no entry.                                                       *)
(***************************************************************************)
EXTENDS Integers, Sequences, FiniteSets

CONSTANTS
  Idents,  \* the identities observations may carry
  NoIdent  \* the empty key of an observation that carries none

ASSUME NoIdentIsOther == NoIdent \notin Idents

Keys       == Idents \cup {NoIdent}
Asserted   == {"WARNING", "FAULT"}
CondStates == Asserted \cup {"NORMAL", "UNAVAILABLE"}
Clear      == "CLEAR"

Condition == [seq : Nat, key : Keys, state : CondStates]
Ledger    == [active : [Keys -> Asserted \cup {Clear}], unavailable : BOOLEAN]
Unknown   == [active |-> [k \in Keys |-> Clear], unavailable |-> FALSE]

(* CondState::severity. *)
severity(state) == CASE state = "FAULT"       -> 3
                     [] state = "UNAVAILABLE" -> 2
                     [] state = "WARNING"     -> 1
                     [] OTHER                 -> 0

(* Mutant: any Normal sweeps the data item. *)
ConcernsAnyNormal(obs, k) == \/ obs.key = k
                             \/ obs.state \in {"NORMAL", "UNAVAILABLE"}

(* Mutant: a Normal ends the activation of its own key and no other. *)
ConcernsItsOwn(obs, k) == obs.key = k \/ obs.state = "UNAVAILABLE"

(***************************************************************************)
(* What one observation says of the activation k: an assertion says it of  *)
(* its own identity only, and so does a Normal that carries one; a Normal  *)
(* without identity, and UNAVAILABLE, sweep every activation.              *)
(***************************************************************************)
Concerns(obs, k) == \/ obs.key = k
                    \/ obs.state = "NORMAL" /\ obs.key = NoIdent
                    \/ obs.state = "UNAVAILABLE"

Says(obs) == IF obs.state \in Asserted THEN obs.state ELSE Clear

(* ConditionLedger::apply. *)
apply(ledger, obs) ==
  [active      |-> [k \in Keys |-> IF Concerns(obs, k) THEN Says(obs) ELSE ledger.active[k]],
   unavailable |-> obs.state = "UNAVAILABLE"]

(***************************************************************************)
(* The ledger once the first n observations of a batch are folded in: each *)
(* activation stands as the last of them that concerns it left it.  That   *)
(* this is apply, repeated, is theorem FoldIsApply.                        *)
(***************************************************************************)
Mentions(batch, n, k) == {i \in 1..n : Concerns(batch[i], k)}
IsLast(i, S) == i \in S /\ \A j \in S : j <= i

Folded(ledger, batch, n) ==
  [active |-> [k \in Keys |->
                 IF Mentions(batch, n, k) = {} THEN ledger.active[k]
                 ELSE Says(batch[CHOOSE i \in Mentions(batch, n, k) :
                                   IsLast(i, Mentions(batch, n, k))])],
   unavailable |-> IF n = 0 THEN ledger.unavailable
                   ELSE batch[n].state = "UNAVAILABLE"]

Active(ledger) == {k \in Keys : ledger.active[k] # Clear}

(* ConditionLedger::aggregate: the worst activation, or the data item's own say. *)
aggregate(ledger) ==
  CASE \E k \in Keys : ledger.active[k] = "FAULT"   -> "FAULT"
    [] (\A k \in Keys : ledger.active[k] # "FAULT")
         /\ (\E k \in Keys : ledger.active[k] = "WARNING") -> "WARNING"
    [] Active(ledger) = {} /\ ledger.unavailable    -> "UNAVAILABLE"
    [] OTHER                                        -> "NORMAL"

(* condition_quality. *)
condition_quality(state) == CASE state = "NORMAL"  -> "GOOD"
                              [] state = "WARNING" -> "UNCERTAIN"
                              [] OTHER             -> "BAD"

(* severity_of, and the rule that a bound condition can only make a reading worse. *)
severity_of(q) == CASE q = "GOOD" -> 0 [] q = "UNCERTAIN" -> 1 [] OTHER -> 2
Worse(q, r)    == IF severity_of(r) > severity_of(q) THEN r ELSE q
================================================================================
