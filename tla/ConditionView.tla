---------------------------- MODULE ConditionView ----------------------------
(***************************************************************************)
(* What a session promises of one condition: it shows, of each activation, *)
(* something the agent did say, and the flow of observations never takes   *)
(* it back behind what the flow already showed.  A served read may show an *)
(* activation ahead of the flow.  Nothing is promised about how far behind *)
(* the agent a session is.                                                 *)
(***************************************************************************)
EXTENDS Integers, Sequences

CONSTANTS
  Keys,    \* the identities of the activations
  States   \* what an activation may be

VARIABLES
  said,    \* what the agent said of each activation, by sequence number
  on,      \* a session is up
  behind,  \* [key -> the last of said the flow has shown]
  shows    \* [key -> what the session shows]

vars == <<said, on, behind, shows>>

Init ==
  /\ said \in Seq([Keys -> States]) /\ said # <<>>
  /\ on = FALSE
  /\ behind = [k \in Keys |-> 0]
  /\ shows \in [Keys -> States]

Say == /\ \E what \in [Keys -> States] : said' = Append(said, what)
       /\ UNCHANGED <<on, behind, shows>>

(* A new session knows nothing. *)
Start == /\ ~on /\ on' = TRUE
         /\ behind' = [k \in Keys |-> 0]
         /\ shows' \in [Keys -> States]
         /\ UNCHANGED said

Stop == on /\ on' = FALSE /\ UNCHANGED <<said, behind, shows>>

(* The flow: each activation stands, or moves on to something said later. *)
Flow ==
  /\ on
  /\ behind' \in [Keys -> 0..Len(said)]
  /\ \A k \in Keys : \/ behind'[k] = behind[k] /\ shows'[k] = shows[k]
                     \/ behind'[k] >= behind[k] /\ behind'[k] > 0
                        /\ shows'[k] = said[behind'[k]][k]
  /\ DOMAIN shows' = Keys
  /\ UNCHANGED <<said, on>>

(* A served read: what the agent said, at or after what the flow has shown. *)
Serve ==
  /\ on
  /\ DOMAIN shows' = Keys
  /\ \A k \in Keys : \/ shows'[k] = shows[k]
                     \/ \E n \in 1..Len(said) : n >= behind[k] /\ shows'[k] = said[n][k]
  /\ UNCHANGED <<said, on, behind>>

Next == Say \/ Start \/ Stop \/ Flow \/ Serve

Spec == Init /\ [][Next]_vars
================================================================================
