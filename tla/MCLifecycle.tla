---------------------------- MODULE MCLifecycle ----------------------------
(* Model-checking instance of Lifecycle: tasks are joined in a fixed order, *)
(* and the handlers are interchangeable.                                    *)
EXTENDS Lifecycle, TLC, SequencesExt

JoinDevices == SetToSeq(Devices)
JoinAgents  == SetToSeq(Agents)
Handlers    == Permutations(Callers)
=============================================================================
