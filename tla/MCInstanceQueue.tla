-------------------------- MODULE MCInstanceQueue --------------------------
(* InstanceQueue on a small instance: every mixture of three sends, and    *)
(* longer runs of loss-intolerant ones, which are those that block.        *)
EXTENDS InstanceQueue

MaxMixed == 3

Few == sent["data"] = 0 \/ sent["data"] + sent["critical"] <= MaxMixed

MCNext == Next /\ Few'

MCSpec ==
  /\ Init /\ [][MCNext]_vars
  /\ \A s \in Senders : WF_vars(SenderStep(s))
  /\ WF_vars(NotifyWaiters)
=============================================================================
