--------------------------- MODULE MCAcquisition ---------------------------
(* Acquisition on small instances. *)
EXTENDS Acquisition

Setup(prefer, limit, buffer, bounds) ==
  [prefer |-> prefer, limit |-> limit, buffer |-> buffer,
   seq |-> bounds[1], inst |-> bounds[2], faults |-> bounds[3], closes |-> bounds[4]]

(* A stream that breaks and an agent that restarts; a buffer of one, a recovery  *)
(* that fails and a session that is closed and comes back; a recovery from a    *)
(* restart that fails half-way, and one more fault on the way out of it.        *)
Streams == {Setup(TRUE, 2, 2, <<3, 2, 1, 0>>), Setup(TRUE, 1, 1, <<4, 1, 1, 1>>),
            Setup(TRUE, 1, 2, <<2, 2, 2, 1>>)}

(* A restart whose recovery may fail; a window of one that is overrun, a failure *)
(* and a re-attachment.  One device.                                             *)
Recoveries == {Setup(TRUE, 1, 1, <<3, 2, 1, 0>>), Setup(TRUE, 2, 1, <<4, 1, 1, 1>>)}

(* Two devices, polled: attached again, after a failure, or across a restart; and *)
(* streamed: attached again, or after a failure.                                 *)
Attachments == {Setup(FALSE, 1, 2, <<3, 1, 0, 1>>), Setup(FALSE, 1, 2, <<3, 1, 1, 0>>),
                Setup(FALSE, 1, 2, <<2, 2, 0, 0>>), Setup(TRUE, 1, 1, <<3, 1, 0, 1>>),
                Setup(TRUE, 1, 2, <<2, 1, 1, 0>>)}

Settling == Recoveries \cup Attachments

(* In a recovery the other devices are quiet and nobody connects to them.         *)
Quiet(d) == setup \in Recoveries /\ d # CHOOSE e \in Devices : TRUE

SettleNext ==
  Next /\ \A d \in Devices : Quiet(d) => ~Observe(d) /\ sess'[d] = sess[d]

SettleSpec ==
  /\ Init /\ [][SettleNext]_vars /\ TaskFairness
  /\ \A d \in Devices :
       /\ WF_vars(~Quiet(d) /\ Connect(d)) /\ WF_vars(~Quiet(d) /\ Attach(d))
       /\ WF_vars(~Quiet(d) /\ Drain(d)) /\ WF_vars(~Quiet(d) /\ LinkLost(d))

(* One device that attaches again while it is polled, or anew while the first   *)
(* cycle of a streaming adapter ends.                                            *)
Reattached == {Setup(FALSE, 1, 2, <<2, 1, 0, 1>>)}
MidCycle   == {Setup(TRUE, 1, 2, <<2, 1, 0, 0>>)}
=============================================================================
