---------------------------- MODULE MCDeviceTask ----------------------------
(* Model-checking instance of DeviceTask.  The values reach just inside    *)
(* and just across a deadband of 2, and a drift of two steps crosses it.   *)
EXTENDS DeviceTask, TLC

Says(v, quality) == [val |-> v, q |-> quality]

AllContents == {Says(0, "GOOD"), Says(1, "GOOD"), Says(2, "GOOD"),
                Says(1, "UNCERTAIN"), Says(NoValue, "BAD")}

Zero == Says(0, "GOOD")

\* What the passive ladder tells apart.
FewContents == {Says(0, "GOOD"), Says(1, "UNCERTAIN"), Says(NoValue, "BAD")}

Publish(w, l, d) == [window |-> w, latest |-> l, deadband |-> d]

Immediate  == Publish(FALSE, FALSE, FALSE)
Batched    == Publish(TRUE, FALSE, FALSE)
Interval   == Publish(TRUE, TRUE, TRUE)
Deadbanded == Publish(FALSE, FALSE, TRUE)

AllPolicies    == {Immediate, Batched, Interval, Deadbanded}
WindowPolicies == {Immediate, Batched}
AnchorPolicies == {Immediate, Deadbanded}

\* Nothing tells one signal from another but the policy it is given.
Interchangeable == Permutations(Signals)
=============================================================================
