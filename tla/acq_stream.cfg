\* Streams, ladders 1 to 3, overruns, faults and re-attachments.
CONSTANTS
  Devices = {d1}
  d1 = d1
  Setups <- Streams
SPECIFICATION Spec
CHECK_DEADLOCK FALSE
INVARIANTS
  StreamComplete
  RestartRebaselined
PROPERTY FlowKeepsFaith
