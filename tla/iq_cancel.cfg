\* The acquisition task and a device task whose failed probe broadcasts.
CONSTANTS
  Senders = {acq, dev}
  Keys = {x, y, c}
  LossIntolerant = {c}
  acq = acq
  dev = dev
  Acquirer = acq
  x = x
  y = y
  c = c
  DataDepth = 2
  CriticalDepth = 2
  MaxSends = 4
SPECIFICATION MCSpec
CHECK_DEADLOCK FALSE
INVARIANT CancelledIsCounted
