\* Two devices of an agent that restarts once, changes its ways once and fails once.
CONSTANTS
  Devices = {d1, d2}
  d1 = d1
  d2 = d2
  Acq = acq
  StreakLimit = 2
  MaxRevisions = 2
  MaxChanges = 1
  MaxFaults = 1
SPECIFICATION FairSpec
CHECK_DEADLOCK FALSE
PROPERTY InstancesFollow
