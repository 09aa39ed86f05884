\* Two devices of an agent that keeps delivering.
CONSTANTS
  Devices = {d1, d2}
  d1 = d1
  d2 = d2
  Acq = acq
  StreakLimit = 2
  MaxRevisions = 1
  MaxChanges = 0
  MaxFaults = 0
SPECIFICATION FairSpec
CHECK_DEADLOCK FALSE
PROPERTY DigestPublished
