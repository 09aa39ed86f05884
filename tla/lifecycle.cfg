SPECIFICATION FairSpec
CONSTANTS
  Devices = {d1}
  Agents = {acq, ticker}
  Callers = {c1, c2}
  NoOne = NoOne
  Verbs = {"pause", "resume", "reconnect", "repoll"}
  ControlDepth = 1
  DeviceBudget = 1
  AgentBudget = 1
  FlushBudget = 0
  DeviceOrder <- JoinDevices
  AgentOrder <- JoinAgents
INVARIANTS HeldOnce AlarmTellsOutage DrainedBeforeAgents StopsInTime
PROPERTIES ReconnectMeansNew NothingHangs
CHECK_DEADLOCK FALSE
