\* One signal under every pair of policies, reloaded once, across one lapse of the agent.
CONSTANTS
  Signals = {s1}
  s1 = s1
  NoValue = NoValue
  Boot <- Zero
  Contents <- AllContents
  Policies <- AllPolicies
  Deadband = 2
  MaxSeq = 2
  MaxBuffered = 2
  MaxGen = 1
  MaxLapses = 1
SPECIFICATION Spec
CHECK_DEADLOCK FALSE
INVARIANTS Accounted FlowFaithful ShownIsHeld
PROPERTIES PausedGate LossShowsBad
