SPECIFICATION Spec
CONSTANTS
  Idents = {a, b}
  NoIdent = NoIdent
  Setups <- Orderly
  MaxPart = 2
SYMMETRY Alike
INVARIANTS NoAlarmMissed ExactWhileStreaming
PROPERTIES ShowsWhatWasSaid FaultDegradesWhatFollows
CHECK_DEADLOCK FALSE
