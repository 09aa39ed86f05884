\* Every script of up to three parts cut into chunks anywhere; every document of the
\* bounded space in every style of writing; recorders and emitters under four budgets.
SPECIFICATION SpecInbound
CONSTANTS
  Tokens <- Words
  Scripts <- ShortScripts
  Stream <- Streams
  StartOf <- Starts
  LengthOf <- Lines
  BadLines = {"bad"}
  MaxPart = 5
  MaxPartHeader = 3
  MaxChunk = 9
  MaxUndecodable = 3
  Window = 1
  Devices = {"d1"}
  Agent = "agent"
  VerbOrder <- SmallVerbs
  Budgets <- SmallBudgets
CHECK_DEADLOCK FALSE
INVARIANTS
  PartsAsSent
  DroppedForCause
  DocumentsAsWritten
  ReportsAsSent
  RowsAddUp
PROPERTY DriftSeen
