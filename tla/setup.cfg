\* Every document with up to two reloads; every probe of up to four components under
\* every selection; every request in the midst of up to three changes.
SPECIFICATION SpecSetup
CONSTANTS
  Simulators = {"sim"}
  Ours = {"mill"}
  Configs = {"c1", "c2"}
  Models = {"m1", "m2"}
  Unprobed = "none"
  Explicit <- SmallExplicit
  Discovered <- SmallDerived
  Items <- SmallItems
  Requests <- SmallRequests
  Responses <- SmallResponses
  MaxCommands = 1
  MaxChanges = 3
  Documents <- SmallDocuments
  Vaults <- SmallVaults
  Room <- SmallRoom
  Legal = {"i", "j"}
  MaxReloads = 2
  Sanitize <- SanitizeToken
  Width <- PartWidth
INVARIANTS
  AcceptedIsHosted
  ReloadIsRestart
  ServedSound
  BrowseFaithful
  ReadAnswersEach
CHECK_DEADLOCK FALSE
