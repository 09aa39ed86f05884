\* A device rebuilt once, one reload, a session closed once.
CONSTANTS
  Sanitize <- SanitizeToken
  Width <- PartWidth
  Order <- TwoInstances
  Trees <- Descriptions
  Signals <- Configurations
  Docs <- TwoDocs
  Startup <- Start
  Candidates <- SomeCandidates
  PageMax = 2
  MaxRebuilds = 1
  MaxReloads = 1
  MaxCloses = 1
SPECIFICATION FairSpec
CHECK_DEADLOCK FALSE
INVARIANTS
  ReloadWhole
  WalkIsOneView
PROPERTIES
  Settles
  ChangeAnnounced
