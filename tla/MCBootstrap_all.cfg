\* Two servers; two failures, restarts or acts of the administrator.
CONSTANTS
  s1 = s1
  s2 = s2
  Servers = {s1, s2}
  Names <- AllNames
  Files <- StageFiles
  Ensured <- EnsuredNames
  KindOf <- Kind
  Rank <- Alphabet
  CreateOnlyFiles <- MadeWorkspaces
  MaxTroubles = 2
SPECIFICATION FairSpec
INVARIANTS
  DoneMeansInstalled
  NothingTooEarly
PROPERTIES
  CreateOnlyKept
  BootstrapEnds
CHECK_DEADLOCK FALSE
