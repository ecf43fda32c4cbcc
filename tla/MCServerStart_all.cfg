\* Two servers, one failure, restart or act of the administrator.
CONSTANTS
  s1 = s1
  s2 = s2
  Servers = {s1, s2}
  self = s1
  Names <- AllNames
  Files <- StageFiles
  Ensured <- EnsuredNames
  KindOf <- Kind
  Rank <- Alphabet
  CreateOnlyFiles <- MadeWorkspaces
  MaxTroubles = 1
SPECIFICATION StartFairSpec
INVARIANTS
  NilOnlyWhenStopped
  ServesOnlyBootstrapped
PROPERTIES
  NeverHeadless
  ReasonEndsServer
CHECK_DEADLOCK FALSE
