\* A login of each of two users, one that ends in a code; two requests and one exchange at a time.
CONSTANTS
  l1 = l1
  l2 = l2
  alice = alice
  bob = bob
  wsA = wsA
  wsB = wsB
  Logins = {l1, l2}
  CodeLogins = {l1}
  Users = {alice, bob}
  UserOf <- UserOfLogin
  Workspaces = {wsA, wsB}
  WorkspaceOf <- NameOf
  Requests = {r1, r2}
  Exchanges = {x1}
  TTL = 0
  MaxTime = 1
  UrlBeforeReady = TRUE
SPECIFICATION PlatformSpec
SYMMETRY SlotSymmetry
INVARIANTS
  TokensOpenWorkspace
PROPERTIES
  ImplementsLoginFlow
CHECK_DEADLOCK FALSE
