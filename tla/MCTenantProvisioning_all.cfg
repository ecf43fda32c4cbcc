\* Two tenants, two requests, under the fairness of the server alone;
\* kcp publishes the URL of a workspace before it reports Ready.
CONSTANTS
  alice = alice
  bob = bob
  wsA = wsA
  wsB = wsB
  Users <- TwoUsers
  Workspaces <- TwoWorkspaces
  WorkspaceOf <- NameOf
  Requests = {r1, r2}
  UrlBeforeReady = TRUE
SPECIFICATION FairSpec
INVARIANTS
  SuccessMeansAccess
  AnswerAddressesTenant
PROPERTIES
  AccessOnlyByOwnLogin
  ImplementsTenantAccess
  RetryingUserGetsIn
