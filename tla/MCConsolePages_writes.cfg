\* Two virtual machines and two requests in flight; others change an object once.
SPECIFICATION Spec
CONSTANTS
  VMs = {a, b}
  Clusters = {}
  Nobody = Nobody
  MaxCalls = 2
  FirstVersion <- OneByOne
  FirstRev = 2
  MaxRev = 3
INVARIANTS
  BusyMeansWriting
  ShowsURL
PROPERTIES
  RowsLeaveWhenDeleted
  TypedInputKept
