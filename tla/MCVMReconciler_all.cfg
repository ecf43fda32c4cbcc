\* Two servers, failures and restarts at any time; the tenant's last change comes
\* after at most three versions of the object.
CONSTANTS
  s1 = s1
  s2 = s2
  Servers = {s1, s2}
  MaxTenantVersion = 4
SPECIFICATION FairSpec
INVARIANTS
  PhaseMeansVMI
  NoLostWakeup
PROPERTIES
  PhasesInOrder
  EventuallyRunning
