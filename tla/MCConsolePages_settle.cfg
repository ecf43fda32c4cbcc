\* One virtual machine, two clusters; requests that fail, answers that are lost.
SPECIFICATION Spec
CONSTANTS
  VMs = {a}
  Clusters = {c, d}
  Nobody = Nobody
  MaxCalls = 2
  FirstVersion <- OneByOne
  FirstRev = 3
  MaxRev = 5
PROPERTIES
  PagesSettle
  WritesKeepPromise
