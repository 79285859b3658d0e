SPECIFICATION FairSpec
CONSTANTS
  v1 = v1
  v2 = v2
  n1 = n1
  n2 = n2
  n3 = n3
  None = None
  Label = Label
  Vm = {v1, v2}
  Node = {n1, n2}
  AntiAffinity <- BothInGroup
  Pinned <- NoPins
  Cordoned = {}
  Prepared = {v1, v2}
  Budget <- BypassBudget
PROPERTIES BypassIsTemporary
