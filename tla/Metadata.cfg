SPECIFICATION FairSpec
CONSTANTS
  None = None
  v1 = v1
  v2 = v2
  n1 = n1
  n2 = n2
  Vm = {v1, v2}
  NetworkOf <- TwoNetworks
  a1 = a1
  Address = {a1, a2}
  Configs <- Addresses
  Channel = {c1, c2, c3}
  Userdata = {v1}
  Buffer = 1
  Budget <- ServiceBudget
INVARIANTS MetadataInv Accounted OwnMetadata
PROPERTIES RequestsEnd ServiceReturns GuestsAnswered
CHECK_DEADLOCK FALSE
