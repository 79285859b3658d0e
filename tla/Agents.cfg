SPECIFICATION Spec
CONSTANTS
  n1 = n1
  n2 = n2
  None = None
  Node = {n1, n2}
  Prompt = FALSE
  Budget <- SafetyBudget
SYMMETRY Hosts
INVARIANTS HostInv SingleInstance KeptWhileRunning
PROPERTIES InstanceSpec
CHECK_DEADLOCK FALSE
