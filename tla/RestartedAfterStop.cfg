SPECIFICATION FairSpec
CONSTANTS
  n1 = n1
  n2 = n2
  None = None
  Node = {n1, n2}
  Prompt = TRUE
  Budget <- StopBudget
PROPERTIES RestartedAfterStop
CHECK_DEADLOCK FALSE
