SPECIFICATION FairSpec
CONSTANTS
  None = None
  n1 = n1
  r1 = r1
  r2 = r2
  v1 = v1
  c1 = c1
  m1 = m1
  d1 = d1
  mds1 = mds1
  Network = {n1}
  Router = {r1, r2}
  Vm = {v1}
  Object = {n1, r1, r2, v1}
  NicNetwork <- OneNic
  Mac <- OneMac
  Cidr <- OneCidr
  Attachment <- OneRouter
  MdsSwitch <- OneService
  RouteSpec <- Routes
  FirstRoutes <- GivenRoutes
  World <- Neighbours
  Budget <- WiringBudget
INVARIANTS WiringInv UniqueRows PortsAreCovered
PROPERTIES ManagedRows NetworksAndVmsGo RouterDeletion PortsConnected RoutersAttached RoutesFollow
CHECK_DEADLOCK FALSE
