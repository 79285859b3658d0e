SPECIFICATION FairSpec
CONSTANTS
  None = None
  v1 = v1
  v2 = v2
  ovn = ovn
  evpn = evpn
  br = br
  m1 = m1
  m2 = m2
  Object = {v1, v2}
  Network = {ovn, evpn}
  EvpnBridge <- Bridges
  NicList <- Lists
  World <- Clusters
INVARIANTS UpgradeInv EncodingsReadable
PROPERTIES NicsKept NicsFilled UpgradeCompletes
CHECK_DEADLOCK FALSE
