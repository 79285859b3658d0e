SPECIFICATION FairSpec
CONSTANTS
  None = None
  v1 = v1
  v2 = v2
  v3 = v3
  v4 = v4
  i1 = i1
  Volume = {v1, v2, v3, v4}
  Image = {i1}
  Object = {v1, v2, v3, v4, i1}
  Template <- FromTemplate
  Malformed = {v4}
  Capacity = 1
  World <- Worlds
  Budget <- StorageBudget
INVARIANTS StorageInv
PROPERTIES ManagedVolumes TemplatesGuarded VolumesCreated VolumesAndImagesGo
CHECK_DEADLOCK FALSE
