SPECIFICATION FairSpec
CONSTANTS
  Clients = {1, 2}
  Twins = {}
  Silent = {}
  Unsteady = {1}
INVARIANTS TypeOK OneOwner NoDeadModuleUsed RegistryInv
PROPERTIES LiveModulesStay DescribedAreRegistered
CHECK_DEADLOCK FALSE
