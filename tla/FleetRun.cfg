SPECIFICATION FairSpec
CONSTANTS
  Nodes <- MCNodes
  NodeOrder <- MCNodeOrder
  ClusterOf <- MCClusterOf
  Nvidia = {"a2"}
  ManagerNode = "a1"
  AptTries = 2
  MaxFlaps = 2
  Remotes = {"r1", "r2", "r3"}
  CustomOrder <- MCCustomOrder
  Guests = {"c1", "c2", "c3", "c4"}
  Home <- MCHome
  Vms = {"v1", "v2"}
  VmHome <- MCVmHome
  Twins <- MCTwins
  VmCluster <- MCVmCluster
  VmNode <- MCVmNode
  DefaultCluster = "a"
  None = "none"
  Canaries = {"r1", "r3", "c1", "v1", "d1"}
  Windowed = {"r1", "v2"}
  NoAlloy = {"c2"}
  NoHousekeeping = {"c4"}
  Forks = 2
  Options <- MCOptions
INVARIANTS
  CanariesFirst
  CleanExitMeansClean
PROPERTIES
  RunEnds
  ManagerStillUpdated
  KeepsPromise
