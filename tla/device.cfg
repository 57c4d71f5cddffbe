SPECIFICATION Spec
CONSTANTS
  Clusters = {A, B}
  Cores = 2
  Capacity = 2
  MaxLoads = 3
  MaxExecs = 3
  MaxDisorder = 1
  MaxRaced = 2
SYMMETRY ClusterSymmetry
CONSTRAINT KernelBound
INVARIANTS
  TypeOK
  UnracedCoresAreComplete
  FaultsNeedDisorder
  StreamsAreOwn
  NothingLeaks
CHECK_DEADLOCK FALSE
