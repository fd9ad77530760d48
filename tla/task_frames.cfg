SPECIFICATION Spec
CONSTANTS
  Blocks = {b1, b2, b3, b4, b5, b6}
  None = None
  Workers <- TwoWorkers
SYMMETRY Symmetry
INVARIANTS TypeOK CacheClean NoDangling ResultThere AwaiterWaits NoLeak StackBounded
