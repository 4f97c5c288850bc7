CONSTANTS
  Threads = {t1, t2}
  Mutexes = {1, 2, 3}
  NoThread = NoThread
  InitialValue = 3
  Level <- TwoLevels
SPECIFICATION AnyOrderSpec
INVARIANT HierarchyIsKept
