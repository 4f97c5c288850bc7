CONSTANTS
  t1 = t1
  t2 = t2
  t3 = t3
  v1 = v1
  v2 = v2
  n1 = n1
  n2 = n2
  n3 = n3
  Null = Null
  NumSlots = 2
  MaxCount = 5
  Threads <- ThreeThreads
  Values <- OneValue
  Nodes <- ThreeNodes
  OtherNodes <- TwoNodes
SPECIFICATION StacksSpec
SYMMETRY Symmetry
INVARIANTS TypesOK AllDereferencesAreLive NoNodeIsLost
CHECK_DEADLOCK FALSE
