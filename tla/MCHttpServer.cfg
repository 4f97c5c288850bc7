CONSTANTS
  c1 = c1
  c2 = c2
  c3 = c3
  c4 = c4
  Conns <- FourConns
  PoolConns <- ThreeConns
  NumThreads = 2
  SizeMax = 3
  MaxOdd = 2
  Garbage = 7
  MaxUri = 4
SPECIFICATION FairServersSpec
INVARIANTS ServerTypesOK ManagerOwnsLiveConnections HandlersDoNotOverlap AcceptsContinue NothingStartsAfterStop VerdictsAreRight
PROPERTIES EveryRunReturns
CHECK_DEADLOCK FALSE
