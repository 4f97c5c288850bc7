CONSTANTS
  p1 = p1  c1 = c1  c2 = c2  v1 = v1  k1 = k1  k2 = k2  n1 = n1
  Producers = {c1, c2}
  Consumers = {c1, c2}
  Values = {v1, v2}
  Nodes = {n1, n2, n3}
  NoThread = NoThread
  Null = Null
  ToDo = 3
  Ahead = 2
  MaxItems = 3
  Garbage = Garbage
SPECIFICATION FairContainersSpec
INVARIANTS TypeOK ListIsWellFormed EndsAreDisjoint StaleTailIsLive ContentsAreRight WakeupsAreNotLost
PROPERTIES CallsAreAtomic CallsEnd
CHECK_DEADLOCK FALSE
