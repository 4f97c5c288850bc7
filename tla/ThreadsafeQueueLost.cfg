CONSTANTS
  Producers = {p1}
  Consumers = {c1}
  Values = {v1}
  Nodes = {n1, n2, n3}
  NoThread = NoThread
  Null = Null
SPECIFICATION FairSpec
PROPERTY WaitersAreServed
