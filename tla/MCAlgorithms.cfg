CONSTANTS
  m = m
  w1 = w1
  w2 = w2
  Main = m
  Workers <- TwoWorkers
  Inputs <- FourOfThree
  Hardware = 2
  MaxTasks = 3
  MaxLength = 5
  MinPerThread = 2
  MaxHardware = 3
  MaxChunk = 2
  MaxRange = 7
SPECIFICATION FairAlgorithmsSpec
INVARIANTS ResultsAreRight NothingIsLeftBehind SomeoneHasWork
PROPERTIES CallsReturn
CHECK_DEADLOCK FALSE
