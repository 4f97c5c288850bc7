CONSTANTS
  InitialBalance = 60
  PinLength = 2
  MaxKeys = 8
  MaxAhead = 2
  MaxBalls = 3
  MaxQuarters = 4
  NumSlots = 2
  Unset = Unset
  MaxReadings = 3
SPECIFICATION FairMachinesSpec
INVARIANTS TypeOK GoodsWerePaidFor AwaitedReplyIsComing ActionsFollowARightPin ReceiversAreInformed
PROPERTIES QuitEndsTheProgram
CHECK_DEADLOCK FALSE
