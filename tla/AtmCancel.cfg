CONSTANTS
  InitialBalance = 60
  PinLength = 1
  MaxKeys = 5
  MaxAhead = 4
SPECIFICATION Spec
INVARIANTS CancelledWithdrawalIsNotCharged
CHECK_DEADLOCK FALSE
