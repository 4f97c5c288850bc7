CONSTANTS
  s1 = s1
  s2 = s2
  s3 = s3
  p1 = p1
  p2 = p2
  None = None
  Sessions <- ThreeSessions
  MaxRecent = 1
  MaxMessages = 2
  MaxLines = 3
  Width = 3
  Lifetime = 2
  MaxRequests = 4
  MaxPackets = 2
  Base = 4
  MaxBody = 2
  CountMax = 4
  MaxChunks = 2
  Peers <- TwoPeers
  MaxSends = 2
SPECIFICATION FairAsioSpec
INVARIANTS OneOperationAtATime NothingIsMissed CountsAreRight
PROPERTIES ChatGoesOn RequestsAreASecondApart ProgramsProceed
CHECK_DEADLOCK FALSE
