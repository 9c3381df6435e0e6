SPECIFICATION FairSpec
CONSTANTS
  Dialer = Dialer
  Acceptor = Acceptor
  Window = 4
  MaxRound = 2
  Oversize = TRUE
  None = None
INVARIANTS TypeOK FramesIntact
PROPERTIES RoundSent SessionOpens SessionEnds
CHECK_DEADLOCK FALSE
