SPECIFICATION FairSpec
CONSTANTS
  Devs = {a, b}
  Notes = {n1}
  Tomb = Tomb
  MaxChange = 2
  MaxCuts = 1
  MaxQueue = 2
  Creator = a
  LateRounds = FALSE
  None = None
INVARIANTS TypeOK CacheCurrent QuietAgrees
PROPERTIES EachIsARegistry Converges FallsSilent
