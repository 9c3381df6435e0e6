SPECIFICATION FairSpec
CONSTANTS
  Devs = {a, b}
  Notes = {n1}
  Tomb = Tomb
  MaxChange = 1
  MaxCuts = 1
  MaxQueue = 2
  Creator = a
  LateRounds = TRUE
  None = None
PROPERTY Converges
