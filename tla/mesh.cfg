SPECIFICATION FairSpec
CONSTANTS
  Peers = {p}
  MaxConn = 2
  None = None
INVARIANTS TypeOK OnePerArming ChosenByUser OneSession
PROPERTIES KnockAnswered UnpairedIsLeft
