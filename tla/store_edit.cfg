SPECIFICATION FairSpec
CONSTANTS
  Ids = {n1}
  Locals = {cli}
  Engines = {sync}
  Crashing = {cli, sync}
  Search = TRUE
  MaxChange = 2
  NoId = NoId
PROPERTIES EditKeepsUnseen ReceiveEnds
