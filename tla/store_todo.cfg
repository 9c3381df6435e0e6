SPECIFICATION Spec
CONSTANTS
  Ids = {n1}
  Locals = {cli, ui}
  Engines = {}
  Crashing = {cli, ui}
  Search = FALSE
  MaxChange = 2
  NoId = NoId
PROPERTY TodoKeepsUnseen
\* Once the bounded ids and changes are used up, nothing is left to do.
CHECK_DEADLOCK FALSE
