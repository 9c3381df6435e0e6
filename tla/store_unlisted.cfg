SPECIFICATION Spec
CONSTANTS
  Ids = {n1, n2}
  Locals = {cli, ui}
  Engines = {}
  Crashing = {}
  Search = FALSE
  MaxChange = 0
  NoId = NoId
INVARIANT PurgedIsListed
\* Once the bounded ids and changes are used up, nothing is left to do.
CHECK_DEADLOCK FALSE
