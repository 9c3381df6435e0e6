SPECIFICATION Spec
CONSTANTS
  Ids = {n1, n2}
  Locals = {cli}
  Engines = {sync}
  Crashing = {}
  Search = TRUE
  MaxChange = 2
  NoId = NoId
SYMMETRY Symmetry
CONSTRAINT OneAtATime
INVARIANT SearchExact
