SPECIFICATION Spec
CONSTANTS
  Ids = {n1, n2}
  Locals = {cli, ui}
  Engines = {sync}
  Crashing = {cli, ui, sync}
  Search = FALSE
  MaxChange = 1
  NoId = NoId
SYMMETRY Symmetry
INVARIANTS TypeOK PurgedNeverStored TombstonesApplied StoreSound
PROPERTIES Registry
