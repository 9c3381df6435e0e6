SPECIFICATION MCSpec
CONSTANTS
  TagTokens <- MCTags
  Bodies <- MCBodies
  Texts <- MCTexts
  Names <- MCNames
  SlugOf <- MCSlugOf
  Libraries <- MCLibraries
  Foreign <- MCForeign
  Root <- MCRoot
  Given <- MCGiven
  MaxEdits = 1
  MaxLines = 3
  MaxName = 5
  Notes = {n, m}
  MaxText = 3
  MaxCalls = 2
  None = None
SYMMETRY Symmetry
INVARIANTS SpliceExact TodosAddressed DerivedFollows LinesReplaced SlugSettles RoundTrip ReimportAddsNothing OthersKept TypedIsKept
CHECK_DEADLOCK FALSE
