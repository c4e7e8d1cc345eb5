SPECIFICATION InputsSpec
CONSTANTS
  MaxFields = 3
  MaxTokens = 5
  Documents <- MCDocuments
  Bodies <- MCBodies
  Headers <- MCHeaders
  Delims <- MCDelims
  Spaces <- MCSpaces
  Names <- MCNames
  Widths = {2, 4}
  Texts <- MCTexts
  Formats <- MCFormats
  Literals <- MCLiterals
INVARIANTS
  ReadsOwnField AssumptionsHold SplitsIntoRuns PairsReadBack ValuesHaveNoEquals
  SameOnEveryProcessor IntegersExactOrRefused
CHECK_DEADLOCK FALSE
