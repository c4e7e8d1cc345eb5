SPECIFICATION BindingsSpec
CONSTANTS
  Symbols = {47, 58, 97, 46, 49}
  MaxPattern = 5
  PathSymbols = {47, 97, 46}
  MaxPath = 4
  Patterns <- MCPatterns
  SearchFrom <- Search
  Chars = {47, 61, 97, 32}
  MaxNodes = 3
  MaxSubject = 3
  MaxCookie = 5
  Keys = {1, 2, 3}
  MaxParams = 3
  MaxDepth = 3
  MaxMembers = 6
INVARIANTS
  FitsExactly MeansPattern LikeModulePattern GreedyMatch CookieSplit
  GetReadsLatest SortReversesTies SetOperations
CHECK_DEADLOCK FALSE
