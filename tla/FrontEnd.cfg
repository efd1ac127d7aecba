SPECIFICATION FairSpec
CONSTANTS
  Sources <- Short
  MaxLexeme = 2
  MaxTokens = 6
  ProcessText = 2
  Failing <- Calls
CHECK_DEADLOCK FALSE
INVARIANTS TypeOK TokensAreTheLine AcceptsTheGrammar MemoryIsSafe LineLeavesNothing
PROPERTIES LineIsServed
