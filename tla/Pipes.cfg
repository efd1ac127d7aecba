SPECIFICATION FairSpec
CONSTANTS
  MaxFd = 7
  Pipes = {1, 2, 3, 4, 5, 6}
  Kid = {1, 2, 3}
  Lines <- AllLines
  Failing = {"fork", "pipe"}
CHECK_DEADLOCK FALSE
INVARIANTS TypeOK StagesAreConnected NoPipeStays
PROPERTIES TerminalIsKept EndSpreads
