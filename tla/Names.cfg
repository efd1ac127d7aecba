SPECIFICATION Spec
CONSTANTS
  Trees <- ManyTrees
  Few <- FewTrees
  Arguments <- Numbers
  Char = {"a", "b", "c"}
  ProcessSize = 4
  PipelineSize = 9
  JobSize = 12
  INT_MAX = 7
  LONG_MAX = 63
  MaxJobs = 5
CHECK_DEADLOCK FALSE
INVARIANTS TypeOK TextIsWhatWasTyped ShownNumberNamesTheJob ArgumentNamesItsJob
