SPECIFICATION FairSpec
CONSTANTS
  Proc = {p1, p2, p3}
  Shell = shell
  Codes = {"success", "failure"}
  Keys = {}
  Outside = {"stop", "term"}
  Catch = FALSE
  Readers = FALSE
  Trees <- SmallTrees
  GroupSignals = {"stop", "cont", "term"}
  Unset = unset
  MayFail = TRUE
CHECK_DEADLOCK FALSE
INVARIANTS TypeOK OnePipelineAtATime NobodyIsLeft
PROPERTIES SubshellEnds RunsTheTree
