SPECIFICATION FairSpec
CONSTANTS
  Lists <- AllLists
  FgOutcomes = {"success", "failure", "killed", "stopped", "unlaunched"}
  SubOutcomes = {"success", "failure", "killed", "unlaunched"}
  MayFail = TRUE
CHECK_DEADLOCK FALSE
INVARIANTS TypeOK LastRunDecides RunsOnceInOrder NothingIsSkipped
PROPERTIES Finishes
