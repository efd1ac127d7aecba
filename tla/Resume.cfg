SPECIFICATION Spec
CONSTANTS
  Proc = {p1, p2}
  Shell = shell
  Codes = {"success"}
  Keys = {"stop"}
  Outside = {"stop", "cont"}
  Catch = FALSE
  Readers = FALSE
  Job = {j1, j2}
  Null = null
  Unset = unset
  Lines <- Resumable
  Ampersand = FALSE
  MayFail = FALSE
CHECK_DEADLOCK FALSE
SYMMETRY Symmetry
INVARIANTS StoppedFlagIsRight NoChildIsForgotten JobsOwnTheirProcesses HandlerNeverStealsAWait
PROPERTIES LeavesOnlyAfterADeath
