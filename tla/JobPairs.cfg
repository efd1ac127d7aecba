SPECIFICATION Spec
CONSTANTS
  Proc = {p1, p2, p3}
  Shell = shell
  Codes = {"success"}
  Keys = {"stop"}
  Outside = {"term"}
  Catch = FALSE
  Readers = FALSE
  Job = {j1, j2}
  Null = null
  Unset = unset
  Lines <- Strays
  Ampersand = FALSE
  MayFail = FALSE
CHECK_DEADLOCK FALSE
SYMMETRY Symmetry
INVARIANTS JobsAreDisjoint WaitedForGroupHasTerminal
PROPERTIES FgFinishesWholeJobs LeavesOnlyAfterADeath
