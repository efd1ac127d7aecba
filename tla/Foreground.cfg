SPECIFICATION FairSpec
CONSTANTS
  Proc = {p1, p2}
  Shell = shell
  Codes = {"success"}
  Keys = {"stop", "term"}
  Outside = {}
  Catch = TRUE
  Readers = TRUE
  Job = {j1, j2}
  Null = null
  Unset = unset
  Lines <- Strays
  Ampersand = FALSE
  MayFail = TRUE
CHECK_DEADLOCK FALSE
INVARIANTS WaitedForGroupHasTerminal
PROPERTIES WaitsEnd
