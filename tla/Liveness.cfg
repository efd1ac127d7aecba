SPECIFICATION FairSpec
CONSTANTS
  Proc = {p1, p2}
  Shell = shell
  Codes = {"success", "failure"}
  Keys = {"stop", "term"}
  Outside = {}
  Catch = FALSE
  Readers = FALSE
  Job = {j1, j2}
  Null = null
  Unset = unset
  Lines <- Single
  Ampersand = TRUE
  MayFail = FALSE
CHECK_DEADLOCK FALSE
PROPERTIES NoZombieStays
