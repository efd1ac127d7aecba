SPECIFICATION Spec
CONSTANTS
  Proc = {p1}
  Shell = shell
  Codes = {"success"}
  Keys = {}
  Outside = {}
  Catch = FALSE
  Readers = FALSE
  Job = {j1}
  Null = null
  Unset = unset
  Lines <- None
  Ampersand = TRUE
  MayFail = FALSE
CHECK_DEADLOCK FALSE
INVARIANT NeverCrashes
