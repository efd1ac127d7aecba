SPECIFICATION Spec
CONSTANTS
  Proc = {p1}
  Shell = shell
  Codes = {"success", "failure"}
  Keys = {}
  Outside = {}
  Catch = FALSE
  Readers = FALSE
  Job = {j1}
  Null = null
  Unset = unset
  Lines <- Single
  Ampersand = FALSE
  MayFail = FALSE
CHECK_DEADLOCK FALSE
PROPERTY ReturnValueIsExitStatus
