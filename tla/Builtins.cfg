SPECIFICATION Spec
CONSTANTS
  Proc = {p1, p2, p3}
  Shell = shell
  Codes = {"success"}
  Keys = {"stop"}
  Outside = {}
  Catch = FALSE
  Readers = FALSE
  Job = {j1, j2, j3}
  Null = null
  Unset = unset
  Lines <- Builtins
  Ampersand = TRUE
  MayFail = TRUE
CHECK_DEADLOCK FALSE
SYMMETRY Symmetry
INVARIANTS TypeOK PromptIsReady
PROPERTIES LeaseKept
