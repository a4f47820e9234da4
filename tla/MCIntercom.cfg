SPECIFICATION Spec
CONSTANTS
  Agent = {a, b}
  Hooked = {a}
  Kind = {"request"}
  Human = human
  Cap = 2
  Limit = 1
  MaxMsg = 2
  MaxEsc = 1
INVARIANT TypeOK
PROPERTIES SettledByReader HandedOutOnce
CHECK_DEADLOCK FALSE
