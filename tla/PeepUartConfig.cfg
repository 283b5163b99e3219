SPECIFICATION Spec
CONSTANTS
  Options = {"w", "c", "s", "e"}
  MaxOptions = 4
INVARIANTS
  TypeOK
  ShowsItsOwnAnswer
CHECK_DEADLOCK FALSE
