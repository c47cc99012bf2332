SPECIFICATION Spec
CONSTANTS
  Checklists <- NoDates
  Nothing = Nothing
INVARIANTS UnusableTimeIsNow
CHECK_DEADLOCK FALSE
