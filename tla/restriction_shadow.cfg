SPECIFICATION Spec
CONSTANTS
  Mistyped = Mistyped
  NotAList = NotAList
  Absent = Absent
  PackSets <- TermsOnly
  Closed <- TermMandates
  WildcardItems = TRUE
  ReuseByDefault = FALSE
INVARIANTS NeverBroader
CHECK_DEADLOCK FALSE
