SPECIFICATION FairSpec
CONSTANTS
  Mistyped = Mistyped
  NotAList = NotAList
  Absent = Absent
  PackSets <- AllPacks
  Closed <- AllMandates
  WildcardItems = TRUE
  ReuseByDefault = FALSE
INVARIANTS VerifiedIsNarrower MetReachesTheRoot ChainRuleIsExact
PROPERTIES EntriesOnlyWorsen
CHECK_DEADLOCK FALSE
