SPECIFICATION Spec
CONSTANTS
  Checklists <- MCChecklists
  Nothing = Nothing
INVARIANTS FilesAndChild
PROPERTIES ImplementsChecks EveryCheckAnswers
CHECK_DEADLOCK FALSE
