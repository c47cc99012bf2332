SPECIFICATION Spec
CONSTANTS
  Inputs <- VerdictInputs
  Openssl = TRUE
  MLDSA_AVAILABLE = TRUE
  Now = 3
  Absent = Absent
INVARIANTS
  FieldsAndStatesAgree InstrumentsNeverDecide ExitIsTheVerdict
  AnchorsAreDistinct PqIsPinnedAndPassed PolicyOnlyRefuses VerifiersAgree
CHECK_DEADLOCK FALSE
