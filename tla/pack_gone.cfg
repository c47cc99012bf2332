SPECIFICATION Spec
CONSTANTS
  Stampers = {s1}
  Signers = {}
  Builders = {}
  Original = Original
  Altered = Altered
  NoPack = NoPack
  Torn = Torn
  NoSig = NoSig
  Free = Free
  Flock = TRUE
  SizeBound = 3
  Faults = {"remove"}
INVARIANTS StampsAnswer
CHECK_DEADLOCK FALSE
