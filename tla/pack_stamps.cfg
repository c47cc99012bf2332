SPECIFICATION FairSpec
CONSTANTS
  Stampers = {s1, s2, s3}
  Signers = {}
  Builders = {}
  Original = Original
  Altered = Altered
  NoPack = NoPack
  Torn = Torn
  NoSig = NoSig
  Free = Free
  Flock = TRUE
  SizeBound = 4
  Faults = {"kill"}
INVARIANTS EveryStampKept
PROPERTIES StampsAreAtomic StampsEnd
CHECK_DEADLOCK FALSE
