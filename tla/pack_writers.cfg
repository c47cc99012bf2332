SPECIFICATION Spec
CONSTANTS
  Stampers = {s1}
  Signers = {g1}
  Builders = {b1}
  Original = Original
  Altered = Altered
  NoPack = NoPack
  Torn = Torn
  NoSig = NoSig
  Free = Free
  Flock = TRUE
  SizeBound = 3
  Faults = {"kill", "power", "remove", "nolock"}
INVARIANTS BlocksKept ReadablePack CoherentPack FailureLeavesThePack
CHECK_DEADLOCK FALSE
