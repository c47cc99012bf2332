SPECIFICATION Spec
CONSTANTS
  k1 = k1
  k2 = k2
  Keys = {k1, k2}
  Junk = Junk
  NotAKey = NotAKey
  Absent = Absent
  Unset = Unset
  SizeBound = 3
  Sessions <- MCSessions
  JwksReplies <- MCJwksReplies
  TsaReplies <- MCTsaReplies
INVARIANTS
  BuiltPacksVerify OneKeyPerArtifact NothingRedLeaves LiteralsAreTheArtifacts
CHECK_DEADLOCK FALSE
