SPECIFICATION Spec
CONSTANTS
  Savers = {s1, s2}
  Users = {u1}
  Original = Original
  NoFile = NoFile
  Torn = Torn
  Directory = Directory
  Stream = Stream
  Nothing = Nothing
  MLDSA_AVAILABLE = TRUE
  Faults = {"kill", "power", "chmod", "remove"}
INVARIANTS KeyFileSound SignedBlocksVerify
PROPERTIES ReadOnlyKeysStay
CHECK_DEADLOCK FALSE
