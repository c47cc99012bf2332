SPECIFICATION ReadersSpec
CONSTANTS
  Presentations <- Presented
  Nodes <- PresentedNodes
  MAX_JSON_DEPTH = 5
  Nothing = Nothing
  Mistyped = Mistyped
  NotAList = NotAList
  Inputs <- MCInputs
  SAFE_INT = 127
  SafeDigits = 3
  ExpDigits = 1
  MaxDepth = 2
  GenTimes <- MCGenTimes
  None = None
  Depth = 3
INVARIANTS
  ResolvesAsReference WithholdingOnlyWithholds HolderKeepsTheReference OneSetOfTerms
  TextReadAsWritten TokenReadAsEncoded ProofsSpeakForTheRoot
PROPERTIES Ends
CHECK_DEADLOCK FALSE
