\* Every outcome, however the streams are connected and whatever a caller left.
SPECIFICATION FairSpec
CONSTANTS
  Outcomes <- AllOutcomes
  Worlds <- AllWorlds
  ReceiptSize = 4
  LineSize = 2
  BufferSize = 2
  PipeSize = 1
INVARIANTS InOrder ExitTellsTheReceipt OthersAreTold
PROPERTIES Ends
CHECK_DEADLOCK FALSE
