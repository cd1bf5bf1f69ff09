\* A client that reads or writes a file of three blocks, and another one that
\* may send anything; the pool of the build.
CONSTANTS
  Clients <- TwoClients
  Client = "c1"
  None = None
  NULL = NULL
  FileBlocks = 2
  BlkMod = 65536
  BlkNums <- Blocks
  TIMEOUT = 1
  MAX_RETRIES = 1
  TimerSlots = 1
  MaxPackets = 6
SPECIFICATION TransferFairSpec
INVARIANTS
  NothingLeftOver
  GivesUpInTime
  ReadsTheFile
PROPERTIES
  NothingIsSkipped
  ServerEndsLast
  TransferEnds
