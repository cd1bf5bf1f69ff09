\* One client that writes a file: is each block written once?
CONSTANTS
  Clients <- OneClient
  Client = "c1"
  None = None
  NULL = NULL
  FileBlocks = 2
  BlkMod = 65536
  BlkNums <- Blocks
  TIMEOUT = 1
  MAX_RETRIES = 1
  TimerSlots = 1
  MaxPackets = 8
SPECIFICATION TransferSpec
INVARIANT WritesTheFile
