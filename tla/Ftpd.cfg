\* A ring of four bytes, a file that goes around it, and TCP with room for three.
CONSTANTS
  NULL = NULL
  FileLen = 6
  ListLen = 3
  FifoBytes = 3
  MsgSlots = 2
  SND_BUF = 3
  MaxListen = 3
  MaxAborts = 2
SPECIFICATION FtpdFairSpec
INVARIANTS
  
  
  FileArrivesInOrder
  OnlyAbortsLeak
PROPERTIES
  TransferEnds
  
