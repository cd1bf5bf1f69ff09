\* Each of the clients, a ring that other hosts can fill.
CONSTANTS
  RXSIZE = 3
  TXSIZE = 2
  WPKTS = 2
  Reps = 3
  Sketches <- AllSketches
  Strays <- AllFrames
  MaxStrays = 3
SPECIFICATION EtherRawSpec
INVARIANTS
  FramesInOrder
  OnlyOthersStopReceiver
PROPERTIES
  
  SetupEndsOrReceiverStops
CHECK_DEADLOCK FALSE
