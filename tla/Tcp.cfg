CONSTANTS
  TCP_WND = 2
  TCP_SYNMAXRTX = 2
  TCP_MAXRTX = 2
  Bytes <- MCBytes
  MaxCwnd = 2
  MaxInFlight = 1
  MaxFaults = 1
  IssStep = 100
SPECIFICATION Spec
CHECK_DEADLOCK FALSE
INVARIANTS
  
  StreamIntact
  SentIsReceived
  EndsAgree
  OnlyPeerResets
PROPERTIES
  
  DataArrives
