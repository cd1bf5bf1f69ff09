\* The timers of the stack and an application's, which it may cancel.
CONSTANTS
  Cyclic <- TwoCyclic
  TCP = "tcp"
  App = "app"
  MaxApp = 1
  MaxCancels = 1
  Msecs <- Intervals
  PoolSize = 4
  ClockMod = 32
  MaxLag = 2
  MaxAge = 3
SPECIFICATION TimeoutsFairSpec

  
PROPERTIES
  NotEarly
  CheckReturns
  CyclicForEver
