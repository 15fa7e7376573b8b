SPECIFICATION ChainFairSpec
CONSTANTS
  N = 3
  Dwell = 18
  Floor = 2
  Teardown = 1
  Regrace = 66
  Settle = 1
  MaxEvents = 2
 
PROPERTIES ComesUp
