SPECIFICATION FairSpec
CONSTANTS
  LineInputs <- MCLineInputs
  PairInputs <- MCPairInputs
  MaxLen = 2
  PipeCap = 3
  MaxNumber = 4
  MaxFaults = 2
INVARIANTS
  StreamConsistent
  EndIsHonest
  AssertsHold
PROPERTY ReceiverEnds
