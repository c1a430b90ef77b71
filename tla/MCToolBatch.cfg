SPECIFICATION FairSpec
CONSTANTS
  Calls <- MCCalls
  Turns = 2
  TurnOf <- MCTurnOf
  Serial <- MCSerial
  Key <- MCKey
  NoKey = NoKey
  Writers = {2}
  Askers = {1}
  MaxParallel = 2
CHECK_DEADLOCK FALSE
INVARIANTS BatchIsSound OutsideViewIsTrue
PROPERTIES NothingLate BatchEnds
