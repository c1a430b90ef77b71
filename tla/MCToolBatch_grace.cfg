SPECIFICATION Spec
CONSTANTS
  Calls <- MCCalls
  Turns = 2
  TurnOf <- MCTurnOf
  Serial <- MCSerial
  Key <- MCKey
  NoKey = NoKey
  Writers = {2}
  Askers = {1}
  MaxParallel = 2
INVARIANT OneGrace
CHECK_DEADLOCK FALSE
