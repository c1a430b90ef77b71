\* Two processes of one host and one of another: what implements the token, and
\* release and recovery under fairness; faults do not outnumber the retries.
CONSTANTS
  a = a
  b = b
  c = c
  Procs = {a, b, c}
  Domain <- TwoHosts
  NoDir = NoDir
  MaxMints = 1
  RetryBudget = 2
  MaxFaults = 2
SPECIFICATION PollingSpec
PROPERTIES
  ImplementsAbstractGate
  GateLeavesByRight
  ReleaseEnds
  AbandonedIsRecovered
CHECK_DEADLOCK FALSE
