\* The capture fails twice, before and after a client of the previous daemon
\* attaches.
CONSTANTS
  Retained = 2
  QueueFrames = 2
  InFlight = 2
  MaxSeq = 5
  MaxEpochs = 2
  MaxDrops = 2
  MaxMisses = 2
SPECIFICATION Spec
INVARIANT ConnectedClientsLearn
CHECK_DEADLOCK FALSE
