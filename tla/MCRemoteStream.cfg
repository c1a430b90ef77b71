\* Two daemon lifetimes, in which the journal and the live queue overflow; every
\* way a connection ends, and a client that always comes back.
CONSTANTS
  Retained = 2
  QueueFrames = 2
  InFlight = 2
  MaxSeq = 5
  MaxEpochs = 2
  MaxDrops = 2
  MaxMisses = 1
SPECIFICATION FairSpec
CHECK_DEADLOCK FALSE
INVARIANTS StreamIsSound
PROPERTIES EventuallyCurrent
