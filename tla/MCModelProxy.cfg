\* A call whose answer has two events, over two links, with a broker that may be
\* replaced once and room for one frame at the proxy.
CONSTANTS
  c1 = c1
  Calls = {c1}
  MaxLinks = 2
  MaxEvents = 2
  MaxQueue = 1
  MaxRestarts = 1
SPECIFICATION FairSpec
CHECK_DEADLOCK FALSE
INVARIANTS CursorsAgree OrphansAreStopped
PROPERTIES ImplementsModelStream EveryCallEnds
