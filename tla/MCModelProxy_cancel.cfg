\* A call given up while the link that is attached waits for its approval.
CONSTANTS
  c1 = c1
  Calls = {c1}
  MaxLinks = 2
  MaxEvents = 1
  MaxQueue = 1
  MaxRestarts = 0
SPECIFICATION Spec
INVARIANT CancellationsAreDelivered
CHECK_DEADLOCK FALSE
