\* Notices of different kinds for a root agent whose model calls fail.
CONSTANTS
  u1 = u1
  u2 = u2
  n1 = n1
  n2 = n2
  Inputs = {}
  Notices = {n1, n2}
  Quiet = {}
  Nudge = Nudge
  Origin <- Mixed
  Kinds = {"root"}
  Delays = 1
  MaxSteps = 2
  MaxRebuilds = 1
SPECIFICATION Spec
INVARIANT FailedNoticesAreResent
CHECK_DEADLOCK FALSE
