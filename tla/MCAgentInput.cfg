\* Two messages of the user and two notices, one of which does not wake, for a root
\* agent, a persistent child and an owned conversation.
CONSTANTS
  u1 = u1
  u2 = u2
  n1 = n1
  n2 = n2
  Inputs = {u1, u2}
  Notices = {n1, n2}
  Quiet = {n2}
  Nudge = Nudge
  Origin <- Mixed
  Kinds = {"root", "child", "owned"}
  Delays = 1
  MaxSteps = 2
  MaxRebuilds = 1
SPECIFICATION FairSpec
CHECK_DEADLOCK FALSE
INVARIANTS InputIsKept WaitsForAReason
PROPERTIES EverybodyIsHeard
