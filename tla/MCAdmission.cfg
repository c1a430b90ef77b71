\* A chain of three: a waits for b, and c1 is a private turn of b, which is a
\* group with it.  One of the two places is kept free for private turns.
SPECIFICATION AdmissionFairSpec
CONSTANTS
  Root = Root
  a = a
  b = b
  c1 = c1
  g = g
  Children = {a, b, c1}
  Parent <- ChainParent
  Ephemeral = {c1}
  Persistent = {c1}
  Awaited = {b}
  Groups = {g}
  Members <- LowerGroup
  GroupLimit <- OneAtATime
  MaxConcurrent = 2
  MaxBatches = 1
  MaxQuestions = 1
  MaxTurns = 2
  MaxPauses = 1
  UnawaitedQuestions = FALSE
CHECK_DEADLOCK FALSE
INVARIANTS LimitsHold
PROPERTIES EveryoneIsAdmitted
