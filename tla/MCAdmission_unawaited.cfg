SPECIFICATION AdmissionFairSpec
CONSTANTS
  Root = Root
  a = a
  b = b
  c1 = c1
  g = g
  Children = {a, b, c1}
  Parent <- NestedParent
  Ephemeral = {}
  Persistent = {}
  Awaited = {b}
  Groups = {g}
  Members <- InnerGroup
  GroupLimit <- OneAtATime
  MaxConcurrent = 1
  MaxBatches = 1
  MaxQuestions = 1
  MaxTurns = 1
  MaxPauses = 0
  UnawaitedQuestions = TRUE
PROPERTIES
  EveryoneIsAdmitted
CHECK_DEADLOCK FALSE
