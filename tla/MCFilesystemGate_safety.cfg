\* Three processes, one host: the pause that tombstones exist for needs a dead
\* owner, a reclaimer that replaces it and a second, delayed reclaimer.
CONSTANTS
  a = a
  b = b
  c = c
  Procs = {a, b, c}
  Domain <- OneHost
  NoDir = NoDir
  MaxMints = 2
  RetryBudget = 1
  MaxFaults = 2
SPECIFICATION Spec
INVARIANT TypeOK
INVARIANT MutualExclusion
INVARIANT AuthorityOnDisk
INVARIANT TombstonesAreDeadOwners
SYMMETRY Symmetry
CHECK_DEADLOCK FALSE
