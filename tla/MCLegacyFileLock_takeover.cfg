\* One process stops and the others take its lock over.
CONSTANTS
  a = a
  b = b
  c = c
  d = d
  Pids = {a, b, c, d}
  NoFile = NoFile
  Empty = Empty
  MaxOpens = 1
  MaxCrashes = 1
SPECIFICATION LegacySpec
INVARIANT OneHolder
SYMMETRY Symmetry
CHECK_DEADLOCK FALSE
