\* Processes may stop, and the files they left and the ones put back expire.
CONSTANTS
  a = a
  b = b
  c = c
  d = d
  Pids = {a, b, c}
  NoFile = NoFile
  Empty = Empty
  MaxOpens = 1
  MaxCrashes = 2
SPECIFICATION LegacyFairSpec
CHECK_DEADLOCK FALSE
INVARIANTS OneHolderUntilCrash
PROPERTIES OrphansGo
