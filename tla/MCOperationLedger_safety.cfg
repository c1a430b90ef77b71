\* Two scopes of three ids; every limit is reached and exceeded.
CONSTANTS
  s1 = s1
  s2 = s2
  i1 = i1
  i2 = i2
  i3 = i3
  Scopes = {s1, s2}
  Ids = {i1, i2, i3}
  Sizes = {1, 2}
  MaxEntries = 2
  WindowIds = 2
  MaxIds = 3
  MaxForgotten = 1
  MaxBytes = 5
SPECIFICATION LedgerSpec
SYMMETRY Symmetry
INVARIANTS ResendsAreKnown AccountsAreKept
PROPERTIES RefusalKeepsIds
