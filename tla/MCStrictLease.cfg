SPECIFICATION FairSpec
CONSTANTS
  s1 = s1
  s2 = s2
  l1 = l1
  l2 = l2
  Strict = {s1, s2}
  Legacy = {l1, l2}
  Nobody = Nobody
  NoFile = NoFile
  Waiters = {s1}
  MaxFiles = 1
  MaxRetries = 1
  MaxTroubles = 2
  Takers = {l1}
CHECK_DEADLOCK FALSE
\* Nothing is promised after the first robbery.
CONSTRAINT NobodyRobbed
INVARIANTS StrictExcludes AuthorityStaysVisible
PROPERTIES ClaimEnds DeadLeaseGoes
