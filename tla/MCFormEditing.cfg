SPECIFICATION FairSpec
CONSTANTS
  Views = 2
  Drafts = {1, 2, 3}
  Blank = 1
  KeyOf <- MCKeyOf
  MaxEvents = 3
INVARIANTS FormIsSound HostFollowsEditor
PROPERTIES OptionsShow NobodyWaits
CHECK_DEADLOCK FALSE
