SPECIFICATION FairSpec
CONSTANTS
  Views = 2
  Drafts = {1, 2, 3}
  Blank = 1
  KeyOf <- MCKeyOf
  MaxEvents = 3
PROPERTY OptionsShowAgain
CHECK_DEADLOCK FALSE
