\* The replacement loop before anything is on the blacklist.
CONSTANTS
  MaxSlot = 5
  Channel = {0}
  ListLen = 2
  Size = 2
  MaxLinks = 2
  Interfered <- MCInterfered
  AutoSlot = {}
  Relocates = FALSE
  MaxSched = 1
SPECIFICATION FairSpec
PROPERTY ReplaceReturns
