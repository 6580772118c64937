\* Both processes; three of five timeslots are interfered with.
CONSTANTS
  MaxSlot = 5
  Channel = {0}
  ListLen = 2
  Size = 2
  MaxLinks = 2
  Interfered <- MCInterfered
  AutoSlot = {5}
  Relocates = TRUE
  MaxSched = 2
SPECIFICATION FairSpec
INVARIANTS CandidatesDistinct BlacklistHoldsRecent NotBlacklistedUntilFull AddedNotCandidate AddOffersClean
PROPERTY ReplaceReturnsBlacklist
