\* Two slotframes that overlap, a pool of two links, every call under slots that go on.
CONSTANTS
  MaxLinks = 2
  Handle = {0, 1}
  Size <- MCSize
  Addr = {a}
  Options <- MCOptions
  MaxNbr = 1
  MaxSf = 2
  DoRemove = {TRUE}
  Period = 2
  MaxCalls = 4
SPECIFICATION FairSpec
INVARIANTS PoolConsistent TxExcludesLock CurrentScheduled NextActiveCorrect
PROPERTIES CallsEnd ImplementsLinkSet
