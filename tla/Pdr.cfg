\* Three timeslots, two of them with a link at a time; three entries.
CONSTANTS
  Slot = {s1, s2, s3}
  MaxCells = 3
  MaxTx = 4
  MaxLinks = 2
  MaxTorn = 1
SYMMETRY MCSlotSymmetry
SPECIFICATION Spec
INVARIANTS CountersSound DeletionSound OneEntryPerSlot
