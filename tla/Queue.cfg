\* A neighbour with a dedicated cell, one without, broadcast, and a pool of two packets.
CONSTANTS
  MaxPackets = 2
  parent = parent
  other = other
  bcast = bcast
  Nbr = {parent, other, bcast}
  Virtual = {bcast}
  Bcast = bcast
  Links <- MCLinks
  NoLink = NoLink
  Ring = 4
  DqRing = 2
  MaxTx <- MCMaxTx
  MinBE = 0
  MaxBE = 1
  MaxSend = 3
SPECIFICATION FairSpec
INVARIANTS OneOwner ReportedOnce SendsFirst
PROPERTIES ImplementsMacQueue AllReported
