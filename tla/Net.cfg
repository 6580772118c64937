\* Two neighbours, one of which may stop; one parent switch between two synchronisations.
CONSTANTS
  n1 = n1
  n2 = n2
  Nbr = {n1, n2}
  None = None
  Desync = 3
  MaxIn = 1
  MaxKa = 1
  MaxSwitch = 1
SPECIFICATION FairSpec
INVARIANTS KeepaliveComing StaysInSync
PROPERTIES Recovers Rejoins
