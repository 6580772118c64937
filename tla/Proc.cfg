\* Three processes, one started later; threads make others exit that are not called.
CONSTANTS
  etimer = etimer
  tsch = tsch
  late = late
  Proc = {etimer, tsch, late}
  Nil = Nil
  NumEvents = 2
  AutoStart <- MCAutoStart
  MaxOps = 4
SPECIFICATION ProcFairSpec
INVARIANT ListedRun
PROPERTY Polled
