\* sf-simple and the two 6P processes of child.c over a lossy MAC.
CONSTANTS
  Child = c
  Parent = p
  Node = {c, p}
  NoNode = NoNode
  MaxTrans = 1
  MaxSeqno = 4
  MaxQueue = 2
  Body <- MCBody
  EmptyBody <- MCEmptyBody
  ReplyBody <- MCBody
  Cell <- MCCell
  AutoTx <- MCAutoTx
  AutoRx <- MCAutoRx
  Initiator = {c}
  ReqCmd = {"ADD", "DELETE", "RELOCATE"}
  Callback = {"NONE", "ADD", "DELETE", "RELOCATE"}
  Flushing = {"none", "unacked", "all"}
  Faults = {"refused"}
  MaxRequest = 3
  MaxRx = 1
  MaxReboot = 0
  MaxCand = 2
  Target = 2
  MaxReloc = 1
  AppOps = {"ADD", "DELETE", "RELOCATE"}
SPECIFICATION SfFairSpec
INVARIANTS SchedulesAgree MinimalCellKept
PROPERTIES CellsAddUp AddingFinishes 
CHECK_DEADLOCK FALSE
