\* Three nodes and a pool of one transaction: the pool is exhausted while
\* another peer's transaction is under way.
CONSTANTS
  Node = {a, b, c}
  NoNode = NoNode
  MaxTrans = 1
  MaxSeqno = 2
  MaxQueue = 1
  Body = {cells}
  EmptyBody = cells
  Initiator = {a, b}
  ReqCmd = {"ADD"}
  ReplyBody = {cells}
  Callback = {"NONE"}
  Flushing = {"none"}
  Faults = {}
  MaxRequest = 2
  MaxRx = 1
  MaxReboot = 0
SYMMETRY Symmetry
SPECIFICATION Spec
PROPERTY InputIsolated
CHECK_DEADLOCK FALSE
