\* One initiator, as in the example (child to parent), 2- and 3-step
\* transactions, delayed responses, every fault of the output path.
CONSTANTS
  Node = {a, b}
  NoNode = NoNode
  MaxTrans = 1
  MaxSeqno = 3
  MaxQueue = 2
  Body = {cells}
  EmptyBody = cells
  Initiator = {a}
  ReqCmd = {"RELOCATE", "ADD"}
  ReplyBody = {cells}
  Callback = {"NONE"}
  Flushing = {"none", "unacked", "all"}
  Faults = {"refused", "failed", "dropped"}
  MaxRequest = 3
  MaxRx = 2
  MaxReboot = 0
SPECIFICATION FairSpec
PROPERTIES TransactionsEnd ResponseMatchesRequest
CHECK_DEADLOCK FALSE
