\* Two nodes that both start transactions, CLEAR included, sequence numbers
\* that wrap at once, one power cycle.
CONSTANTS
  Node = {a, b}
  NoNode = NoNode
  MaxTrans = 2
  MaxSeqno = 1
  MaxQueue = 2
  Body = {cells, EmptyBody}
  EmptyBody = EmptyBody
  Initiator = {a, b}
  ReqCmd = {"ADD", "CLEAR"}
  ReplyBody = {EmptyBody}
  Callback = {"NONE"}
  Flushing = {"none"}
  Faults = {"refused", "failed"}
  MaxRequest = 2
  MaxRx = 2
  MaxReboot = 1
SYMMETRY Symmetry
SPECIFICATION Spec
INVARIANTS OneTransPerPeer TimerArmed ClearKeepsZero
PROPERTY ZeroOnlyByClear
CHECK_DEADLOCK FALSE
