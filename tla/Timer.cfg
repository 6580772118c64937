\* A callback timer and two of a process, a clock that wraps, a queue of two events.
CONSTANTS
  c1 = c1
  e1 = e1
  e2 = e2
  Timer = {c1, e1, e2}
  CTimer = {c1}
  Interval = {1, 2}
  Width = 16
  Boot = {15}
  QLen = 2
  MaxTicks = 2
SPECIFICATION FairSpec
INVARIANTS ListSound ExpiryNoticed
PROPERTY CalledBack
