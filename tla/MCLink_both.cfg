SPECIFICATION FairSpec
CONSTANTS
  a = a
  b = b
  t1 = t1
  t2 = t2
  Ends = {a, b}
  Threads = {t1, t2}
  EndOf <- MCBothWays
  Cap = 1
  HeaderLen = 2
  BodyLen = 2
  SockCap = 3
  MaxSends = 1
CHECK_DEADLOCK FALSE
PROPERTY EveryMessageArrives
