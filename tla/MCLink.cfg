SPECIFICATION FairSpec
CONSTANTS
  a = a
  b = b
  t1 = t1
  t2 = t2
  Ends = {a, b}
  Threads = {t1, t2}
  EndOf <- MCOneWay
  Cap = 1
  HeaderLen = 2
  BodyLen = 2
  SockCap = 5
  MaxSends = 1
CHECK_DEADLOCK FALSE
INVARIANT ReportedNotDelivered
PROPERTIES EveryMessageArrives ExitIsNoticed ImplementsChannel
