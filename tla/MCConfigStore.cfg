SPECIFICATION FairSpec
CONSTANTS
  ok = ok
  k = k
  reader = reader
  writer = writer
  Clients = {reader, writer}
  Keys = {k}
  Texts = {ok}
  Absent = Absent
  Never = Never
  MaxTimeout = 2
  MaxCalls = 2
  QueueSize = 1
  Operations <- MCOperations
CHECK_DEADLOCK FALSE
INVARIANTS NoWaiterLeftBehind WaitersIndexed AnsweredOnce
PROPERTIES GetReturnsTheValueButForAppend CallsReturn
