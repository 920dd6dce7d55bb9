CONSTANTS
  c1 = c1
  c2 = c2
  Caller = {c1, c2}
  NoResp = NoResp
  BufLines = 1
  MaxData = 1
  MaxTries = 2
  MaxCmd = 3
CHECK_DEADLOCK FALSE
SPECIFICATION ClientFairSpec
INVARIANTS
  RespOfOwner
  NoLineMissed
  OrderlyAnswers
  NoticeAccounted
PROPERTIES
  CallReturns
