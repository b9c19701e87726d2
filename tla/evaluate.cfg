SPECIFICATION MCSpec
CONSTANTS
  NExpr = 5
  ShareSize = 2
  MaxBytes = 3
  Costs = {1, 2, 4}
  FanOutLanes = 2
  Permits = 1
  MaxSub = 2
  c1 = c1
  c2 = c2
  Computers = {c1, c2}
  Deadline = 2
  Floor = 2
  PollFirst = 1
  PollMax = 2
  MaxCalls = 1
  e1 = e1
  e2 = e2
  e3 = e3
  e4 = e4
  k1 = k1
  k2 = k2
  Expressions = {e1, e2, e3, e4}
  Slow = {e1}
  Conns = {k1, k2}
  NoConn = NoConn
  Windows = TRUE
INVARIANTS AllTypesOK OwnAnswers SharingPays ResultsAreTrue HardStop LeavesNothing GivesUpRightly
PROPERTY AllEnd
\* An evaluation that has been reported is over, and a released transport.
CHECK_DEADLOCK FALSE
