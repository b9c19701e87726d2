SPECIFICATION MCSpec
CONSTANTS
  t1 = t1
  t2 = t2
  t3 = t3
  p1 = p1
  p2 = p2
  NoFile = NoFile
  NoTask = NoTask
  Tasks = {t1, t2, t3}
  Processes = {p1, p2}
  ProcessOf <- TwoAndOne
  Inodes = {f1, f2, f3}
  Chunks = 2
  MayCancelDownload = FALSE
  c1 = c1
  c2 = c2
  c3 = c3
  f1 = f1
  f2 = f2
  f3 = f3
  Calls = {c1, c2}
  Members = {f1, f2}
  CallProcess <- OneAndTwo
  Faults <- SomeFaults
  Clients = {c1}
  MaxLate = 1
  LateBreaks = FALSE
  MaxFaults = 3
INVARIANT NeverHalfExtracted
CHECK_DEADLOCK FALSE
