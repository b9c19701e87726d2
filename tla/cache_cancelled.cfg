CONSTANTS
  t1 = t1
  t2 = t2
  t3 = t3
  p1 = p1
  p2 = p2
  NoFile = NoFile
  NoTask = NoTask
  Tasks = {t1, t2}
  Processes = {p1}
  ProcessOf <- Both
  Inodes = {f1, f2}
  Chunks = 1
  MayCancelDownload = TRUE
SPECIFICATION Spec
INVARIANT ServesWhole
CHECK_DEADLOCK FALSE
