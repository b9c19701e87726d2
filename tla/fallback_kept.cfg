SPECIFICATION Spec
CONSTANTS
  r1 = r1
  r2 = r2
  Runs = {r1, r2}
  ProcessOf <- OneProcess
  KeepAlive = {r1}
  Failing = {}
  Newest = 4
  Asked = {2, 3, 4}
  Indexes <- FourReleases
  Split = 5
  Runtimes = {0, 1, 2, 3, 4}
  MayAge = FALSE
  MaxSteps = 3
INVARIANT FallsBackWhenKept
