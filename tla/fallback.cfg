SPECIFICATION Spec
CONSTANTS
  r1 = r1
  r2 = r2
  Runs = {r1, r2}
  ProcessOf <- TwoProcesses
  KeepAlive = {r1}
  Failing = {r1}
  Newest = 5
  Asked = {4, 5}
  Indexes <- FiveReleases
  Split = 4
  Runtimes = {0, 1, 3, 5}
  MayAge = TRUE
  MaxSteps = 2
INVARIANTS FallsBackToNewest RememberedWorks NamesWhatRan HealsAfterUse
PROPERTIES VerdictsKept
