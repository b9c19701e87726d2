CONSTANTS
  g1 = g1
  g2 = g2
  spec = spec
  NoSpec = NoSpec
  Groups = {g1, g2}
  Specs = {spec}
  SpecOf <- SharedSpec
  Imaged = {g1, g2}
  FanOut = {}
  Slow = {}
  NExpr = 3
  MaxParallel = 1
  PullParallel = 1
  Lanes = 1
  BatchSize = 2
  MaxSub = 1
  MaxSteps = 1
SPECIFICATION FairSpec
INVARIANT PermitsConserved
PROPERTIES ImplementsResultStream EventuallyOver
