CONSTANTS
  g1 = g1
  g2 = g2
  spec = spec
  NoSpec = NoSpec
  Groups = {g1, g2}
  Specs = {spec}
  SpecOf <- OnePinned
  Imaged = {g1}
  FanOut = {g2}
  Slow = {}
  NExpr = 2
  MaxParallel = 2
  PullParallel = 1
  Lanes = 2
  BatchSize = 2
  MaxSub = 2
  MaxSteps = 1
SPECIFICATION MCSpec
INVARIANT NothingOutlivesTheRun
PROPERTY FastGoesAhead
