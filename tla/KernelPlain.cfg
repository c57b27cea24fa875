SPECIFICATION ScheduledSpec
CONSTANTS
  Cores = {c1, c2}
  c1 = c1
  c2 = c2
  NumProcs = 2
  MaxSlices = 2
  MaxPrints = 0
PROPERTY EndsUnlessItHangs
