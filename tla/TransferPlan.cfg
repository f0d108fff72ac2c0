SPECIFICATION PlanSpec
CHECK_DEADLOCK FALSE
CONSTANTS
  top = top
  home = home
  sub = sub
  f1 = f1
  f2 = f2
  f3 = f3
  l1 = l1
  l2 = l2
  p1 = p1
  Dirs = {top, home, sub}
  Files = {f1, f2, f3}
  Links = {l1, l2}
  Specials = {p1}
  Slash = top
  SourceName = 1
  Names = {1, 2}
  Nil = Nil
  MaxLinks = 3
  Sizes = {7, 1}
  Scenarios <- MCScenarios
  Word = 16
  Targets = {1, 2}
  Schemes = {"http", "https"}
  UploadBytes <- MCUploadBytes
  MaxUploads = 1
  Scale = 10
  Limit = 20
  Weights <- MCWeights
  MaxHandles = 1
INVARIANTS ExactScan CapturedAsItWas DescriptorsOwned FairShares MeasuredTruthfully
PROPERTIES PlanReturns
