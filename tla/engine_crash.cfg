SPECIFICATION Spec
CONSTANTS
  NoCtx = NoCtx
  Goroutine = {g1}
  PayloadId = {p1, p2, p3, p4}
  Missing <- MCMissing
  Null <- MCNull
  Node = {1, 2, 3, 4, 5, 6}
  NoNode = 0
  Root = 1
  Shapes <- MCShapes
  Fn <- MCFn
  NoFn <- MCNoFn
  Apply <- MCApply
  MergeValues <- Merged
  KeyNames <- MCKeyNames
  Inputs <- MCInputs
  Encodings = {TRUE, FALSE}
  MaxCalls = 1
INVARIANT NeverCrashes
SYMMETRY PayloadNames
