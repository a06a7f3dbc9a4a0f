SPECIFICATION Spec
CONSTANTS
  NoCtx = NoCtx
  Goroutine = {g1, g2}
  PayloadId = {p1, p2, p3, p4, p5}
  Missing <- MCMissing
  Null <- MCNull
  Node = {1, 2, 3, 4, 5, 6}
  NoNode = 0
  Root = 1
  Shapes <- PoolShapes
  Fn <- MCFn
  NoFn <- MCNoFn
  Apply <- MCApply
  MergeValues <- Merged
  KeyNames <- MCKeyNames
  Inputs <- PoolInputs
  Encodings = {FALSE}
  MaxCalls = 2
INVARIANTS TypeOK PoolDiscipline CtxIsolation
SYMMETRY Names
