SPECIFICATION GlobalsSpec
CONSTANTS
  None = None
  Nothing = Nothing
  Done = Done
  NoId = NoId
  NoMap = NoMap
  Goroutine = {g1, g2}
  Schema = {s1, s2}
  Id = {x, y}
  Text = {d}
  Code = {"type", "size"}
  Requests <- MCRequests
  Config <- MCConfig
  EnLocale = {"type", "size"}
  ParseCtxs <- MCCtxs
  Plans <- MCPlans
  MaxCalls = 3
INVARIANTS GlobalsTypeOK IndexSound LastIsFound OneConfiguration NothingRaw ConfigureReturnsPrevious GetterAllOrNothing
PROPERTIES RegistryIsAtomic
SYMMETRY Names
