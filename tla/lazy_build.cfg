SPECIFICATION FairSpec
CONSTANTS
  Goroutine = {g1, g2}
  Union = {u1, u2}
  Plain = Plain
  OptionLists <- MCOptionLists
  MaxParses = 2
INVARIANTS TypeOK SameVerdict TablesComplete
PROPERTY EveryParseEnds
