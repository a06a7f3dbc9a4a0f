SPECIFICATION FairSpec
CONSTANTS
  MaxInputs = 4
  MaxWorkers = 2
  MinChunks = {1, 5}
INVARIANTS TypeOK NoOverlap
PROPERTIES Implements Returns
