SPECIFICATION FairSpec
CONSTANTS
  MaxInputs = 4
  MaxWorkers = 2
INVARIANTS TypeOK OneOwner Quiescent
PROPERTIES Implements Returns
