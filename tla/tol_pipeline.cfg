SPECIFICATION FairSpec
CONSTANTS
  line = line
  step = step
  other = other
  Resource <- MCResource
  Interpolated = {line}
  NoFiltering = {}
  Other = other
  Value = {0, 1, 2}
  Delta <- MCStepOnly
  Dual = TRUE
  BatchSize = 2
  MaxEvents = 4
INVARIANTS
  VectorsHaveOneOwner
PROPERTIES
  ListsEverything
  OutputEnds
