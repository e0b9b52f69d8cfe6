SPECIFICATION Spec
CONSTANTS
  Resource = {1, 2}
  Settable = {1}
  Nonconsumable = {2}
  Start = 1
  Horizon = 4
  MaxNodes = 3
  UpdateEvery = 1
INVARIANTS
  ServedNodesAreSafe
  TrailingTimeOrder
  RevivalFindsNode
  EvaluationIsComplete
  VectorsAreFresh
PROPERTIES
  NoChangeInThePast
  EvaluatesBehindLeader
