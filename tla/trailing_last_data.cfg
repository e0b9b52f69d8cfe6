SPECIFICATION Spec
CONSTANTS
  Resource = {1, 2}
  Settable = {1}
  Nonconsumable = {}
  Start = 1
  Horizon = 3
  MaxNodes = 2
  UpdateEvery = 0
INVARIANT AllDataServed
