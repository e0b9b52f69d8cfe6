SPECIFICATION FairSpec
CONSTANTS
  Resource = {1, 2}
  Settable = {1}
  Nonconsumable = {2}
  Start = 1
  Horizon = 2
  MaxNodes = 3
  UpdateEvery = 0
PROPERTY ThreadsAreJoined
