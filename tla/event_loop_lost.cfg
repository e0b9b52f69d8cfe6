CONSTANTS
  s1 = s1
  s2 = s2
  Program = {1, 2}
  CondWaiters = {1, 2}
  Resource = {1}
  Signal <- MCSignal
  Pattern <- MCPattern
  MaxTime = 2
  MaxEvents = 6
  MaxUses = 2
SPECIFICATION Spec
PROPERTY NoLostWakeUp
