CONSTANTS
  s1 = s1
  s2 = s2
  Program = {1, 2}
  CondWaiters = {1}
  Resource = {1, 2}
  Signal <- MCSignal
  Pattern <- MCPattern
  MaxTime = 2
  MaxEvents = 6
  MaxUses = 2
  NoEvent = NoEvent
  Queue = {0, 1, 2, 3}
SPECIFICATION MCSpec
INVARIANTS
  StackIsInOnePlace
  WokenOnTrueCondition
  SignalsAreMomentary
  PeeksNextEvent
PROPERTIES
  NoSignalMissed
  TimeNeverGoesBack
  TriggersInSync
  NoLostWakeUp
