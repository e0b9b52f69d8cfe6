SPECIFICATION Spec
CONSTANTS
  line = line
  step = step
  other = other
  Resource = {line}
  Interpolated = {line}
  NoFiltering = {}
  Other = other
  Value = {0, 1, 2, 3}
  Delta <- MCLineDelta
  Dual = FALSE
  BatchSize = 10
  MaxEvents = 7
INVARIANT HistoryReproduced
