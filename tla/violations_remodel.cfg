SPECIFICATION Spec
CONSTANTS
  forbid = forbid
  forbid2 = forbid2
  maxdur = maxdur
  Forbidden = {forbid}
  Maximum = {maxdur}
  MaxDuration <- MCMaxDuration
  Horizon = 2
  MaxRuns = 2
  MaxOutputs = 0
  MaxTimes = 1
INVARIANT EveryRunStartsAfresh
