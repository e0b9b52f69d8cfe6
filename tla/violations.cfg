SPECIFICATION MCSpec
CONSTANTS
  forbid = forbid
  forbid2 = forbid2
  maxdur = maxdur
  Forbidden = {forbid, forbid2}
  Maximum = {maxdur}
  MaxDuration <- MCMaxDuration
  Horizon = 3
  MaxRuns = 1
  MaxOutputs = 1
  MaxTimes = 1
  ListKeys = {1, 2, 3, 4, 5, 6, 7, 8}
  FewKeys = {1, 2, 3}
  MaxSecondKey = 4
INVARIANTS
  ForbiddenReports
  MaximumReports
  ListsViolations
  ActiveViolationsReported
  ListIsSound
PROPERTIES
  SafeViolationsAreFinal
  ListImplementsOrderedList
