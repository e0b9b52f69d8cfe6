SPECIFICATION MCSpec
CONSTANTS
  Commands <- MCCommands
  Values = {"a", "b"}
  NRes = 2
  BatchSize = 2
  MaxRecords = 3
  MaxReads = 3
INVARIANTS
  EveryRecordOnce
  AccessesLive
  ReadsSettledData
  DifferencesAreRight
  XmlOneAtATime
PROPERTIES
  TolThreadsEnd
  XmlImplementsRecordReader
  XmlReadEnds
