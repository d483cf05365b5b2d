SPECIFICATION FairSpec
CONSTANTS
  None = None
  PortLimit = 65536
  WordLimit = 1048576
  LongLimit = 16777216
  WordRange = 1048576
  TopProcesses = 2
  Procs = {p1, p2}
  First = p1
  CommandLines <- ArgumentsOf
  Configs <- Unlogged
  OtherFiles <- HandMade
  Cuts = {5}
  Readings <- MeasurementsOf
INVARIANTS
  DaemonInv
  PidFileOfTheLiving
  RunsAsWritten
  NeverHalfConfigured
  RefusalsAreExplained
  OnlyReadingsAreRefused
PROPERTY
  StartsUnlessItLogs
\* Once every process has ended and the file is written nothing is left to do.
CHECK_DEADLOCK FALSE
