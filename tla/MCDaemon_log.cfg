SPECIFICATION FairSpec
CONSTANTS
  None = None
  PortLimit = 65536
  WordLimit = 1048576
  LongLimit = 16777216
  WordRange = 1048576
  TopProcesses = 2
  Procs = {p1}
  First = p1
  CommandLines <- AllDaemons
  Configs <- Logged
  OtherFiles = {}
  Cuts = {5}
  Readings <- AllGood
PROPERTY
  DaemonsComeUp
\* Once every process has ended and the file is written nothing is left to do.
CHECK_DEADLOCK FALSE
