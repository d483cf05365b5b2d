SPECIFICATION CountedSpec
CONSTANTS
  c0 = c0
  c1 = c1
  MaxSample = 4
  MaxBuffer = 2
  MaxRetryAttempts = 2
  Unserialisable <- FirstSample
  Configs <- OneConfig
  FileConfig = c0
  Options <- AllStarts
INVARIANTS
  TypeOK
  AtMostOneRequestAfterShutdown
  PostsCarryCredentials
  OnceReportsTheTruth
  BufferInOrder
  ShutdownInv
PROPERTY
  PromiseKept
\* A process started with --once stops for good.
CHECK_DEADLOCK FALSE
