SPECIFICATION FairSpec
CONSTANTS
  c0 = c0
  c1 = c1
  MaxSample = 2
  MaxBuffer = 2
  MaxRetryAttempts = 1
  Unserialisable <- FirstSample
  Configs <- TwoConfigs
  FileConfig = c0
  Options <- ServiceStarts
PROPERTIES
  ShutdownTakesEffect
  BufferDrains
  FreshSamplesFlow
  SettingsArrive
