SPECIFICATION FairSync
CONSTANTS
  city = city
  blocks = blocks
  a = a
  b = b
  NoSource = NoSource
  Source <- MCSource
  MaxMind <- MCMaxMind
  Directories <- MCDirectories
  Required <- MCMaxMind
  WorkerLimit = 2
  Attempts = 2
  MaxVersion = 2
  MaxSyncs = 2
  Name <- MCName
  Matching <- MCMatching
  Archives <- MCArchives
  MaxEntries = 3
  MaxFiles = 2
  MaxFileBytes = 2
  MaxTotalBytes = 3
CHECK_DEADLOCK FALSE
INVARIANTS
  OldCopyKept
  RollbackIsExact
  SyncIsComplete
  UpdateDirTidy
  ArchivesExtractWhole
PROPERTIES
  PoolHandsOver
  SyncEnds
