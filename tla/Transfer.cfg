SPECIFICATION Spec
CONSTANTS
  Workers = {w1, w2}
  NoWorker = NoWorker
  Total = 4
  SplitAlign = 1
  MinSplit = 2
  RequestSizes = {2, 3}
  MaxChunk = 2
  WriteBuffer = 3
  WriteMayFail = FALSE
  PartFileMayVanish = FALSE
  MaxRuns = 1
  MaxCheckpoints = 0
  MaxCrashes = 0
SYMMETRY WorkerSymmetry
INVARIANTS
  TypeOK
  SegmentsPartitionFile
  ReceivedIsHeld
  WrittenIsOnDisk
  HoldersAreAtWork
  CompleteIsWhole
PROPERTIES
  ProgressIsKept
