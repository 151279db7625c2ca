SPECIFICATION Spec
CONSTANTS
  Workers = {w1, w2}
  NoWorker = NoWorker
  Total = 2
  SplitAlign = 1
  MinSplit = 1
  RequestSizes = {2}
  MaxChunk = 2
  WriteBuffer = 2
  WriteMayFail = FALSE
  PartFileMayVanish = FALSE
  MaxRuns = 2
  MaxCheckpoints = 1
  MaxCrashes = 1
SYMMETRY WorkerSymmetry
INVARIANTS
  SavedIsDurable
PROPERTIES
  ImplementsDurableDownload
