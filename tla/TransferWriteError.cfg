SPECIFICATION Spec
CONSTANTS
  Workers = {w1, w2}
  NoWorker = NoWorker
  Total = 2
  SplitAlign = 1
  MinSplit = 1
  RequestSizes = {2}
  MaxChunk = 2
  WriteBuffer = 2
  WriteMayFail = TRUE
  PartFileMayVanish = FALSE
  MaxRuns = 1
  MaxCheckpoints = 0
  MaxCrashes = 0
SYMMETRY WorkerSymmetry
INVARIANTS
  SavedIsDurable
