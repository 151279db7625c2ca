SPECIFICATION EngineSpec
CONSTANTS
  Nil = Nil
  w1 = w1
  w2 = w2
  Videos = {w1, w2}
  Order <- PictureThenSubtitles
  Optional = {"subtitles"}
  Limits = {1, 2}
  MaxStops = 2
  Workers = {w1, w2}
  NoWorker = Nil
  Tracks = {1, 2}
  TrackOf <- OneEach
  Keyed = {1, 2}
  MaxRetries = 0
  Policy = "rename"
  Manifests = {"p", "q"}
  MaxName = 1
  MaxRuns = 2
  MaxCrashes = 1
SYMMETRY Interchangeable
INVARIANTS
  EngineTypeOK
  MediaOutputOK
  OneVersionOK
  ConnectionsOK
  SharedLimitsOK
  SignInOK
  StreamPlansOK
  SlotsAreExact
  NoStrayStream
  VideoFilesOK
  VideoChoicesOK
PROPERTIES
  FilesKept
CHECK_DEADLOCK FALSE
