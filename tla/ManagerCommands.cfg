SPECIFICATION Spec
CONSTANTS
  Items = {i1}
  NoItem = NoItem
  Callers = {c1}
  Ticker = Ticker
  Handler = Handler
  Saver = Saver
  Nobody = Nobody
  Commands = {"start", "pause", "delete", "redownload", "startQueue", "stopQueue"}
  MaxConcurrent = 1
  EarlyOutcomes = TRUE
  MaxJobs = 2
  MaxCommands = 2
  MaxCheckpoints = 1
INVARIANTS
  TypeOK
PROPERTIES
  DeletedStaysGone
