SPECIFICATION ProgressSpec
CONSTANTS
  Nil = Nil
  Ticker = Ticker
  Handler = Handler
  Saver = Saver
  Nobody = Nobody
  w1 = w1
  w2 = w2
  Items = {"i"}
  NoItem = NoItem
  Callers = {User}
  Commands = {"start", "pause", "delete", "redownload", "startQueue", "stopQueue"}
  MaxConcurrent = 1
  EarlyOutcomes = FALSE
  MaxJobs = 2
  MaxCommands = 2
  MaxCheckpoints = 0
INVARIANTS
  LiveJobsAreMapped
PROPERTIES
  ManagerSettles
  StoppedJobEnds
  SharersGetTheirTurn
  AskedIsAnswered
CHECK_DEADLOCK FALSE
