SPECIFICATION Spec
CONSTANTS
  Items = {i1}
  NoItem = NoItem
  Callers = {c1}
  Ticker = Ticker
  Handler = Handler
  Saver = Saver
  Nobody = Nobody
  Commands = {"start"}
  MaxConcurrent = 1
  EarlyOutcomes = FALSE
  MaxJobs = 1
  MaxCommands = 1
  MaxCheckpoints = 1
INVARIANTS
  CompletionSurvives
