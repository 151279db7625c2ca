SPECIFICATION CoreSpec
CONSTANTS
  Nil = Nil
  User = User
  Ticker = Ticker
  Handler = Handler
  Saver = Saver
  Nobody = Nobody
  i1 = i1
  i2 = i2
  Task = Task
  Items = {i1, i2}
  Policies = {"rename", "fail", "overwrite"}
  MaxNumber = 1
  MaxKills = 1
  MaxStarts = 4
  MaxOthers = 1
SYMMETRY CoreSymmetry
INVARIANTS
  CoreTypeOK
  AdmittedWithinLimit
  CapturesOK
  PartsNotShared
  CompletedHasFile
  ItemListOK
  ServicesOK
  AddressesOK
PROPERTIES
  FinishedKept
  NothingUndone
  MomentsFire
CHECK_DEADLOCK FALSE
