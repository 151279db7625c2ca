SPECIFICATION Spec
CONSTANTS
  Workers = {0}
  Blocks = 2
  Servers <- MCUnsized
  Mirrors = {}
  MaxRetries = 1
  MaxVersions = 2
  MaxFaults = 1
  MaxExpiries = 0
  MaxStarts = 1
INVARIANT FileIsOneAnswer
CHECK_DEADLOCK FALSE
