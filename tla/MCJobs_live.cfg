SPECIFICATION ClockSpec
CONSTANTS
  a = a
  b = b
  c = c
  k1 = k1
  k2 = k2
  Job = {a, c}
  NoJob = NoJob
  Key = {k1, k2}
  KeysOf <- MCKeys
  Workers = 1
  RunsOf <- MCOnce
  Endless = {}
  Requeued = {a}
  Retired = {}
  MaxCrashes = 0
  MaxFaults = 1
PROPERTIES RunsEnd QueuedStarts
