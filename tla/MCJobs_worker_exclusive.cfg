SPECIFICATION Spec
CONSTANTS
  a = a
  b = b
  c = c
  k1 = k1
  k2 = k2
  Job = {a, b}
  NoJob = NoJob
  Key = {k1, k2}
  KeysOf <- MCKeys
  Workers = 2
  RunsOf <- MCRuns
  Endless = {}
  Requeued = {a}
  Retired = {}
  MaxCrashes = 0
  MaxFaults = 0
INVARIANT WorkerExclusive
