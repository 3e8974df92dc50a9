SPECIFICATION Spec
CONSTANTS
  a = a
  b = b
  c = c
  k1 = k1
  k2 = k2
  Job = {a, b}
  NoJob = NoJob
  Key = {k1, k2}
  KeysOf <- MCKeys
  Workers = 2
  RunsOf <- MCRuns
  Endless = {b}
  Requeued = {a}
  Retired = {b}
  MaxCrashes = 1
  MaxFaults = 1
INVARIANTS RunningExclusive OneWorkerPerRow RunningHasOwner HooksInOrder FinishOwed
PROPERTIES EndedIsFinal ImplementsService
