\* Three appends, two verifications and one record overwritten, all interleaved, under fairness.
CONSTANTS
  r1 = r1
  r2 = r2
  r3 = r3
  v1 = v1
  v2 = v2
  t1 = t1
  t2 = t2
  NoOne = NoOne
  RecordIds = {r1, r2, r3}
  Traces = {t1, t2}
  TraceOf <- MCTraceOf
  Verifiers = {v1, v2}
  Overwrites = 1
SPECIFICATION FairSpec
INVARIANTS
  ChainUnbroken
  ReturnedIsRecorded
PROPERTIES
  AppendsAreAtomic
  CallsReturn
CHECK_DEADLOCK FALSE
