SPECIFICATION FairSpec
CONSTANTS
  j1 = j1
  j2 = j2
  f1 = f1
  f2 = f2
  r1 = r1
  r2 = r2
  None = None
  Jobs = {j1, j2}
  Files = {f1, f2}
  Requests = {r1, r2}
  MaxReruns <- MCMaxReruns
  MayFail = {j1}
  MaxErrors = 1
INVARIANTS MappingIsOfFile StatusIsOfThisJob
PROPERTIES OutcomeIsShown ListCatchesUp
CHECK_DEADLOCK FALSE
