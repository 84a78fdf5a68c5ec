SPECIFICATION Spec
CONSTANTS
  j1 = j1  j2 = j2  u1 = u1
  Job = {j1, j2}
  User = {u1}
  Recorder = Recorder  First = First  Second = Second
  ApiMayDie = TRUE
INVARIANTS TypeOK OneAutoReview ClaimExclusive
PROPERTY ReviewEnds
CHECK_DEADLOCK FALSE
