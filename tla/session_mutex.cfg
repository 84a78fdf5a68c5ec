SPECIFICATION Spec
CONSTANTS
  f1 = f1  f2 = f2  p1 = p1  p2 = p2  s1 = s1  s2 = s2
  Flow = {f1, f2}
  Project = {p1}
  Scope = {s1}
  None = None
  ProjectOf <- MCProject1
  ScopeOf <- MCScope1
  Killable = {}
  Crashable = {}
  MaxStages = 1
  MaxIndex = 3
INVARIANT MutualExclusion
CHECK_DEADLOCK FALSE
