SPECIFICATION Spec
CONSTANTS
  t1 = t1  t2 = t2  m1 = m1
  a = a  b = b
  Call = {t1, t2, m1}
  Param = {a, b}
  Inputs <- MCInputs
  Outputs <- MCOutputs
  NoVersion = NoVersion
  NoParam = NoParam
  Mortal = {t2}
INVARIANTS TypeOK Contiguous NewestIsCurrent SerialIsExact LineageComplete
CHECK_DEADLOCK FALSE
