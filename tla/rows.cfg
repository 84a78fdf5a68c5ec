SPECIFICATION Spec
CONSTANTS
  w1 = w1  w2 = w2
  r1 = r1  d1 = d1  r2 = r2
  q1 = q1  q2 = q2
  p1 = p1  p2 = p2
  e1 = e1  n1 = n1
  Worker = {w1, w2}
  Row = {r1, d1, r2}
  Qubit = {q1, q2}
  Param = {p1, p2}
  Edit = {e1}
  Note = {n1}
  StageOf <- MCStageOf
  WorkerOf <- MCWorkerOf
  QubitOf <- MCQubitOf
  ParamOf <- MCParamOf
  Mux <- MCMux
  Judged = {r1}
  EditQubit <- MCEditQubit
  EditParam <- MCEditParam
  NoRow = NoRow
  Attempts = 2
  Mortal = {w1}
INVARIANTS TypeOK RejectedNotPublished
PROPERTIES OutcomeKept RowsSettle MergesOwn
CHECK_DEADLOCK FALSE
