SPECIFICATION Spec
CONSTANTS
  a1 = a1  a2 = a2
  r1 = r1  r1again = r1again  r2 = r2
  Agent = {a1, a2}
  Request = {r1, r1again, r2}
  AgentOf <- MCAgentOf
  Before <- MCBefore
  Allowed = {"run_task", "complete_session"}
  MaxActions = 2
  Mortal = {r1}
INVARIANTS TypeOK WithinBudget OneReservationPerVersion AuditTrail LaunchedOnce
PROPERTY IsSerial
CHECK_DEADLOCK FALSE
