-------------------------- MODULE AgentSession_proofs --------------------------
(***************************************************************************)
(* Theorems about AgentSession, for any agents and attempts, any policy    *)
(* and budget, and any attempts whose handler may die.                     *)
(***************************************************************************)
EXTENDS AgentSession, FiniteSetTheorems, TLAPS

\* An attempt at one of these points has found its action recorded.
Executing == {"xfind", "xread", "xread_save", "xcas", "launch", "xqueue", "xfail"}
KeyInv == \A r \in Request : pc[r] \in Executing => actions[AgentOf[r]] # NoAction

TypeInv == TypeOK /\ KeyInv

\* Version and count of a session document move together, in the store and in
\* every copy that was read.
CountInv ==
  /\ session.count = session.version
  /\ \A r \in Request : seen[r].count = seen[r].version

\* An active session knows all its reservations: none has a later version, and
\* no more were authorized than it counts.  A stale expiry breaks this, but it
\* also closes the session.
Granted == {e \in ledger : e.decision = "authorized"}
LedgerInv ==
  /\ IsFiniteSet(ledger)
  /\ session.status = "active" =>
       /\ \A e \in ledger : e.after <= session.version
       /\ Cardinality(Granted) <= session.version
  /\ Cardinality(Granted) <= MaxActions
  /\ OneReservationPerVersion

\* An attempt reserves once, and records what it reserved.
Unreserved == {"idle", "get", "get_save", "lookup", "read", "read_save", "cas"}
TrailInv ==
  /\ \A e \in ledger : pc[e.req] \notin Unreserved
  /\ \A e \in ledger : pc[e.req] = "insert" =>
       e.after = seen[e.req].version + 1 /\ e.decision = DecisionOn(e.req)
  /\ AuditTrail

\* The reservation of the dispatch is exclusive, and is never given back.
Dispatched(a) == actions[a] # NoAction /\ actions[a].execution # "not_started"
LaunchInv ==
  /\ \A r \in Request : pc[r] \in {"launch", "xqueue", "xfail"} => Dispatched(AgentOf[r])
  /\ \A a \in Agent : launched[a] > 0 => Dispatched(a)
  /\ \A r \in Request : pc[r] = "launch" => launched[AgentOf[r]] = 0
  /\ \A r, q \in Request :
       pc[r] = "launch" /\ pc[q] = "launch" /\ AgentOf[r] = AgentOf[q] => r = q
  /\ LaunchedOnce

\* Past the guards of execute_action an action is an authorized run_task.
Runnable(a) == actions[a].decision = "authorized" /\ type[a] = "run_task"
GrantInv ==
  /\ \A a \in Agent : actions[a].decision = "authorized" => type[a] \in Allowed
  /\ \A r \in Request : pc[r] \in {"xread", "xread_save", "xcas", "launch"} =>
       Runnable(AgentOf[r])
  /\ \A a \in Agent : launched[a] > 0 => Runnable(a)

IInv == TypeInv /\ CountInv /\ LedgerInv /\ TrailInv /\ LaunchInv /\ GrantInv

-----------------------------------------------------------------------------
(* Types *)

\* What a decision makes of a session is again a session.
LEMMA DecisionType ==
  ASSUME TypeOK, NEW r \in Request
  PROVE  DecisionOn(r) \in Decision /\ StatusAfter(r) \in SessionStatus
<1>1. DecisionOn(r) \in Decision
  BY DEF DecisionOn, Decision
<1>2. seen[r].status \in SessionStatus
  BY DEF TypeOK, Session
<1>3. StatusAfter(r) \in SessionStatus
  BY <1>2 DEF StatusAfter, SessionStatus
<1> QED
  BY <1>1, <1>3

\* A read sends the handler to one of its next points.
LEMMA ReadGoesOn ==
  ASSUME NEW r \in Request, NEW s
  PROVE  /\ AfterRead(r, "get", s) = "lookup"
         /\ AfterRead(r, "read", s) \in {"cas", "conflict"}
         /\ AfterRead(r, "xread", s) \in {"xcas", "conflict"}
BY DEF AfterRead

\* Every step keeps the types, and an attempt past the lookup its action.
LEMMA TypeStep == TypeInv /\ [Next]_vars => TypeInv'
<1> SUFFICES ASSUME TypeInv, [Next]_vars PROVE TypeInv'
  OBVIOUS
<1> USE AgentConstants DEF TypeInv, TypeOK, KeyInv, Executing, PC, Reads, Saves, Goto
<1>1. ASSUME Expire PROVE TypeInv'
  BY <1>1 DEF Expire
<1>2. ASSUME NEW r \in Request, Start(r) PROVE TypeInv'
  BY <1>2 DEF Start
<1>3. ASSUME NEW r \in Request, Resend(r) PROVE TypeInv'
  BY <1>3 DEF Resend
<1>4. ASSUME NEW r \in Request, ReadSession(r) PROVE TypeInv'
  <2>1. PICK from \in Reads :
          /\ Goto(r, from, IF session.status = "active" /\ expired
                           THEN SaveAfter[from] ELSE AfterRead(r, from, session))
          /\ seen' = [seen EXCEPT ![r] = session]
          /\ expected' = IF from = "get" THEN [expected EXCEPT ![r] = session.version] ELSE expected
          /\ UNCHANGED <<type, session, expired, actions, launched, ledger>>
    BY <1>4 DEF ReadSession
  <2>2. session.version \in Nat
    BY DEF Session
  <2>3. pc' \in [Request -> PC] /\ (from # "xread" => pc'[r] \notin Executing)
    BY <2>1, ReadGoesOn DEF SaveAfter
  <2>4. KeyInv'
    BY <2>1, <2>3
  <2> QED
    BY <2>1, <2>2, <2>3, <2>4
<1>5. ASSUME NEW r \in Request, SaveExpired(r) PROVE TypeInv'
  <2> DEFINE s == [seen[r] EXCEPT !.status = "expired"]
  <2>1. PICK from \in Reads :
          /\ Goto(r, SaveAfter[from], AfterRead(r, from, s))
          /\ session' = s
          /\ seen' = [seen EXCEPT ![r] = s]
          /\ UNCHANGED <<type, expired, actions, launched, expected, ledger>>
    BY <1>5 DEF SaveExpired
  <2>2. s \in Session
    BY DEF Session, SessionStatus
  <2>3. pc' \in [Request -> PC] /\ (from # "xread" => pc'[r] \notin Executing)
    BY <2>1, ReadGoesOn
  <2>4. from = "xread" => pc[r] = "xread_save"
    BY <2>1 DEF SaveAfter
  <2>5. KeyInv'
    BY <2>1, <2>3, <2>4
  <2> QED
    BY <2>1, <2>2, <2>3, <2>5
<1>6. ASSUME NEW r \in Request, LookupKey(r) PROVE TypeInv'
  BY <1>6 DEF LookupKey, Answered
<1>7. ASSUME NEW r \in Request, Reserve(r) PROVE TypeInv'
  <2>1. session.version + 1 \in Nat /\ session.count + 1 \in Nat
    BY DEF Session
  <2>2. session' \in Session /\ ledger' \subseteq [req : Request, after : Nat, decision : Decision]
    BY <1>7, <2>1, DecisionType DEF Reserve, Session
  <2> QED
    BY <1>7, <2>2 DEF Reserve
<1>8. ASSUME NEW r \in Request, Record(r) PROVE TypeInv'
  <2> DEFINE act == [decision |-> DecisionOn(r), expected |-> expected[r],
                     after |-> seen[r].version + 1, execution |-> "not_started"]
  <2>1. act \in Action /\ act # NoAction
    BY DecisionType DEF Action, Decision, Session, ExecutionStatus, NoAction
  <2>2. CASE actions' = [actions EXCEPT ![AgentOf[r]] = act] /\ Answered(r)
    BY <1>8, <2>1, <2>2 DEF Record, Answered
  <2>3. CASE pc' = [pc EXCEPT ![r] = "error"] /\ UNCHANGED actions
    BY <1>8, <2>3 DEF Record
  <2> QED
    BY <1>8, <2>2, <2>3 DEF Record
<1>9. ASSUME NEW r \in Request, FindAction(r) PROVE TypeInv'
  BY <1>9 DEF FindAction
<1>10. ASSUME NEW r \in Request, ReserveLaunch(r) \/ SaveDispatch(r) PROVE TypeInv'
  <2>1. PICK e \in ExecutionStatus :
          actions' \in {actions, [actions EXCEPT ![AgentOf[r]].execution = e]}
    BY <1>10 DEF ReserveLaunch, SaveDispatch, ExecutionStatus
  <2>2. actions[AgentOf[r]] \in Action
    BY <1>10 DEF ReserveLaunch, SaveDispatch
  <2>3. [actions[AgentOf[r]] EXCEPT !.execution = e] \in Action \ {NoAction}
    BY <2>2 DEF Action, NoAction, Decision
  <2>4. /\ actions' \in [Agent -> Action \cup {NoAction}]
        /\ \A a \in Agent : actions[a] # NoAction => actions'[a] # NoAction
    BY <2>1, <2>3
  <2> QED
    BY <1>10, <2>4 DEF ReserveLaunch, SaveDispatch
<1>11. ASSUME NEW r \in Request, Launch(r) \/ LaunchRaises(r) PROVE TypeInv'
  BY <1>11 DEF Launch, LaunchRaises
<1>12. ASSUME NEW r \in Request, Die(r) PROVE TypeInv'
  BY <1>12 DEF Die
<1>13. ASSUME UNCHANGED vars PROVE TypeInv'
  BY <1>13 DEF vars
<1> QED
  BY <1>1, <1>2, <1>3, <1>4, <1>5, <1>6, <1>7, <1>8, <1>9, <1>10, <1>11, <1>12, <1>13 DEF Next, Handler

-----------------------------------------------------------------------------
(* Versions and the ledger *)

\* The steps other than a reservation and the save of an expiry.
LEMMA StoreUnchanged ==
  ASSUME [Next]_vars
  PROVE  \/ UNCHANGED <<session, ledger>>
         \/ \E r \in Request : SaveExpired(r) \/ Reserve(r)
BY DEF Next, Handler, Expire, Start, Resend, ReadSession, LookupKey, Record, FindAction,
       ReserveLaunch, Launch, LaunchRaises, SaveDispatch, Die, vars

\* What attempts have read stays as it was until they read again.
LEMMA SeenUnchanged ==
  ASSUME [Next]_vars
  PROVE  UNCHANGED seen \/ \E r \in Request : SaveExpired(r) \/ ReadSession(r)
BY DEF Next, Handler, Expire, Start, Resend, Reserve, LookupKey, Record, FindAction,
       ReserveLaunch, Launch, LaunchRaises, SaveDispatch, Die, vars

\* Every step moves the version and the count of a document together.
LEMMA CountStep == TypeInv /\ CountInv /\ [Next]_vars => CountInv'
<1> SUFFICES ASSUME TypeInv, CountInv, [Next]_vars PROVE CountInv'
  OBVIOUS
<1> USE DEF TypeInv, TypeOK, CountInv
<1>1. ASSUME NEW r \in Request, SaveExpired(r) PROVE CountInv'
  <2> DEFINE s == [seen[r] EXCEPT !.status = "expired"]
  <2>1. session' = s /\ seen' = [seen EXCEPT ![r] = s]
    BY <1>1 DEF SaveExpired
  <2>2. s.count = s.version
    BY DEF Session
  <2> QED
    BY <2>1, <2>2
<1>2. ASSUME NEW r \in Request, Reserve(r) PROVE CountInv'
  BY <1>2 DEF Reserve
<1>3. ASSUME NEW r \in Request, ReadSession(r) PROVE CountInv'
  BY <1>3 DEF ReadSession
<1>4. ASSUME UNCHANGED <<session, seen>> PROVE CountInv'
  BY <1>4
<1> QED
  BY <1>1, <1>2, <1>3, <1>4, StoreUnchanged, SeenUnchanged

\* A reservation the session accepts takes the next version; when it is
\* authorized the budget is not used up.
LEMMA ReserveAccepts ==
  ASSUME TypeInv, CountInv, NEW r \in Request, Reserve(r), ~ UNCHANGED <<session, ledger>>
  PROVE  LET e == [req |-> r, after |-> session.version + 1, decision |-> DecisionOn(r)] IN
         /\ session.status = "active"
         /\ session.version = seen[r].version
         /\ session'.version = session.version + 1
         /\ ledger' = ledger \cup {e}
         /\ e.decision = "authorized" => session.version < MaxActions
BY DEF Reserve, DecisionOn, CountInv

\* A reservation keeps the ledger within the version of an active session.
LEMMA LedgerStep == TypeInv /\ CountInv /\ LedgerInv /\ [Next]_vars => LedgerInv'
<1> SUFFICES ASSUME TypeInv, CountInv, LedgerInv, [Next]_vars PROVE LedgerInv'
  OBVIOUS
<1> USE AgentConstants
<1>1. session.version \in Nat /\ \A e \in ledger : e.after \in Nat
  BY DEF TypeInv, TypeOK, Session
<1>2. IsFiniteSet(Granted) /\ Cardinality(Granted) \in Nat
  BY FS_Subset, FS_CardinalityType DEF LedgerInv, Granted
<1>3. ASSUME UNCHANGED <<session, ledger>> PROVE LedgerInv'
  BY <1>3 DEF LedgerInv, Granted, OneReservationPerVersion
<1>4. ASSUME NEW r \in Request, SaveExpired(r) PROVE LedgerInv'
  <2>1. session'.status = "expired" /\ UNCHANGED ledger
    BY <1>4 DEF SaveExpired, TypeInv, TypeOK, Session
  <2> QED
    BY <2>1 DEF LedgerInv, Granted, OneReservationPerVersion
<1>5. ASSUME NEW r \in Request, Reserve(r), ~ UNCHANGED <<session, ledger>> PROVE LedgerInv'
  <2> DEFINE e == [req |-> r, after |-> session.version + 1, decision |-> DecisionOn(r)]
  <2>1. /\ session.status = "active"
        /\ session'.version = session.version + 1
        /\ ledger' = ledger \cup {e}
        /\ e.decision = "authorized" => session.version < MaxActions
    BY <1>5, ReserveAccepts
  <2>2. \A g \in ledger : g.after <= session.version
    BY <2>1 DEF LedgerInv
  <2>3. IsFiniteSet(ledger')
    BY <2>1, FS_AddElement DEF LedgerInv
  <2>4. /\ Cardinality(Granted') <= session.version + 1
        /\ Cardinality(Granted') <= MaxActions
    <3>1. Cardinality(Granted) <= session.version /\ Cardinality(Granted) <= MaxActions
      BY <2>1 DEF LedgerInv
    <3>2. CASE e.decision = "authorized"
      <4>1. Granted' = Granted \cup {e}
        BY <2>1, <3>2 DEF Granted
      <4>2. Cardinality(Granted') \in {Cardinality(Granted), Cardinality(Granted) + 1}
        BY <4>1, <1>2, FS_AddElement
      <4> QED
        BY <4>2, <3>1, <3>2, <2>1, <1>1, <1>2
    <3>3. CASE e.decision # "authorized"
      <4>1. Granted' = Granted
        BY <2>1, <3>3 DEF Granted
      <4> QED
        BY <4>1, <3>1, <1>1, <1>2
    <3> QED
      BY <3>2, <3>3
  <2>5. OneReservationPerVersion'
    <3>1. \A g \in ledger : g.after # e.after
      BY <2>2, <1>1
    <3> QED
      BY <2>1, <3>1 DEF LedgerInv, OneReservationPerVersion
  <2>6. \A g \in ledger' : g.after <= session'.version
    BY <2>1, <2>2, <1>1
  <2> QED
    BY <2>1, <2>3, <2>4, <2>5, <2>6 DEF LedgerInv
<1> QED
  BY <1>3, <1>4, <1>5, StoreUnchanged

-----------------------------------------------------------------------------
(* Records, dispatches and grants *)

\* A recorded action is never replaced: only its execution status moves, and
\* that never back to not_started.
LEMMA RecordsKept ==
  ASSUME TypeInv, [Next]_vars, NEW a \in Agent, actions[a] # NoAction
  PROVE  /\ actions'[a] # NoAction
         /\ actions'[a].decision = actions[a].decision
         /\ actions'[a].after = actions[a].after
         /\ actions[a].execution # "not_started" => actions'[a].execution # "not_started"
<1> USE AgentConstants
<1>1. actions[a] \in Action
  BY DEF TypeInv, TypeOK
<1>2. ASSUME UNCHANGED actions PROVE actions'[a] = actions[a]
  BY <1>2
<1>3. ASSUME NEW r \in Request, Record(r) PROVE actions'[a] = actions[a]
  BY <1>3 DEF Record, TypeInv, TypeOK
<1>4. ASSUME NEW r \in Request, ReserveLaunch(r) \/ SaveDispatch(r)
      PROVE  \/ actions'[a] = actions[a]
             \/ \E e \in ExecutionStatus \ {"not_started"} :
                  actions'[a] = [actions[a] EXCEPT !.execution = e]
  <2>1. PICK e \in ExecutionStatus \ {"not_started"} :
          actions' \in {actions, [actions EXCEPT ![AgentOf[r]].execution = e]}
    BY <1>4 DEF ReserveLaunch, SaveDispatch, ExecutionStatus
  <2> QED
    BY <2>1 DEF TypeInv, TypeOK
<1>5. \/ actions'[a] = actions[a]
      \/ \E e \in ExecutionStatus \ {"not_started"} :
           actions'[a] = [actions[a] EXCEPT !.execution = e]
  BY <1>2, <1>3, <1>4 DEF Next, Handler, Expire, Start, Resend, ReadSession, SaveExpired,
     LookupKey, Reserve, FindAction, Launch, LaunchRaises, Die, vars
<1> QED
  BY <1>1, <1>5 DEF Action, NoAction, Decision

\* A step that makes no reservation and no record keeps the audit trail.
LEMMA TrailFrame ==
  ASSUME TypeInv, TrailInv, [Next]_vars, NEW r \in Request,
         UNCHANGED <<type, ledger>>,
         \A q \in Request : q # r => pc'[q] = pc[q] /\ seen'[q] = seen[q],
         \/ pc[r] \in Unreserved
         \/ /\ pc'[r] \notin Unreserved \cup {"insert"}
            /\ pc[r] \in {"insert", "dead", "error"} => pc'[r] \in {"dead", "error"}
  PROVE  TrailInv'
<1> USE AgentConstants
<1>1. \A e \in ledger : e.req \in Request
  BY DEF TypeInv, TypeOK
<1>2. \A q \in Request : q # r => DecisionOn(q)' = DecisionOn(q)
  BY DEF DecisionOn
<1>3. \A e \in ledger : pc'[e.req] \notin Unreserved
  BY <1>1 DEF TrailInv
<1>4. \A e \in ledger : pc'[e.req] = "insert" =>
         e.after = seen'[e.req].version + 1 /\ e.decision = DecisionOn(e.req)'
  BY <1>1, <1>2 DEF TrailInv
<1>5. AuditTrail'
  <2> SUFFICES ASSUME NEW e \in ledger, pc'[e.req] \notin {"insert", "dead", "error"}
               PROVE  /\ actions'[AgentOf[e.req]] # NoAction
                      /\ actions'[AgentOf[e.req]].after = e.after
                      /\ actions'[AgentOf[e.req]].decision = e.decision
    BY DEF AuditTrail
  <2>1. pc[e.req] \notin {"insert", "dead", "error"}
    BY <1>1 DEF TrailInv
  <2>2. /\ actions[AgentOf[e.req]] # NoAction
        /\ actions[AgentOf[e.req]].after = e.after
        /\ actions[AgentOf[e.req]].decision = e.decision
    BY <2>1 DEF TrailInv, AuditTrail
  <2>3. AgentOf[e.req] \in Agent
    BY <1>1
  <2> QED
    BY <2>2, <2>3, RecordsKept
<1> QED
  BY <1>3, <1>4, <1>5 DEF TrailInv

\* Every step keeps the audit trail.
LEMMA TrailStep == TypeInv /\ TrailInv /\ [Next]_vars => TrailInv'
<1> SUFFICES ASSUME TypeInv, TrailInv, [Next]_vars PROVE TrailInv'
  OBVIOUS
<1> USE AgentConstants DEF Goto
<1>t. /\ pc \in [Request -> PC] /\ seen \in [Request -> Session]
      /\ \A e \in ledger : e.req \in Request
  BY DEF TypeInv, TypeOK
<1>1. ASSUME UNCHANGED <<type, actions, pc, seen, ledger>> PROVE TrailInv'
  BY <1>1 DEF TrailInv, AuditTrail, DecisionOn
<1>2. ASSUME NEW r \in Request,
             \/ Start(r) \/ Resend(r) \/ LookupKey(r) \/ FindAction(r) \/ ReserveLaunch(r)
             \/ Launch(r) \/ LaunchRaises(r) \/ SaveDispatch(r) \/ Die(r)
      PROVE  TrailInv'
  <2>1. UNCHANGED <<type, ledger, seen>> /\ \A q \in Request : q # r => pc'[q] = pc[q]
    BY <1>2, <1>t DEF Start, Resend, LookupKey, Answered, FindAction, ReserveLaunch, Launch,
       LaunchRaises, SaveDispatch, Die
  <2>2. \/ pc[r] \in Unreserved
        \/ /\ pc'[r] \notin Unreserved \cup {"insert"}
           /\ pc[r] \in {"insert", "dead", "error"} => pc'[r] \in {"dead", "error"}
    BY <1>2, <1>t DEF Start, Resend, LookupKey, Answered, FindAction, ReserveLaunch, Launch,
       LaunchRaises, SaveDispatch, Die, Unreserved
  <2> QED
    BY <2>1, <2>2, TrailFrame
<1>3. ASSUME NEW r \in Request, ReadSession(r) \/ SaveExpired(r) PROVE TrailInv'
  <2>1. /\ UNCHANGED <<type, ledger>>
        /\ \A q \in Request : q # r => pc'[q] = pc[q] /\ seen'[q] = seen[q]
    BY <1>3, <1>t DEF ReadSession, SaveExpired
  <2>2. pc[r] \in Unreserved \/ pc[r] \in {"xread", "xread_save"}
    BY <1>3 DEF ReadSession, SaveExpired, SaveAfter, Reads, Unreserved
  <2>3. pc[r] \in {"xread", "xread_save"} =>
          pc'[r] \in {"xread_save", "xcas", "conflict"}
    BY <1>3, <1>t, ReadGoesOn DEF ReadSession, SaveExpired, SaveAfter, Reads
  <2> QED
    BY <2>1, <2>2, <2>3, TrailFrame DEF Unreserved
<1>4. ASSUME NEW r \in Request, Reserve(r) PROVE TrailInv'
  <2> DEFINE e == [req |-> r, after |-> session.version + 1, decision |-> DecisionOn(r)]
  <2>1. /\ UNCHANGED <<type, actions, seen>>
        /\ pc[r] = "cas"
        /\ \A q \in Request : q # r => pc'[q] = pc[q]
    BY <1>4, <1>t DEF Reserve
  <2>2. CASE session.status = "active" /\ session.version = seen[r].version
    <3>1. ledger' = ledger \cup {e} /\ pc'[r] = "insert"
      BY <1>4, <1>t, <2>2 DEF Reserve
    <3>2. \A g \in ledger : g.req # r
      BY <2>1 DEF TrailInv, Unreserved
    <3>3. \A q \in Request : DecisionOn(q)' = DecisionOn(q)
      BY <2>1 DEF DecisionOn
    <3>4. \A g \in ledger : g.req \in Request /\ pc'[g.req] = pc[g.req]
      BY <1>t, <2>1, <3>2
    <3>5. /\ \A g \in ledger' : pc'[g.req] \notin Unreserved
          /\ AuditTrail'
      BY <2>1, <3>1, <3>4 DEF TrailInv, AuditTrail, Unreserved
    <3>6. \A g \in ledger' : pc'[g.req] = "insert" =>
            g.after = seen'[g.req].version + 1 /\ g.decision = DecisionOn(g.req)'
      BY <2>1, <2>2, <3>1, <3>3, <3>4 DEF TrailInv
    <3> QED
      BY <3>5, <3>6 DEF TrailInv
  <2>3. CASE ~(session.status = "active" /\ session.version = seen[r].version)
    <3>1. UNCHANGED ledger
      BY <1>4, <2>3 DEF Reserve
    <3> QED
      BY <2>1, <3>1, TrailFrame DEF Unreserved
  <2> QED
    BY <2>2, <2>3
<1>5. ASSUME NEW r \in Request, Record(r) PROVE TrailInv'
  <2>1. /\ UNCHANGED <<type, seen, ledger>>
        /\ pc[r] = "insert"
        /\ \A q \in Request : q # r => pc'[q] = pc[q]
    BY <1>5, <1>t DEF Record, Answered
  <2>2. CASE pc'[r] = "error"
    BY <2>1, <2>2, TrailFrame DEF Unreserved
  <2>3. CASE pc'[r] # "error"
    <3>1. /\ pc'[r] \in {"xfind", "done"}
          /\ actions'[AgentOf[r]] = [decision |-> DecisionOn(r), expected |-> expected[r],
                after |-> seen[r].version + 1, execution |-> "not_started"]
          /\ actions'[AgentOf[r]] # NoAction
      <4>1. actions \in [Agent -> Action \cup {NoAction}] /\ DecisionOn(r) \in Decision
        BY DecisionType DEF TypeInv, TypeOK
      <4>2. /\ Answered(r)
            /\ actions' = [actions EXCEPT ![AgentOf[r]] =
                 [decision |-> DecisionOn(r), expected |-> expected[r],
                  after |-> seen[r].version + 1, execution |-> "not_started"]]
        BY <1>5, <1>t, <2>3 DEF Record
      <4> QED
        BY <1>t, <4>1, <4>2 DEF Answered, NoAction, Decision
    <3>2. \A g \in ledger : g.req = r =>
            g.after = seen[r].version + 1 /\ g.decision = DecisionOn(r)
      BY <2>1 DEF TrailInv
    <3>3. \A q \in Request : q # r => DecisionOn(q)' = DecisionOn(q)
      BY <2>1 DEF DecisionOn
    <3>4. \A g \in ledger : pc'[g.req] \notin Unreserved
      BY <1>t, <2>1, <3>1 DEF TrailInv, Unreserved
    <3>5. \A g \in ledger : pc'[g.req] = "insert" =>
            g.after = seen'[g.req].version + 1 /\ g.decision = DecisionOn(g.req)'
      BY <1>t, <2>1, <3>1, <3>3 DEF TrailInv
    <3>6. AuditTrail'
      <4> SUFFICES ASSUME NEW g \in ledger, pc'[g.req] \notin {"insert", "dead", "error"}
                   PROVE  /\ actions'[AgentOf[g.req]] # NoAction
                          /\ actions'[AgentOf[g.req]].after = g.after
                          /\ actions'[AgentOf[g.req]].decision = g.decision
        BY <2>1 DEF AuditTrail
      <4>1. CASE g.req = r
        BY <3>1, <3>2, <4>1
      <4>2. CASE g.req # r
        <5>1. /\ actions[AgentOf[g.req]] # NoAction
              /\ actions[AgentOf[g.req]].after = g.after
              /\ actions[AgentOf[g.req]].decision = g.decision
          BY <1>t, <2>1, <4>2 DEF TrailInv, AuditTrail
        <5>2. AgentOf[g.req] \in Agent
          BY <1>t
        <5> QED
          BY <5>1, <5>2, RecordsKept
      <4> QED
        BY <4>1, <4>2
    <3> QED
      BY <2>1, <3>4, <3>5, <3>6 DEF TrailInv
  <2> QED
    BY <2>2, <2>3
<1> QED
  BY <1>1, <1>2, <1>3, <1>4, <1>5 DEF Next, Handler, Expire, vars

\* What is dispatched stays dispatched.
LEMMA DispatchKept ==
  ASSUME TypeInv, [Next]_vars
  PROVE  \A a \in Agent : Dispatched(a) => Dispatched(a)'
BY RecordsKept DEF Dispatched

\* Only the winner of the dispatch comes to the launch, and it leaves with it.
LEMMA LaunchStep == TypeInv /\ LaunchInv /\ [Next]_vars => LaunchInv'
<1> SUFFICES ASSUME TypeInv, LaunchInv, [Next]_vars PROVE LaunchInv'
  OBVIOUS
<1> USE AgentConstants, DispatchKept DEF Goto
<1> DEFINE Launching == {"launch", "xqueue", "xfail"}
<1>t. pc \in [Request -> PC] /\ launched \in [Agent -> Nat]
  BY DEF TypeInv, TypeOK
<1>1. ASSUME UNCHANGED <<pc, launched>> PROVE LaunchInv'
  BY <1>1 DEF LaunchInv, LaunchedOnce
<1>2. ASSUME NEW r \in Request, UNCHANGED launched, pc'[r] \notin Launching,
             \A q \in Request : q # r => pc'[q] = pc[q]
      PROVE  LaunchInv'
  BY <1>2 DEF LaunchInv, LaunchedOnce
<1>3. ASSUME NEW r \in Request,
             \/ Start(r) \/ Resend(r) \/ LookupKey(r) \/ Reserve(r) \/ Record(r)
             \/ FindAction(r) \/ SaveDispatch(r) \/ Die(r)
      PROVE  LaunchInv'
  BY <1>2, <1>3, <1>t DEF Start, Resend, LookupKey, Answered, Reserve, Record, FindAction,
     SaveDispatch, Die
<1>4. ASSUME NEW r \in Request, ReadSession(r) \/ SaveExpired(r) PROVE LaunchInv'
  <2>1. pc'[r] \notin Launching
    BY <1>4, <1>t, ReadGoesOn DEF ReadSession, SaveExpired, SaveAfter, Reads
  <2> QED
    BY <1>2, <1>4, <1>t, <2>1 DEF ReadSession, SaveExpired
<1>5. ASSUME NEW r \in Request, ReserveLaunch(r) PROVE LaunchInv'
  <2>1. UNCHANGED launched /\ \A q \in Request : q # r => pc'[q] = pc[q]
    BY <1>5, <1>t DEF ReserveLaunch
  <2>2. CASE pc'[r] = "launch"
    <3>1. ~ Dispatched(AgentOf[r])
      BY <1>5, <1>t, <2>2 DEF ReserveLaunch, Dispatched
    <3>2. Dispatched(AgentOf[r])'
      <4>1. /\ actions' = [actions EXCEPT ![AgentOf[r]].execution = "dispatching"]
            /\ actions[AgentOf[r]] \in Action
        BY <1>5, <1>t, <2>2 DEF ReserveLaunch, TypeInv, TypeOK, KeyInv, Executing
      <4> QED
        BY <4>1 DEF Dispatched, Action, NoAction, Decision, TypeInv, TypeOK
    <3>3. launched[AgentOf[r]] = 0
      BY <1>t, <3>1 DEF LaunchInv
    <3>4. \A q \in Request : AgentOf[q] = AgentOf[r] => pc[q] # "launch"
      BY <3>1 DEF LaunchInv
    <3> QED
      BY <2>1, <2>2, <3>2, <3>3, <3>4 DEF LaunchInv, LaunchedOnce
  <2>3. CASE pc'[r] = "done"
    BY <1>2, <2>1, <2>3
  <2> QED
    BY <1>5, <1>t, <2>2, <2>3 DEF ReserveLaunch
<1>6. ASSUME NEW r \in Request, Launch(r) \/ LaunchRaises(r) PROVE LaunchInv'
  <2>1. /\ pc[r] = "launch"
        /\ pc'[r] \in {"xqueue", "xfail"}
        /\ \A q \in Request : q # r => pc'[q] = pc[q]
        /\ launched' \in {launched, [launched EXCEPT ![AgentOf[r]] = @ + 1]}
    BY <1>6, <1>t DEF Launch, LaunchRaises
  <2>2. launched[AgentOf[r]] = 0 /\ Dispatched(AgentOf[r])
    BY <2>1 DEF LaunchInv
  <2>3. \A q \in Request : q # r /\ AgentOf[q] = AgentOf[r] => pc[q] # "launch"
    BY <2>1 DEF LaunchInv
  <2>4. \A a \in Agent : a # AgentOf[r] => launched'[a] = launched[a]
    BY <1>t, <2>1
  <2>5. launched'[AgentOf[r]] \in {0, 1}
    BY <1>t, <2>1, <2>2
  <2>6. /\ \A q \in Request : pc'[q] \in Launching => Dispatched(AgentOf[q])'
        /\ \A a \in Agent : launched'[a] > 0 => Dispatched(a)'
    BY <2>1, <2>2, <2>4 DEF LaunchInv
  <2>7. \A q \in Request : pc'[q] = "launch" => launched'[AgentOf[q]] = 0
    BY <2>1, <2>3, <2>4 DEF LaunchInv
  <2>8. \A p, q \in Request :
          pc'[p] = "launch" /\ pc'[q] = "launch" /\ AgentOf[p] = AgentOf[q] => p = q
    BY <2>1 DEF LaunchInv
  <2>9. LaunchedOnce'
    BY <2>4, <2>5 DEF LaunchInv, LaunchedOnce
  <2> QED
    BY <2>6, <2>7, <2>8, <2>9 DEF LaunchInv
<1> QED
  BY <1>1, <1>3, <1>4, <1>5, <1>6 DEF Next, Handler, Expire, vars

\* A granted run_task stays granted.
LEMMA GrantKept ==
  ASSUME TypeInv, [Next]_vars
  PROVE  type' = type /\ \A a \in Agent : Runnable(a) => Runnable(a)'
<1>1. type' = type
  BY DEF Next, Handler, Expire, Start, Resend, ReadSession, SaveExpired, LookupKey, Reserve,
     Record, FindAction, ReserveLaunch, Launch, LaunchRaises, SaveDispatch, Die, vars
<1>2. \A a \in Agent : actions[a].decision = "authorized" => actions[a] # NoAction
  BY DEF NoAction
<1> QED
  BY <1>1, <1>2, RecordsKept DEF Runnable

\* Nothing is recorded as authorized that the policy does not allow, and only
\* such a run_task passes the guards of execute_action.
LEMMA GrantStep == TypeInv /\ GrantInv /\ [Next]_vars => GrantInv'
<1> SUFFICES ASSUME TypeInv, GrantInv, [Next]_vars PROVE GrantInv'
  OBVIOUS
<1> USE AgentConstants, GrantKept DEF Goto
<1> DEFINE Going == {"xread", "xread_save", "xcas", "launch"}
<1>t. /\ pc \in [Request -> PC] /\ launched \in [Agent -> Nat]
      /\ actions \in [Agent -> Action \cup {NoAction}]
  BY DEF TypeInv, TypeOK
<1>1. \A a \in Agent : actions'[a].decision = "authorized" => type'[a] \in Allowed
  <2>1. \A a \in Agent : actions[a] # NoAction => actions'[a].decision = actions[a].decision
    BY RecordsKept
  <2>2. ASSUME NEW a \in Agent, actions[a] = NoAction, actions'[a] # NoAction,
               actions'[a].decision = "authorized"
        PROVE  type[a] \in Allowed
    <3>1. PICK r \in Request : Record(r)
      <4>1. ASSUME NEW q \in Request, ReserveLaunch(q) \/ SaveDispatch(q), a # AgentOf[q]
            PROVE  actions'[a] = actions[a]
        BY <1>t, <4>1 DEF ReserveLaunch, SaveDispatch
      <4>2. ASSUME NEW q \in Request, ReserveLaunch(q) \/ SaveDispatch(q)
            PROVE  a # AgentOf[q]
        BY <4>2, <2>2 DEF ReserveLaunch, SaveDispatch, TypeInv, KeyInv, Executing
      <4> QED
        BY <2>2, <4>1, <4>2 DEF Next, Handler, Expire, Start, Resend, ReadSession, SaveExpired,
           LookupKey, Reserve, FindAction, Launch, LaunchRaises, Die, vars
    <3>2. /\ a = AgentOf[r]
          /\ actions'[a].decision = DecisionOn(r)
      BY <1>t, <2>2, <3>1 DEF Record
    <3> QED
      BY <2>2, <3>2 DEF DecisionOn
  <2>3. NoAction.decision # "authorized"
    BY DEF NoAction
  <2> QED
    BY <2>1, <2>2, <2>3 DEF GrantInv
<1>2. ASSUME NEW r \in Request, FindAction(r) PROVE pc'[r] \in Going => Runnable(AgentOf[r])
  BY <1>2, <1>t DEF FindAction, Runnable
<1>3. ASSUME NEW r \in Request,
             \/ ReadSession(r) \/ SaveExpired(r) \/ ReserveLaunch(r)
      PROVE  pc'[r] \in Going => Runnable(AgentOf[r])
  <2>1. ReadSession(r) => pc[r] = "xread" \/ pc'[r] \notin Going
    BY <1>t, ReadGoesOn DEF ReadSession, SaveAfter, Reads
  <2>2. SaveExpired(r) => pc[r] = "xread_save" \/ pc'[r] \notin Going
    BY <1>t, ReadGoesOn DEF SaveExpired, SaveAfter, Reads
  <2>3. ReserveLaunch(r) => pc[r] = "xcas"
    BY DEF ReserveLaunch
  <2> QED
    BY <1>3, <2>1, <2>2, <2>3 DEF GrantInv
<1>4. ASSUME NEW r \in Request,
             \/ Start(r) \/ Resend(r) \/ LookupKey(r) \/ Reserve(r) \/ Record(r)
             \/ Launch(r) \/ LaunchRaises(r) \/ SaveDispatch(r) \/ Die(r)
      PROVE  pc'[r] \notin Going
  BY <1>4, <1>t DEF Start, Resend, LookupKey, Answered, Reserve, Record, Launch, LaunchRaises,
     SaveDispatch, Die
<1>5. \/ UNCHANGED pc
      \/ \E r \in Request : /\ pc'[r] \in Going => Runnable(AgentOf[r])
                            /\ \A q \in Request : q # r => pc'[q] = pc[q]
  <2>1. ASSUME NEW r \in Request, Start(r) \/ Resend(r) \/ Handler(r) \/ Die(r)
        PROVE  \A q \in Request : q # r => pc'[q] = pc[q]
    BY <2>1, <1>t DEF Handler, Start, Resend, ReadSession, SaveExpired, LookupKey, Answered,
       Reserve, Record, FindAction, ReserveLaunch, Launch, LaunchRaises, SaveDispatch, Die
  <2>2. ASSUME NEW r \in Request, Start(r) \/ Resend(r) \/ Handler(r) \/ Die(r)
        PROVE  pc'[r] \in Going => Runnable(AgentOf[r])
    BY <2>2, <1>2, <1>3, <1>4 DEF Handler
  <2> QED
    BY <2>1, <2>2 DEF Next, Expire, vars
<1>6. \A r \in Request : pc'[r] \in Going => Runnable(AgentOf[r])'
  BY <1>5 DEF GrantInv
<1>7. \A a \in Agent : launched'[a] > 0 => Runnable(a)'
  <2>1. ASSUME NEW r \in Request, Launch(r) \/ LaunchRaises(r)
        PROVE  /\ Runnable(AgentOf[r])
               /\ \A a \in Agent : a # AgentOf[r] => launched'[a] = launched[a]
    BY <2>1, <1>t DEF Launch, LaunchRaises, GrantInv
  <2>2. \/ UNCHANGED launched
        \/ \E r \in Request : Launch(r) \/ LaunchRaises(r)
    BY DEF Next, Handler, Expire, Start, Resend, ReadSession, SaveExpired, LookupKey, Reserve,
       Record, FindAction, ReserveLaunch, SaveDispatch, Die, vars
  <2> QED
    BY <2>1, <2>2 DEF GrantInv
<1> QED
  BY <1>1, <1>6, <1>7 DEF GrantInv

-----------------------------------------------------------------------------
(* Theorems *)

\* A new session satisfies the invariant.
LEMMA InvInit == Init => IInv
<1> SUFFICES ASSUME Init PROVE IInv
  OBVIOUS
<1> USE AgentConstants DEF Init
<1>1. TypeInv
  BY DEF TypeInv, TypeOK, KeyInv, Executing, PC, Reads, Saves, Session, SessionStatus
<1>2. CountInv
  BY DEF CountInv
<1>3. Granted = {}
  BY DEF Granted
<1>4. LedgerInv
  BY <1>3, FS_EmptySet DEF LedgerInv, OneReservationPerVersion
<1>5. TrailInv
  BY DEF TrailInv, AuditTrail
<1>6. LaunchInv
  BY DEF LaunchInv, LaunchedOnce
<1>7. GrantInv
  BY DEF GrantInv, NoAction
<1> QED
  BY <1>1, <1>2, <1>4, <1>5, <1>6, <1>7 DEF IInv

\* Every step keeps the invariant.
LEMMA InvStep == IInv /\ [Next]_vars => IInv'
BY TypeStep, CountStep, LedgerStep, TrailStep, LaunchStep, GrantStep DEF IInv

\* The inductive invariant holds in every reachable state.
THEOREM Invariance == Spec => []IInv
BY InvInit, InvStep, PTL DEF Spec

\* Every variable keeps its type: a handler is always at a point of its code,
\* and a stale expiry writes back a session document.
THEOREM TypeCorrect == Spec => []TypeOK
<1>1. IInv => TypeOK
  BY DEF IInv, TypeInv
<1> QED
  BY <1>1, Invariance, PTL

\* The session authorizes at most max_actions proposals, however the attempts
\* of any number of agents interleave, expire or die.
THEOREM Budget == Spec => []WithinBudget
<1>1. IInv => WithinBudget
  BY DEF IInv, LedgerInv, Granted, WithinBudget
<1> QED
  BY <1>1, Invariance, PTL

\* Every state version is given to one reservation, even though the save of an
\* expiry can write an older version back.
THEOREM Serialised == Spec => []OneReservationPerVersion
<1>1. IInv => OneReservationPerVersion
  BY DEF IInv, LedgerInv
<1> QED
  BY <1>1, Invariance, PTL

\* Every reservation is in the audit trail with its decision, unless its
\* attempt died or found the key taken.
THEOREM TrailComplete == Spec => []AuditTrail
<1>1. IInv => AuditTrail
  BY DEF IInv, TrailInv
<1> QED
  BY <1>1, Invariance, PTL

\* However often execute_action is called for an action, Prefect is asked at
\* most once.
THEOREM DispatchOnce == Spec => []LaunchedOnce
<1>1. IInv => LaunchedOnce
  BY DEF IInv, LaunchInv
<1> QED
  BY <1>1, Invariance, PTL

\* What is launched is a run_task that the session authorized and its policy
\* allows.
THEOREM DispatchGranted == Spec => []LaunchedByGrant
<1>1. IInv => LaunchedByGrant
  <2> SUFFICES ASSUME IInv, NEW a \in Agent, launched[a] > 0
               PROVE  actions[a].decision = "authorized" /\ type[a] = "run_task"
                      /\ "run_task" \in Allowed
    BY DEF LaunchedByGrant
  <2>1. Runnable(a) /\ (actions[a].decision = "authorized" => type[a] \in Allowed)
    BY DEF IInv, GrantInv
  <2> QED
    BY <2>1 DEF Runnable
<1> QED
  BY <1>1, Invariance, PTL

\* A session that waits for a human, is completed or has expired is never
\* active again and reserves nothing: not even the save of an expiry that was
\* read while it was active reopens it.
THEOREM Closed == Spec => ClosedStaysClosed
<1> DEFINE Kept == session.status # "active" => session'.status # "active" /\ ledger' = ledger
<1>1. TypeOK /\ [Next]_vars => [Kept]_vars
  <2> SUFFICES ASSUME TypeOK, [Next]_vars PROVE Kept
    OBVIOUS
  <2>1. ASSUME UNCHANGED <<session, ledger>> PROVE Kept
    BY <2>1
  <2>2. ASSUME NEW r \in Request, SaveExpired(r) PROVE Kept
    BY <2>2 DEF SaveExpired, TypeOK, Session
  <2>3. ASSUME NEW r \in Request, Reserve(r) PROVE Kept
    BY <2>3 DEF Reserve
  <2> QED
    BY <2>1, <2>2, <2>3, StoreUnchanged
<1> QED
  BY <1>1, TypeCorrect, PTL DEF Spec, ClosedStaysClosed

-----------------------------------------------------------------------------
(* The session is a serial ledger *)

\* The version of an active session is the number of its reservations, and an
\* attempt about to reserve has read an active session.
SizeInv ==
  /\ session.status = "active" => Cardinality(ledger) = session.version
  /\ \A r \in Request : pc[r] = "cas" => seen[r].status = "active"

LEMMA SizeInit == Init => SizeInv
BY FS_EmptySet DEF Init, SizeInv

\* Only a read that finds the session active and at its version goes on to reserve.
LEMMA ReadActive ==
  ASSUME TypeInv, SizeInv, [Next]_vars, NEW r \in Request, pc'[r] = "cas"
  PROVE  seen'[r].status = "active"
<1> USE DEF TypeInv, TypeOK, Goto
<1>1. ASSUME NEW q \in Request, ReadSession(q) PROVE seen'[r].status = "active"
  <2>1. PICK from \in Reads :
          /\ Goto(q, from, IF session.status = "active" /\ expired
                           THEN SaveAfter[from] ELSE AfterRead(q, from, session))
          /\ seen' = [seen EXCEPT ![q] = session]
    BY <1>1 DEF ReadSession
  <2>2. CASE q # r
    BY <2>1, <2>2 DEF SizeInv
  <2>3. CASE q = r
    BY <2>1, <2>3 DEF AfterRead, Reads, SaveAfter
  <2> QED
    BY <2>2, <2>3
<1>2. ASSUME NEW q \in Request, SaveExpired(q) PROVE seen'[r].status = "active"
  <2> DEFINE s == [seen[q] EXCEPT !.status = "expired"]
  <2>1. PICK from \in Reads :
          Goto(q, SaveAfter[from], AfterRead(q, from, s)) /\ seen' = [seen EXCEPT ![q] = s]
    BY <1>2 DEF SaveExpired
  <2>2. s.status = "expired"
    BY DEF Session
  <2>3. CASE q # r
    BY <2>1, <2>3 DEF SizeInv
  <2>4. CASE q = r
    <3>1. pc'[r] = AfterRead(q, from, s)
      BY <2>1, <2>4
    <3> HIDE DEF s
    <3>2. AfterRead(q, from, s) # "cas"
      BY <2>2 DEF AfterRead, Reads
    <3> QED
      BY <3>1, <3>2
  <2> QED
    BY <2>3, <2>4
<1>3. ASSUME pc'[r] = pc[r], UNCHANGED seen PROVE seen'[r].status = "active"
  BY <1>3 DEF SizeInv
<1>4. ASSUME NEW q \in Request,
             Start(q) \/ Resend(q) \/ LookupKey(q) \/ Reserve(q) \/ Record(q) \/ FindAction(q)
             \/ ReserveLaunch(q) \/ Launch(q) \/ LaunchRaises(q) \/ SaveDispatch(q) \/ Die(q)
      PROVE  pc'[r] = pc[r] /\ UNCHANGED seen
  BY <1>4 DEF Start, Resend, LookupKey, Answered, Reserve, Record, FindAction, ReserveLaunch,
              Launch, LaunchRaises, SaveDispatch, Die
<1>5. ASSUME Expire \/ UNCHANGED vars PROVE pc'[r] = pc[r] /\ UNCHANGED seen
  BY <1>5 DEF Expire, vars
<1> QED
  BY <1>1, <1>2, <1>3, <1>4, <1>5 DEF Next, Handler

\* A reservation is a decision of the abstract session.
LEMMA ReserveDecides ==
  ASSUME IInv, SizeInv, NEW r \in Request, Reserve(r), ~ UNCHANGED <<session, ledger>>
  PROVE  Serial!Decide(r) /\ Cardinality(ledger') = session'.version
<1> USE AgentConstants
<1>1. /\ pc[r] = "cas" /\ session.status = "active" /\ session.version = seen[r].version
      /\ session' = [status |-> StatusAfter(r), version |-> session.version + 1,
                     count |-> session.count + 1]
      /\ ledger' = ledger \cup
           {[req |-> r, after |-> session.version + 1, decision |-> DecisionOn(r)]}
      /\ UNCHANGED type
  BY DEF Reserve, Goto
<1>2. /\ Cardinality(ledger) = session.version /\ seen[r].count = Cardinality(ledger)
      /\ seen[r].status = "active"
  BY <1>1 DEF SizeInv, IInv, CountInv
<1>3. \A e \in ledger : e.req # r
  BY <1>1 DEF IInv, TrailInv, Unreserved
<1>4. IsFiniteSet(ledger) /\ session.version \in Nat
  BY DEF IInv, LedgerInv, TypeInv, TypeOK, Session
<1>5. type[AgentOf[r]] \in ActionType
  BY DEF IInv, TypeInv, TypeOK
<1> DEFINE granted == type[AgentOf[r]] \in Allowed /\ Cardinality(ledger) < MaxActions
<1>6. DecisionOn(r) = IF granted THEN "authorized" ELSE "rejected"
  BY <1>2 DEF DecisionOn
<1>7. session'.status = StatusAfter(r)
  BY <1>1
<1>8. (session'.status = "active") = ~ (granted /\ type[AgentOf[r]] # "run_task")
  <2>1. CASE ~granted
    <3>1. DecisionOn(r) = "rejected"
      BY <1>6, <2>1
    <3>2. session'.status = "active"
      BY <1>2, <1>7, <3>1 DEF StatusAfter
    <3> HIDE DEF granted
    <3> QED
      BY <2>1, <3>2, Zenon
  <2>2. CASE granted
    <3>1. DecisionOn(r) = "authorized"
      BY <1>6, <2>2
    <3> HIDE DEF granted
    <3> QED
      BY <1>2, <1>5, <1>7, <2>2, <3>1 DEF StatusAfter, ActionType
  <2> QED
    BY <2>1, <2>2
<1>9. Cardinality(ledger') = session.version + 1
  <2> DEFINE e == [req |-> r, after |-> session.version + 1, decision |-> DecisionOn(r)]
  <2>1. e.req = r /\ ledger' = ledger \cup {e}
    BY <1>1
  <2> HIDE DEF e
  <2>2. e \notin ledger
    BY <1>3, <2>1
  <2> QED
    BY <1>2, <1>4, <2>1, <2>2, FS_AddElement
<1>10. Serial!Decide(r)
  BY <1>1, <1>2, <1>3, <1>6, <1>8, <1>9 DEF Serial!Decide
<1>11. session'.version = session.version + 1
  BY <1>1
<1> QED
  BY <1>9, <1>10, <1>11

\* The agent session implements the serial one: versions, stale saves and retries
\* are invisible in what it has decided, and it decides nothing once it is closed.
THEOREM ImplementsLedger == Spec => IsSerial
<1> DEFINE Inv == IInv /\ SizeInv
           open == session.status = "active"
           charged == Cardinality(ledger)
<1>1. Init => Inv
  BY InvInit, SizeInit
<1>2. Init => Serial!Init
  BY FS_EmptySet DEF Init, Serial!Init
<1>3. Inv /\ [Next]_vars => Inv' /\ [Serial!Next]_<<type, open, charged, ledger>>
  <2> SUFFICES ASSUME Inv, [Next]_vars PROVE SizeInv' /\ [Serial!Next]_<<type, open, charged, ledger>>
    BY InvStep
  <2>1. \A r \in Request : pc'[r] = "cas" => seen'[r].status = "active"
    BY ReadActive DEF IInv
  <2>2. type' = type
    BY DEF Next, Handler, Expire, Start, Resend, ReadSession, SaveExpired, LookupKey, Reserve,
           Record, FindAction, ReserveLaunch, Launch, LaunchRaises, SaveDispatch, Die, vars
  <2>3. CASE UNCHANGED <<session, ledger>>
    BY <2>1, <2>2, <2>3 DEF SizeInv
  <2>4. ASSUME NEW r \in Request, SaveExpired(r)
        PROVE  SizeInv' /\ [Serial!Next]_<<type, open, charged, ledger>>
    <3>1. session'.status = "expired" /\ UNCHANGED ledger
      BY <2>4 DEF SaveExpired, IInv, TypeInv, TypeOK, Session
    <3>2. open => Serial!Close
      BY <2>2, <3>1 DEF Serial!Close
    <3>3. ~open => UNCHANGED <<type, open, charged, ledger>>
      BY <2>2, <3>1
    <3> QED
      BY <2>1, <3>1, <3>2, <3>3 DEF SizeInv, Serial!Next
  <2>5. ASSUME NEW r \in Request, Reserve(r), ~ UNCHANGED <<session, ledger>>
        PROVE  SizeInv' /\ [Serial!Next]_<<type, open, charged, ledger>>
    BY <2>1, <2>5, ReserveDecides DEF SizeInv, Serial!Next
  <2> QED
    BY <2>3, <2>4, <2>5, StoreUnchanged
<1> HIDE DEF Inv
<1> QED
  BY <1>1, <1>2, <1>3, PTL DEF Spec, IsSerial, Serial!Spec
=============================================================================
