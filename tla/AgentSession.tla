------------------------------ MODULE AgentSession ------------------------------
(***************************************************************************)
(* One bounded agent session of AgentSessionService: proposals are checked *)
(* against the policy and serialised by the session's state version, then  *)
(* recorded under their idempotency key and dispatched at most once.       *)
(*                                                                         *)
(* A request is one attempt of an agent's run_step: it reads the session,  *)
(* submits the agent's action with that state version, and executes it.    *)
(* An attempt whose answer is late or lost is tried again with the same    *)
(* key while its handler may still be running.  One step is one round trip *)
(* of a handler to MongoDB or Prefect.                                     *)
(***************************************************************************)
EXTENDS Naturals, FiniteSets

CONSTANTS
  Agent,       \* agents; each proposes one action under its idempotency key
  Allowed,     \* policy.allowed_actions
  MaxActions,  \* policy.max_actions
  Request,     \* attempts
  AgentOf,     \* the agent that makes an attempt
  Before,      \* the attempts of the same agent that come before an attempt
  Mortal       \* attempts during which the API process may die

ActionType == {"run_task", "request_human", "complete_session"}

ASSUME AgentConstants ==
  /\ Allowed \subseteq ActionType
  /\ MaxActions \in Nat
  /\ AgentOf \in [Request -> Agent]
  /\ Before \in [Request -> SUBSET Request]
  /\ Mortal \subseteq Request

VARIABLES
  type,        \* the type of the action each agent proposes
  session,     \* the session document
  expired,     \* expires_at has passed
  actions,     \* the action recorded under each agent's key
  launched,    \* Prefect flow runs created for each agent's action
  pc,          \* what an attempt does next
  expected,    \* expected_state_version of its body
  seen,        \* the session document its handler read
  ledger       \* history: the reservations made, never read by the code

vars == <<type, session, expired, actions, launched, pc, expected, seen, ledger>>

SessionStatus == {"active", "waiting_for_human", "completed", "expired"}
Session == [status : SessionStatus, version : Nat, count : Nat]
Decision == {"authorized", "rejected"}
ExecutionStatus == {"not_started", "dispatching", "queued", "failed"}
Action == [decision : Decision, expected : Nat, after : Nat, execution : ExecutionStatus]
NoAction == [decision |-> "none"]

Reads == {"get", "read", "xread"}
Saves == {"get_save", "read_save", "xread_save"}
PC == Reads \cup Saves \cup
  {"idle", "lookup", "cas", "insert", "xfind", "xcas", "launch", "xqueue",
   "xfail", "done", "conflict", "error", "dead"}

TypeOK ==
  /\ type \in [Agent -> ActionType]
  /\ session \in Session
  /\ expired \in BOOLEAN
  /\ actions \in [Agent -> Action \cup {NoAction}]
  /\ launched \in [Agent -> Nat]
  /\ pc \in [Request -> PC]
  /\ expected \in [Request -> Nat]
  /\ seen \in [Request -> Session]
  /\ ledger \subseteq [req : Request, after : Nat, decision : Decision]

Init ==
  /\ type \in [Agent -> ActionType]
  /\ session = [status |-> "active", version |-> 0, count |-> 0]
  /\ expired = FALSE
  /\ actions = [a \in Agent |-> NoAction]
  /\ launched = [a \in Agent |-> 0]
  /\ pc = [r \in Request |-> "idle"]
  /\ expected = [r \in Request |-> 0]
  /\ seen = [r \in Request |-> session]
  /\ ledger = {}

Goto(r, from, to) == pc[r] = from /\ pc' = [pc EXCEPT ![r] = to]

-----------------------------------------------------------------------------
(* The client and the clock *)

\* run_step starts, or starts again because an earlier answer is late or lost;
\* request_human and complete_session take the same calls.
Start(r) ==
  /\ Goto(r, "idle", "get")
  /\ \A q \in Before[r] : pc[q] # "idle"
  /\ UNCHANGED <<type, session, expired, actions, launched, expected, seen, ledger>>

\* The HTTP client sends the body of an earlier attempt once more when the
\* transport fails.
Resend(r) ==
  /\ Goto(r, "idle", "lookup")
  /\ \E q \in Before[r] :
       /\ pc[q] \notin {"idle", "get", "get_save"}
       /\ expected' = [expected EXCEPT ![r] = expected[q]]
  /\ UNCHANGED <<type, session, expired, actions, launched, seen, ledger>>

Expire ==
  /\ ~expired
  /\ expired' = TRUE
  /\ UNCHANGED <<type, session, actions, launched, pc, expected, seen, ledger>>

\* The API process dies while it handles a submit or an execute call.
Die(r) ==
  /\ r \in Mortal
  /\ pc[r] \notin {"idle", "get", "get_save", "done", "conflict", "error", "dead"}
  /\ pc' = [pc EXCEPT ![r] = "dead"]
  /\ UNCHANGED <<type, session, expired, actions, launched, expected, seen, ledger>>

-----------------------------------------------------------------------------
(* Reading the session: _get_session_document in get_session, submit_action  *)
(* and execute_action                                                        *)

\* Where a handler goes with the session document s.
AfterRead(r, from, s) ==
  CASE from = "get"   -> "lookup"
    [] from = "read"  -> IF s.status = "active" /\ s.version = expected[r]
                         THEN "cas" ELSE "conflict"
    [] from = "xread" -> IF s.status = "active" THEN "xcas" ELSE "conflict"

SaveAfter == [get |-> "get_save", read |-> "read_save", xread |-> "xread_save"]

\* The read; an active session past its expiry is marked in a second step.
ReadSession(r) ==
  \E from \in Reads :
    /\ Goto(r, from, IF session.status = "active" /\ expired
                     THEN SaveAfter[from] ELSE AfterRead(r, from, session))
    /\ seen' = [seen EXCEPT ![r] = session]
    /\ expected' = IF from = "get" THEN [expected EXCEPT ![r] = session.version] ELSE expected
    /\ UNCHANGED <<type, session, expired, actions, launched, ledger>>

\* doc.save() writes back the whole document that was read, now expired.
SaveExpired(r) ==
  \E from \in Reads :
    LET s == [seen[r] EXCEPT !.status = "expired"] IN
    /\ Goto(r, SaveAfter[from], AfterRead(r, from, s))
    /\ session' = s
    /\ seen' = [seen EXCEPT ![r] = s]
    /\ UNCHANGED <<type, expired, actions, launched, expected, ledger>>

-----------------------------------------------------------------------------
(* submit_action *)

\* The action is answered; the caller then executes it or not.  run_step stops
\* at a rejected action, the API leaves it to the caller.
Answered(r) == \E next \in {"xfind", "done"} : pc' = [pc EXCEPT ![r] = next]

\* A recorded key answers with its action when the body is the same; the hash
\* of the body covers expected_state_version.
LookupKey(r) ==
  LET a == actions[AgentOf[r]] IN
  /\ pc[r] = "lookup"
  /\ \/ a = NoAction /\ pc' = [pc EXCEPT ![r] = "read"]
     \/ a # NoAction /\ a.expected # expected[r] /\ pc' = [pc EXCEPT ![r] = "conflict"]
     \/ a # NoAction /\ a.expected = expected[r] /\ Answered(r)
  /\ UNCHANGED <<type, session, expired, actions, launched, expected, seen, ledger>>

\* _policy_rejection, on the session document that was read.
DecisionOn(r) ==
  IF type[AgentOf[r]] \in Allowed /\ seen[r].count < MaxActions
  THEN "authorized" ELSE "rejected"

StatusAfter(r) ==
  IF DecisionOn(r) = "rejected" THEN seen[r].status
  ELSE CASE type[AgentOf[r]] = "request_human"    -> "waiting_for_human"
         [] type[AgentOf[r]] = "complete_session" -> "completed"
         [] OTHER                                 -> seen[r].status

\* Faulty: the update filters on the status alone.
ReserveAnyVersion(r) ==
  /\ Goto(r, "cas", IF session.status = "active" THEN "insert" ELSE "conflict")
  /\ IF session.status = "active"
     THEN /\ session' = [status |-> StatusAfter(r), version |-> session.version + 1,
                         count |-> session.count + 1]
          /\ ledger' = ledger \cup
               {[req |-> r, after |-> session.version + 1, decision |-> DecisionOn(r)]}
     ELSE UNCHANGED <<session, ledger>>
  /\ UNCHANGED <<type, expired, actions, launched, expected, seen>>

\* Faulty: the status is not part of the filter.
ReserveAnyStatus(r) ==
  LET ok == session.version = seen[r].version IN
  /\ Goto(r, "cas", IF ok THEN "insert" ELSE "conflict")
  /\ IF ok
     THEN /\ session' = [status |-> StatusAfter(r), version |-> session.version + 1,
                         count |-> session.count + 1]
          /\ ledger' = ledger \cup
               {[req |-> r, after |-> session.version + 1, decision |-> DecisionOn(r)]}
     ELSE UNCHANGED <<session, ledger>>
  /\ UNCHANGED <<type, expired, actions, launched, expected, seen>>

\* Faulty: a rejected proposal is not charged.
ReserveFreeRejection(r) ==
  LET ok == session.status = "active" /\ session.version = seen[r].version IN
  /\ Goto(r, "cas", IF ok THEN "insert" ELSE "conflict")
  /\ IF ok
     THEN /\ session' = [status |-> StatusAfter(r), version |-> session.version + 1,
                         count |-> session.count + IF DecisionOn(r) = "authorized" THEN 1 ELSE 0]
          /\ ledger' = ledger \cup
               {[req |-> r, after |-> session.version + 1, decision |-> DecisionOn(r)]}
     ELSE UNCHANGED <<session, ledger>>
  /\ UNCHANGED <<type, expired, actions, launched, expected, seen>>

\* find_one_and_update: an active session still at the version that was read
\* moves to the next version and is charged, whatever was decided.
Reserve(r) ==
  LET ok == session.status = "active" /\ session.version = seen[r].version IN
  /\ Goto(r, "cas", IF ok THEN "insert" ELSE "conflict")
  /\ IF ok
     THEN /\ session' = [status |-> StatusAfter(r), version |-> session.version + 1,
                         count |-> session.count + 1]
          /\ ledger' = ledger \cup
               {[req |-> r, after |-> session.version + 1, decision |-> DecisionOn(r)]}
     ELSE UNCHANGED <<session, ledger>>
  /\ UNCHANGED <<type, expired, actions, launched, expected, seen>>

\* Faulty: the action is upserted, over the one another attempt recorded.
RecordUpsert(r) ==
  LET a == AgentOf[r] IN
  /\ pc[r] = "insert"
  /\ Answered(r)
  /\ actions' = [actions EXCEPT ![a] =
       [decision |-> DecisionOn(r), expected |-> expected[r],
        after |-> seen[r].version + 1, execution |-> "not_started"]]
  /\ UNCHANGED <<type, session, expired, launched, expected, seen, ledger>>

\* action.insert(): the unique index on the key turns away a second record
\* with a DuplicateKeyError nobody handles.
Record(r) ==
  LET a == AgentOf[r] IN
  /\ pc[r] = "insert"
  /\ \/ /\ actions[a] = NoAction
        /\ actions' = [actions EXCEPT ![a] =
             [decision |-> DecisionOn(r), expected |-> expected[r],
              after |-> seen[r].version + 1, execution |-> "not_started"]]
        /\ Answered(r)
     \/ /\ actions[a] # NoAction
        /\ pc' = [pc EXCEPT ![r] = "error"]
        /\ UNCHANGED actions
  /\ UNCHANGED <<type, session, expired, launched, expected, seen, ledger>>

-----------------------------------------------------------------------------
(* execute_action *)

\* Faulty: what the action may do is left to the client.
FindActionAny(r) ==
  /\ Goto(r, "xfind", IF actions[AgentOf[r]].execution = "not_started" THEN "xread" ELSE "done")
  /\ UNCHANGED <<type, session, expired, actions, launched, expected, seen, ledger>>

\* Only an authorized run_task action that has not started goes on.
FindAction(r) ==
  LET a == actions[AgentOf[r]] IN
  /\ Goto(r, "xfind", IF a.decision # "authorized" THEN "conflict"
                      ELSE IF type[AgentOf[r]] # "run_task" THEN "error"
                      ELSE IF a.execution # "not_started" THEN "done" ELSE "xread")
  /\ UNCHANGED <<type, session, expired, actions, launched, expected, seen, ledger>>

\* Faulty: the state that was read before is trusted.
ReserveLaunchUnchecked(r) ==
  /\ Goto(r, "xcas", "launch")
  /\ actions' = [actions EXCEPT ![AgentOf[r]].execution = "dispatching"]
  /\ UNCHANGED <<type, session, expired, launched, expected, seen, ledger>>

\* find_one_and_update from not_started to dispatching; the session, read one
\* step earlier, is not looked at again.
ReserveLaunch(r) ==
  LET ok == actions[AgentOf[r]].execution = "not_started" IN
  /\ Goto(r, "xcas", IF ok THEN "launch" ELSE "done")
  /\ actions' = IF ok THEN [actions EXCEPT ![AgentOf[r]].execution = "dispatching"] ELSE actions
  /\ UNCHANGED <<type, session, expired, launched, expected, seen, ledger>>

\* The deployment of single_task_executor is run through Prefect.
Launch(r) ==
  /\ Goto(r, "launch", "xqueue")
  /\ launched' = [launched EXCEPT ![AgentOf[r]] = @ + 1]
  /\ UNCHANGED <<type, session, expired, actions, expected, seen, ledger>>

\* Prefect refuses, or its answer is lost after it created the flow run.
LaunchRaises(r) ==
  /\ Goto(r, "launch", "xfail")
  /\ launched' \in {launched, [launched EXCEPT ![AgentOf[r]] = @ + 1]}
  /\ UNCHANGED <<type, session, expired, actions, expected, seen, ledger>>

\* Faulty: the state Prefect reports for the new flow run is saved.
SaveDispatchState(r) ==
  \E end \in {<<"xqueue", "scheduled", "done">>, <<"xfail", "failed", "error">>} :
    /\ Goto(r, end[1], end[3])
    /\ actions' = [actions EXCEPT ![AgentOf[r]].execution = end[2]]
    /\ UNCHANGED <<type, session, expired, launched, expected, seen, ledger>>

\* action.save(), with the operation id or with the error.  What becomes of the
\* flow run, which _refresh_action_execution stores later, is left out.
SaveDispatch(r) ==
  \E end \in {<<"xqueue", "queued", "done">>, <<"xfail", "failed", "error">>} :
    /\ Goto(r, end[1], end[3])
    /\ actions' = [actions EXCEPT ![AgentOf[r]].execution = end[2]]
    /\ UNCHANGED <<type, session, expired, launched, expected, seen, ledger>>

-----------------------------------------------------------------------------
Handler(r) ==
  \/ ReadSession(r) \/ SaveExpired(r) \/ LookupKey(r) \/ Reserve(r) \/ Record(r)
  \/ FindAction(r) \/ ReserveLaunch(r) \/ Launch(r) \/ LaunchRaises(r) \/ SaveDispatch(r)

Next == Expire \/ \E r \in Request : Start(r) \/ Resend(r) \/ Handler(r) \/ Die(r)

Spec == Init /\ [][Next]_vars

-----------------------------------------------------------------------------
(* Properties *)

\* However attempts interleave, expire or die, the session authorizes at most
\* max_actions proposals.
WithinBudget == Cardinality({e \in ledger : e.decision = "authorized"}) <= MaxActions

\* Every state version is given to one reservation: proposals are serialised,
\* even though a stale expiry can write an older version back.
OneReservationPerVersion ==
  \A e, g \in ledger : e # g => e.after # g.after

\* A reservation is in the audit trail under its key, unless its attempt has
\* not come to recording it, died, or ended in an error: it found the key taken
\* (or, once recorded, its launch failed).
AuditTrail ==
  \A e \in ledger :
    \/ pc[e.req] \in {"insert", "dead", "error"}
    \/ /\ actions[AgentOf[e.req]] # NoAction
       /\ actions[AgentOf[e.req]].after = e.after
       /\ actions[AgentOf[e.req]].decision = e.decision

\* The hardware is asked at most once for each action, whatever is retried,
\* and only for an action the session authorized as a run_task.
LaunchedOnce == \A a \in Agent : launched[a] <= 1
LaunchedByGrant ==
  \A a \in Agent : launched[a] > 0 =>
    actions[a].decision = "authorized" /\ type[a] = "run_task" /\ "run_task" \in Allowed

\* Whatever is retried, expires or dies half-way, the reservations are those of a
\* session that decides one proposal after the other, each on the number charged
\* before it, and that stays closed.  Commits, which raise the version too, are
\* left out: with them the n-th proposal need not get version n.
Serial == INSTANCE ProposalLedger
            WITH open <- session.status = "active", charged <- Cardinality(ledger)
IsSerial == Serial!Spec

\* A session that is closed makes no further reservation.
ClosedStaysClosed ==
  [][session.status # "active" => session'.status # "active" /\ ledger' = ledger]_vars
=============================================================================
