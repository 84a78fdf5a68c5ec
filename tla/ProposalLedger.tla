----------------------------- MODULE ProposalLedger -----------------------------
(***************************************************************************)
(* What an agent session promises its agents: proposals are decided one    *)
(* after the other, each in one step, against the policy and the number of *)
(* proposals charged before it, until the session is closed for good.  The *)
(* n-th one gets state version n, as long as nothing is committed.         *)
(***************************************************************************)
EXTENDS Naturals

CONSTANTS Agent, ActionType, Allowed, MaxActions, Request, AgentOf

VARIABLES
  type,    \* the type of the action each agent proposes
  open,    \* the session takes proposals
  charged, \* the number of proposals decided
  ledger   \* the decisions

Init == type \in [Agent -> ActionType] /\ open = TRUE /\ charged = 0 /\ ledger = {}

\* The session decides on a proposal; one that asks for a human or completes the
\* session closes it.
Decide(r) ==
  LET granted == type[AgentOf[r]] \in Allowed /\ charged < MaxActions IN
  /\ open
  /\ \A e \in ledger : e.req # r
  /\ charged' = charged + 1
  /\ ledger' = ledger \cup
       {[req |-> r, after |-> charged', decision |-> IF granted THEN "authorized" ELSE "rejected"]}
  /\ open' = ~ (granted /\ type[AgentOf[r]] # "run_task")
  /\ UNCHANGED type

\* The session expires.
Close == open /\ open' = FALSE /\ UNCHANGED <<type, charged, ledger>>

Next == Close \/ \E r \in Request : Decide(r)

Spec == Init /\ [][Next]_<<type, open, charged, ledger>>
=============================================================================
