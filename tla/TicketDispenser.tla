---------------------------- MODULE TicketDispenser ----------------------------
(***************************************************************************)
(* What ExecutionCounterRepository promises its callers: every call takes, *)
(* in one step, the next index of its key, and the indexes of a key are    *)
(* 0, 1, 2, ... without repetition.  CalibSession draws its ids this way.  *)
(***************************************************************************)
EXTENDS Naturals

CONSTANTS Caller, Key, KeyOf, None

VARIABLES next, ticket

Init ==
  /\ next = [k \in Key |-> 0]
  /\ ticket = [c \in Caller |-> None]

Draw(c) ==
  /\ ticket[c] = None
  /\ ticket' = [ticket EXCEPT ![c] = next[KeyOf[c]]]
  /\ next' = [next EXCEPT ![KeyOf[c]] = @ + 1]

Next == \E c \in Caller : Draw(c)

Spec == Init /\ [][Next]_<<next, ticket>>
=============================================================================
