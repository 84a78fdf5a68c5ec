------------------------ MODULE ExecutionCounter_proofs ------------------------
(***************************************************************************)
(* Theorems about ExecutionCounter, for any number of calls and keys, any  *)
(* retry limit above one, and any set of calls that may die.               *)
(***************************************************************************)
EXTENDS ExecutionCounter, TLAPS

\* What the round trips know of the document: an index given lies at or below
\* it, an increment is only tried on a document that exists, and a call that
\* lost a race, so left the first turn of its loop, never sees it missing.
Known(c) ==
  /\ index[c] # None => index[c] \in 0..counter[KeyOf[c]]
  /\ pc[c] \in {"find", "insert", "inc"} => index[c] = None
  /\ pc[c] = "inc" => counter[KeyOf[c]] # Absent
  /\ pc[c] = "insert" => attempt[c] = 0
  /\ attempt[c] > 0 => attempt[c] = 1 /\ counter[KeyOf[c]] # Absent
  /\ pc[c] # "raised"

IInv == TypeOK /\ (\A c \in Caller : Known(c)) /\ UniqueIndex /\ NoGap

\* The draw: a call without an index takes the value the document moves to.
LEMMA DrawKeeps ==
  ASSUME IInv, NEW c \in Caller, index[c] = None,
         counter' = [counter EXCEPT ![KeyOf[c]] = @ + 1],
         index' = [index EXCEPT ![c] = counter[KeyOf[c]] + 1]
  PROVE  /\ counter' \in [Key -> Nat \cup {Absent}]
         /\ index' \in [Caller -> Nat \cup {None}]
         /\ \A d \in Caller : index'[d] # None => index'[d] \in 0..counter'[KeyOf[d]]
         /\ \A k \in Key : counter[k] # Absent => counter'[k] # Absent
         /\ UniqueIndex' /\ NoGap'
<1> USE CounterConstants DEF IInv, TypeOK, Absent
<1>1. KeyOf[c] \in Key /\ counter[KeyOf[c]] \in Nat \cup {-1} /\ index'[c] = counter[KeyOf[c]] + 1
  OBVIOUS
<1>2. counter'[KeyOf[c]] = counter[KeyOf[c]] + 1
  BY <1>1
<1>3. \A d \in Caller : d # c => index'[d] = index[d]
  OBVIOUS
<1>4. \A k \in Key : k # KeyOf[c] => counter'[k] = counter[k]
  OBVIOUS
<1>5. counter' \in [Key -> Nat \cup {Absent}] /\ index' \in [Caller -> Nat \cup {None}]
  BY <1>1
<1>6. ASSUME NEW d \in Caller, index'[d] # None PROVE index'[d] \in 0..counter'[KeyOf[d]]
  BY <1>1, <1>2, <1>3, <1>4, <1>6 DEF Known
<1>7. \A k \in Key : counter[k] # Absent => counter'[k] # Absent
  BY <1>1, <1>2, <1>4
<1>8. UniqueIndex'
  <2>1. ASSUME NEW d \in Caller, d # c, KeyOf[d] = KeyOf[c] PROVE index[d] # counter[KeyOf[c]] + 1
    <3>1. CASE index[d] = None
      BY <1>1, <3>1
    <3>2. CASE index[d] # None
      BY <1>1, <2>1, <3>2 DEF Known
    <3> QED
      BY <3>1, <3>2
  <2> QED
    BY <1>1, <1>3, <2>1 DEF UniqueIndex
<1>9. NoGap'
  <2> SUFFICES ASSUME NEW k \in Key, NEW i \in 0..counter'[k]
               PROVE  \E d \in Caller : KeyOf[d] = k /\ index'[d] = i
    BY DEF NoGap
  <2>1. CASE k = KeyOf[c] /\ i = counter[k] + 1
    BY <1>1, <2>1
  <2>2. CASE ~(k = KeyOf[c] /\ i = counter[k] + 1)
    <3>1. i \in 0..counter[k]
      BY <1>1, <1>2, <1>4, <2>2
    <3>2. PICK d \in Caller : KeyOf[d] = k /\ index[d] = i
      BY <3>1 DEF NoGap
    <3>3. d # c
      BY <3>1, <3>2
    <3> QED
      BY <1>3, <3>2, <3>3
  <2> QED
    BY <2>1, <2>2
<1> QED
  BY <1>5, <1>6, <1>7, <1>8, <1>9

\* The winning insert is a draw from a counter at -1.
LEMMA InsertDraws ==
  ASSUME IInv, NEW c \in Caller, counter[KeyOf[c]] = Absent,
         counter' = [counter EXCEPT ![KeyOf[c]] = 0], index' = [index EXCEPT ![c] = 0]
  PROVE  /\ counter' = [counter EXCEPT ![KeyOf[c]] = @ + 1]
         /\ index' = [index EXCEPT ![c] = counter[KeyOf[c]] + 1]
BY CounterConstants DEF IInv, TypeOK, Absent

LEMMA InvInit == Init => IInv
BY CounterConstants DEF Init, IInv, TypeOK, Known, UniqueIndex, NoGap, Absent, PC

LEMMA InvStep == IInv /\ [Next]_vars => IInv'
<1> SUFFICES ASSUME IInv, [Next]_vars PROVE IInv'
  OBVIOUS
<1> USE CounterConstants
<1>1. ASSUME UNCHANGED <<counter, index>> PROVE UniqueIndex' /\ NoGap'
  BY <1>1 DEF IInv, UniqueIndex, NoGap
<1>2. ASSUME NEW c \in Caller, Find(c) PROVE IInv'
  BY <1>1, <1>2 DEF Find, IInv, TypeOK, PC, Known, Absent
<1>3. ASSUME NEW c \in Caller, Insert(c) PROVE IInv'
  <2>1. CASE counter[KeyOf[c]] = Absent
    <3>1. /\ counter' = [counter EXCEPT ![KeyOf[c]] = @ + 1]
          /\ index' = [index EXCEPT ![c] = counter[KeyOf[c]] + 1]
      BY <1>3, <2>1, InsertDraws DEF Insert
    <3>2. index[c] = None
      BY <1>3 DEF Insert, IInv, Known
    <3>3. /\ counter' \in [Key -> Nat \cup {Absent}]
          /\ index' \in [Caller -> Nat \cup {None}]
          /\ \A d \in Caller : index'[d] # None => index'[d] \in 0..counter'[KeyOf[d]]
          /\ \A k \in Key : counter[k] # Absent => counter'[k] # Absent
          /\ UniqueIndex' /\ NoGap'
      BY <3>1, <3>2, DrawKeeps
    <3>4. pc' = [pc EXCEPT ![c] = "reply"] /\ UNCHANGED attempt
      BY <1>3, <2>1 DEF Insert
    <3>5. \A d \in Caller : d # c => index'[d] = index[d]
      BY <3>1 DEF IInv, TypeOK
    <3>6. TypeOK'
      BY <3>3, <3>4 DEF IInv, TypeOK, PC
    <3>7. \A d \in Caller : Known(d)'
      BY <3>3, <3>4, <3>5, <2>1 DEF IInv, TypeOK, Known
    <3> QED
      BY <3>3, <3>6, <3>7 DEF IInv
  <2>2. CASE counter[KeyOf[c]] # Absent
    BY <1>1, <1>3, <2>2 DEF Insert, Retry, IInv, TypeOK, PC, Known, Absent
  <2> QED
    BY <2>1, <2>2
<1>4. ASSUME NEW c \in Caller, Increment(c) PROVE IInv'
  <2>1. counter[KeyOf[c]] # Absent /\ index[c] = None
    BY <1>4 DEF Increment, IInv, Known
  <2> QED
    BY <1>4, <2>1, DrawKeeps DEF Increment, IInv, TypeOK, PC, Known, Absent
<1>5. ASSUME NEW c \in Caller, Return(c) \/ Die(c) PROVE IInv'
  BY <1>1, <1>5 DEF Return, Die, IInv, TypeOK, PC, Known, Absent
<1>6. ASSUME UNCHANGED vars PROVE IInv'
  BY <1>1, <1>6 DEF vars, IInv, TypeOK, Known
<1> QED
  BY <1>2, <1>3, <1>4, <1>5, <1>6 DEF Next, Call

\* The inductive invariant holds in every reachable state.
THEOREM Invariance == Spec => []IInv
BY InvInit, InvStep, PTL DEF Spec

\* Every variable keeps its type: an index is never negative and no call turns
\* the retry loop more often than max_retries.
THEOREM TypeCorrect == Spec => []TypeOK
<1>1. IInv => TypeOK
  BY DEF IInv
<1> QED
  BY <1>1, Invariance, PTL

\* No two calls for the same project, day, user and chip get the same index.
THEOREM Uniqueness == Spec => []UniqueIndex
<1>1. IInv => UniqueIndex
  BY DEF IInv
<1> QED
  BY <1>1, Invariance, PTL

\* The indexes of a key are given without a gap.
THEOREM Contiguity == Spec => []NoGap
<1>1. IInv => NoGap
  BY DEF IInv
<1> QED
  BY <1>1, Invariance, PTL

\* The retry loop turns at most twice and never raises RuntimeError.
THEOREM RetriesSuffice == Spec => []NeverExhausted
<1>1. IInv => NeverExhausted
  <2> SUFFICES ASSUME IInv, NEW c \in Caller PROVE pc[c] # "raised" /\ attempt[c] <= 1
    BY DEF NeverExhausted
  <2>1. pc[c] # "raised" /\ (attempt[c] > 0 => attempt[c] = 1)
    BY DEF IInv, Known
  <2>2. attempt[c] \in Nat
    BY CounterConstants DEF IInv, TypeOK
  <2> QED
    BY <2>1, <2>2
<1> QED
  BY <1>1, Invariance, PTL

-----------------------------------------------------------------------------

\* get_next_index implements the atomic dispenser that CalibSession draws from.
THEOREM ImplementsDispenser == Spec => IsDispenser
<1> DEFINE Next0 == [k \in Key |-> counter[k] + 1]
<1> USE CounterConstants
<1>1. Init => Dispenser!Init
  BY DEF Init, Dispenser!Init, Absent
<1>2. IInv /\ [Next]_vars => [Dispenser!Next]_<<Next0, index>>
  <2> SUFFICES ASSUME IInv, [Next]_vars PROVE [Dispenser!Next]_<<Next0, index>>
    OBVIOUS
  <2>1. ASSUME UNCHANGED <<counter, index>> PROVE UNCHANGED <<Next0, index>>
    BY <2>1
  <2>2. ASSUME NEW c \in Caller, index[c] = None,
               counter' = [counter EXCEPT ![KeyOf[c]] = @ + 1],
               index' = [index EXCEPT ![c] = counter[KeyOf[c]] + 1]
        PROVE  Dispenser!Draw(c)
    <3>1. Next0' = [Next0 EXCEPT ![KeyOf[c]] = @ + 1]
      BY <2>2 DEF IInv, TypeOK, Absent
    <3> QED
      BY <2>2, <3>1 DEF Dispenser!Draw
  <2>3. ASSUME NEW c \in Caller, Insert(c) PROVE [Dispenser!Next]_<<Next0, index>>
    <3>1. CASE counter[KeyOf[c]] = Absent
      <4>1. index[c] = None
        BY <2>3 DEF Insert, IInv, Known
      <4>2. Dispenser!Draw(c)
        BY <2>2, <2>3, <3>1, <4>1, InsertDraws DEF Insert
      <4> QED
        BY <4>2 DEF Dispenser!Next
    <3>2. CASE counter[KeyOf[c]] # Absent
      BY <2>1, <2>3, <3>2 DEF Insert
    <3> QED
      BY <3>1, <3>2
  <2>4. ASSUME NEW c \in Caller, Increment(c) PROVE [Dispenser!Next]_<<Next0, index>>
    <3>1. counter[KeyOf[c]] # Absent /\ index[c] = None
      BY <2>4 DEF Increment, IInv, Known
    <3>2. Dispenser!Draw(c)
      BY <2>2, <2>4, <3>1 DEF Increment
    <3> QED
      BY <3>2 DEF Dispenser!Next
  <2>5. ASSUME NEW c \in Caller, Find(c) \/ Return(c) \/ Die(c)
        PROVE  UNCHANGED <<Next0, index>>
    BY <2>1, <2>5 DEF Find, Return, Die
  <2>6. ASSUME UNCHANGED vars PROVE UNCHANGED <<Next0, index>>
    BY <2>1, <2>6 DEF vars
  <2> QED
    BY <2>3, <2>4, <2>5, <2>6 DEF Next, Call
<1> QED
  BY <1>1, <1>2, Invariance, PTL DEF Spec, IsDispenser, Dispenser!Spec
=============================================================================
