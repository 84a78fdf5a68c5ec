---------------------------- MODULE ExecutionCounter ----------------------------
(***************************************************************************)
(* ExecutionCounterDocument.get_next_index: concurrent calls that draw the *)
(* indexes of the execution ids of one day from the execution_counter      *)
(* collection.  A caller is one call; a key is (project_id, date,          *)
(* username, chip_id), the collection's unique index.  One step is one     *)
(* round trip to MongoDB.                                                  *)
(***************************************************************************)
EXTENDS Integers

CONSTANTS
  Caller, Key,
  KeyOf,       \* the key a call asks for
  None,        \* a call without an index
  MaxRetries,  \* max_retries
  Mortal       \* calls whose process may die

ASSUME CounterConstants ==
  /\ KeyOf \in [Caller -> Key]
  /\ None \notin Int
  /\ MaxRetries \in Nat /\ MaxRetries > 1

VARIABLES
  counter,     \* index field of each key's document
  pc, attempt, \* a call's next round trip and its turn of the retry loop
  index        \* the index the store gave it

vars == <<counter, pc, attempt, index>>

Absent == -1   \* no document with this key
PC == {"find", "insert", "inc", "reply", "done", "raised", "dead"}

TypeOK ==
  /\ counter \in [Key -> Nat \cup {Absent}]
  /\ pc \in [Caller -> PC]
  /\ attempt \in [Caller -> 0..MaxRetries]
  /\ index \in [Caller -> Nat \cup {None}]

Init ==
  /\ counter = [k \in Key |-> Absent]
  /\ pc = [c \in Caller |-> "find"]
  /\ attempt = [c \in Caller |-> 0]
  /\ index = [c \in Caller |-> None]

-----------------------------------------------------------------------------

\* The next turn of the loop, or RuntimeError after the last one.
Retry(c) ==
  /\ attempt' = [attempt EXCEPT ![c] = @ + 1]
  /\ pc' = [pc EXCEPT ![c] = IF attempt[c] + 1 = MaxRetries THEN "raised" ELSE "find"]

\* find_one: insert a missing document, increment a present one.
Find(c) ==
  /\ pc[c] = "find"
  /\ pc' = [pc EXCEPT ![c] = IF counter[KeyOf[c]] = Absent THEN "insert" ELSE "inc"]
  /\ UNCHANGED <<counter, attempt, index>>

\* Faulty: no unique index, so the second insert succeeds as well.
InsertNotUnique(c) ==
  /\ pc[c] = "insert"
  /\ counter' = [counter EXCEPT ![KeyOf[c]] = 0]
  /\ index' = [index EXCEPT ![c] = 0]
  /\ pc' = [pc EXCEPT ![c] = "reply"]
  /\ UNCHANGED attempt

\* Faulty: the first document starts at 1.
InsertOne(c) ==
  /\ pc[c] = "insert"
  /\ IF counter[KeyOf[c]] = Absent
     THEN /\ counter' = [counter EXCEPT ![KeyOf[c]] = 1]
          /\ index' = [index EXCEPT ![c] = 1]
          /\ pc' = [pc EXCEPT ![c] = "reply"]
          /\ UNCHANGED attempt
     ELSE Retry(c) /\ UNCHANGED <<counter, index>>

\* Faulty: a duplicate key is retried as an insert and not from the find.
InsertAgain(c) ==
  /\ pc[c] = "insert"
  /\ IF counter[KeyOf[c]] = Absent
     THEN /\ counter' = [counter EXCEPT ![KeyOf[c]] = 0]
          /\ index' = [index EXCEPT ![c] = 0]
          /\ pc' = [pc EXCEPT ![c] = "reply"]
          /\ UNCHANGED attempt
     ELSE /\ attempt' = [attempt EXCEPT ![c] = @ + 1]
          /\ pc' = [pc EXCEPT ![c] =
                      IF attempt[c] + 1 = MaxRetries THEN "raised" ELSE "insert"]
          /\ UNCHANGED <<counter, index>>

\* doc.insert(): the unique index lets one of several concurrent inserts
\* through; the others catch DuplicateKeyError, sleep and retry.
Insert(c) ==
  /\ pc[c] = "insert"
  /\ \/ /\ counter[KeyOf[c]] = Absent
        /\ counter' = [counter EXCEPT ![KeyOf[c]] = 0]
        /\ index' = [index EXCEPT ![c] = 0]
        /\ pc' = [pc EXCEPT ![c] = "reply"]
        /\ UNCHANGED attempt
     \/ /\ counter[KeyOf[c]] # Absent
        /\ Retry(c)
        /\ UNCHANGED <<counter, index>>

\* Faulty: the counter goes down.
IncrementDown(c) ==
  /\ pc[c] = "inc"
  /\ counter' = [counter EXCEPT ![KeyOf[c]] = @ - 1]
  /\ index' = [index EXCEPT ![c] = counter[KeyOf[c]] - 1]
  /\ pc' = [pc EXCEPT ![c] = "reply"]
  /\ UNCHANGED attempt

\* find_one_and_update with $inc, returning the document after the update; no
\* document is a retry.
Increment(c) ==
  /\ pc[c] = "inc"
  /\ IF counter[KeyOf[c]] = Absent
     THEN Retry(c) /\ UNCHANGED <<counter, index>>
     ELSE /\ counter' = [counter EXCEPT ![KeyOf[c]] = @ + 1]
          /\ index' = [index EXCEPT ![c] = counter[KeyOf[c]] + 1]
          /\ pc' = [pc EXCEPT ![c] = "reply"]
          /\ UNCHANGED attempt

\* The answer reaches the process and the call returns.
Return(c) ==
  /\ pc[c] = "reply"
  /\ pc' = [pc EXCEPT ![c] = "done"]
  /\ UNCHANGED <<counter, attempt, index>>

\* The worker process is killed between two round trips.
Die(c) ==
  /\ c \in Mortal /\ pc[c] \notin {"done", "raised", "dead"}
  /\ pc' = [pc EXCEPT ![c] = "dead"]
  /\ UNCHANGED <<counter, attempt, index>>

Call(c) == Find(c) \/ Insert(c) \/ Increment(c) \/ Return(c)

Next == \E c \in Caller : Call(c) \/ Die(c)

Spec == Init /\ [][Next]_vars

\* A live process goes on with its call.
FairSpec == Spec /\ \A c \in Caller : WF_vars(Call(c))

-----------------------------------------------------------------------------
(* Properties *)

\* No two calls for a key ever get the same index, however their finds, inserts
\* and increments interleave.
UniqueIndex ==
  \A c, d \in Caller :
    c # d /\ KeyOf[c] = KeyOf[d] /\ index[c] # None => index[c] # index[d]

\* The indexes given for a key are exactly 0 .. index of its document: none is
\* skipped, even by calls that lost the race for the first insert.
NoGap ==
  \A k \in Key : \A i \in 0..counter[k] :
    \E c \in Caller : KeyOf[c] = k /\ index[c] = i

\* "All retries failed" never happens: a counter document is never deleted, so
\* a call loses at most the race for the first insert.
NeverExhausted == \A c \in Caller : pc[c] # "raised" /\ attempt[c] <= 1

\* Every call whose process survives returns an index.
Returns ==
  \A c \in Caller : pc[c] = "find" ~> (pc[c] = "done" /\ index[c] # None) \/ pc[c] = "dead"

\* The retry loop implements the atomic dispenser: the find, the lost inserts
\* and the reply are invisible, the winning insert or the increment is the draw.
Dispenser == INSTANCE TicketDispenser
  WITH next <- [k \in Key |-> counter[k] + 1], ticket <- index
IsDispenser == Dispenser!Spec
=============================================================================
