------------------------ MODULE ParameterVersions_proofs ------------------------
(***************************************************************************)
(* Theorems about ParameterVersions, for any number of calls, parameters,  *)
(* inputs and outputs, and any set of calls that may die.                  *)
(***************************************************************************)
EXTENDS ParameterVersions, TLAPS

\* What a call knows of the store in the middle of create_version.
Known(c) ==
  /\ pc[c] \in {"retire", "latest", "insert", "generate", "derive"} => param[c] \in Param
  /\ pc[c] = "retire" => found[c] \in versions /\ found[c].param = param[c]
  /\ pc[c] = "insert" =>
       /\ next[c] > 0
       /\ next[c] = 1 \/ \E v \in Of(param[c]) : v.number = next[c] - 1
  /\ pc[c] \in {"generate", "derive"} => entity[c] \in versions

\* At most one live call writes an unraced parameter, and no version of it is
\* valid any more from the moment that call has retired the one it found.
Serial(p) ==
  /\ \A c, d \in Creating(p) \ dead : c = d
  /\ \A c \in Creating(p) \ dead :
       /\ pc[c] = "retire" => Current(p) \subseteq {found[c]}
       /\ pc[c] # "retire" => Current(p) = {}

NumInv == TypeOK /\ (\A c \in Call : Known(c)) /\ Contiguous

CurInv == NewestIsCurrent /\ SerialIsExact /\ \A p \in Param \ raced : Serial(p)

\* What a call has recorded: the inputs it used, and of the version it writes
\* the relations up to the inputs still to be linked.
Recorded(c) ==
  /\ pc[c] # "activity" => c \in activities
  /\ links[c] \subseteq entities[c]
  /\ entities[c] = {w \in versions : <<c, w>> \in used}
  /\ pc[c] \in {"activity", "inputs"} => \A v \in versions : v.by # c
  /\ pc[c] \in {"generate", "derive"} =>
       /\ entity[c].by = c
       /\ {w \in versions : <<entity[c], w>> \in derived} = entities[c] \ links[c]
  /\ pc[c] = "derive" => <<entity[c], c>> \in generated

LinInv == LineageComplete /\ \A c \in Call : Recorded(c)

IInv == NumInv /\ CurInv /\ LinInv

-----------------------------------------------------------------------------
(* The numbering *)

LEMMA NumInit == Init => NumInv
BY VersionConstants DEF Init, NumInv, TypeOK, Known, Contiguous, PC, Of

\* An insert that the unique index admits has the number after the latest.
LEMMA InsertIsNext ==
  ASSUME NumInv, NEW c \in Call, Insert(c)
  PROVE  /\ New(c) \in Version /\ New(c) \notin versions
         /\ \A v \in Of(param[c]) : v.number < next[c]
         /\ \A i \in 1..(next[c] - 1) : \E w \in Of(param[c]) : w.number = i
<1> USE DEF NumInv, TypeOK, Insert
<1>1. param[c] \in Param /\ next[c] \in Nat \ {0}
  BY DEF Known
<1>2. New(c) \in Version /\ New(c) \notin versions
  BY <1>1 DEF New, Version, Of
<1>3. ASSUME NEW v \in Of(param[c]) PROVE v.number < next[c]
  <2>1. v \in versions /\ v.param = param[c] /\ v.number \in Nat \ {0}
    BY DEF Of, Version
  <2>2. CASE next[c] <= v.number
    <3>1. next[c] \in 1..v.number
      BY <1>1, <2>1, <2>2
    <3>2. PICK w \in Of(v.param) : w.number = next[c]
      BY <2>1, <3>1 DEF Contiguous
    <3> QED
      BY <2>1, <3>2
  <2> QED
    BY <1>1, <2>1, <2>2
<1>4. ASSUME NEW i \in 1..(next[c] - 1) PROVE \E w \in Of(param[c]) : w.number = i
  <2>1. next[c] # 1
    BY <1>1, <1>4
  <2>2. PICK v \in Of(param[c]) : v.number = next[c] - 1
    BY <2>1 DEF Known
  <2>3. v \in versions /\ v.param = param[c] /\ i \in 1..v.number
    BY <2>2, <1>4 DEF Of
  <2> QED
    BY <2>3 DEF Contiguous
<1> QED
  BY <1>2, <1>3, <1>4

LEMMA NumStep == NumInv /\ [Next]_vars => NumInv'
<1> SUFFICES ASSUME NumInv, [Next]_vars PROVE NumInv'
  OBVIOUS
<1> USE VersionConstants
<1>1. ASSUME UNCHANGED versions PROVE Contiguous'
  BY <1>1 DEF NumInv, Contiguous, Of
<1>2. ASSUME NEW c \in Call, CreateActivity(c) PROVE NumInv'
  BY <1>1, <1>2 DEF CreateActivity, NumInv, TypeOK, PC, Known, Of
<1>3. ASSUME NEW c \in Call, RecordUsage(c) PROVE NumInv'
  <2>1. Contiguous' /\ \A d \in Call : Known(d)'
    BY <1>1, <1>3 DEF RecordUsage, NumInv, TypeOK, Known, Of
  <2>2. TypeOK'
    BY <1>3 DEF RecordUsage, NumInv, TypeOK, Current
  <2> QED
    BY <2>1, <2>2 DEF NumInv
<1>4. ASSUME NEW c \in Call, InputsDone(c) \/ OutputsDone(c) \/ NextOutput(c) PROVE NumInv'
  BY <1>1, <1>4
  DEF InputsDone, OutputsDone, NextOutput, store, NumInv, TypeOK, PC, Known, Of
<1>5. ASSUME NEW c \in Call, FindCurrent(c) PROVE NumInv'
  <2>1. UNCHANGED <<store, reads, entities, next, entity, links, dead>>
    BY <1>5 DEF FindCurrent
  <2>2. PICK p \in writes[c] :
          /\ param' = [param EXCEPT ![c] = p]
          /\ writes' = [writes EXCEPT ![c] = @ \ {p}]
          /\ raced' = IF Creating(p) \subseteq dead THEN raced ELSE raced \cup {p}
          /\ \/ pc' = [pc EXCEPT ![c] = "latest"] /\ UNCHANGED found
             \/ /\ \E v \in Current(p) : found' = [found EXCEPT ![c] = v]
                /\ pc' = [pc EXCEPT ![c] = "retire"]
    BY <1>5 DEF FindCurrent
  <2>3. p \in Param
    BY <2>2 DEF NumInv, TypeOK
  <2>4. TypeOK'
    BY <2>1, <2>2, <2>3 DEF store, NumInv, TypeOK, PC, Current
  <2>5. \A d \in Call : Known(d)'
    BY <2>1, <2>2, <2>3 DEF store, NumInv, TypeOK, Known, Of, Current
  <2> QED
    BY <1>1, <2>1, <2>4, <2>5 DEF store, NumInv
<1>6. ASSUME NEW c \in Call, Retire(c) PROVE NumInv'
  BY <1>1, <1>6 DEF Retire, NumInv, TypeOK, PC, Known, Of
<1>7. ASSUME NEW c \in Call, ReadLatest(c) PROVE NumInv'
  <2>1. UNCHANGED <<store, reads, writes, entities, param, found, entity, links, dead, raced>>
        /\ pc' = [pc EXCEPT ![c] = "insert"] /\ pc[c] = "latest"
    BY <1>7 DEF ReadLatest
  <2>2. PICK n \in Nat \ {0} :
          /\ next' = [next EXCEPT ![c] = n]
          /\ n = 1 \/ \E v \in Of(param[c]) : v.number = n - 1
    <3>1. CASE Of(param[c]) = {} /\ next' = [next EXCEPT ![c] = 1]
      <4>1. 1 \in Nat \ {0}
        OBVIOUS
      <4> QED
        BY <3>1, <4>1
    <3>2. CASE next' \in {[next EXCEPT ![c] = v.number + 1] : v \in Latest(param[c])}
      <4>1. PICK v \in Latest(param[c]) : next' = [next EXCEPT ![c] = v.number + 1]
        BY <3>2
      <4>2. v \in Of(param[c]) /\ v.number \in Nat
        BY DEF Latest, Of, NumInv, TypeOK, Version
      <4>3. v.number + 1 \in Nat \ {0} /\ v.number = (v.number + 1) - 1
        BY <4>2
      <4> QED
        BY <4>1, <4>2, <4>3
    <3> QED
      BY <1>7, <3>1, <3>2 DEF ReadLatest
  <2>3. TypeOK'
    BY <2>1, <2>2 DEF store, NumInv, TypeOK, PC
  <2>4. \A d \in Call : Known(d)'
    BY <2>1, <2>2 DEF store, NumInv, TypeOK, Known, Of
  <2> QED
    BY <1>1, <2>1, <2>3, <2>4 DEF store, NumInv
<1>8. ASSUME NEW c \in Call, Insert(c) PROVE NumInv'
  <2>1. /\ New(c) \in Version /\ New(c) \notin versions
        /\ \A v \in Of(param[c]) : v.number < next[c]
        /\ \A i \in 1..(next[c] - 1) : \E w \in Of(param[c]) : w.number = i
    BY <1>8, InsertIsNext
  <2>2. versions' = versions \cup {New(c)} /\ New(c).param = param[c]
        /\ New(c).number = next[c] /\ next[c] \in Nat
    BY <1>8 DEF Insert, New, NumInv, TypeOK
  <2>3. TypeOK'
    BY <1>8, <2>1 DEF Insert, NumInv, TypeOK, PC
  <2>4. \A d \in Call : Known(d)'
    BY <1>8 DEF Insert, NumInv, TypeOK, Known, Of
  <2>5. ASSUME NEW v \in versions', NEW w \in versions', v.param = w.param, v.number = w.number
        PROVE  v = w
    BY <2>1, <2>2, <2>5 DEF NumInv, Contiguous, Of, TypeOK, Version
  <2>6. ASSUME NEW v \in versions', NEW i \in 1..v.number
        PROVE  \E w \in versions' : w.param = v.param /\ w.number = i
    <3>1. CASE v \in versions
      BY <2>2, <3>1 DEF NumInv, Contiguous, Of
    <3>2. CASE v = New(c) /\ i = next[c]
      BY <2>2, <3>2
    <3>3. CASE v = New(c) /\ i # next[c]
      BY <2>1, <2>2, <2>6, <3>3 DEF Of
    <3> QED
      BY <2>2, <3>1, <3>2, <3>3
  <2> QED
    BY <2>3, <2>4, <2>5, <2>6 DEF NumInv, Contiguous, Of
<1>9. ASSUME NEW c \in Call, Duplicate(c) PROVE NumInv'
  BY <1>1, <1>9 DEF Duplicate, store, NumInv, TypeOK, PC, Known, Of
<1>10. ASSUME NEW c \in Call, Generate(c) PROVE NumInv'
  BY <1>1, <1>10 DEF Generate, NumInv, TypeOK, PC, Known, Of
<1>11. ASSUME NEW c \in Call, Derive(c) PROVE NumInv'
  <2>1. Contiguous' /\ \A d \in Call : Known(d)'
    BY <1>1, <1>11 DEF Derive, NumInv, TypeOK, Known, Of
  <2>2. TypeOK'
    BY <1>11 DEF Derive, NumInv, TypeOK, Known
  <2> QED
    BY <2>1, <2>2 DEF NumInv
<1>12. ASSUME NEW c \in Call, Die(c) PROVE NumInv'
  BY <1>1, <1>12 DEF Die, store, NumInv, TypeOK, Known, Of
<1>13. ASSUME UNCHANGED vars PROVE NumInv'
  BY <1>1, <1>13 DEF vars, store, NumInv, TypeOK, Known, Of
<1> QED
  BY <1>2, <1>3, <1>4, <1>5, <1>6, <1>7, <1>8, <1>9, <1>10, <1>11, <1>12, <1>13
  DEF Next, Record, CreateVersion

-----------------------------------------------------------------------------
(* The current version *)

\* A step in which no call enters or leaves create_version, or moves in it.
LEMMA QuietKeepsCurrent ==
  ASSUME CurInv, UNCHANGED <<versions, current, param, found, next, raced>>, dead \subseteq dead',
         \A d \in Call : \/ pc'[d] = pc[d]
                         \/ /\ pc[d] \notin {"retire", "latest", "insert"}
                            /\ pc'[d] \notin {"retire", "latest", "insert"}
  PROVE  CurInv'
<1>1. \A p : Of(p)' = Of(p) /\ Current(p)' = Current(p) /\ Latest(p)' = Latest(p)
             /\ Creating(p)' = Creating(p)
  BY DEF Of, Current, Latest, Creating
<1>2. \A p : \A c \in Creating(p) : pc'[c] = pc[c]
  BY DEF Creating
<1>3. NewestIsCurrent'
  BY <1>1, <1>2 DEF CurInv, NewestIsCurrent
<1>4. SerialIsExact'
  BY <1>1 DEF CurInv, SerialIsExact
<1>5. \A p \in Param \ raced' : Serial(p)'
  BY <1>1, <1>2 DEF CurInv, Serial
<1> QED
  BY <1>3, <1>4, <1>5 DEF CurInv

LEMMA CurInit == Init => CurInv
BY DEF Init, CurInv, NewestIsCurrent, SerialIsExact, Serial, Latest, Of, Current, Creating

LEMMA CurStep == NumInv /\ CurInv /\ [Next]_vars => CurInv'
<1> SUFFICES ASSUME NumInv, CurInv, [Next]_vars PROVE CurInv'
  OBVIOUS
<1> USE VersionConstants
<1>1. ASSUME NEW c \in Call,
             \/ CreateActivity(c) \/ RecordUsage(c) \/ InputsDone(c) \/ OutputsDone(c)
             \/ Generate(c) \/ Derive(c) \/ NextOutput(c) \/ Die(c)
      PROVE  CurInv'
  <2>1. UNCHANGED <<versions, current, param, found, next, raced>> /\ dead \subseteq dead'
    BY <1>1 DEF CreateActivity, RecordUsage, InputsDone, OutputsDone, Generate, Derive,
                NextOutput, Die, store
  <2>2. \A d \in Call : \/ pc'[d] = pc[d]
                        \/ /\ pc[d] \notin {"retire", "latest", "insert"}
                           /\ pc'[d] \notin {"retire", "latest", "insert"}
    BY <1>1 DEF CreateActivity, RecordUsage, InputsDone, OutputsDone, Generate, Derive,
                NextOutput, Die, store, NumInv, TypeOK
  <2> QED
    BY <2>1, <2>2, QuietKeepsCurrent
<1>2. ASSUME NEW c \in Call, c \notin dead, FindCurrent(c) PROVE CurInv'
  <2>1. /\ UNCHANGED <<versions, current, next, dead>>
        /\ pc[c] = "outputs" /\ raced \subseteq raced'
    BY <1>2 DEF FindCurrent, store
  <2>2. PICK p \in Param :
          /\ param' = [param EXCEPT ![c] = p]
          /\ raced' = IF Creating(p) \subseteq dead THEN raced ELSE raced \cup {p}
          /\ \/ pc' = [pc EXCEPT ![c] = "latest"] /\ UNCHANGED found /\ Current(p) = {}
             \/ /\ \E v \in Current(p) : found' = [found EXCEPT ![c] = v]
                /\ pc' = [pc EXCEPT ![c] = "retire"]
    <3>1. PICK p \in writes[c] :
            /\ param' = [param EXCEPT ![c] = p]
            /\ raced' = IF Creating(p) \subseteq dead THEN raced ELSE raced \cup {p}
            /\ \/ pc' = [pc EXCEPT ![c] = "latest"] /\ UNCHANGED found /\ Current(p) = {}
               \/ /\ \E v \in Current(p) : found' = [found EXCEPT ![c] = v]
                  /\ pc' = [pc EXCEPT ![c] = "retire"]
      BY <1>2 DEF FindCurrent
    <3>2. p \in Param
      BY DEF NumInv, TypeOK
    <3> QED
      BY <3>1, <3>2
  <2>3. \A q : Of(q)' = Of(q) /\ Current(q)' = Current(q) /\ Latest(q)' = Latest(q)
    BY <2>1 DEF Of, Current, Latest
  <2>4. /\ \A q : q # p => Creating(q)' = Creating(q)
        /\ Creating(p)' = Creating(p) \cup {c}
        /\ \A q : c \notin Creating(q)
    BY <2>1, <2>2 DEF Creating, NumInv, TypeOK
  <2>5. \A d \in Call \ {c} : pc'[d] = pc[d] /\ found'[d] = found[d] /\ param'[d] = param[d]
    BY <2>2 DEF NumInv, TypeOK
  <2>6. NewestIsCurrent'
    <3>1. \A q \in Param : Creating(q) \subseteq Creating(q)'
      BY <2>4
    <3>2. \A q \in Param : \A d \in Creating(q) : pc'[d] = pc[d] /\ next'[d] = next[d]
      BY <2>1, <2>4, <2>5 DEF Creating
    <3> QED
      BY <2>1, <2>3, <3>1, <3>2 DEF CurInv, NewestIsCurrent
  <2>7. SerialIsExact'
    BY <2>1, <2>3 DEF CurInv, SerialIsExact
  <2>8. ASSUME NEW q \in Param, q \notin raced' PROVE Serial(q)'
    <3>1. CASE q # p
      <4>1. Creating(q)' = Creating(q) /\ Current(q)' = Current(q) /\ q \notin raced
            /\ \A d \in Creating(q) : pc'[d] = pc[d] /\ found'[d] = found[d]
        BY <2>1, <2>3, <2>4, <2>5, <2>8, <3>1 DEF Creating
      <4> QED
        BY <2>1, <4>1 DEF CurInv, Serial
    <3>2. CASE q = p
      <4>1. Creating(p)' \ dead' = {c} /\ p \notin raced
        BY <1>2, <2>1, <2>2, <2>4, <2>8, <3>2
      <4>2. \A v, w \in Current(p) : v = w
        BY <4>1 DEF CurInv, SerialIsExact
      <4>3. pc'[c] = "retire" => Current(p) \subseteq {found'[c]}
        BY <2>2, <4>2 DEF NumInv, TypeOK
      <4>4. pc'[c] # "retire" => Current(p) = {}
        BY <2>2 DEF NumInv, TypeOK
      <4> QED
        BY <2>3, <3>2, <4>1, <4>3, <4>4 DEF Serial
    <3> QED
      BY <3>1, <3>2
  <2> QED
    BY <2>6, <2>7, <2>8 DEF CurInv
<1>3. ASSUME NEW c \in Call, c \notin dead, Retire(c) PROVE CurInv'
  <2>1. /\ UNCHANGED <<versions, param, found, next, dead, raced>>
        /\ pc[c] = "retire" /\ current' = current \ {found[c]}
        /\ pc' = [pc EXCEPT ![c] = "latest"]
        /\ found[c].param = param[c]
    BY <1>3 DEF Retire, NumInv, Known
  <2>2. \A p : Of(p)' = Of(p) /\ Latest(p)' = Latest(p) /\ Creating(p)' = Creating(p)
    BY <2>1 DEF Of, Latest, Creating, NumInv, TypeOK
  <2>3. \A d \in Call : d # c => pc'[d] = pc[d]
    BY <2>1 DEF NumInv, TypeOK
  <2>4. pc'[c] = "latest" /\ c \in Creating(param[c]) /\ \A p : c \in Creating(p) => p = param[c]
    BY <2>1 DEF Creating, NumInv, TypeOK
  <2>5. \A p : Current(p)' = Current(p) \ {found[c]} /\ (p # param[c] => Current(p)' = Current(p))
    BY <2>1 DEF Current
  <2>6. ASSUME NEW p \in Param, NEW v \in Latest(p), v \notin current'
        PROVE  \E d \in Creating(p) : pc'[d] = "latest" \/ (pc'[d] = "insert" /\ next[d] = v.number + 1)
    <3>1. CASE v \in current
      <4>1. v = found[c] /\ v.param = p
        BY <2>1, <2>6, <3>1 DEF Latest, Of
      <4> QED
        BY <2>1, <2>4, <4>1
    <3>2. CASE v \notin current
      <4>1. PICK d \in Creating(p) : pc[d] = "latest" \/ (pc[d] = "insert" /\ next[d] = v.number + 1)
        BY <3>2 DEF CurInv, NewestIsCurrent
      <4>2. d # c /\ d \in Call
        BY <2>1, <4>1 DEF Creating
      <4> QED
        BY <2>3, <4>1, <4>2
    <3> QED
      BY <3>1, <3>2
  <2>7. NewestIsCurrent'
    BY <2>1, <2>2, <2>6 DEF NewestIsCurrent
  <2>8. SerialIsExact'
    BY <2>1, <2>2, <2>5 DEF CurInv, SerialIsExact
  <2>9. ASSUME NEW p \in Param, p \notin raced' PROVE Serial(p)'
    <3>1. Serial(p)
      BY <2>1, <2>9 DEF CurInv
    <3>2. CASE p # param[c]
      <4>1. \A d \in Creating(p) : pc'[d] = pc[d]
        BY <2>3, <2>4, <3>2 DEF Creating
      <4> QED
        BY <2>1, <2>2, <2>5, <3>1, <3>2, <4>1 DEF Serial
    <3>3. CASE p = param[c]
      <4>1. Creating(p) \ dead = {c}
        BY <1>3, <2>4, <3>1, <3>3 DEF Serial
      <4>2. Current(p)' = {}
        BY <2>1, <2>5, <3>1, <4>1 DEF Serial
      <4> QED
        BY <2>1, <2>2, <2>4, <4>1, <4>2 DEF Serial
    <3> QED
      BY <3>2, <3>3
  <2> QED
    BY <2>7, <2>8, <2>9 DEF CurInv
<1>4. ASSUME NEW c \in Call, ReadLatest(c) PROVE CurInv'
  <2>1. /\ UNCHANGED <<versions, current, param, found, dead, raced>>
        /\ pc[c] = "latest" /\ pc' = [pc EXCEPT ![c] = "insert"]
    BY <1>4 DEF ReadLatest, store
  <2>2. \A p : Of(p)' = Of(p) /\ Latest(p)' = Latest(p) /\ Creating(p)' = Creating(p)
              /\ Current(p)' = Current(p)
    BY <2>1 DEF Of, Latest, Current, Creating, NumInv, TypeOK
  <2>3. \A d \in Call : d # c => pc'[d] = pc[d] /\ next'[d] = next[d]
    BY <1>4, <2>1 DEF ReadLatest, NumInv, TypeOK
  <2>4. pc'[c] = "insert" /\ \A p : c \in Creating(p) => p = param[c]
    BY <2>1 DEF Creating, NumInv, TypeOK
  <2>5. ASSUME NEW v \in Latest(param[c]) PROVE next'[c] = v.number + 1
    <3>1. Of(param[c]) # {}
      BY DEF Latest
    <3>2. PICK w \in Latest(param[c]) : next' = [next EXCEPT ![c] = w.number + 1]
      BY <1>4, <3>1 DEF ReadLatest
    <3>3. v \in versions /\ w \in versions /\ v.number <= w.number /\ w.number <= v.number
      BY DEF Latest, Of
    <3>4. v.number \in Nat /\ w.number \in Nat
      BY <3>3 DEF NumInv, TypeOK, Version
    <3>5. v.number = w.number
      BY <3>3, <3>4
    <3> QED
      BY <3>2, <3>5 DEF NumInv, TypeOK
  <2>6. NewestIsCurrent'
    <3> SUFFICES ASSUME NEW p \in Param, NEW v \in Latest(p) \ current
                 PROVE  \E d \in Creating(p) : \/ pc'[d] = "latest"
                                               \/ pc'[d] = "insert" /\ next'[d] = v.number + 1
      BY <2>1, <2>2 DEF NewestIsCurrent
    <3>1. PICK d \in Creating(p) : pc[d] = "latest" \/ (pc[d] = "insert" /\ next[d] = v.number + 1)
      BY DEF CurInv, NewestIsCurrent
    <3>2. CASE d = c
      BY <2>4, <2>5, <3>1, <3>2
    <3>3. CASE d # c
      BY <2>3, <3>1, <3>3 DEF Creating
    <3> QED
      BY <3>2, <3>3
  <2>7. SerialIsExact'
    BY <2>1, <2>2 DEF CurInv, SerialIsExact
  <2>8. \A p \in Param \ raced' : Serial(p)'
    <3>1. \A d \in Call : pc'[d] = "retire" <=> pc[d] = "retire"
      BY <2>1 DEF NumInv, TypeOK
    <3> QED
      BY <2>1, <2>2, <3>1 DEF CurInv, Serial, Creating
  <2> QED
    BY <2>6, <2>7, <2>8 DEF CurInv
<1>5. ASSUME NEW c \in Call, c \notin dead, Insert(c) PROVE CurInv'
  <2>1. /\ UNCHANGED <<param, found, next, dead, raced>> /\ pc[c] = "insert"
        /\ versions' = versions \cup {New(c)} /\ current' = current \cup {New(c)}
        /\ pc' = [pc EXCEPT ![c] = "generate"]
        /\ New(c).param = param[c] /\ New(c).number = next[c] /\ param[c] \in Param
        /\ next[c] \in Nat
    BY <1>5 DEF Insert, New, NumInv, TypeOK, Known
  <2>2. New(c) \notin versions /\ \A v \in Of(param[c]) : v.number < next[c]
    BY <1>5, InsertIsNext
  <2>3. \A p : p # param[c] => /\ Of(p)' = Of(p) /\ Latest(p)' = Latest(p)
                               /\ Current(p)' = Current(p) /\ Creating(p)' = Creating(p)
    BY <2>1 DEF Of, Latest, Current, Creating, NumInv, TypeOK
  <2>4. Latest(param[c])' = {New(c)}
    <3>1. Of(param[c])' = Of(param[c]) \cup {New(c)}
      BY <2>1 DEF Of
    <3>2. \A v \in Of(param[c]) : v.number \in Nat /\ ~(next[c] <= v.number)
      BY <2>1, <2>2 DEF Of, NumInv, TypeOK, Version
    <3>3. \A w \in Of(param[c])' : w.number <= New(c).number
      BY <2>1, <3>1, <3>2
    <3>4. Latest(param[c])' = {v \in Of(param[c])' : \A w \in Of(param[c])' : w.number <= v.number}
      BY <2>1 DEF Latest
    <3>5. \A v \in Of(param[c]) : v \notin Latest(param[c])'
      BY <2>1, <3>1, <3>2, <3>4
    <3> QED
      BY <3>1, <3>3, <3>4, <3>5
  <2>5. Creating(param[c])' = Creating(param[c]) \ {c} /\ c \in Creating(param[c])
    BY <2>1 DEF Creating, NumInv, TypeOK
  <2>6. \A d \in Call : d # c => pc'[d] = pc[d]
    BY <2>1 DEF NumInv, TypeOK
  <2>7. \A p : p # param[c] => c \notin Creating(p)
    BY DEF Creating
  <2>8. NewestIsCurrent'
    <3> SUFFICES ASSUME NEW p \in Param, NEW v \in Latest(p)' \ current'
                 PROVE  \E d \in Creating(p)' : \/ pc'[d] = "latest"
                                                \/ pc'[d] = "insert" /\ next'[d] = v.number + 1
      BY DEF NewestIsCurrent
    <3>1. p # param[c]
      BY <2>1, <2>4
    <3>2. v \in Latest(p) \ current
      BY <2>1, <2>3, <3>1
    <3>3. PICK d \in Creating(p) : pc[d] = "latest" \/ (pc[d] = "insert" /\ next[d] = v.number + 1)
      BY <3>2 DEF CurInv, NewestIsCurrent
    <3>4. d # c /\ d \in Call
      BY <2>7, <3>1, <3>3 DEF Creating
    <3> QED
      BY <2>1, <2>3, <2>6, <3>1, <3>3, <3>4
  <2>9. ASSUME param[c] \notin raced PROVE Creating(param[c]) \ dead = {c} /\ Current(param[c]) = {}
    BY <1>5, <2>1, <2>5, <2>9 DEF CurInv, Serial
  <2>10. SerialIsExact'
    <3>1. ASSUME NEW p \in Param, p \notin raced, p = param[c], NEW v \in Current(p)'
          PROVE  Latest(p)' = {v}
      <4>1. Current(p)' = Current(p) \cup {New(c)}
        BY <2>1, <3>1 DEF Current
      <4>2. v = New(c)
        BY <2>9, <3>1, <4>1
      <4> QED
        BY <2>1, <2>4, <3>1, <4>2
    <3>2. ASSUME NEW p \in Param, p \notin raced, p # param[c], NEW v \in Current(p)'
          PROVE  Latest(p)' = {v}
      BY <2>3, <3>2 DEF CurInv, SerialIsExact
    <3> QED
      BY <2>1, <3>1, <3>2 DEF SerialIsExact
  <2>11. ASSUME NEW p \in Param, p \notin raced' PROVE Serial(p)'
    <3>1. CASE p = param[c]
      <4>1. Creating(p)' \ dead' = {}
        BY <2>1, <2>5, <2>9, <2>11, <3>1
      <4> QED
        BY <4>1 DEF Serial
    <3>2. CASE p # param[c]
      <4>1. Serial(p) /\ Creating(p)' = Creating(p) /\ Current(p)' = Current(p)
        BY <2>1, <2>3, <2>11, <3>2 DEF CurInv
      <4>2. \A d \in Creating(p) : pc'[d] = pc[d]
        BY <2>6, <2>7, <3>2 DEF Creating
      <4> QED
        BY <2>1, <4>1, <4>2 DEF Serial
    <3> QED
      BY <3>1, <3>2
  <2> QED
    BY <2>8, <2>10, <2>11 DEF CurInv
<1>6. ASSUME NEW c \in Call, Duplicate(c) PROVE CurInv'
  <2>1. /\ UNCHANGED <<versions, current, param, found, next, dead, raced>>
        /\ pc[c] = "insert" /\ pc' = [pc EXCEPT ![c] = "lost"]
    BY <1>6 DEF Duplicate, store
  <2>2. \A p : Of(p)' = Of(p) /\ Latest(p)' = Latest(p) /\ Current(p)' = Current(p)
              /\ Creating(p)' = Creating(p) \ {c}
    BY <2>1 DEF Of, Latest, Current, Creating, NumInv, TypeOK
  <2>3. \A d \in Call : d # c => pc'[d] = pc[d]
    BY <2>1 DEF NumInv, TypeOK
  <2>4. NewestIsCurrent'
    <3> SUFFICES ASSUME NEW p \in Param, NEW v \in Latest(p) \ current
                 PROVE  \E d \in Creating(p) \ {c} :
                          \/ pc'[d] = "latest"
                          \/ pc'[d] = "insert" /\ next[d] = v.number + 1
      BY <2>1, <2>2 DEF NewestIsCurrent
    <3>1. PICK d \in Creating(p) : pc[d] = "latest" \/ (pc[d] = "insert" /\ next[d] = v.number + 1)
      BY DEF CurInv, NewestIsCurrent
    <3>2. d # c
      <4>1. PICK w \in Of(param[c]) : w.number = next[c]
        BY <1>6 DEF Duplicate
      <4>2. d = c => w.number <= v.number /\ next[c] = v.number + 1
        BY <2>1, <3>1, <4>1 DEF Creating, Latest
      <4>3. v.number \in Nat
        BY DEF Latest, Of, NumInv, TypeOK, Version
      <4> QED
        BY <4>1, <4>2, <4>3
    <3> QED
      BY <2>3, <3>1, <3>2 DEF Creating
  <2>5. SerialIsExact'
    BY <2>1, <2>2 DEF CurInv, SerialIsExact
  <2>6. \A p \in Param \ raced' : Serial(p)'
    BY <2>1, <2>2, <2>3 DEF CurInv, Serial, Creating
  <2> QED
    BY <2>4, <2>5, <2>6 DEF CurInv
<1>7. ASSUME UNCHANGED vars PROVE CurInv'
  BY <1>7, QuietKeepsCurrent DEF vars, store
<1> QED
  BY <1>1, <1>2, <1>3, <1>4, <1>5, <1>6, <1>7 DEF Next, Record, CreateVersion
-----------------------------------------------------------------------------
(* The lineage *)

LEMMA LinInit == Init => LinInv
BY VersionConstants DEF Init, LinInv, LineageComplete, Recorded

\* A step of a call that stores no version and no relation, and keeps what it
\* has recorded true.
LEMMA QuietKeepsLineage ==
  ASSUME NumInv, LinInv, NEW c \in Call, Recorded(c)',
         UNCHANGED <<versions, activities, used, generated, derived, entities, entity, links>>,
         \A d \in Call \ {c} : pc'[d] = pc[d],
         pc[c] \in {"generate", "derive"} <=> pc'[c] \in {"generate", "derive"}
  PROVE  LinInv'
<1>1. \A d \in Call \ {c} : Recorded(d)'
  BY DEF LinInv, Recorded
<1>2. \A v \in versions : v.by \in Call
  BY DEF NumInv, TypeOK, Version
<1>3. LineageComplete'
  BY <1>2 DEF LinInv, LineageComplete
<1> QED
  BY <1>1, <1>3 DEF LinInv

LEMMA LinStep == NumInv /\ LinInv /\ [Next]_vars => LinInv'
<1> SUFFICES ASSUME NumInv, LinInv, [Next]_vars PROVE LinInv'
  OBVIOUS
<1> USE VersionConstants
<1>0. /\ \A v \in versions : v.by \in Call
      /\ used \subseteq Call \X versions /\ derived \subseteq versions \X versions
      /\ generated \subseteq versions \X Call /\ pc \in [Call -> PC]
      /\ entity \in [Call -> versions \cup {NoVersion}]
      /\ entities \in [Call -> SUBSET versions] /\ links \in [Call -> SUBSET versions]
  BY DEF NumInv, TypeOK, Version
<1>1. ASSUME NEW c \in Call, CreateActivity(c) PROVE LinInv'
  <2>1. \A d \in Call : Recorded(d)'
    BY <1>0, <1>1 DEF CreateActivity, LinInv, Recorded
  <2>2. LineageComplete'
    BY <1>0, <1>1 DEF CreateActivity, LinInv, LineageComplete
  <2> QED
    BY <2>1, <2>2 DEF LinInv
<1>2. ASSUME NEW c \in Call, RecordUsage(c) PROVE LinInv'
  <2>1. UNCHANGED <<versions, activities, generated, derived, pc, entity, links>> /\ pc[c] = "inputs"
    BY <1>2 DEF RecordUsage
  <2>2. CASE UNCHANGED <<used, entities>>
    BY <1>0, <2>1, <2>2 DEF LinInv, LineageComplete, Recorded
  <2>3. ASSUME NEW v \in versions, used' = used \cup {<<c, v>>},
               entities' = [entities EXCEPT ![c] = @ \cup {v}]
        PROVE  LinInv'
    <3>0. /\ entities'[c] = entities[c] \cup {v} /\ links[c] \subseteq entities[c]
          /\ entities[c] = {w \in versions : <<c, w>> \in used}
      BY <1>0, <2>3 DEF LinInv, Recorded
    <3>1. entities'[c] = {w \in versions : <<c, w>> \in used'} /\ links[c] \subseteq entities'[c]
      BY <2>3, <3>0
    <3>2. Recorded(c)'
      BY <2>1, <3>1 DEF LinInv, Recorded
    <3>3. \A d \in Call \ {c} : Recorded(d)'
      BY <1>0, <2>1, <2>3 DEF LinInv, Recorded
    <3>4. \A w \in versions : w.by # c
      BY <2>1 DEF LinInv, Recorded
    <3>5. LineageComplete'
      BY <1>0, <2>1, <2>3, <3>4 DEF LinInv, LineageComplete
    <3> QED
      BY <3>2, <3>3, <3>5 DEF LinInv
  <2>4. UNCHANGED <<used, entities>> \/ \E v \in versions : /\ used' = used \cup {<<c, v>>}
                                   /\ entities' = [entities EXCEPT ![c] = @ \cup {v}]
    BY <1>2 DEF RecordUsage, Current, NumInv, TypeOK
  <2> QED
    BY <2>2, <2>3, <2>4
<1>3. ASSUME NEW c \in Call,
             \/ InputsDone(c) \/ OutputsDone(c) \/ FindCurrent(c) \/ Retire(c)
             \/ ReadLatest(c) \/ Duplicate(c)
      PROVE  LinInv'
  <2>1. UNCHANGED <<versions, activities, used, generated, derived, entities, entity, links>>
    BY <1>3 DEF InputsDone, OutputsDone, FindCurrent, Retire, ReadLatest, Duplicate, store
  <2>2. /\ \A d \in Call \ {c} : pc'[d] = pc[d]
        /\ pc[c] \in {"inputs", "outputs", "retire", "latest", "insert"}
        /\ pc'[c] \in {"outputs", "done", "retire", "latest", "insert", "lost"}
    BY <1>0, <1>3 DEF InputsDone, OutputsDone, FindCurrent, Retire, ReadLatest, Duplicate
  <2>3. Recorded(c)'
    BY <2>1, <2>2 DEF LinInv, Recorded
  <2> QED
    BY <2>1, <2>2, <2>3, QuietKeepsLineage
<1>4. ASSUME NEW c \in Call, Insert(c) PROVE LinInv'
  <2>1. /\ UNCHANGED <<activities, used, generated, derived, entities>>
        /\ pc[c] = "insert" /\ versions' = versions \cup {New(c)}
        /\ entity' = [entity EXCEPT ![c] = New(c)]
        /\ links' = [links EXCEPT ![c] = entities[c]]
        /\ pc' = [pc EXCEPT ![c] = "generate"]
    BY <1>4 DEF Insert
  <2>2. New(c) \notin versions /\ New(c).by = c
    BY <1>4, InsertIsNext DEF New
  <2>3. pc'[c] = "generate" /\ entity'[c] = New(c) /\ links'[c] = entities[c]
    BY <1>0, <2>1
  <2>4. \A d \in Call : d # c => pc'[d] = pc[d] /\ entity'[d] = entity[d] /\ links'[d] = links[d]
    BY <1>0, <2>1
  <2>5. Recorded(c)'
    <3>1. {w \in versions' : <<c, w>> \in used} = {w \in versions : <<c, w>> \in used}
      BY <1>0, <2>1, <2>2
    <3>2. {w \in versions' : <<New(c), w>> \in derived} = {}
      BY <1>0, <2>1, <2>2
    <3>3. c \in activities /\ entities[c] = {w \in versions : <<c, w>> \in used}
      BY <2>1 DEF LinInv, Recorded
    <3> QED
      BY <2>1, <2>2, <2>3, <3>1, <3>2, <3>3 DEF Recorded
  <2>6. ASSUME NEW d \in Call, d # c PROVE Recorded(d)'
    <3>1. {w \in versions' : <<d, w>> \in used} = {w \in versions : <<d, w>> \in used}
      BY <1>0, <2>1, <2>2
    <3>2. {w \in versions' : <<entity[d], w>> \in derived} = {w \in versions : <<entity[d], w>> \in derived}
      BY <1>0, <2>1, <2>2
    <3>3. Recorded(d)
      BY DEF LinInv
    <3> QED
      BY <2>1, <2>2, <2>4, <2>6, <3>1, <3>2, <3>3 DEF Recorded
  <2>7. ASSUME NEW v \in versions
        PROVE  \/ /\ v.by \in activities /\ <<v, v.by>> \in generated
                  /\ {w \in versions' : <<v, w>> \in derived}
                     = {w \in versions' : <<v.by, w>> \in used}
               \/ entity'[v.by] = v /\ pc'[v.by] \in {"generate", "derive"}
    <3>1. {w \in versions' : <<v, w>> \in derived} = {w \in versions : <<v, w>> \in derived}
      BY <1>0, <2>1, <2>2
    <3>2. {w \in versions' : <<v.by, w>> \in used} = {w \in versions : <<v.by, w>> \in used}
      BY <1>0, <2>1, <2>2
    <3>3. \/ /\ v.by \in activities /\ <<v, v.by>> \in generated
             /\ {w \in versions : <<v, w>> \in derived} = {w \in versions : <<v.by, w>> \in used}
          \/ entity[v.by] = v /\ pc[v.by] \in {"generate", "derive"}
      BY DEF LinInv, LineageComplete
    <3>4. v.by = c => pc[v.by] \notin {"generate", "derive"}
      BY <2>1
    <3> QED
      BY <1>0, <2>4, <3>1, <3>2, <3>3, <3>4
  <2>8. LineageComplete'
    BY <2>1, <2>2, <2>3, <2>7 DEF LineageComplete, LinInv
  <2> QED
    BY <2>5, <2>6, <2>8 DEF LinInv
<1>5. ASSUME NEW c \in Call, Generate(c) PROVE LinInv'
  <2>1. /\ UNCHANGED <<versions, activities, used, derived, entities, entity, links>>
        /\ pc[c] = "generate" /\ pc' = [pc EXCEPT ![c] = "derive"]
        /\ generated' = generated \cup {<<entity[c], c>>}
    BY <1>5 DEF Generate
  <2>2. pc'[c] = "derive" /\ \A d \in Call \ {c} : pc'[d] = pc[d]
    BY <1>0, <2>1
  <2>3. \A d \in Call : Recorded(d)'
    BY <2>1, <2>2 DEF LinInv, Recorded
  <2>4. entity[c].by = c
    BY <2>1 DEF LinInv, Recorded
  <2>5. LineageComplete'
    BY <1>0, <2>1, <2>2, <2>4 DEF LinInv, LineageComplete
  <2> QED
    BY <2>3, <2>5 DEF LinInv
<1>6. ASSUME NEW c \in Call, Derive(c) PROVE LinInv'
  <2>1. UNCHANGED <<versions, activities, used, generated, pc, entities, entity>> /\ pc[c] = "derive"
    BY <1>6 DEF Derive
  <2>2. PICK w \in links[c] : /\ derived' = derived \cup {<<entity[c], w>>}
                              /\ links' = [links EXCEPT ![c] = @ \ {w}]
    BY <1>6 DEF Derive
  <2>3. entity[c] \in versions /\ entity[c].by = c /\ w \in versions /\ w \in entities[c]
    BY <1>0, <2>1, <2>2 DEF NumInv, Known, LinInv, Recorded
  <2>4. links'[c] = links[c] \ {w} /\ \A d \in Call \ {c} : links'[d] = links[d]
    BY <1>0, <2>2
  <2>5. Recorded(c)'
    <3>1. {u \in versions : <<entity[c], u>> \in derived'}
          = {u \in versions : <<entity[c], u>> \in derived} \cup {w}
      BY <2>2, <2>3
    <3>2. entities[c] \ links'[c] = (entities[c] \ links[c]) \cup {w}
      BY <2>3, <2>4
    <3>3. Recorded(c)
      BY DEF LinInv
    <3>4. {u \in versions : <<entity[c], u>> \in derived'} = entities[c] \ links'[c]
      BY <2>1, <3>1, <3>2, <3>3 DEF Recorded
    <3> QED
      BY <2>1, <2>4, <3>3, <3>4 DEF Recorded
  <2>6. ASSUME NEW v \in versions, v # entity[c]
        PROVE  {u \in versions : <<v, u>> \in derived'} = {u \in versions : <<v, u>> \in derived}
    BY <2>2, <2>6
  <2>7. ASSUME NEW d \in Call, d # c PROVE Recorded(d)'
    <3>1. Recorded(d) /\ Recorded(c)
      BY DEF LinInv
    <3>2. pc[d] \in {"generate", "derive"} => entity[d] \in versions /\ entity[d] # entity[c]
      BY <2>1, <2>3, <2>7, <3>1 DEF Recorded, NumInv, Known
    <3> QED
      BY <2>1, <2>4, <2>6, <2>7, <3>1, <3>2 DEF Recorded
  <2>8. LineageComplete'
    <3>1. ASSUME NEW v \in versions
          PROVE  \/ /\ v.by \in activities /\ <<v, v.by>> \in generated
                    /\ {u \in versions : <<v, u>> \in derived'}
                       = {u \in versions : <<v.by, u>> \in used}
                 \/ entity[v.by] = v /\ pc[v.by] \in {"generate", "derive"}
      BY <2>1, <2>3, <2>6 DEF LinInv, LineageComplete
    <3> QED
      BY <2>1, <3>1 DEF LinInv, LineageComplete
  <2> QED
    BY <2>5, <2>7, <2>8 DEF LinInv
<1>7. ASSUME NEW c \in Call, NextOutput(c) PROVE LinInv'
  <2>1. /\ UNCHANGED <<store, entities, entity, links>>
        /\ pc[c] = "derive" /\ links[c] = {} /\ pc' = [pc EXCEPT ![c] = "outputs"]
    BY <1>7 DEF NextOutput
  <2>2. pc'[c] = "outputs" /\ \A d \in Call \ {c} : pc'[d] = pc[d]
    BY <1>0, <2>1
  <2>3. \A d \in Call : Recorded(d)'
    BY <2>1, <2>2 DEF store, LinInv, Recorded
  <2>4. /\ c \in activities /\ <<entity[c], c>> \in generated /\ entity[c].by = c
        /\ {w \in versions : <<entity[c], w>> \in derived} = {w \in versions : <<c, w>> \in used}
    BY <2>1 DEF LinInv, Recorded
  <2>5. LineageComplete'
    BY <1>0, <2>1, <2>2, <2>4 DEF store, LinInv, LineageComplete
  <2> QED
    BY <2>3, <2>5 DEF LinInv
<1>8. ASSUME NEW c \in Call, Die(c) PROVE LinInv'
  BY <1>8 DEF Die, store, LinInv, LineageComplete, Recorded
<1>9. ASSUME UNCHANGED vars PROVE LinInv'
  BY <1>9 DEF vars, store, LinInv, LineageComplete, Recorded
<1> QED
  BY <1>1, <1>2, <1>3, <1>4, <1>5, <1>6, <1>7, <1>8, <1>9 DEF Next, Record, CreateVersion

-----------------------------------------------------------------------------
(* Theorems *)

\* The inductive invariant holds in every reachable state.
THEOREM Invariance == Spec => []IInv
<1>1. Init => IInv
  BY NumInit, CurInit, LinInit DEF IInv
<1>2. IInv /\ [Next]_vars => IInv'
  BY NumStep, CurStep, LinStep DEF IInv
<1> QED
  BY <1>1, <1>2, PTL DEF Spec

\* Every variable keeps its type; the relations only name stored versions.
THEOREM TypeCorrect == Spec => []TypeOK
<1>1. IInv => TypeOK
  BY DEF IInv, NumInv
<1> QED
  BY <1>1, Invariance, PTL

\* The versions of a parameter are numbered 1, 2, ... without gap or duplicate.
THEOREM Numbering == Spec => []Contiguous
<1>1. IInv => Contiguous
  BY DEF IInv, NumInv
<1> QED
  BY <1>1, Invariance, PTL

\* The latest version is valid unless its successor is being created, or was
\* when the process that created it died.
THEOREM NewestValid == Spec => []NewestIsCurrent
<1>1. IInv => NewestIsCurrent
  BY DEF IInv, CurInv
<1> QED
  BY <1>1, Invariance, PTL

\* Where calls for a parameter come one after the other, only its latest version
\* is valid.
THEOREM SerialHistory == Spec => []SerialIsExact
<1>1. IInv => SerialIsExact
  BY DEF IInv, CurInv
<1> QED
  BY <1>1, Invariance, PTL

\* A version is derived from exactly what its activity used once it is recorded.
THEOREM Lineage == Spec => []LineageComplete
<1>1. IInv => LineageComplete
  BY DEF IInv, LinInv
<1> QED
  BY <1>1, Invariance, PTL
=============================================================================
