---------------------------- MODULE TaskRows_proofs ----------------------------
(***************************************************************************)
(* Theorems about TaskRows, for any number of workers, rows, qubits and    *)
(* manual updates, whoever crashes.                                        *)
(***************************************************************************)
EXTENDS TaskRows, TLAPS

\* Where a worker is with a row.
Tasking == Working \cup {"record"}

\* The other qubits of the MUX have not been served yet.
Fresh(r) == \A d \in Mux[r] : mem[d].status = "none"

Own(w) ==
  /\ wpc[w] \in Tasking => /\ cur[w] \in Row /\ WorkerOf[cur[w]] = w
                           /\ mem[cur[w]].status # "none"
  /\ wpc[w] \in Working => Fresh(cur[w])
  /\ wpc[w] = "run" => ~mem[cur[w]].out
  /\ wpc[w] = "record" => mem[cur[w]].status \in {"completed", "failed"}
  /\ wpc[w] \in {"waiting", "idle", "run", "artifacts", "returned"} => rep[w] = NoRow
  /\ wpc[w] = "distribute" => rep[w] # NoRow
CurInv == \A w \in Worker : Own(w)

\* The rows it has not distributed yet are untouched; the one it is at is not.
Distributes(w) ==
  rep[w] # NoRow =>
    /\ WorkerOf[rep[w]] = w /\ mem[rep[w]].status # "none"
    /\ todo[w] \subseteq Mux[rep[w]]
    /\ \A d \in todo[w] : mem[d].status = "none"
    /\ wpc[w] \in Tasking => cur[w] \in Mux[rep[w]] \ todo[w]
RepInv == \A w \in Worker : Distributes(w)

FreshInv == \A r \in Row : mem[r].status = "none" => Fresh(r) /\ ~mem[r].out

\* A step of the schedule starts when the steps before have returned.
StepInv == \A v, w \in Worker :
  StageOf[v] < StageOf[w] /\ wpc[w] # "waiting" => wpc[v] = "returned"

SeenInv == \A n \in Note : npc[n] = "save" => seen[n].row \in Row

WorkInv == TypeOK /\ CurInv /\ RepInv /\ FreshInv /\ StepInv /\ SeenInv

Act(w) == Work(w) \/ Raise(w) \/ RecordRaises(w) \/ Crash(w)
Edits(e) == EditRead(e) \/ EditSave(e)
Notes(n) == NoteRead(n) \/ NoteSave(n)
Parental == Parent \/ Cancelled \/ Kill
Rest == (\E e \in Edit : Edits(e)) \/ (\E n \in Note : Notes(n)) \/ Parental

\* The workers stay where they are, or one is submitted.
Calm ==
  /\ UNCHANGED <<mem, cur, rep, todo>>
  /\ \A w \in Worker : wpc'[w] = wpc[w] \/ (wpc[w] = "waiting" /\ wpc'[w] = "idle")

-----------------------------------------------------------------------------
(* What a step leaves alone *)

Task == [status : Status, out : BOOLEAN, verdict : Verdict]

\* A step of a worker touches its own locals and its own rows.
LEMMA Frame ==
  ASSUME WorkInv, NEW w \in Worker, Act(w)
  PROVE  /\ \A v \in Worker \ {w} : /\ wpc'[v] = wpc[v] /\ cur'[v] = cur[v] /\ rep'[v] = rep[v]
                                    /\ todo'[v] = todo[v] /\ snap'[v] = snap[v]
         /\ \A r \in Row : WorkerOf[r] # w => mem'[r] = mem[r] /\ row'[r] = row[r]
         /\ \A e \in Edit : snap'[e] = snap[e]
         /\ UNCHANGED <<pushed, parent, epc, note>>
         /\ AtWork(w) /\ wpc'[w] # "waiting"
<1> USE RowConstants DEF WorkInv, TypeOK, CurInv, RepInv, Own, Distributes, Goto, db, worker, parent, user, Tasking,
        Working, Place, Doing, AtWork
<1>1. CASE StartTask(w)
  BY <1>1 DEF StartTask
<1>2. CASE Measure(w)
  BY <1>2 DEF Measure
<1>3. CASE MeasureNothing(w) \/ Judge(w)
  BY <1>3 DEF MeasureNothing, Judge
<1>4. CASE ReadQubit(w) \/ SaveQubit(w) \/ Return(w) \/ Crash(w)
  BY <1>4 DEF ReadQubit, SaveQubit, Return, Crash
<1>5. CASE Complete(w)
  BY <1>5 DEF Complete
<1>6. CASE Distribute(w)
  BY <1>6 DEF Distribute
<1>7. CASE Distributed(w)
  BY <1>7 DEF Distributed
<1>8. CASE Raise(w)
  BY <1>8 DEF Raise
<1>9. CASE Record(w)
  BY <1>9 DEF Record, AfterRecord
<1>10. CASE RecordRaises(w)
  BY <1>10 DEF RecordRaises
<1> QED
  BY <1>1, <1>2, <1>3, <1>4, <1>5, <1>6, <1>7, <1>8, <1>9, <1>10 DEF Act, Work

-----------------------------------------------------------------------------
(* Types, and where the workers are *)

LEMMA InitWork == Init => WorkInv
BY RowConstants DEF Init, WorkInv, TypeOK, CurInv, RepInv, Own, Distributes, FreshInv, Fresh, StepInv, SeenInv,
   Tasking, Working, Place, Doc, Blank, Verdict, Status, Nothing, Writer, Doing

\* The updates of a task model, field by field.
LEMMA TaskFields ==
  ASSUME NEW m \in Task, NEW s \in Status, NEW b \in BOOLEAN, NEW v \in Verdict
  PROVE  /\ [m EXCEPT !.status = s] \in Task
         /\ [m EXCEPT !.out = b] \in Task
         /\ [m EXCEPT !.out = b, !.verdict = v] \in Task
         /\ [status |-> s, out |-> b, verdict |-> v] \in Task
BY DEF Task

\* A step of a worker writes fields of the task model of one row.
LEMMA ActTask ==
  ASSUME WorkInv, NEW w \in Worker, Act(w)
  PROVE  mem' \in [Row -> Task]
<1>1. mem \in [Row -> Task]
  BY DEF WorkInv, TypeOK, Task
<1>2. wpc[w] \in Tasking => cur[w] \in Row
  BY DEF WorkInv, CurInv, Own
<1>3. rep[w] \in Row \cup {NoRow} /\ (wpc[w] = "distribute" => rep[w] # NoRow) /\ todo[w] \subseteq Row
  BY DEF WorkInv, TypeOK, CurInv, Own
<1>4. \/ mem' = mem
      \/ \E r \in Row, s \in Status, b \in BOOLEAN, v \in Verdict :
           \/ mem' = [mem EXCEPT ![r] = [mem[r] EXCEPT !.status = s]]
           \/ mem' = [mem EXCEPT ![r] = [mem[r] EXCEPT !.out = b]]
           \/ mem' = [mem EXCEPT ![r] = [mem[r] EXCEPT !.out = b, !.verdict = v]]
           \/ mem' = [mem EXCEPT ![r] = [status |-> s, out |-> b, verdict |-> v]]
  <2> USE DEF Status, Verdict, Tasking, Working
  <2>1. CASE StartTask(w)
    BY <2>1 DEF StartTask
  <2>2. CASE Measure(w)
    BY <1>2, <2>2 DEF Measure, Rejected
  <2>3. CASE MeasureNothing(w)
    BY <1>2, <2>3 DEF MeasureNothing
  <2>4. CASE Judge(w)
    BY <1>2, <2>4 DEF Judge
  <2>5. CASE ReadQubit(w) \/ SaveQubit(w) \/ Return(w) \/ Crash(w)
    BY <2>5 DEF ReadQubit, SaveQubit, Return, Crash
  <2>6. CASE Complete(w)
    BY <1>2, <2>6 DEF Complete
  <2>7. CASE Distribute(w)
    <3>1. PICK d \in todo[w], b \in BOOLEAN :
            mem' = [mem EXCEPT ![d] = [status |-> "running", out |-> b, verdict |-> "unknown"]]
      BY <2>7 DEF Distribute
    <3> QED
      BY <1>3, <3>1
  <2>8. CASE Distributed(w)
    BY <1>3, <2>8 DEF Distributed
  <2>9. CASE Raise(w)
    BY <1>2, <2>9 DEF Raise
  <2>10. CASE Record(w)
    BY <1>2, <2>10 DEF Record, AfterRecord
  <2>11. CASE RecordRaises(w)
    BY <1>3, <2>11 DEF RecordRaises
  <2> QED
    BY <2>1, <2>2, <2>3, <2>4, <2>5, <2>6, <2>7, <2>8, <2>9, <2>10, <2>11 DEF Act, Work
<1>5. \A r \in Row, s \in Status, b \in BOOLEAN, v \in Verdict :
        /\ [mem[r] EXCEPT !.status = s] \in Task
        /\ [mem[r] EXCEPT !.out = b] \in Task
        /\ [mem[r] EXCEPT !.out = b, !.verdict = v] \in Task
        /\ [status |-> s, out |-> b, verdict |-> v] \in Task
  BY <1>1, TaskFields
<1>6. \A r \in Row, m \in Task : [mem EXCEPT ![r] = m] \in [Row -> Task]
  BY <1>1
<1>7. CASE mem' = mem
  BY <1>1, <1>7
<1>8. CASE mem' # mem
  <2>1. PICK r \in Row, s \in Status, b \in BOOLEAN, v \in Verdict :
          \/ mem' = [mem EXCEPT ![r] = [mem[r] EXCEPT !.status = s]]
          \/ mem' = [mem EXCEPT ![r] = [mem[r] EXCEPT !.out = b]]
          \/ mem' = [mem EXCEPT ![r] = [mem[r] EXCEPT !.out = b, !.verdict = v]]
          \/ mem' = [mem EXCEPT ![r] = [status |-> s, out |-> b, verdict |-> v]]
    BY <1>4, <1>8
  <2>2. /\ [mem[r] EXCEPT !.status = s] \in Task /\ [mem[r] EXCEPT !.out = b] \in Task
        /\ [mem[r] EXCEPT !.out = b, !.verdict = v] \in Task
        /\ [status |-> s, out |-> b, verdict |-> v] \in Task
    BY <1>5
  <2>3. CASE mem' = [mem EXCEPT ![r] = [mem[r] EXCEPT !.status = s]]
    BY <1>6, <2>2, <2>3, Zenon
  <2>4. CASE mem' = [mem EXCEPT ![r] = [mem[r] EXCEPT !.out = b]]
    BY <1>6, <2>2, <2>4, Zenon
  <2>5. CASE mem' = [mem EXCEPT ![r] = [mem[r] EXCEPT !.out = b, !.verdict = v]]
    BY <1>6, <2>2, <2>5, Zenon
  <2>6. CASE mem' = [mem EXCEPT ![r] = [status |-> s, out |-> b, verdict |-> v]]
    BY <1>6, <2>2, <2>6, Zenon
  <2> QED
    BY <2>1, <2>3, <2>4, <2>5, <2>6
<1> QED
  BY <1>7, <1>8

\* Types under a step of a worker.
LEMMA ActType ==
  ASSUME WorkInv, NEW w \in Worker, Act(w)
  PROVE  TypeOK'
<1> USE DEF Goto, db, worker, parent, user, Tasking, Working, Place
<1>1. wpc[w] \in Tasking => cur[w] \in Row
  BY DEF WorkInv, CurInv, Own
<1>2. /\ row \in [Row -> Doc] /\ mem \in [Row -> Task] /\ data \in [Qubit -> [Param -> Writer \cup {NoRow}]]
      /\ wpc \in [Worker -> Place]
      /\ cur \in [Worker -> Row \cup {NoRow}] /\ rep \in [Worker -> Row \cup {NoRow}]
      /\ todo \in [Worker -> SUBSET Row]
      /\ snap \in [Doing -> [Param -> Writer \cup {NoRow}]] /\ edited \subseteq Qubit
  BY DEF WorkInv, TypeOK, Task
<1>3. row' \in [Row -> Doc]
  <2>1. CASE StartTask(w)
    <3>1. PICK r \in Row : row' = [row EXCEPT ![r] = [status |-> "running", out |-> FALSE]]
      BY <2>1 DEF StartTask
    <3>2. [status |-> "running", out |-> FALSE] \in Doc
      BY DEF Doc, Status
    <3> QED
      BY <1>2, <3>1, <3>2
  <2>2. CASE Record(w)
    <3>1. [status |-> mem[cur[w]].status, out |-> mem[cur[w]].out] \in Doc
      BY <1>1, <1>2, <2>2 DEF Record, Doc, Task
    <3> QED
      BY <1>2, <2>2, <3>1 DEF Record
  <2>3. row' = row \/ StartTask(w) \/ Record(w)
    BY DEF Act, Work, Measure, MeasureNothing, Judge, ReadQubit, SaveQubit, Complete, Distribute, Distributed,
       Return, Raise, RecordRaises, Crash
  <2> QED
    BY <1>2, <2>1, <2>2, <2>3
<1>4. /\ wpc' \in [Worker -> Place]
      /\ cur' \in [Worker -> Row \cup {NoRow}]
  <2>1. CASE Measure(w) \/ MeasureNothing(w) \/ ReadQubit(w) \/ SaveQubit(w)
    BY <1>2, <2>1 DEF Measure, MeasureNothing, ReadQubit, SaveQubit
  <2>5. CASE StartTask(w)
    <3>1. PICK r \in Row : cur' = [cur EXCEPT ![w] = r]
      BY <2>5 DEF StartTask
    <3> QED
      BY <1>2, <2>5, <3>1 DEF StartTask
  <2>4. CASE Judge(w)
    <3>1. \E l \in {"read", "complete"} : wpc' = [wpc EXCEPT ![w] = l]
      BY <2>4 DEF Judge
    <3> QED
      BY <1>2, <2>4, <3>1 DEF Judge
  <2>2. CASE Complete(w)
    <3>1. \E l \in {"record", "distribute"} : wpc' = [wpc EXCEPT ![w] = l]
      BY <2>2 DEF Complete
    <3> QED
      BY <1>2, <2>2, <3>1 DEF Complete
  <2>6. CASE Distribute(w)
    <3>1. PICK d \in todo[w], l \in {"read", "complete"} :
            wpc' = [wpc EXCEPT ![w] = l] /\ cur' = [cur EXCEPT ![w] = d]
      BY <2>6 DEF Distribute
    <3> QED
      BY <1>2, <3>1
  <2>7. CASE Distributed(w)
    BY <1>2, <2>7 DEF Distributed
  <2>3. CASE Return(w) \/ Raise(w) \/ Crash(w) \/ Record(w) \/ RecordRaises(w)
    BY <1>2, <2>3 DEF Return, Raise, RecordRaises, Crash, Record, AfterRecord
  <2> QED
    BY <2>1, <2>2, <2>3, <2>4, <2>5, <2>6, <2>7 DEF Act, Work
<1>5. rep' \in [Worker -> Row \cup {NoRow}] /\ todo' \in [Worker -> SUBSET Row]
  <2>1. CASE Complete(w)
    <3>1. cur[w] \in Row /\ Mux[cur[w]] \in SUBSET Row
      BY <1>1, <2>1, RowConstants DEF Complete
    <3>2. \/ UNCHANGED <<rep, todo>>
          \/ rep' = [rep EXCEPT ![w] = cur[w]] /\ todo' = [todo EXCEPT ![w] = Mux[cur[w]]]
      BY <2>1, Zenon DEF Complete
    <3> QED
      BY <1>2, <3>1, <3>2
  <2>2. CASE Distribute(w) \/ Distributed(w) \/ RecordRaises(w)
    BY <1>2, <2>2 DEF Distribute, Distributed, RecordRaises
  <2>3. UNCHANGED <<rep, todo>> \/ Complete(w) \/ Distribute(w) \/ Distributed(w) \/ RecordRaises(w)
    BY DEF Act, Work, StartTask, Measure, MeasureNothing, Judge, ReadQubit, SaveQubit, Return, Raise, Crash,
       Record
  <2> QED
    BY <1>2, <2>1, <2>2, <2>3
<1>6. /\ data' \in [Qubit -> [Param -> Writer \cup {NoRow}]]
      /\ snap' \in [Doing -> [Param -> Writer \cup {NoRow}]]
      /\ edited' \subseteq Qubit
  <2>1. CASE ReadQubit(w)
    BY <1>1, <1>2, <2>1, RowConstants DEF ReadQubit, Doing
  <2>2. CASE SaveQubit(w)
    <3>1. [snap[w] EXCEPT ![ParamOf[cur[w]]] = cur[w]] \in [Param -> Writer \cup {NoRow}]
      BY <1>1, <1>2, <2>2, RowConstants DEF SaveQubit, Doing, Writer
    <3> QED
      BY <1>2, <2>2, <3>1, RowConstants DEF SaveQubit, Doing, Nothing
  <2>3. CASE Raise(w) \/ Crash(w)
    <3>1. data' = data /\ edited' = edited /\ snap' = [snap EXCEPT ![w] = Nothing]
      BY <2>3 DEF Raise, Crash
    <3>2. Nothing \in [Param -> Writer \cup {NoRow}]
      BY DEF Nothing
    <3> QED
      BY <1>2, <3>1, <3>2
  <2>4. UNCHANGED <<data, snap, edited>> \/ ReadQubit(w) \/ SaveQubit(w) \/ Raise(w) \/ Crash(w)
    BY DEF Act, Work, StartTask, Measure, MeasureNothing, Judge, Complete, Distribute, Distributed,
       Return, RecordRaises, Record
  <2> QED
    BY <1>2, <2>1, <2>2, <2>3, <2>4
<1> QED
  BY <1>3, <1>4, <1>5, <1>6, ActTask, Frame DEF TypeOK, WorkInv, Task, note

\* The task model of r becomes this one; the others stay.
Changes(r, s, b, v) ==
  /\ r \in Row /\ \A x \in Row \ {r} : mem'[x] = mem[x]
  /\ mem'[r].status = s /\ mem'[r].out = b /\ mem'[r].verdict = v

\* What each step makes of the task models.
LEMMA Effects ==
  ASSUME WorkInv, NEW w \in Worker
  PROVE  LET r == cur[w]
             m == mem[cur[w]] IN
         /\ StartTask(w) => \E x \in Row \ Targets :
              /\ WorkerOf[x] = w /\ mem[x].status = "none" /\ cur' = [cur EXCEPT ![w] = x]
              /\ row' = [row EXCEPT ![x] = [status |-> "running", out |-> FALSE]]
              /\ Changes(x, "running", mem[x].out, mem[x].verdict)
         /\ Measure(w) => \E v \in {"good"} \cup Rejected : Changes(r, m.status, TRUE, v)
         /\ MeasureNothing(w) => Changes(r, "completed", m.out, m.verdict)
         /\ Judge(w) => \/ m.verdict = "good" /\ Changes(r, m.status, TRUE, m.verdict)
                        \/ m.verdict # "good" /\ Changes(r, m.status, FALSE, m.verdict)
         /\ Complete(w) => \/ m.verdict = "bad" /\ Changes(r, "failed", m.out, m.verdict)
                           \/ m.verdict # "bad" /\ Mux[r] # {} /\ mem' = mem
                           \/ m.verdict # "bad" /\ Mux[r] = {} /\ Changes(r, "completed", m.out, m.verdict)
         /\ Distribute(w) => \E d \in todo[w], b \in BOOLEAN :
              /\ todo' = [todo EXCEPT ![w] = @ \ {d}] /\ cur' = [cur EXCEPT ![w] = d]
              /\ wpc' = [wpc EXCEPT ![w] = IF b THEN "read" ELSE "complete"]
              /\ Changes(d, "running", b, "unknown")
         /\ Distributed(w) => Changes(rep[w], "completed", mem[rep[w]].out, mem[rep[w]].verdict)
         /\ Raise(w) => Changes(r, "failed", m.out, m.verdict)
         /\ Record(w) => Changes(r, m.status, FALSE, m.verdict)
         /\ RecordRaises(w) =>
              IF rep[w] = NoRow THEN mem' = mem
              ELSE Changes(rep[w], "failed", mem[rep[w]].out, mem[rep[w]].verdict)
<1> DEFINE r == cur[w]
           m == mem[cur[w]]
<1>1. mem \in [Row -> Task] /\ (wpc[w] \in Tasking => r \in Row)
  BY DEF WorkInv, TypeOK, Task, CurInv, Own
<1>2. rep[w] \in Row \cup {NoRow} /\ (wpc[w] = "distribute" => rep[w] # NoRow) /\ todo[w] \subseteq Row
  BY DEF WorkInv, TypeOK, CurInv, Own
<1>3. ASSUME NEW x \in Row, NEW s \in Status, NEW b \in BOOLEAN, NEW v \in Verdict
      PROVE  /\ mem' = [mem EXCEPT ![x] = [mem[x] EXCEPT !.status = s]]
                  => Changes(x, s, mem[x].out, mem[x].verdict)
             /\ mem' = [mem EXCEPT ![x] = [mem[x] EXCEPT !.out = b]]
                  => Changes(x, mem[x].status, b, mem[x].verdict)
             /\ mem' = [mem EXCEPT ![x] = [mem[x] EXCEPT !.out = b, !.verdict = v]]
                  => Changes(x, mem[x].status, b, v)
             /\ mem' = [mem EXCEPT ![x] = [status |-> s, out |-> b, verdict |-> v]]
                  => Changes(x, s, b, v)
  <2>1. \A y : mem' = [mem EXCEPT ![x] = y] => mem'[x] = y /\ \A z \in Row \ {x} : mem'[z] = mem[z]
    BY <1>1
  <2>2. mem[x] \in Task
    BY <1>1
  <2>3. /\ LET n == [mem[x] EXCEPT !.status = s]
           IN  n.status = s /\ n.out = mem[x].out /\ n.verdict = mem[x].verdict
        /\ LET n == [mem[x] EXCEPT !.out = b]
           IN  n.status = mem[x].status /\ n.out = b /\ n.verdict = mem[x].verdict
        /\ LET n == [mem[x] EXCEPT !.out = b, !.verdict = v]
           IN  n.status = mem[x].status /\ n.out = b /\ n.verdict = v
    BY <2>2 DEF Task
  <2>4. mem' = [mem EXCEPT ![x] = [mem[x] EXCEPT !.status = s]]
          => Changes(x, s, mem[x].out, mem[x].verdict)
    BY <2>1, <2>3, Zenon DEF Changes
  <2>5. mem' = [mem EXCEPT ![x] = [mem[x] EXCEPT !.out = b]]
          => Changes(x, mem[x].status, b, mem[x].verdict)
    BY <2>1, <2>3, Zenon DEF Changes
  <2>6. mem' = [mem EXCEPT ![x] = [mem[x] EXCEPT !.out = b, !.verdict = v]]
          => Changes(x, mem[x].status, b, v)
    BY <2>1, <2>3, Zenon DEF Changes
  <2>7. mem' = [mem EXCEPT ![x] = [status |-> s, out |-> b, verdict |-> v]]
          => Changes(x, s, b, v)
    <3>1. LET n == [status |-> s, out |-> b, verdict |-> v] IN n.status = s /\ n.out = b /\ n.verdict = v
      OBVIOUS
    <3> QED
      BY <2>1, <3>1, Zenon DEF Changes
  <2> QED
    BY <2>4, <2>5, <2>6, <2>7
<1> HIDE DEF r, m
<1> USE DEF Status, Verdict, Rejected, Goto, Tasking, Working
<1>4. StartTask(w) => \E x \in Row \ Targets :
              /\ WorkerOf[x] = w /\ mem[x].status = "none" /\ cur' = [cur EXCEPT ![w] = x]
              /\ row' = [row EXCEPT ![x] = [status |-> "running", out |-> FALSE]]
              /\ Changes(x, "running", mem[x].out, mem[x].verdict)
  BY <1>3 DEF StartTask
<1>5. Measure(w) => \E v \in {"good"} \cup Rejected : Changes(r, m.status, TRUE, v)
  BY <1>1, <1>3 DEF Measure, r, m
<1>6. MeasureNothing(w) => Changes(r, "completed", m.out, m.verdict)
  BY <1>1, <1>3 DEF MeasureNothing, r, m
<1>7. Judge(w) => \/ m.verdict = "good" /\ Changes(r, m.status, TRUE, m.verdict)
                  \/ m.verdict # "good" /\ Changes(r, m.status, FALSE, m.verdict)
  BY <1>1, <1>3 DEF Judge, r, m
<1>8. Complete(w) => \/ m.verdict = "bad" /\ Changes(r, "failed", m.out, m.verdict)
                     \/ m.verdict # "bad" /\ Mux[r] # {} /\ mem' = mem
                     \/ m.verdict # "bad" /\ Mux[r] = {} /\ Changes(r, "completed", m.out, m.verdict)
  BY <1>1, <1>3 DEF Complete, r, m
<1>9. Distribute(w) => \E d \in todo[w], b \in BOOLEAN :
              /\ todo' = [todo EXCEPT ![w] = @ \ {d}] /\ cur' = [cur EXCEPT ![w] = d]
              /\ wpc' = [wpc EXCEPT ![w] = IF b THEN "read" ELSE "complete"]
              /\ Changes(d, "running", b, "unknown")
  BY <1>2, <1>3 DEF Distribute
<1>10. Distributed(w) => Changes(rep[w], "completed", mem[rep[w]].out, mem[rep[w]].verdict)
  BY <1>2, <1>3 DEF Distributed
<1>11. Raise(w) => Changes(r, "failed", m.out, m.verdict)
  BY <1>1, <1>3 DEF Raise, r, m
<1>12. Record(w) => Changes(r, m.status, FALSE, m.verdict)
  BY <1>1, <1>3 DEF Record, AfterRecord, r, m
<1>13. RecordRaises(w) => IF rep[w] = NoRow THEN mem' = mem
                          ELSE Changes(rep[w], "failed", mem[rep[w]].out, mem[rep[w]].verdict)
  BY <1>2, <1>3 DEF RecordRaises
<1> QED
  BY <1>4, <1>5, <1>6, <1>7, <1>8, <1>9, <1>10, <1>11, <1>12, <1>13, Zenon DEF r, m

\* The worker that steps.
LEMMA ActOwn ==
  ASSUME WorkInv, NEW w \in Worker, Act(w)
  PROVE  Own(w)' /\ Distributes(w)' /\ FreshInv'
<1>1. /\ wpc \in [Worker -> Place]
      /\ cur \in [Worker -> Row \cup {NoRow}] /\ rep \in [Worker -> Row \cup {NoRow}]
      /\ todo \in [Worker -> SUBSET Row] /\ FreshInv /\ Own(w) /\ Distributes(w)
  BY DEF WorkInv, TypeOK, CurInv, RepInv
<1>2. /\ NoRow \notin Row /\ \A r \in Row : Mux[r] \subseteq Row
      /\ \A r \in Row : \A d \in Mux[r] : WorkerOf[d] = WorkerOf[r] /\ Mux[d] = {}
      /\ \A r, s \in Row : r # s => Mux[r] \cap Mux[s] = {}
  BY RowConstants
<1> USE <1>1, <1>2 DEF Goto, Tasking, Working, Place, FreshInv, Fresh, Own, Distributes
<1>3. CASE StartTask(w)
  <2>1. PICK x \in Row \ Targets :
          /\ WorkerOf[x] = w /\ mem[x].status = "none" /\ cur' = [cur EXCEPT ![w] = x]
          /\ Changes(x, "running", mem[x].out, mem[x].verdict)
    BY <1>3, Effects
  <2>2. wpc'[w] = "run" /\ cur'[w] = x /\ rep' = rep /\ rep[w] = NoRow
    BY <1>3, <2>1 DEF StartTask
  <2>3. \A r \in Row : x \notin Mux[r]
    BY <2>1 DEF Targets
  <2> QED
    BY <2>1, <2>2, <2>3 DEF Changes
<1>4. CASE Measure(w)
  <2>1. PICK v \in {"good"} \cup Rejected : Changes(cur[w], mem[cur[w]].status, TRUE, v)
    BY <1>4, Effects
  <2>2. wpc'[w] = "artifacts" /\ cur' = cur /\ rep' = rep /\ todo' = todo /\ wpc[w] = "run"
    BY <1>4 DEF Measure
  <2> QED
    BY <2>1, <2>2 DEF Changes
<1>5. CASE MeasureNothing(w)
  <2>1. Changes(cur[w], "completed", mem[cur[w]].out, mem[cur[w]].verdict)
    BY <1>5, Effects
  <2>2. wpc'[w] = "record" /\ cur' = cur /\ rep' = rep /\ todo' = todo /\ wpc[w] = "run"
    BY <1>5 DEF MeasureNothing
  <2> QED
    BY <2>1, <2>2 DEF Changes
<1>6. CASE Judge(w)
  <2>1. \E b \in BOOLEAN : Changes(cur[w], mem[cur[w]].status, b, mem[cur[w]].verdict)
    BY <1>6, Effects
  <2>2. wpc'[w] \in {"read", "complete"} /\ cur' = cur /\ rep' = rep /\ todo' = todo /\ wpc[w] = "artifacts"
    BY <1>6 DEF Judge
  <2> QED
    BY <2>1, <2>2 DEF Changes
<1>7. CASE ReadQubit(w) \/ SaveQubit(w) \/ Return(w) \/ Crash(w)
  BY <1>7 DEF ReadQubit, SaveQubit, Return, Crash
<1>8. CASE Complete(w)
  <2>1. wpc[w] = "complete" /\ cur' = cur
    BY <1>8 DEF Complete
  <2>2. ASSUME mem' = mem, rep' = [rep EXCEPT ![w] = cur[w]], todo' = [todo EXCEPT ![w] = Mux[cur[w]]],
               wpc'[w] = "distribute"
        PROVE  Own(w)' /\ Distributes(w)' /\ FreshInv'
    BY <2>1, <2>2
  <2>3. ASSUME NEW s \in {"failed", "completed"}, Changes(cur[w], s, mem[cur[w]].out, mem[cur[w]].verdict),
               rep' = rep, todo' = todo, wpc'[w] = "record"
        PROVE  Own(w)' /\ Distributes(w)' /\ FreshInv'
    BY <2>1, <2>3 DEF Changes
  <2>4. \/ Changes(cur[w], "failed", mem[cur[w]].out, mem[cur[w]].verdict) /\ UNCHANGED <<rep, todo>>
           /\ wpc'[w] = "record"
        \/ Changes(cur[w], "completed", mem[cur[w]].out, mem[cur[w]].verdict) /\ UNCHANGED <<rep, todo>>
           /\ wpc'[w] = "record"
        \/ /\ mem' = mem /\ rep' = [rep EXCEPT ![w] = cur[w]] /\ todo' = [todo EXCEPT ![w] = Mux[cur[w]]]
           /\ wpc'[w] = "distribute"
    <3>1. \/ mem[cur[w]].verdict = "bad" /\ Changes(cur[w], "failed", mem[cur[w]].out, mem[cur[w]].verdict)
          \/ mem[cur[w]].verdict # "bad" /\ Mux[cur[w]] # {} /\ mem' = mem
          \/ mem[cur[w]].verdict # "bad" /\ Mux[cur[w]] = {}
             /\ Changes(cur[w], "completed", mem[cur[w]].out, mem[cur[w]].verdict)
      BY <1>8, Effects
    <3> HIDE DEF Own, Distributes, FreshInv
    <3> QED
      BY <1>8, <3>1 DEF Complete
  <2> QED
    BY <2>2, <2>3, <2>4
<1>9. CASE Distribute(w)
  <2>1. PICK d \in todo[w], b \in BOOLEAN :
          /\ todo' = [todo EXCEPT ![w] = @ \ {d}] /\ cur' = [cur EXCEPT ![w] = d]
          /\ wpc' = [wpc EXCEPT ![w] = IF b THEN "read" ELSE "complete"]
          /\ Changes(d, "running", b, "unknown")
    BY <1>9, Effects
  <2>2. wpc[w] = "distribute" /\ rep' = rep
    BY <1>9 DEF Distribute
  <2>3. d \in Mux[rep[w]] /\ \A r \in Row : d \in Mux[r] => r = rep[w]
    BY <2>1, <2>2
  <2> QED
    BY <2>1, <2>2, <2>3 DEF Changes
<1>10. CASE Distributed(w)
  <2>1. Changes(rep[w], "completed", mem[rep[w]].out, mem[rep[w]].verdict)
    BY <1>10, Effects
  <2>2. wpc[w] = "distribute" /\ cur'[w] = rep[w] /\ rep'[w] = NoRow /\ wpc'[w] = "record"
    BY <1>10 DEF Distributed
  <2> QED
    BY <2>1, <2>2 DEF Changes
<1>11. CASE Raise(w)
  <2>1. Changes(cur[w], "failed", mem[cur[w]].out, mem[cur[w]].verdict)
    BY <1>11, Effects
  <2>2. wpc[w] \in Working /\ cur' = cur /\ rep' = rep /\ todo' = todo /\ wpc'[w] = "record"
    BY <1>11 DEF Raise
  <2> QED
    BY <2>1, <2>2 DEF Changes
<1>12. CASE Record(w)
  <2>1. Changes(cur[w], mem[cur[w]].status, FALSE, mem[cur[w]].verdict)
    BY <1>12, Effects
  <2>2. wpc[w] = "record" /\ rep' = rep /\ todo' = todo
        /\ wpc'[w] = IF rep[w] = NoRow THEN "idle" ELSE "distribute"
    BY <1>12 DEF Record, AfterRecord
  <2> QED
    BY <2>1, <2>2 DEF Changes
<1>13. CASE RecordRaises(w)
  <2>1. CASE rep[w] = NoRow
    BY <1>13, <2>1 DEF RecordRaises
  <2>2. CASE rep[w] # NoRow
    <3>1. Changes(rep[w], "failed", mem[rep[w]].out, mem[rep[w]].verdict)
      BY <1>13, <2>2, Effects
    <3>2. wpc' = wpc /\ wpc[w] = "record" /\ cur'[w] = rep[w] /\ rep'[w] = NoRow
      BY <1>13, <2>2 DEF RecordRaises
    <3> QED
      BY <2>2, <3>1, <3>2 DEF Changes
  <2> QED
    BY <2>1, <2>2
<1> QED
  BY <1>3, <1>4, <1>5, <1>6, <1>7, <1>8, <1>9, <1>10, <1>11, <1>12, <1>13 DEF Act, Work

\* The other workers stay where they are with their rows.
LEMMA OthersStay ==
  ASSUME WorkInv, NEW w \in Worker, Act(w), NEW v \in Worker \ {w}
  PROVE  Own(v)' /\ Distributes(v)'
<1>1. /\ wpc'[v] = wpc[v] /\ cur'[v] = cur[v] /\ rep'[v] = rep[v] /\ todo'[v] = todo[v]
      /\ \A r \in Row : WorkerOf[r] # w => mem'[r] = mem[r]
  BY Frame
<1>2. Own(v) /\ Distributes(v) /\ rep[v] \in Row \cup {NoRow} /\ todo[v] \subseteq Row
  BY DEF WorkInv, CurInv, RepInv, TypeOK
<1>3. /\ \A r \in Row : Mux[r] \subseteq Row
      /\ \A r \in Row : \A d \in Mux[r] : WorkerOf[d] = WorkerOf[r]
  BY RowConstants
<1>4. Own(v)'
  BY <1>1, <1>2, <1>3 DEF Own, Fresh, Working, Tasking
<1>5. Distributes(v)'
  BY <1>1, <1>2, <1>3 DEF Distributes, Tasking, Working
<1> QED
  BY <1>4, <1>5

\* A manual update, a save of a row and the parent leave the workers to themselves.
LEMMA RestType ==
  ASSUME WorkInv, Rest
  PROVE  TypeOK' /\ Calm
<1> USE DEF WorkInv, user, note
<1>1. ASSUME NEW e \in Edit, EditRead(e) PROVE TypeOK' /\ Calm
  <2>1. EditQubit[e] \in Qubit
    BY RowConstants
  <2>2. data[EditQubit[e]] \in [Param -> Writer \cup {NoRow}]
    BY <2>1 DEF TypeOK
  <2>3. edited' \subseteq Qubit
    BY <1>1, <2>1 DEF EditRead, TypeOK
  <2> QED
    BY <1>1, <2>2, <2>3 DEF EditRead, TypeOK, Calm, db, worker, parent, Doing
<1>2. ASSUME NEW e \in Edit, EditSave(e) PROVE TypeOK' /\ Calm
  <2>1. /\ e \in Doing /\ EditQubit[e] \in Qubit /\ EditParam[e] \in Param /\ e \in Writer
        /\ snap[e] \in [Param -> Writer \cup {NoRow}]
    BY <1>2, RowConstants DEF TypeOK, Doing, Writer
  <2>2. PICK new \in {snap[e], [snap[e] EXCEPT ![EditParam[e]] = e]} :
           data' = [data EXCEPT ![EditQubit[e]] = new]
    BY <1>2 DEF EditSave
  <2>3. new \in [Param -> Writer \cup {NoRow}]
    BY <2>1, <2>2
  <2>4. data' \in [Qubit -> [Param -> Writer \cup {NoRow}]]
    BY <2>1, <2>2, <2>3 DEF TypeOK
  <2> QED
    BY <1>2, <2>1, <2>4, RowConstants DEF EditSave, TypeOK, Calm, worker, parent, Doing, Nothing
<1>3. ASSUME NEW n \in Note, NoteRead(n) PROVE TypeOK' /\ Calm
  <2>1. PICK r \in Row : seen' = [seen EXCEPT ![n] = [row |-> r, doc |-> row[r]]]
    BY <1>3 DEF NoteRead
  <2>2. [row |-> r, doc |-> row[r]] \in [row : Row \cup {NoRow}, doc : Doc]
    BY DEF TypeOK
  <2> QED
    BY <1>3, <2>1, <2>2 DEF NoteRead, TypeOK, Calm, db, worker, parent
<1>4. ASSUME NEW n \in Note, NoteSave(n) PROVE TypeOK' /\ Calm
  <2>1. seen[n].row \in Row /\ seen[n].doc \in Doc
    BY <1>4 DEF NoteSave, SeenInv, TypeOK
  <2>2. [row |-> NoRow, doc |-> Blank] \in [row : Row \cup {NoRow}, doc : Doc]
    BY DEF Blank, Doc, Status
  <2>3. row' \in [Row -> Doc] /\ clashed' \subseteq Row
    BY <1>4, <2>1 DEF NoteSave, TypeOK
  <2>4. npc' \in [Note -> {"read", "save", "done"}]
        /\ seen' \in [Note -> [row : Row \cup {NoRow}, doc : Doc]]
    BY <1>4, <2>2 DEF NoteSave, TypeOK
  <2> QED
    BY <1>4, <2>3, <2>4 DEF NoteSave, TypeOK, Calm, worker, parent
<1>5. \A s \in {"failed", "cancelled"} : Settle(s) => row' \in [Row -> Doc]
  BY DEF Settle, TypeOK, Doc, Status
<1>6. CASE Poll
  <2>1. row' \in [Row -> Doc]
    BY <1>5, <1>6 DEF Poll, SettledBy
  <2>2. polls' \in 0..(Attempts - 1)
    BY <1>6, RowConstants DEF Poll, TypeOK
  <2> QED
    BY <1>6, <2>1, <2>2 DEF Poll, TypeOK, Calm, worker
<1>7. CASE Hook
  BY <1>5, <1>7 DEF Hook, TypeOK, Calm, worker
<1>8. CASE Gather \/ GatherRaises \/ Cancelled \/ Kill \/ Push
  <2>1. polls' \in 0..(Attempts - 1)
    BY <1>8, RowConstants DEF Gather, GatherRaises, Cancelled, Kill, Push, TypeOK
  <2> QED
    BY <1>8, <2>1 DEF Gather, GatherRaises, Cancelled, Kill, Push, TypeOK, Calm, db, worker
<1>9. ASSUME NEW w \in Worker, Submit(w) PROVE TypeOK' /\ Calm
  BY <1>9 DEF Submit, Goto, TypeOK, Calm, Place, db, parent
<1> QED
  BY <1>1, <1>2, <1>3, <1>4, <1>6, <1>7, <1>8, <1>9 DEF Rest, Edits, Notes, Parental, Parent

\* The barrier between the steps of the schedule.
LEMMA RestStep ==
  ASSUME WorkInv, Rest
  PROVE  StepInv' /\ SeenInv'
<1>1. Calm /\ StepInv /\ SeenInv
  BY RestType DEF WorkInv
<1>2. ASSUME NEW w \in Worker, Submit(w) PROVE StepInv'
  BY <1>1, <1>2, RowConstants DEF Submit, Goto, StepInv, WorkInv, TypeOK
<1>3. wpc' = wpc \/ \E w \in Worker : Submit(w)
  BY DEF Rest, Edits, EditRead, EditSave, Notes, NoteRead, NoteSave, Parental, Parent, Gather, GatherRaises,
     Cancelled, Kill, Push, Poll, Hook, worker
<1>4. StepInv'
  BY <1>1, <1>2, <1>3 DEF StepInv
<1>5. SeenInv'
  <2>1. ASSUME NEW n \in Note, Notes(n) PROVE SeenInv'
    BY <1>1, <2>1 DEF Notes, NoteRead, NoteSave, SeenInv, WorkInv, TypeOK
  <2>2. UNCHANGED note \/ \E n \in Note : Notes(n)
    BY DEF Rest, Edits, EditRead, EditSave, Parental, Parent, Submit, Gather, GatherRaises,
       Cancelled, Kill, Push, Poll, Hook, user
  <2> QED
    BY <1>1, <2>1, <2>2 DEF SeenInv, note
<1> QED
  BY <1>4, <1>5

LEMMA WorkStep == WorkInv /\ [Next]_vars => WorkInv'
<1> SUFFICES ASSUME WorkInv, [Next]_vars PROVE WorkInv'
  OBVIOUS
<1>1. ASSUME NEW w \in Worker, Act(w) PROVE WorkInv'
  <2>1. StepInv'
    BY <1>1, Frame DEF WorkInv, StepInv, AtWork
  <2>2. SeenInv'
    BY <1>1, Frame DEF WorkInv, SeenInv, note
  <2> QED
    BY <1>1, <2>1, <2>2, ActType, ActOwn, OthersStay DEF WorkInv, CurInv, RepInv
<1>2. CASE Rest
  <2>1. TypeOK' /\ Calm /\ StepInv' /\ SeenInv'
    BY <1>2, RestType, RestStep
  <2> QED
    BY <2>1 DEF WorkInv, CurInv, RepInv, FreshInv, Own, Distributes, Fresh, Calm, Tasking, Working
<1>3. CASE UNCHANGED vars
  BY <1>3 DEF WorkInv, TypeOK, CurInv, RepInv, FreshInv, Own, Distributes, Fresh, StepInv, SeenInv,
     vars, db, worker, parent, user, note
<1> QED
  BY <1>1, <1>2, <1>3 DEF Next, Act, Rest, Edits, Notes, Parental

\* Every variable keeps its type.
THEOREM TypeCorrect == Spec => []TypeOK
<1>1. WorkInv => TypeOK
  BY DEF WorkInv
<1> QED
  BY <1>1, InitWork, WorkStep, PTL DEF Spec

-----------------------------------------------------------------------------
(* The rows: a worker overwrites no outcome but the finaliser's *)

Holds(w, r) ==
  \/ wpc[w] \in Tasking /\ r = cur[w]
  \/ wpc[w] # "crashed" /\ r = rep[w]

\* The row, and the copies of it that a note may put back.
Docs(r) == {row[r]} \cup {seen[n].doc : n \in {m \in Note : npc[m] = "save" /\ seen[m].row = r}}

\* No outcome of the row has been recorded by its worker.
Open(w, r) ==
  \/ row[r].status \in {"none", "running"}
  \/ row[r].status \in {"failed", "cancelled"} /\ w \in outlived

RowInv ==
  /\ \A w \in Worker, r \in Row : Holds(w, r) => \A d \in Docs(r) : ~d.out
  /\ \A w \in Worker, r \in Row \ clashed : Holds(w, r) => Open(w, r)
  /\ \A r \in Row : \A d \in Docs(r) : d.status \in {"none", "running"} => ~d.out
  /\ \A r \in Row : mem[r].status = "none" => \A d \in Docs(r) : d.status = "none"

LEMMA HoldsOwn ==
  ASSUME WorkInv, NEW w \in Worker, NEW r \in Row, Holds(w, r)
  PROVE  WorkerOf[r] = w /\ mem[r].status # "none" /\ AtWork(w)
BY RowConstants DEF WorkInv, CurInv, RepInv, Own, Distributes, Holds, AtWork, Tasking, Working

\* A worker takes up only rows that nobody has worked on.
LEMMA HoldsFrom ==
  ASSUME WorkInv, NEW w \in Worker, Act(w), NEW r \in Row, Holds(w, r)'
  PROVE  Holds(w, r) \/ mem[r].status = "none"
<1>1. /\ wpc \in [Worker -> Place]
      /\ cur \in [Worker -> Row \cup {NoRow}] /\ rep \in [Worker -> Row \cup {NoRow}]
      /\ Own(w) /\ Distributes(w) /\ NoRow \notin Row
  BY RowConstants DEF WorkInv, TypeOK, CurInv, RepInv
<1> USE <1>1 DEF Goto, Tasking, Working, Place, Own, Distributes, Holds
<1>2. CASE StartTask(w)
  BY <1>2 DEF StartTask
<1>3. CASE Measure(w) \/ MeasureNothing(w) \/ ReadQubit(w) \/ SaveQubit(w) \/ Return(w) \/ Crash(w)
  BY <1>3 DEF Measure, MeasureNothing, ReadQubit, SaveQubit, Return, Crash
<1>4. CASE Judge(w)
  BY <1>4 DEF Judge
<1>5. CASE Complete(w)
  BY <1>5 DEF Complete
<1>6. CASE Distribute(w)
  BY <1>6 DEF Distribute
<1>7. CASE Distributed(w) \/ Raise(w)
  BY <1>7 DEF Distributed, Raise
<1>8. CASE Record(w)
  BY <1>8 DEF Record, AfterRecord
<1>9. CASE RecordRaises(w)
  BY <1>9 DEF RecordRaises
<1> QED
  BY <1>2, <1>3, <1>4, <1>5, <1>6, <1>7, <1>8, <1>9 DEF Act, Work

\* A task model once used is never "none" again.
LEMMA NoneFrom ==
  ASSUME WorkInv, NEW w \in Worker, Act(w), NEW r \in Row, mem'[r].status = "none"
  PROVE  mem[r].status = "none" /\ mem'[r] = mem[r]
<1>1. Own(w) /\ Distributes(w) /\ todo[w] \subseteq Row
  BY DEF WorkInv, CurInv, RepInv, TypeOK
<1>2. mem' = mem => mem[r].status = "none" /\ mem'[r] = mem[r]
  OBVIOUS
<1>3. ASSUME NEW x, NEW s, NEW b, NEW v, Changes(x, s, b, v), s # "none"
      PROVE  mem[r].status = "none" /\ mem'[r] = mem[r]
  BY <1>3 DEF Changes
<1>4. mem[r].status = "none" /\ mem'[r] = mem[r]
  <2>1. wpc[w] \in Tasking => mem[cur[w]].status # "none"
    BY <1>1 DEF Own
  <2>2. CASE StartTask(w)
    <3>1. PICK x : Changes(x, "running", mem[x].out, mem[x].verdict)
      BY <2>2, Effects
    <3> QED
      BY <1>3, <3>1
  <2>3. CASE Measure(w)
    <3>1. PICK v : Changes(cur[w], mem[cur[w]].status, TRUE, v)
      BY <2>3, Effects
    <3> QED
      BY <1>3, <2>1, <2>3, <3>1 DEF Measure, Tasking, Working
  <2>4. CASE MeasureNothing(w)
    <3>1. Changes(cur[w], "completed", mem[cur[w]].out, mem[cur[w]].verdict)
      BY <2>4, Effects
    <3> QED
      BY <1>2, <1>3, <3>1
  <2>5. CASE ReadQubit(w) \/ SaveQubit(w) \/ Return(w) \/ Crash(w)
    BY <1>2, <2>5 DEF ReadQubit, SaveQubit, Return, Crash
  <2>6. CASE Judge(w)
    <3>1. \E b : Changes(cur[w], mem[cur[w]].status, b, mem[cur[w]].verdict)
      BY <2>6, Effects
    <3> QED
      BY <1>3, <2>1, <2>6, <3>1 DEF Judge, Tasking, Working
  <2>7. CASE Complete(w)
    <3>1. \/ mem' = mem
          \/ Changes(cur[w], "failed", mem[cur[w]].out, mem[cur[w]].verdict)
          \/ Changes(cur[w], "completed", mem[cur[w]].out, mem[cur[w]].verdict)
      BY <2>7, Effects
    <3>2. CASE Changes(cur[w], "failed", mem[cur[w]].out, mem[cur[w]].verdict)
      BY <1>3, <3>2
    <3>3. CASE Changes(cur[w], "completed", mem[cur[w]].out, mem[cur[w]].verdict)
      BY <1>3, <3>3
    <3> QED
      BY <1>2, <3>1, <3>2, <3>3
  <2>8. CASE Distribute(w)
    <3>1. PICK d \in todo[w], b \in BOOLEAN :
            /\ todo' = [todo EXCEPT ![w] = @ \ {d}] /\ cur' = [cur EXCEPT ![w] = d]
            /\ wpc' = [wpc EXCEPT ![w] = IF b THEN "read" ELSE "complete"]
            /\ Changes(d, "running", b, "unknown")
      BY <2>8, Effects
    <3> QED
      BY <1>2, <1>3, <3>1
  <2>9. CASE Distributed(w)
    <3>1. Changes(rep[w], "completed", mem[rep[w]].out, mem[rep[w]].verdict)
      BY <2>9, Effects
    <3> QED
      BY <1>2, <1>3, <3>1
  <2>10. CASE Raise(w)
    <3>1. Changes(cur[w], "failed", mem[cur[w]].out, mem[cur[w]].verdict)
      BY <2>10, Effects
    <3> QED
      BY <1>2, <1>3, <3>1
  <2>11. CASE Record(w)
    <3>1. Changes(cur[w], mem[cur[w]].status, FALSE, mem[cur[w]].verdict)
      BY <2>11, Effects
    <3> QED
      BY <1>3, <2>1, <2>11, <3>1 DEF Record, Tasking
  <2>12. CASE RecordRaises(w)
    <3>1. mem' = mem \/ Changes(rep[w], "failed", mem[rep[w]].out, mem[rep[w]].verdict)
      BY <2>12, Effects
    <3> QED
      BY <1>2, <1>3, <3>1
  <2> QED
    BY <2>2, <2>3, <2>4, <2>5, <2>6, <2>7, <2>8, <2>9, <2>10, <2>11, <2>12 DEF Act, Work
<1> QED
  BY <1>4

\* The two writes of a row by its worker.
LEMMA RowWrites ==
  ASSUME WorkInv, NEW w \in Worker, Act(w)
  PROVE  \/ row' = row
         \/ \E x \in Row : /\ mem[x].status = "none" /\ WorkerOf[x] = w /\ mem'[x].status # "none"
                           /\ row' = [row EXCEPT ![x] = [status |-> "running", out |-> FALSE]]
         \/ /\ wpc[w] = "record" /\ cur[w] \in Row /\ WorkerOf[cur[w]] = w
            /\ row' = [row EXCEPT ![cur[w]] = [status |-> mem[cur[w]].status, out |-> mem[cur[w]].out]]
            /\ mem[cur[w]].status \in {"completed", "failed"}
            /\ \A r \in Row : Holds(w, r)' => r # cur[w] /\ Holds(w, r)
<1>1. CASE StartTask(w)
  <2>1. PICK x \in Row \ Targets :
          /\ WorkerOf[x] = w /\ mem[x].status = "none"
          /\ row' = [row EXCEPT ![x] = [status |-> "running", out |-> FALSE]]
          /\ Changes(x, "running", mem[x].out, mem[x].verdict)
    BY <1>1, Effects
  <2> QED
    BY <2>1 DEF Changes
<1>2. CASE Record(w)
  <2>1. Own(w) /\ Distributes(w) /\ NoRow \notin Row /\ \A r \in Row : r \notin Mux[r]
    BY RowConstants DEF WorkInv, CurInv, RepInv
  <2>2. /\ wpc \in [Worker -> Place]
        /\ cur \in [Worker -> Row \cup {NoRow}] /\ rep[w] \in Row \cup {NoRow}
    BY DEF WorkInv, TypeOK
  <2> QED
    BY <1>2, <2>1, <2>2 DEF Record, AfterRecord, Goto, Own, Distributes, Holds, Tasking, Working
<1>3. row' = row \/ StartTask(w) \/ Record(w)
  BY DEF Act, Work, Measure, MeasureNothing, Judge, ReadQubit, SaveQubit, Complete, Distribute, Distributed,
     Return, Raise, RecordRaises, Crash, db
<1> QED
  BY <1>1, <1>2, <1>3

LEMMA InitRow == Init => RowInv
BY RowConstants DEF Init, RowInv, Holds, Docs, Blank, Tasking, Working

\* What the steps of the others make of a row and its copies.
LEMMA RestDocs ==
  ASSUME WorkInv, Rest, NEW r \in Row, NEW d \in Docs(r)'
  PROVE  \/ d \in Docs(r)
         \/ row[r].status = "running" /\ d.status \in {"failed", "cancelled"} /\ d.out = row[r].out
<1>1. row \in [Row -> Doc] /\ seen \in [Note -> [row : Row \cup {NoRow}, doc : Doc]]
      /\ npc \in [Note -> {"read", "save", "done"}]
  BY DEF WorkInv, TypeOK
<1>2. ASSUME NEW n \in Note, NoteRead(n) PROVE d \in Docs(r)
  BY <1>1, <1>2 DEF NoteRead, Docs, db
<1>3. ASSUME NEW n \in Note, NoteSave(n) PROVE d \in Docs(r)
  <2>1. row' = [row EXCEPT ![seen[n].row] = seen[n].doc] /\ npc[n] = "save"
    BY <1>3 DEF NoteSave
  <2>2. row'[r] \in Docs(r)
    BY <1>1, <2>1 DEF Docs
  <2>3. \A m \in Note : npc'[m] = "save" => npc[m] = "save" /\ seen'[m] = seen[m]
    BY <1>1, <1>3 DEF NoteSave
  <2> QED
    BY <2>2, <2>3 DEF Docs
<1>4. ASSUME NEW s \in {"failed", "cancelled"}, Settle(s), UNCHANGED note
      PROVE  \/ d \in Docs(r)
             \/ row[r].status = "running" /\ d.status \in {"failed", "cancelled"} /\ d.out = row[r].out
  <2>1. d \in Docs(r) \/ d = row'[r]
    BY <1>4 DEF Docs, note
  <2>2. \/ row'[r] = row[r]
        \/ row[r].status = "running" /\ row'[r].status = s /\ row'[r].out = row[r].out
    BY <1>1, <1>4 DEF Settle, Stale, Doc
  <2> QED
    BY <1>4, <2>1, <2>2 DEF Docs
<1>5. CASE UNCHANGED <<row, note>>
  BY <1>5 DEF Docs, note
<1>6. \/ \E n \in Note : NoteRead(n) \/ NoteSave(n)
      \/ \E s \in {"failed", "cancelled"} : Settle(s) /\ UNCHANGED note
      \/ UNCHANGED <<row, note>>
  BY DEF Rest, Edits, EditRead, EditSave, Notes, Parental, Parent, Submit, Gather, GatherRaises, Cancelled, Kill,
     Push, Poll, Hook, SettledBy, db, user
<1> QED
  BY <1>2, <1>3, <1>4, <1>5, <1>6

LEMMA ActRow ==
  ASSUME WorkInv, RowInv, NEW w \in Worker, Act(w)
  PROVE  RowInv'
<1>1. outlived' = outlived /\ UNCHANGED note
  BY Frame DEF parent
<1>2. \A r \in Row : \A d \in Docs(r)' : d \in Docs(r) \/ d = row'[r]
  BY <1>1 DEF Docs, note
<1>3. row \in [Row -> Doc] /\ \A r \in Row : row[r] \in Docs(r)
  BY DEF WorkInv, TypeOK, Docs
<1>4. ASSUME NEW v \in Worker \ {w}, NEW r \in Row, Holds(v, r)'
      PROVE  (\A d \in Docs(r)' : ~d.out) /\ (r \notin clashed' => Open(v, r)')
  <2>1. Holds(v, r)
    BY <1>4, Frame DEF Holds
  <2>2. row'[r] = row[r]
    BY <2>1, HoldsOwn, Frame
  <2> QED
    BY <1>1, <1>2, <1>3, <2>1, <2>2 DEF RowInv, Open, note
<1>5. ASSUME NEW r \in Row, Holds(w, r)'
      PROVE  (\A d \in Docs(r)' : ~d.out) /\ (r \notin clashed' => Open(w, r)')
  <2>1. (\A d \in Docs(r) : ~d.out) /\ (r \notin clashed => Open(w, r))
    BY <1>3, <1>5, HoldsFrom DEF RowInv, Open
  <2>2. row'[r] = row[r] \/ row'[r] = [status |-> "running", out |-> FALSE]
    <3>1. CASE row' = row
      BY <3>1
    <3>2. ASSUME NEW x \in Row, row' = [row EXCEPT ![x] = [status |-> "running", out |-> FALSE]]
          PROVE  row'[r] = row[r] \/ row'[r] = [status |-> "running", out |-> FALSE]
      BY <1>3, <3>2
    <3>3. ASSUME row' = [row EXCEPT ![cur[w]] = [status |-> mem[cur[w]].status, out |-> mem[cur[w]].out]],
                 r # cur[w]
          PROVE  row'[r] = row[r]
      BY <1>3, <3>3
    <3> QED
      BY <1>5, <3>1, <3>2, <3>3, RowWrites
  <2> QED
    BY <1>1, <1>2, <1>3, <2>1, <2>2 DEF Open, note
<1>6. ASSUME NEW r \in Row PROVE \A d \in Docs(r)' : d.status \in {"none", "running"} => ~d.out
  <2>1. \A d \in Docs(r) : d.status \in {"none", "running"} => ~d.out
    BY DEF RowInv
  <2>2. row'[r].status \in {"none", "running"} => ~row'[r].out
    <3>1. CASE row' = row
      BY <1>3, <2>1, <3>1
    <3>2. ASSUME NEW x \in Row, row' = [row EXCEPT ![x] = [status |-> "running", out |-> FALSE]]
          PROVE  row'[r].status \in {"none", "running"} => ~row'[r].out
      BY <1>3, <2>1, <3>2
    <3>3. ASSUME row' = [row EXCEPT ![cur[w]] = [status |-> mem[cur[w]].status, out |-> mem[cur[w]].out]],
                 mem[cur[w]].status \in {"completed", "failed"}
          PROVE  row'[r].status \in {"none", "running"} => ~row'[r].out
      BY <1>3, <2>1, <3>3
    <3> QED
      BY <3>1, <3>2, <3>3, RowWrites
  <2> QED
    BY <1>2, <2>1, <2>2
<1>7. ASSUME NEW r \in Row, mem'[r].status = "none" PROVE \A d \in Docs(r)' : d.status = "none"
  <2>1. mem[r].status = "none" /\ mem'[r] = mem[r] /\ \A d \in Docs(r) : d.status = "none"
    BY <1>7, NoneFrom DEF RowInv
  <2>2. wpc[w] = "record" => mem[cur[w]].status # "none"
    BY DEF WorkInv, CurInv, Own
  <2>3. row'[r] = row[r]
    BY <1>3, <1>7, <2>1, <2>2, RowWrites
  <2> QED
    BY <1>2, <1>3, <2>1, <2>3
<1> QED
  BY <1>4, <1>5, <1>6, <1>7 DEF RowInv

\* Settling leaves the workers that hold a row in outlived; a save that brings an
\* older row back marks it.
LEMMA RestOpen ==
  ASSUME WorkInv, RowInv, Rest, NEW w \in Worker, NEW r \in Row \ clashed', Holds(w, r), Calm
  PROVE  Open(w, r)'
<1>1. row \in [Row -> Doc] /\ AtWork(w) /\ (r \notin clashed => Open(w, r))
  BY HoldsOwn DEF WorkInv, TypeOK, RowInv
<1>2. ASSUME NEW s \in {"failed", "cancelled"}, Settle(s), outlived' = {v \in Worker : AtWork(v)},
             clashed' = clashed
      PROVE  Open(w, r)'
  BY <1>1, <1>2 DEF Settle, Stale, Doc, Open
<1>3. ASSUME NEW n \in Note, NoteSave(n) PROVE row'[r] = row[r] /\ UNCHANGED outlived /\ r \notin clashed
  <2>1. row' = [row EXCEPT ![seen[n].row] = seen[n].doc]
        /\ clashed' = IF row[seen[n].row] = seen[n].doc THEN clashed ELSE clashed \cup {seen[n].row}
    BY <1>3 DEF NoteSave
  <2> QED
    BY <1>1, <1>3, <2>1 DEF NoteSave, parent
<1>4. \/ \E n \in Note : NoteSave(n)
      \/ \E s \in {"failed", "cancelled"} :
           Settle(s) /\ outlived' = {v \in Worker : AtWork(v)} /\ clashed' = clashed
      \/ UNCHANGED <<row, outlived, clashed>>
  BY DEF Rest, Edits, EditRead, EditSave, Notes, NoteRead, Parental, Parent, Submit, Gather, GatherRaises,
     Cancelled, Kill, Push, Poll, Hook, SettledBy, db, parent, user, note
<1> QED
  BY <1>1, <1>2, <1>3, <1>4 DEF Open

LEMMA RestRow ==
  ASSUME WorkInv, RowInv, Rest
  PROVE  RowInv'
<1>1. Calm
  BY RestType
<1>2. ASSUME NEW w \in Worker, NEW r \in Row, Holds(w, r)'
      PROVE  Holds(w, r) /\ (\A d \in Docs(r)' : ~d.out)
  <2>1. Holds(w, r)
    BY <1>1, <1>2 DEF Calm, Holds, Tasking, Working
  <2>2. row[r] \in Docs(r) /\ \A d \in Docs(r) : ~d.out
    BY <2>1 DEF RowInv, Docs
  <2> QED
    BY <2>1, <2>2, RestDocs
<1>3. ASSUME NEW w \in Worker, NEW r \in Row \ clashed', Holds(w, r)' PROVE Open(w, r)'
  BY <1>1, <1>2, <1>3, RestOpen
<1>4. \A r \in Row : row[r] \in Docs(r) /\ mem'[r] = mem[r]
  BY <1>1 DEF Docs, Calm
<1>5. \A r \in Row : \A d \in Docs(r)' : d.status \in {"none", "running"} => ~d.out
  BY <1>4, RestDocs DEF RowInv
<1>6. \A r \in Row : mem'[r].status = "none" => \A d \in Docs(r)' : d.status = "none"
  BY <1>4, RestDocs DEF RowInv
<1> QED
  BY <1>2, <1>3, <1>5, <1>6 DEF RowInv

LEMMA RowStep == WorkInv /\ RowInv /\ [Next]_vars => RowInv'
<1> SUFFICES ASSUME WorkInv, RowInv, [Next]_vars PROVE RowInv'
  OBVIOUS
<1>1. CASE UNCHANGED vars
  BY <1>1 DEF RowInv, Holds, Open, Docs, vars, db, worker, parent, user, note
<1> QED
  BY <1>1, ActRow, RestRow DEF Next, Act, Rest, Edits, Notes, Parental

LEMMA RowCorrect == Spec => [](WorkInv /\ RowInv)
BY InitWork, InitRow, WorkStep, RowStep, PTL DEF Spec

\* A settled row changes only by the record of a worker that outlived the
\* settling, over what the finaliser declared: execute's finally block
\* overwrites no outcome that a worker recorded, and update_many none at all.
\* Another writer is a note or a review that saves an older row: such rows are
\* the clashed ones.
THEOREM OutcomesKept == Spec => OutcomeKept
<1> DEFINE A == \A r \in Row \ clashed' : Settled(r) /\ row'[r] # row[r] =>
                  /\ WorkerOf[r] \in outlived /\ wpc[WorkerOf[r]] = "record"
                  /\ row[r].status \in {"failed", "cancelled"} /\ ~row[r].out
<1>1. WorkInv /\ RowInv /\ [Next]_vars => [A]_vars
  <2> SUFFICES ASSUME WorkInv, RowInv, Next PROVE A
    OBVIOUS
  <2>1. row \in [Row -> Doc]
    BY DEF WorkInv, TypeOK
  <2>2. ASSUME NEW w \in Worker, Act(w) PROVE A
    <3>1. ASSUME NEW x \in Row, mem[x].status = "none",
                 row' = [row EXCEPT ![x] = [status |-> "running", out |-> FALSE]]
          PROVE  A
      <4>1. row[x].status = "none"
        BY <3>1 DEF RowInv, Docs
      <4> QED
        BY <2>1, <3>1, <4>1 DEF Settled
    <3>2. ASSUME wpc[w] = "record", cur[w] \in Row, WorkerOf[cur[w]] = w,
                 row' = [row EXCEPT ![cur[w]] = [status |-> mem[cur[w]].status, out |-> mem[cur[w]].out]]
          PROVE  A
      <4>1. UNCHANGED clashed
        BY <2>2, Frame DEF note
      <4>2. ~row[cur[w]].out /\ (cur[w] \notin clashed => Open(w, cur[w]))
        BY <3>2 DEF RowInv, Holds, Docs, Tasking
      <4> QED
        BY <2>1, <3>2, <4>1, <4>2 DEF Open, Settled
    <3> QED
      BY <2>2, <3>1, <3>2, RowWrites
  <2>3. CASE Rest
    <3>1. \/ \E s \in Status : Settle(s)
          \/ \E n \in Note : NoteSave(n)
          \/ row' = row
      BY <2>3 DEF Rest, Edits, EditRead, EditSave, Notes, NoteRead, Parental, Parent, Submit, Gather,
           GatherRaises, Cancelled, Kill, Push, Poll, Hook, SettledBy, db, Status
    <3>2. ASSUME NEW n \in Note, NoteSave(n) PROVE A
      BY <2>1, <3>2 DEF NoteSave
    <3> QED
      BY <2>1, <3>1, <3>2 DEF Settle, Stale, Settled
  <2> QED
    BY <2>2, <2>3 DEF Next, Act, Rest, Edits, Notes, Parental
<1> HIDE DEF A
<1>2. Spec => [][A]_vars
  BY <1>1, RowCorrect, PTL DEF Spec
<1> QED
  BY <1>2 DEF OutcomeKept, A

-----------------------------------------------------------------------------
(* The qubit documents: what a save writes *)

\* Outside the qubits where an edit overlapped, one writer at a time holds a copy
\* of the document, and the copy is current.
SnapInv ==
  \A q \in Qubit \ edited :
    /\ \A x \in Writing(q) : snap[x] = data[q]
    /\ \A x, y \in Writing(q) : x = y

LEMMA InitSnap == Init => SnapInv
BY DEF Init, SnapInv, Writing

\* How a worker's step touches the documents.
LEMMA DocWrites ==
  ASSUME WorkInv, NEW w \in Worker, Act(w)
  PROVE  \/ ReadQubit(w)
         \/ SaveQubit(w)
         \/ /\ data' = data /\ edited' = edited /\ wpc'[w] # "save"
            /\ snap' = snap \/ snap' = [snap EXCEPT ![w] = Nothing]
<1>1. wpc \in [Worker -> Place]
  BY DEF WorkInv, TypeOK
<1> USE <1>1 DEF Goto, db, user, Place
<1>2. CASE StartTask(w) \/ Measure(w) \/ MeasureNothing(w) \/ Return(w)
  BY <1>2 DEF StartTask, Measure, MeasureNothing, Return
<1>3. CASE Judge(w)
  BY <1>3 DEF Judge
<1>4. CASE Complete(w)
  BY <1>4 DEF Complete
<1>5. CASE Distribute(w)
  BY <1>5 DEF Distribute
<1>6. CASE Distributed(w) \/ Raise(w) \/ Crash(w)
  BY <1>6 DEF Distributed, Raise, Crash
<1>7. CASE Record(w)
  BY <1>7 DEF Record, AfterRecord
<1>8. CASE RecordRaises(w)
  BY <1>8 DEF RecordRaises
<1> QED
  BY <1>2, <1>3, <1>4, <1>5, <1>6, <1>7, <1>8 DEF Act, Work

\* Workers with rows of one qubit are of different steps, and of two steps the
\* earlier one's have returned; no worker and edit have the same name.
LEMMA WritingOne ==
  ASSUME WorkInv, NEW q \in Qubit, NEW v \in Writing(q) \cap Worker, NEW w \in Worker,
         wpc[w] \in Tasking, QubitOf[cur[w]] = q
  PROVE  v = w /\ v \notin Edit
<1>1. /\ cur[w] \in Row /\ WorkerOf[cur[w]] = w
      /\ v \in Worker /\ v \notin Edit
  BY RowConstants DEF WorkInv, CurInv, Own
<1>2. wpc[v] = "save" /\ QubitOf[cur[v]] = q
  BY <1>1 DEF Writing
<1>3. cur[v] \in Row /\ WorkerOf[cur[v]] = v
  BY <1>1, <1>2 DEF WorkInv, CurInv, Own, Tasking, Working
<1>4. v # w => StageOf[v] < StageOf[w] \/ StageOf[w] < StageOf[v]
  BY <1>1, <1>2, <1>3, RowConstants
<1>5. wpc[w] \notin {"waiting", "returned"}
  BY DEF Tasking, Working
<1> QED
  BY <1>1, <1>2, <1>4, <1>5 DEF WorkInv, StepInv

\* A step that is no save to q leaves the writers of q that it does not involve.
LEMMA ActSnap ==
  ASSUME WorkInv, SnapInv, NEW w \in Worker, Act(w)
  PROVE  SnapInv'
<1>1. /\ \A v \in Worker \ {w} : wpc'[v] = wpc[v] /\ cur'[v] = cur[v] /\ snap'[v] = snap[v]
      /\ \A e \in Edit : snap'[e] = snap[e]
      /\ epc' = epc
  BY Frame
<1>2. Worker \cap Edit = {}
  BY RowConstants
<1>3. \A q : \A x \in Writing(q)' : x # w => x \in Writing(q) /\ snap'[x] = snap[x]
  BY <1>1, <1>2 DEF Writing
<1>4. CASE ReadQubit(w)
  <2>1. wpc[w] = "read" /\ cur' = cur /\ data' = data
        /\ snap' = [snap EXCEPT ![w] = data[QubitOf[cur[w]]]]
    BY <1>4 DEF ReadQubit, db
  <2>2. wpc[w] \in Tasking /\ snap \in [Doing -> [Param -> Writer \cup {NoRow}]] /\ w \in Doing
    BY <2>1 DEF Tasking, Working, WorkInv, TypeOK, Doing
  <2>3. ASSUME NEW q \in Qubit \ edited', q # QubitOf[cur[w]]
        PROVE  w \notin Writing(q)' /\ q \notin edited
    BY <1>2, <1>4, <2>1, <2>3 DEF Writing, ReadQubit
  <2>4. ASSUME NEW q \in Qubit \ edited', q = QubitOf[cur[w]]
        PROVE  Writing(q)' \subseteq {w} /\ q \notin edited
    <3>1. Writing(q) \cap Edit = {} /\ q \notin edited
      BY <1>4, <2>4 DEF ReadQubit
    <3>2. Writing(q) \cap Worker \subseteq {w}
      BY <2>2, <2>4, WritingOne
    <3> QED
      BY <1>3, <3>1, <3>2 DEF Writing
  <2>5. ASSUME NEW q \in Qubit \ edited' PROVE \A x \in Writing(q)' : snap'[x] = data'[q]
    <3>1. CASE q = QubitOf[cur[w]]
      BY <2>1, <2>2, <2>4, <3>1
    <3>2. CASE q # QubitOf[cur[w]]
      BY <1>3, <2>1, <2>3, <3>2 DEF SnapInv
    <3> QED
      BY <3>1, <3>2
  <2>6. ASSUME NEW q \in Qubit \ edited' PROVE \A x, y \in Writing(q)' : x = y
    BY <1>3, <2>3, <2>4 DEF SnapInv
  <2> QED
    BY <2>5, <2>6 DEF SnapInv
<1>5. CASE SaveQubit(w)
  <2>1. wpc[w] = "save" /\ cur' = cur /\ wpc' = [wpc EXCEPT ![w] = "complete"] /\ edited' = edited
        /\ \E d : data' = [data EXCEPT ![QubitOf[cur[w]]] = d]
    BY <1>5 DEF SaveQubit, Goto, user
  <2>2. \A q : w \notin Writing(q)'
    BY <1>2, <2>1 DEF Writing, WorkInv, TypeOK
  <2>3. ASSUME NEW q \in Qubit \ edited', q = QubitOf[cur[w]] PROVE Writing(q)' = {}
    <3>1. w \in Writing(q)
      BY <2>1, <2>3 DEF Writing
    <3> QED
      BY <1>3, <2>1, <2>2, <2>3, <3>1 DEF SnapInv
  <2>4. ASSUME NEW q \in Qubit \ edited', q # QubitOf[cur[w]] PROVE data'[q] = data[q]
    BY <2>1, <2>4 DEF WorkInv, TypeOK
  <2> QED
    BY <1>3, <2>1, <2>2, <2>3, <2>4 DEF SnapInv
<1>6. CASE data' = data /\ edited' = edited /\ wpc'[w] # "save"
  <2>1. \A q : w \notin Writing(q)'
    BY <1>2, <1>6 DEF Writing
  <2> QED
    BY <1>3, <1>6, <2>1 DEF SnapInv
<1> QED
  BY <1>4, <1>5, <1>6, DocWrites

LEMMA EditSnap ==
  ASSUME WorkInv, SnapInv, NEW e \in Edit, Edits(e)
  PROVE  SnapInv'
<1>1. /\ Worker \cap Edit = {} /\ EditQubit[e] \in Qubit
      /\ snap \in [Doing -> [Param -> Writer \cup {NoRow}]] /\ e \in Doing
      /\ epc \in [Edit -> {"read", "save", "done"}] /\ data \in [Qubit -> [Param -> Writer \cup {NoRow}]]
  BY RowConstants DEF WorkInv, TypeOK, Doing
<1>2. CASE EditRead(e)
  <2>1. \A q : \A x \in Writing(q)' : x # e => x \in Writing(q) /\ snap'[x] = snap[x]
    BY <1>1, <1>2 DEF EditRead, Writing, worker, Doing
  <2>2. snap'[e] = data[EditQubit[e]] /\ data' = data
    BY <1>1, <1>2 DEF EditRead, db
  <2>3. ASSUME NEW q \in Qubit \ edited'
        PROVE  q \notin edited /\ (e \in Writing(q)' => q = EditQubit[e] /\ Writing(q) = {})
    BY <1>1, <1>2 DEF EditRead, Writing
  <2> QED
    BY <2>1, <2>2, <2>3 DEF SnapInv
<1>3. CASE EditSave(e)
  <2>1. \A q : Writing(q)' \subseteq Writing(q) \ {e}
    BY <1>1, <1>3 DEF EditSave, Writing, worker
  <2>2. \A q \in Qubit : q # EditQubit[e] => data'[q] = data[q]
    BY <1>1, <1>3 DEF EditSave
  <2>3. \A x \in Doing : x # e => snap'[x] = snap[x]
    BY <1>1, <1>3 DEF EditSave
  <2>4. edited' = edited /\ e \in Writing(EditQubit[e])
    BY <1>3 DEF EditSave, Writing
  <2>5. \A q : Writing(q) \subseteq Doing
    BY DEF Writing, Doing
  <2> QED
    BY <2>1, <2>2, <2>3, <2>4, <2>5 DEF SnapInv
<1> QED
  BY <1>2, <1>3 DEF Edits

LEMMA SnapStep == WorkInv /\ SnapInv /\ [Next]_vars => SnapInv'
<1> SUFFICES ASSUME WorkInv, SnapInv, [Next]_vars PROVE SnapInv'
  OBVIOUS
<1>1. ASSUME UNCHANGED <<data, snap, edited, epc>>, Calm PROVE SnapInv'
  <2>1. \A q \in Qubit : Writing(q)' \subseteq Writing(q)
    BY <1>1 DEF Calm, Writing
  <2> QED
    BY <1>1, <2>1 DEF SnapInv
<1>2. CASE Parental \/ \E n \in Note : Notes(n)
  <2>1. UNCHANGED <<data, snap, edited, epc>>
    BY <1>2 DEF Notes, NoteRead, NoteSave, Parental, Parent, Submit, Gather, GatherRaises, Cancelled, Kill, Push,
         Poll, Hook, db, user
  <2> QED
    BY <1>1, <1>2, <2>1, RestType DEF Rest
<1>3. CASE UNCHANGED vars
  BY <1>1, <1>3 DEF Calm, vars, db, worker, user
<1> QED
  BY <1>2, <1>3, ActSnap, EditSnap DEF Next, Act, Edits, Notes, Parental

\* update_calib_data saves the whole document it read, with its own parameter put
\* in: as long as no edit overlaps it, no other parameter changes.  Workers
\* of several steps write the same qubits, one step after the other has resolved.
THEOREM SavesMerge == Spec => MergesOwn
<1> DEFINE A == \A q \in Qubit \ edited', p \in Param : data'[q][p] # data[q][p] =>
                  \/ \E w \in Writing(q) \cap Worker :
                       p = ParamOf[cur[w]] /\ data'[q][p] = cur[w]
                  \/ \E e \in Writing(q) \cap Edit : p = EditParam[e] /\ data'[q][p] = e
<1>1. WorkInv /\ SnapInv /\ [Next]_vars => [A]_vars
  <2> SUFFICES ASSUME WorkInv, SnapInv, Next PROVE A
    OBVIOUS
  <2>1. /\ data \in [Qubit -> [Param -> Writer \cup {NoRow}]]
        /\ snap \in [Doing -> [Param -> Writer \cup {NoRow}]] /\ Worker \cup Edit = Doing
    BY DEF WorkInv, TypeOK, Doing
  <2>2. ASSUME NEW w \in Worker, SaveQubit(w) PROVE A
    <3>1. /\ data' = [data EXCEPT ![QubitOf[cur[w]]] = [snap[w] EXCEPT ![ParamOf[cur[w]]] = cur[w]]]
          /\ edited' = edited /\ wpc[w] = "save"
      BY <2>2 DEF SaveQubit, user
    <3>2. w \in Writing(QubitOf[cur[w]])
      BY <3>1 DEF Writing
    <3>3. ASSUME NEW q \in Qubit \ edited', NEW p \in Param, data'[q][p] # data[q][p]
          PROVE  q = QubitOf[cur[w]] /\ p = ParamOf[cur[w]] /\ data'[q][p] = cur[w]
      <4>1. q = QubitOf[cur[w]]
        BY <2>1, <3>1, <3>3
      <4>2. snap[w] = data[q]
        BY <3>1, <3>2, <4>1 DEF SnapInv
      <4> QED
        BY <2>1, <3>1, <3>3, <4>1, <4>2
    <3> QED
      BY <3>2, <3>3
  <2>3. ASSUME NEW e \in Edit, EditSave(e) PROVE A
    <3>1. PICK new \in {snap[e], [snap[e] EXCEPT ![EditParam[e]] = e]} :
             /\ data' = [data EXCEPT ![EditQubit[e]] = new]
             /\ edited' = edited /\ epc[e] = "save"
      BY <2>3 DEF EditSave
    <3>2. e \in Writing(EditQubit[e])
      BY <3>1 DEF Writing
    <3>3. ASSUME NEW q \in Qubit \ edited', NEW p \in Param, data'[q][p] # data[q][p]
          PROVE  q = EditQubit[e] /\ p = EditParam[e] /\ data'[q][p] = e
      <4>1. q = EditQubit[e]
        BY <2>1, <3>1, <3>3
      <4>2. snap[e] = data[q]
        BY <3>1, <3>2, <4>1 DEF SnapInv
      <4> QED
        BY <2>1, <3>1, <3>3, <4>1, <4>2
    <3> QED
      BY <3>2, <3>3
  <2>4. data' = data \/ (\E w \in Worker : SaveQubit(w)) \/ (\E e \in Edit : EditSave(e))
    <3>1. ASSUME NEW w \in Worker, Act(w) PROVE data' = data \/ SaveQubit(w)
      BY <3>1, DocWrites DEF ReadQubit, db
    <3>2. ASSUME Parental \/ (\E n \in Note : Notes(n)) \/ \E e \in Edit : EditRead(e) PROVE data' = data
      BY <3>2 DEF EditRead, Notes, NoteRead, NoteSave, Parental, Parent, Submit, Gather, GatherRaises, Cancelled,
           Kill, Push, Poll, Hook, db
    <3> QED
      BY <3>1, <3>2 DEF Next, Act, Notes, Parental
  <2> QED
    BY <2>2, <2>3, <2>4
<1> HIDE DEF A
<1>2. Spec => [][A]_vars
  BY <1>1, InitWork, InitSnap, WorkStep, SnapStep, PTL DEF Spec
<1> QED
  BY <1>2 DEF MergesOwn, A

-----------------------------------------------------------------------------
(* Rejected results *)

Bad(r) == mem[r].verdict \in Rejected

\* No document and no copy of one holds the row's result.
Absent(r) ==
  /\ \A q \in Qubit, p \in Param : data[q][p] # r
  /\ \A x \in Doing, p \in Param : snap[x][p] # r

\* A rejected result is never on its way to the document.
Cleared(w) ==
  /\ wpc[w] = "run" => Absent(cur[w])
  /\ wpc[w] \in {"read", "save"} => ~Bad(cur[w])
  /\ wpc[w] = "complete" /\ Bad(cur[w]) => ~mem[cur[w]].out
  /\ wpc[w] # "crashed" /\ rep[w] # NoRow /\ Bad(rep[w]) => ~mem[rep[w]].out
  /\ wpc[w] = "record" /\ Bad(cur[w]) /\ mem[cur[w]].out => mem[cur[w]].status = "failed"

VerdictInv ==
  /\ \A r \in Row : Bad(r) \/ mem[r].status = "none" => Absent(r)
  /\ \A r \in Row : Bad(r) => \A d \in Docs(r) : d.out => d.status = "failed"
  /\ \A w \in Worker : Cleared(w)

LEMMA InitVerdict == Init => VerdictInv
BY RowConstants DEF Init, VerdictInv, Cleared, Bad, Absent, Docs, Blank, Nothing, Rejected

\* A result enters a document by the save of its own row alone.
LEMMA AbsentStays ==
  ASSUME WorkInv, NEW w \in Worker, Act(w), NEW r \in Row, Absent(r),
         wpc[w] = "save" => r # cur[w]
  PROVE  Absent(r)'
<1>1. /\ data \in [Qubit -> [Param -> Writer \cup {NoRow}]]
      /\ snap \in [Doing -> [Param -> Writer \cup {NoRow}]]
      /\ \A p \in Param : Nothing[p] # r
  BY RowConstants DEF WorkInv, TypeOK, Nothing
<1>2. wpc[w] \in Tasking => QubitOf[cur[w]] \in Qubit
  BY RowConstants DEF WorkInv, CurInv, Own
<1>3. CASE ReadQubit(w)
  <2>1. data' = data /\ snap' = [snap EXCEPT ![w] = data[QubitOf[cur[w]]]] /\ QubitOf[cur[w]] \in Qubit
    BY <1>2, <1>3 DEF ReadQubit, db, Tasking, Working
  <2> QED
    BY <1>1, <2>1 DEF Absent
<1>4. CASE SaveQubit(w)
  <2>1. /\ data' = [data EXCEPT ![QubitOf[cur[w]]] = [snap[w] EXCEPT ![ParamOf[cur[w]]] = cur[w]]]
        /\ snap' = [snap EXCEPT ![w] = Nothing] /\ r # cur[w] /\ w \in Doing
    BY <1>4 DEF SaveQubit, Doing
  <2>2. \A p \in Param : [snap[w] EXCEPT ![ParamOf[cur[w]]] = cur[w]][p] # r
    BY <1>1, <2>1 DEF Absent
  <2> QED
    BY <1>1, <2>1, <2>2 DEF Absent
<1>5. CASE data' = data /\ (snap' = snap \/ snap' = [snap EXCEPT ![w] = Nothing])
  BY <1>1, <1>5 DEF Absent
<1> QED
  BY <1>3, <1>4, <1>5, DocWrites

\* The worker that steps: a measured task passes or fails its validation before
\* the backend save.
LEMMA ActCleared ==
  ASSUME WorkInv, RowInv, VerdictInv, NEW w \in Worker, Act(w)
  PROVE  Cleared(w)'
<1>1. /\ wpc \in [Worker -> Place]
      /\ cur \in [Worker -> Row \cup {NoRow}] /\ rep \in [Worker -> Row \cup {NoRow}]
      /\ todo \in [Worker -> SUBSET Row] /\ Own(w) /\ Distributes(w) /\ Cleared(w)
      /\ NoRow \notin Row /\ (rep[w] # NoRow => rep[w] \notin Mux[rep[w]])
  BY RowConstants DEF WorkInv, TypeOK, CurInv, RepInv, VerdictInv
<1> USE <1>1 DEF Goto, Tasking, Working, Place, Own, Distributes, Cleared, Bad, Rejected
<1>3. CASE StartTask(w)
  <2>1. PICK x \in Row \ Targets :
          /\ WorkerOf[x] = w /\ mem[x].status = "none" /\ cur' = [cur EXCEPT ![w] = x]
          /\ row' = [row EXCEPT ![x] = [status |-> "running", out |-> FALSE]]
          /\ Changes(x, "running", mem[x].out, mem[x].verdict)
    BY <1>3, Effects
  <2>2. wpc'[w] = "run" /\ cur'[w] = x /\ rep' = rep /\ rep[w] = NoRow /\ wpc[w] = "idle"
    BY <1>3, <2>1 DEF StartTask
  <2>3. Absent(x)'
    BY <2>1, <2>2, AbsentStays DEF VerdictInv
  <2>4. Absent(cur[w])'
    BY <2>2, <2>3
  <2> QED
    BY <2>2, <2>4
<1>4. CASE Measure(w)
  <2>2. wpc'[w] = "artifacts" /\ rep' = rep /\ rep[w] = NoRow
    BY <1>4 DEF Measure
  <2> QED
    BY <2>2
<1>5. CASE MeasureNothing(w)
  <2>1. Changes(cur[w], "completed", mem[cur[w]].out, mem[cur[w]].verdict)
    BY <1>5, Effects
  <2>2. wpc'[w] = "record" /\ cur' = cur /\ rep' = rep /\ rep[w] = NoRow /\ wpc[w] = "run"
    BY <1>5 DEF MeasureNothing
  <2> QED
    BY <2>1, <2>2 DEF Changes
<1>6. CASE Judge(w)
  <2>1. \/ mem[cur[w]].verdict = "good" /\ Changes(cur[w], mem[cur[w]].status, TRUE, mem[cur[w]].verdict)
        \/ mem[cur[w]].verdict # "good" /\ Changes(cur[w], mem[cur[w]].status, FALSE, mem[cur[w]].verdict)
    BY <1>6, Effects
  <2>2. /\ cur' = cur /\ rep' = rep /\ rep[w] = NoRow
        /\ wpc'[w] = IF mem[cur[w]].verdict = "good" THEN "read" ELSE "complete"
    BY <1>6 DEF Judge
  <2> QED
    BY <2>1, <2>2 DEF Changes
<1>7. CASE ReadQubit(w) \/ SaveQubit(w)
  <2>1. wpc'[w] \in {"save", "complete"} /\ cur' = cur /\ rep' = rep /\ mem' = mem /\ wpc[w] \in {"read", "save"}
    BY <1>7 DEF ReadQubit, SaveQubit
  <2> QED
    BY <2>1
<1>8. CASE Return(w) \/ Crash(w)
  <2>1. wpc'[w] \in {"returned", "crashed"} /\ rep' = rep /\ mem' = mem /\ (wpc'[w] = "returned" => rep[w] = NoRow)
    BY <1>8 DEF Return, Crash
  <2> QED
    BY <2>1
<1>9. CASE Complete(w)
  <2>1. wpc[w] = "complete" /\ cur' = cur
    BY <1>9 DEF Complete
  <2>2. ASSUME mem' = mem, rep' = [rep EXCEPT ![w] = cur[w]], wpc'[w] = "distribute"
        PROVE  Cleared(w)'
    BY <2>1, <2>2
  <2>3. ASSUME NEW s \in {"failed", "completed"}, Changes(cur[w], s, mem[cur[w]].out, mem[cur[w]].verdict),
               rep' = rep, wpc'[w] = "record"
        PROVE  Cleared(w)'
    BY <2>1, <2>3 DEF Changes
  <2>4. \/ Changes(cur[w], "failed", mem[cur[w]].out, mem[cur[w]].verdict) /\ UNCHANGED <<rep, todo>>
           /\ wpc'[w] = "record"
        \/ Changes(cur[w], "completed", mem[cur[w]].out, mem[cur[w]].verdict) /\ UNCHANGED <<rep, todo>>
           /\ wpc'[w] = "record"
        \/ /\ mem' = mem /\ rep' = [rep EXCEPT ![w] = cur[w]] /\ todo' = [todo EXCEPT ![w] = Mux[cur[w]]]
           /\ wpc'[w] = "distribute"
    <3>1. \/ mem[cur[w]].verdict = "bad" /\ Changes(cur[w], "failed", mem[cur[w]].out, mem[cur[w]].verdict)
          \/ mem[cur[w]].verdict # "bad" /\ Mux[cur[w]] # {} /\ mem' = mem
          \/ mem[cur[w]].verdict # "bad" /\ Mux[cur[w]] = {}
             /\ Changes(cur[w], "completed", mem[cur[w]].out, mem[cur[w]].verdict)
      BY <1>9, Effects
    <3> HIDE DEF Own, Distributes, Cleared
    <3> QED
      BY <1>9, <3>1 DEF Complete
  <2> QED
    BY <2>2, <2>3, <2>4
<1>10. CASE Distribute(w)
  <2>1. PICK d \in todo[w], b \in BOOLEAN :
          /\ todo' = [todo EXCEPT ![w] = @ \ {d}] /\ cur' = [cur EXCEPT ![w] = d]
          /\ wpc' = [wpc EXCEPT ![w] = IF b THEN "read" ELSE "complete"]
          /\ Changes(d, "running", b, "unknown")
    BY <1>10, Effects
  <2>2. wpc[w] = "distribute" /\ rep' = rep /\ d \in Mux[rep[w]] /\ d # rep[w]
    BY <1>10, <2>1 DEF Distribute
  <2> QED
    BY <2>1, <2>2 DEF Changes
<1>11. CASE Distributed(w)
  <2>1. Changes(rep[w], "completed", mem[rep[w]].out, mem[rep[w]].verdict)
    BY <1>11, Effects
  <2>2. wpc[w] = "distribute" /\ cur'[w] = rep[w] /\ rep'[w] = NoRow /\ wpc'[w] = "record"
    BY <1>11 DEF Distributed
  <2> QED
    BY <2>1, <2>2 DEF Changes
<1>12. CASE Raise(w)
  <2>1. Changes(cur[w], "failed", mem[cur[w]].out, mem[cur[w]].verdict)
    BY <1>12, Effects
  <2>2. wpc[w] \in Working /\ cur' = cur /\ rep' = rep /\ wpc'[w] = "record"
    BY <1>12 DEF Raise
  <2> QED
    BY <2>1, <2>2 DEF Changes
<1>13. CASE Record(w)
  <2>1. Changes(cur[w], mem[cur[w]].status, FALSE, mem[cur[w]].verdict)
    BY <1>13, Effects
  <2>2. wpc[w] = "record" /\ rep' = rep
        /\ wpc'[w] = IF rep[w] = NoRow THEN "idle" ELSE "distribute"
    BY <1>13 DEF Record, AfterRecord
  <2> QED
    BY <2>1, <2>2 DEF Changes
<1>14. CASE RecordRaises(w)
  <2>1. CASE rep[w] = NoRow
    BY <1>14, <2>1 DEF RecordRaises
  <2>2. CASE rep[w] # NoRow
    <3>1. Changes(rep[w], "failed", mem[rep[w]].out, mem[rep[w]].verdict)
      BY <1>14, <2>2, Effects
    <3>2. wpc' = wpc /\ wpc[w] = "record" /\ cur'[w] = rep[w] /\ rep'[w] = NoRow
      BY <1>14, <2>2 DEF RecordRaises
    <3> QED
      BY <2>2, <3>1, <3>2 DEF Changes
  <2> QED
    BY <2>1, <2>2
<1> QED
  BY <1>3, <1>4, <1>5, <1>6, <1>7, <1>8, <1>9, <1>10, <1>11, <1>12, <1>13, <1>14 DEF Act, Work

\* A result is rejected only by the measurement.
LEMMA BadFrom ==
  ASSUME WorkInv, NEW w \in Worker, Act(w), NEW r \in Row, Bad(r)'
  PROVE  Bad(r) \/ (wpc[w] = "run" /\ r = cur[w])
<1>1. ASSUME NEW x, NEW s, NEW b, Changes(x, s, b, mem[x].verdict) PROVE mem'[r].verdict = mem[r].verdict
  BY <1>1 DEF Changes
<1>2. CASE StartTask(w)
  <2>1. PICK x : Changes(x, "running", mem[x].out, mem[x].verdict)
    BY <1>2, Effects
  <2> QED
    BY <1>1, <2>1 DEF Bad
<1>3. CASE Measure(w)
  <2>1. PICK v : Changes(cur[w], mem[cur[w]].status, TRUE, v)
    BY <1>3, Effects
  <2> QED
    BY <1>3, <2>1 DEF Bad, Changes, Measure
<1>4. CASE MeasureNothing(w) \/ Complete(w)
  <2>1. \/ mem' = mem
        \/ Changes(cur[w], "failed", mem[cur[w]].out, mem[cur[w]].verdict)
        \/ Changes(cur[w], "completed", mem[cur[w]].out, mem[cur[w]].verdict)
    BY <1>4, Effects
  <2>2. CASE Changes(cur[w], "failed", mem[cur[w]].out, mem[cur[w]].verdict)
    BY <1>1, <2>2 DEF Bad
  <2>3. CASE Changes(cur[w], "completed", mem[cur[w]].out, mem[cur[w]].verdict)
    BY <1>1, <2>3 DEF Bad
  <2> QED
    BY <2>1, <2>2, <2>3 DEF Bad
<1>5. CASE Judge(w)
  <2>1. PICK b : Changes(cur[w], mem[cur[w]].status, b, mem[cur[w]].verdict)
    BY <1>5, Effects
  <2> QED
    BY <1>1, <2>1 DEF Bad
<1>6. CASE ReadQubit(w) \/ SaveQubit(w) \/ Return(w) \/ Crash(w)
  BY <1>6 DEF ReadQubit, SaveQubit, Return, Crash, Bad
<1>7. CASE Distribute(w)
  <2>1. PICK d \in todo[w], b \in BOOLEAN :
          /\ todo' = [todo EXCEPT ![w] = @ \ {d}] /\ cur' = [cur EXCEPT ![w] = d]
          /\ wpc' = [wpc EXCEPT ![w] = IF b THEN "read" ELSE "complete"]
          /\ Changes(d, "running", b, "unknown")
    BY <1>7, Effects
  <2> QED
    BY <2>1 DEF Bad, Changes, Rejected
<1>8. CASE Distributed(w)
  <2>1. Changes(rep[w], "completed", mem[rep[w]].out, mem[rep[w]].verdict)
    BY <1>8, Effects
  <2> QED
    BY <1>1, <2>1 DEF Bad
<1>9. CASE Raise(w)
  <2>1. Changes(cur[w], "failed", mem[cur[w]].out, mem[cur[w]].verdict)
    BY <1>9, Effects
  <2> QED
    BY <1>1, <2>1 DEF Bad
<1>10. CASE Record(w)
  <2>1. Changes(cur[w], mem[cur[w]].status, FALSE, mem[cur[w]].verdict)
    BY <1>10, Effects
  <2> QED
    BY <1>1, <2>1 DEF Bad
<1>11. CASE RecordRaises(w)
  <2>1. mem' = mem \/ Changes(rep[w], "failed", mem[rep[w]].out, mem[rep[w]].verdict)
    BY <1>11, Effects
  <2>2. CASE Changes(rep[w], "failed", mem[rep[w]].out, mem[rep[w]].verdict)
    BY <1>1, <2>2 DEF Bad
  <2> QED
    BY <2>1, <2>2 DEF Bad
<1> QED
  BY <1>2, <1>3, <1>4, <1>5, <1>6, <1>7, <1>8, <1>9, <1>10, <1>11 DEF Act, Work

LEMMA ActVerdict ==
  ASSUME WorkInv, RowInv, VerdictInv, NEW w \in Worker, Act(w)
  PROVE  VerdictInv'
<1>1. /\ \A v \in Worker \ {w} : wpc'[v] = wpc[v] /\ cur'[v] = cur[v] /\ rep'[v] = rep[v]
      /\ \A r \in Row : WorkerOf[r] # w => mem'[r] = mem[r] /\ row'[r] = row[r]
  BY Frame
<1>2. ASSUME NEW r \in Row, Bad(r)' \/ mem'[r].status = "none" PROVE Absent(r)'
  <2>1. Absent(r)
    <3>1. CASE mem'[r].status = "none"
      BY <3>1, NoneFrom DEF VerdictInv
    <3>2. CASE Bad(r)'
      BY <3>2, BadFrom DEF VerdictInv, Cleared
    <3> QED
      BY <1>2, <3>1, <3>2
  <2>2. wpc[w] = "save" => r # cur[w]
    <3>1. wpc[w] = "save" => ~Bad(cur[w]) /\ mem[cur[w]].status # "none"
      BY DEF VerdictInv, Cleared, WorkInv, CurInv, Own, Tasking, Working
    <3> QED
      BY <1>2, <3>1, NoneFrom, BadFrom
  <2> QED
    BY <2>1, <2>2, AbsentStays
<1>3. ASSUME NEW r \in Row, Bad(r)', NEW d \in Docs(r)', d.out PROVE d.status = "failed"
  <2>1. row \in [Row -> Doc]
    BY DEF WorkInv, TypeOK
  <2>2. d \in Docs(r) => d.status = "failed"
    <3>1. wpc[w] = "run" /\ r = cur[w] => \A x \in Docs(r) : ~x.out
      BY DEF RowInv, Holds, Tasking, Working
    <3> QED
      BY <1>3, <3>1, BadFrom DEF VerdictInv
  <2>3. d \in Docs(r) \/ d = row'[r]
    BY Frame DEF Docs, note
  <2>4. row[r] \in Docs(r)
    BY DEF Docs
  <2>5. ASSUME NEW x \in Row, row' = [row EXCEPT ![x] = [status |-> "running", out |-> FALSE]]
        PROVE  d.status = "failed"
    BY <1>3, <2>1, <2>2, <2>3, <2>4, <2>5
  <2>6. ASSUME wpc[w] = "record", cur[w] \in Row,
               row' = [row EXCEPT ![cur[w]] = [status |-> mem[cur[w]].status, out |-> mem[cur[w]].out]]
        PROVE  d.status = "failed"
    <3>1. Bad(r)
      BY <1>3, <2>6, BadFrom
    <3>2. CASE r = cur[w]
      <4>1. row'[r].status = mem[cur[w]].status /\ row'[r].out = mem[cur[w]].out
        BY <2>1, <2>6, <3>2
      <4> QED
        BY <1>3, <2>2, <2>3, <2>6, <3>1, <3>2, <4>1 DEF VerdictInv, Cleared
    <3>3. CASE r # cur[w]
      BY <2>1, <2>2, <2>3, <2>4, <2>6, <3>3
    <3> QED
      BY <3>2, <3>3
  <2> QED
    BY <2>2, <2>3, <2>4, <2>5, <2>6, RowWrites
<1>4. ASSUME NEW v \in Worker \ {w} PROVE Cleared(v)'
  <2>1. Cleared(v) /\ Own(v) /\ Distributes(v) /\ Own(w) /\ rep[v] \in Row \cup {NoRow}
    BY DEF VerdictInv, WorkInv, CurInv, RepInv, TypeOK
  <2>2. wpc[v] \in Tasking => mem'[cur[v]] = mem[cur[v]]
    BY <1>1, <2>1 DEF Own
  <2>3. rep[v] # NoRow => mem'[rep[v]] = mem[rep[v]]
    BY <1>1, <2>1 DEF Distributes
  <2>4. wpc[v] = "run" => Absent(cur[v])'
    <3>1. wpc[v] = "run" => cur[v] \in Row /\ Absent(cur[v]) /\ (wpc[w] = "save" => cur[v] # cur[w])
      BY <2>1 DEF Own, Cleared, Tasking, Working
    <3>2. ASSUME wpc[v] = "run" PROVE Absent(cur[v])'
      <4>1. ASSUME NEW r \in Row, r = cur[v] PROVE Absent(r)'
        BY <3>1, <3>2, <4>1, AbsentStays
      <4>2. cur'[v] = cur[v]
        BY <1>1
      <4> QED
        BY <3>1, <3>2, <4>1, <4>2 DEF Absent
    <3> QED
      BY <3>2
  <2>5. wpc'[v] = wpc[v] /\ cur'[v] = cur[v] /\ rep'[v] = rep[v]
    BY <1>1
  <2> QED
    BY <2>1, <2>2, <2>3, <2>4, <2>5 DEF Cleared, Bad, Tasking, Working
<1> QED
  BY <1>2, <1>3, <1>4, ActCleared DEF VerdictInv

\* An edit writes its own values, the finalisers settle rows without outputs, a
\* note puts back what was there.
LEMMA RestKeepsOut ==
  ASSUME WorkInv, RowInv, Rest, NEW r \in Row, NEW d \in Docs(r)', d.out
  PROVE  d \in Docs(r)
<1>1. row[r] \in Docs(r)
  BY DEF Docs
<1>2. row[r].status = "running" => ~row[r].out
  BY <1>1 DEF RowInv
<1> QED
  BY <1>2, RestDocs

LEMMA RestAbsent ==
  ASSUME WorkInv, Rest, NEW r \in Row, Absent(r)
  PROVE  Absent(r)'
<1>1. /\ data \in [Qubit -> [Param -> Writer \cup {NoRow}]]
      /\ snap \in [Doing -> [Param -> Writer \cup {NoRow}]]
      /\ \A p \in Param : Nothing[p] # r
  BY RowConstants DEF WorkInv, TypeOK, Nothing
<1>2. ASSUME NEW e \in Edit, EditRead(e) PROVE Absent(r)'
  <2>1. data' = data /\ snap' = [snap EXCEPT ![e] = data[EditQubit[e]]] /\ EditQubit[e] \in Qubit
    BY <1>2, RowConstants DEF EditRead, db
  <2> QED
    BY <1>1, <2>1 DEF Absent
<1>3. ASSUME NEW e \in Edit, EditSave(e) PROVE Absent(r)'
  <2>1. PICK new \in {snap[e], [snap[e] EXCEPT ![EditParam[e]] = e]} :
           /\ data' = [data EXCEPT ![EditQubit[e]] = new]
           /\ snap' = [snap EXCEPT ![e] = Nothing] /\ r # e /\ e \in Doing
    BY <1>3, RowConstants DEF EditSave, Doing
  <2>2. \A p \in Param : new[p] # r
    BY <1>1, <2>1 DEF Absent
  <2> QED
    BY <1>1, <2>1, <2>2 DEF Absent
<1>4. CASE Parental \/ \E n \in Note : Notes(n)
  <2>1. data' = data /\ snap' = snap
    BY <1>4 DEF Notes, NoteRead, NoteSave, Parental, Parent, Submit, Gather, GatherRaises, Cancelled, Kill, Push,
         Poll, Hook, db
  <2> QED
    BY <2>1 DEF Absent
<1> QED
  BY <1>2, <1>3, <1>4 DEF Rest, Edits

LEMMA RestVerdict ==
  ASSUME WorkInv, RowInv, VerdictInv, Rest
  PROVE  VerdictInv'
<1>1. Calm
  BY RestType
<1>2. ASSUME NEW r \in Row, Bad(r)' \/ mem'[r].status = "none" PROVE Absent(r)'
  BY <1>1, <1>2, RestAbsent DEF VerdictInv, Bad, Calm
<1>3. ASSUME NEW r \in Row, Bad(r)', NEW d \in Docs(r)', d.out PROVE d.status = "failed"
  BY <1>1, <1>3, RestKeepsOut DEF VerdictInv, Bad, Calm
<1>4. ASSUME NEW w \in Worker PROVE Cleared(w)'
  <2>1. Cleared(w) /\ (wpc[w] = "run" => cur[w] \in Row)
    BY DEF VerdictInv, WorkInv, CurInv, Own, Tasking, Working
  <2>2. wpc[w] = "run" => Absent(cur[w])'
    <3>1. ASSUME NEW r \in Row, Absent(r) PROVE Absent(r)'
      BY <3>1, RestAbsent
    <3>2. cur' = cur
      BY <1>1 DEF Calm
    <3> QED
      BY <2>1, <3>1, <3>2 DEF Cleared, Absent
  <2> QED
    BY <1>1, <2>1, <2>2 DEF Cleared, Bad, Calm
<1> QED
  BY <1>2, <1>3, <1>4 DEF VerdictInv

LEMMA VerdictStep == WorkInv /\ RowInv /\ VerdictInv /\ [Next]_vars => VerdictInv'
<1> SUFFICES ASSUME WorkInv, RowInv, VerdictInv, [Next]_vars PROVE VerdictInv'
  OBVIOUS
<1>1. CASE UNCHANGED vars
  BY <1>1 DEF vars, db, worker, parent, user, note, VerdictInv, Cleared, Bad, Absent, Docs
<1> QED
  BY <1>1, ActVerdict, RestVerdict DEF Next, Act, Rest, Edits, Notes, Parental

-----------------------------------------------------------------------------
(* What is pushed *)

\* There is a value of the row's parameter in the database, or an edit overlapped.
Saved(r) == QubitOf[r] \in edited \/ data[QubitOf[r]][ParamOf[r]] # NoRow

\* A task that completes with outputs has saved them.
Stored(w) ==
  /\ wpc[w] = "complete" /\ mem[cur[w]].out => Saved(cur[w])
  /\ wpc[w] # "crashed" /\ rep[w] # NoRow /\ mem[rep[w]].out => Saved(rep[w])
  /\ wpc[w] = "record" /\ mem[cur[w]].status = "completed" /\ mem[cur[w]].out => Saved(cur[w])

SavedInv ==
  /\ \A w \in Worker : Stored(w)
  /\ \A r \in Row : \A d \in Docs(r) : d.status = "completed" /\ d.out => Saved(r)
  /\ \A r \in pushed : Saved(r)

\* The parent pushes when every worker has returned.
PushInv ==
  /\ exit = "completed" \/ ppc = "push" \/ pushed # {} => \A w \in Worker : wpc[w] = "returned"
  /\ \A r \in pushed : ~Bad(r)

LEMMA InitSaved == Init => SavedInv /\ PushInv
BY RowConstants DEF Init, SavedInv, PushInv, Stored, Docs, Blank

\* A value once saved is not lost again: each save keeps the others' values.
LEMMA SavedStays ==
  ASSUME WorkInv, SnapInv, Next, NEW r \in Row, Saved(r)
  PROVE  Saved(r)'
<1> DEFINE q == QubitOf[r]
           p == ParamOf[r]
<1>1. /\ data \in [Qubit -> [Param -> Writer \cup {NoRow}]]
      /\ snap \in [Doing -> [Param -> Writer \cup {NoRow}]]
      /\ q \in Qubit /\ p \in Param /\ NoRow \notin Row \cup Edit
  BY RowConstants DEF WorkInv, TypeOK
<1>2. edited \subseteq edited'
  <2>1. ASSUME NEW w \in Worker, Act(w) PROVE edited \subseteq edited'
    BY <2>1, DocWrites DEF ReadQubit, SaveQubit, user
  <2>2. ASSUME Rest PROVE edited \subseteq edited'
    BY <2>2 DEF Rest, Edits, EditRead, EditSave, Notes, NoteRead, NoteSave, Parental, Parent, Submit, Gather,
         GatherRaises, Cancelled, Kill, Push, Poll, Hook, user
  <2> QED
    BY <2>1, <2>2 DEF Next, Act, Rest, Edits, Notes, Parental
<1>3. ASSUME q \notin edited, NEW x \in Doing, x \in Writing(q), NEW y \in Row \cup Edit, NEW t,
             data' = [data EXCEPT ![q] = [snap[x] EXCEPT ![t] = y]]
      PROVE  Saved(r)'
  <2>1. snap[x] = data[q]
    BY <1>1, <1>3 DEF SnapInv
  <2>2. data'[q][p] = data[q][p] \/ data'[q][p] = y
    BY <1>1, <1>3, <2>1
  <2> QED
    BY <1>1, <1>3, <2>2 DEF Saved
<1>4. ASSUME NEW w \in Worker, SaveQubit(w) PROVE Saved(r)'
  <2>1. /\ data' = [data EXCEPT ![QubitOf[cur[w]]] = [snap[w] EXCEPT ![ParamOf[cur[w]]] = cur[w]]]
        /\ wpc[w] = "save"
    BY <1>4 DEF SaveQubit
  <2>2. w \in Writing(QubitOf[cur[w]]) /\ w \in Doing /\ cur[w] \in Row
    BY <2>1 DEF Writing, Doing, WorkInv, CurInv, Own, Tasking, Working
  <2>3. CASE QubitOf[cur[w]] = q
    BY <1>2, <1>3, <2>1, <2>2, <2>3 DEF Saved
  <2>4. CASE QubitOf[cur[w]] # q
    <3>1. data'[q] = data[q]
      BY <1>1, <2>1, <2>4
    <3> QED
      BY <1>2, <3>1 DEF Saved
  <2> QED
    BY <2>3, <2>4
<1>5. ASSUME NEW e \in Edit, EditSave(e) PROVE Saved(r)'
  <2>1. PICK new \in {snap[e], [snap[e] EXCEPT ![EditParam[e]] = e]} :
           data' = [data EXCEPT ![EditQubit[e]] = new] /\ epc[e] = "save"
    BY <1>5 DEF EditSave
  <2>2. e \in Writing(EditQubit[e]) /\ e \in Doing
    BY <2>1 DEF Writing, Doing
  <2>3. CASE EditQubit[e] = q
    <3>1. CASE new = snap[e] /\ q \notin edited
      <4>1. data'[q] = data[q]
        BY <1>1, <2>1, <2>2, <2>3, <3>1 DEF SnapInv
      <4> QED
        BY <1>2, <4>1 DEF Saved
    <3> QED
      BY <1>2, <1>3, <2>1, <2>2, <2>3, <3>1 DEF Saved
  <2>4. CASE EditQubit[e] # q
    <3>1. data'[q] = data[q]
      BY <1>1, <2>1, <2>4
    <3> QED
      BY <1>2, <3>1 DEF Saved
  <2> QED
    BY <2>3, <2>4
<1>6. data' = data \/ (\E w \in Worker : SaveQubit(w)) \/ (\E e \in Edit : EditSave(e))
  <2>1. ASSUME NEW w \in Worker, Act(w) PROVE data' = data \/ SaveQubit(w)
    BY <2>1, DocWrites DEF ReadQubit, db
  <2>2. ASSUME Parental \/ (\E n \in Note : Notes(n)) \/ \E e \in Edit : EditRead(e) PROVE data' = data
    BY <2>2 DEF EditRead, Notes, NoteRead, NoteSave, Parental, Parent, Submit, Gather, GatherRaises, Cancelled,
           Kill, Push, Poll, Hook, db
  <2> QED
    BY <2>1, <2>2 DEF Next, Act, Notes, Parental
<1> QED
  BY <1>2, <1>4, <1>5, <1>6 DEF Saved

\* The worker that steps: update_calib_data comes before the task completes.
LEMMA ActStored ==
  ASSUME WorkInv, SnapInv, SavedInv, NEW w \in Worker, Act(w)
  PROVE  Stored(w)'
<1>1. /\ wpc \in [Worker -> Place]
      /\ cur \in [Worker -> Row \cup {NoRow}] /\ rep \in [Worker -> Row \cup {NoRow}]
      /\ todo \in [Worker -> SUBSET Row] /\ Own(w) /\ Distributes(w) /\ Stored(w)
      /\ NoRow \notin Row /\ (rep[w] # NoRow => rep[w] \notin Mux[rep[w]])
  BY RowConstants DEF WorkInv, TypeOK, CurInv, RepInv, SavedInv
<1>2. \A r \in Row : Saved(r) => Saved(r)'
  BY SavedStays DEF Next, Act
<1>0. wpc[w] \in Tasking => cur[w] \in Row
  BY <1>1 DEF Own
<1> USE <1>1 DEF Goto, Tasking, Working, Place, Own, Distributes, Stored
<1>3. CASE StartTask(w)
  <2>1. wpc'[w] = "run" /\ rep' = rep /\ rep[w] = NoRow
    BY <1>3 DEF StartTask
  <2> QED
    BY <2>1
<1>4. CASE Measure(w)
  <2>2. wpc'[w] = "artifacts" /\ rep' = rep /\ rep[w] = NoRow
    BY <1>4 DEF Measure
  <2> QED
    BY <2>2
<1>5. CASE MeasureNothing(w)
  <2>1. Changes(cur[w], "completed", mem[cur[w]].out, mem[cur[w]].verdict)
    BY <1>5, Effects
  <2>2. wpc'[w] = "record" /\ cur' = cur /\ rep' = rep /\ rep[w] = NoRow /\ wpc[w] = "run"
    BY <1>5 DEF MeasureNothing
  <2> QED
    BY <2>1, <2>2 DEF Changes
<1>6. CASE Judge(w)
  <2>1. \/ mem[cur[w]].verdict = "good" /\ Changes(cur[w], mem[cur[w]].status, TRUE, mem[cur[w]].verdict)
        \/ mem[cur[w]].verdict # "good" /\ Changes(cur[w], mem[cur[w]].status, FALSE, mem[cur[w]].verdict)
    BY <1>6, Effects
  <2>2. /\ cur' = cur /\ rep' = rep /\ rep[w] = NoRow
        /\ wpc'[w] = IF mem[cur[w]].verdict = "good" THEN "read" ELSE "complete"
    BY <1>6 DEF Judge
  <2> QED
    BY <2>1, <2>2 DEF Changes
<1>7. CASE ReadQubit(w) \/ Return(w) \/ Crash(w)
  <2>1. wpc'[w] \in {"save", "returned", "crashed"} /\ rep' = rep /\ mem' = mem
        /\ (wpc'[w] # "crashed" => wpc[w] # "crashed")
    BY <1>7 DEF ReadQubit, Return, Crash
  <2> QED
    BY <1>2, <2>1
<1>8. CASE SaveQubit(w)
  <2>1. /\ data' = [data EXCEPT ![QubitOf[cur[w]]] = [snap[w] EXCEPT ![ParamOf[cur[w]]] = cur[w]]]
        /\ wpc[w] = "save" /\ wpc'[w] = "complete" /\ cur' = cur /\ rep' = rep /\ mem' = mem
    BY <1>8 DEF SaveQubit
  <2>2. Saved(cur[w])'
    <3>1. /\ cur[w] \in Row /\ QubitOf[cur[w]] \in Qubit /\ ParamOf[cur[w]] \in Param
          /\ data \in [Qubit -> [Param -> Writer \cup {NoRow}]] /\ snap[w] \in [Param -> Writer \cup {NoRow}]
      BY <1>0, <2>1, RowConstants DEF WorkInv, TypeOK, Doing
    <3>2. data'[QubitOf[cur[w]]][ParamOf[cur[w]]] = cur[w]
      BY <2>1, <3>1
    <3> QED
      BY <2>1, <3>1, <3>2 DEF Saved
  <2> QED
    BY <1>2, <2>1, <2>2
<1>9. CASE Complete(w)
  <2>1. wpc[w] = "complete" /\ cur' = cur
    BY <1>9 DEF Complete
  <2>2. ASSUME mem' = mem, rep' = [rep EXCEPT ![w] = cur[w]], wpc'[w] = "distribute"
        PROVE  Stored(w)'
    BY <1>2, <2>1, <2>2
  <2>3. ASSUME NEW s \in {"failed", "completed"}, Changes(cur[w], s, mem[cur[w]].out, mem[cur[w]].verdict),
               rep' = rep, wpc'[w] = "record"
        PROVE  Stored(w)'
    BY <1>2, <2>1, <2>3 DEF Changes
  <2>4. \/ Changes(cur[w], "failed", mem[cur[w]].out, mem[cur[w]].verdict) /\ UNCHANGED <<rep, todo>>
           /\ wpc'[w] = "record"
        \/ Changes(cur[w], "completed", mem[cur[w]].out, mem[cur[w]].verdict) /\ UNCHANGED <<rep, todo>>
           /\ wpc'[w] = "record"
        \/ /\ mem' = mem /\ rep' = [rep EXCEPT ![w] = cur[w]] /\ todo' = [todo EXCEPT ![w] = Mux[cur[w]]]
           /\ wpc'[w] = "distribute"
    <3>1. \/ mem[cur[w]].verdict = "bad" /\ Changes(cur[w], "failed", mem[cur[w]].out, mem[cur[w]].verdict)
          \/ mem[cur[w]].verdict # "bad" /\ Mux[cur[w]] # {} /\ mem' = mem
          \/ mem[cur[w]].verdict # "bad" /\ Mux[cur[w]] = {}
             /\ Changes(cur[w], "completed", mem[cur[w]].out, mem[cur[w]].verdict)
      BY <1>9, Effects
    <3> HIDE DEF Own, Distributes, Stored
    <3> QED
      BY <1>9, <3>1 DEF Complete
  <2> QED
    BY <2>2, <2>3, <2>4
<1>10. CASE Distribute(w)
  <2>1. PICK d \in todo[w], b \in BOOLEAN :
          /\ todo' = [todo EXCEPT ![w] = @ \ {d}] /\ cur' = [cur EXCEPT ![w] = d]
          /\ wpc' = [wpc EXCEPT ![w] = IF b THEN "read" ELSE "complete"]
          /\ Changes(d, "running", b, "unknown")
    BY <1>10, Effects
  <2>2. wpc[w] = "distribute" /\ rep' = rep /\ d \in Mux[rep[w]] /\ d # rep[w] /\ rep[w] # NoRow
    BY <1>10, <2>1 DEF Distribute
  <2>3. mem'[rep[w]] = mem[rep[w]]
    BY <2>1, <2>2 DEF Changes
  <2> QED
    BY <1>2, <2>1, <2>2, <2>3 DEF Changes
<1>11. CASE Distributed(w)
  <2>1. Changes(rep[w], "completed", mem[rep[w]].out, mem[rep[w]].verdict)
    BY <1>11, Effects
  <2>2. wpc[w] = "distribute" /\ cur'[w] = rep[w] /\ rep'[w] = NoRow /\ wpc'[w] = "record"
    BY <1>11 DEF Distributed
  <2> QED
    BY <1>2, <2>1, <2>2 DEF Changes
<1>12. CASE Raise(w)
  <2>1. Changes(cur[w], "failed", mem[cur[w]].out, mem[cur[w]].verdict)
    BY <1>12, Effects
  <2>2. wpc[w] \in Working /\ cur' = cur /\ rep' = rep /\ wpc'[w] = "record"
    BY <1>12 DEF Raise
  <2> QED
    BY <1>2, <2>1, <2>2 DEF Changes
<1>13. CASE Record(w)
  <2>1. Changes(cur[w], mem[cur[w]].status, FALSE, mem[cur[w]].verdict)
    BY <1>13, Effects
  <2>2. wpc[w] = "record" /\ rep' = rep
        /\ wpc'[w] = IF rep[w] = NoRow THEN "idle" ELSE "distribute"
    BY <1>13 DEF Record, AfterRecord
  <2> QED
    BY <1>2, <2>1, <2>2 DEF Changes
<1>14. CASE RecordRaises(w)
  <2>1. CASE rep[w] = NoRow
    BY <1>14, <2>1 DEF RecordRaises
  <2>2. CASE rep[w] # NoRow
    <3>1. Changes(rep[w], "failed", mem[rep[w]].out, mem[rep[w]].verdict)
      BY <1>14, <2>2, Effects
    <3>2. wpc' = wpc /\ wpc[w] = "record" /\ cur'[w] = rep[w] /\ rep'[w] = NoRow
      BY <1>14, <2>2 DEF RecordRaises
    <3> QED
      BY <2>2, <3>1, <3>2 DEF Changes
  <2> QED
    BY <2>1, <2>2
<1> QED
  BY <1>3, <1>4, <1>5, <1>6, <1>7, <1>8, <1>9, <1>10, <1>11, <1>12, <1>13, <1>14 DEF Act, Work

LEMMA ActSaved ==
  ASSUME WorkInv, SnapInv, SavedInv, NEW w \in Worker, Act(w)
  PROVE  SavedInv'
<1>1. /\ \A v \in Worker \ {w} : wpc'[v] = wpc[v] /\ cur'[v] = cur[v] /\ rep'[v] = rep[v]
      /\ \A r \in Row : WorkerOf[r] # w => mem'[r] = mem[r]
      /\ pushed' = pushed
  BY Frame
<1>2. \A r \in Row : Saved(r) => Saved(r)'
  BY SavedStays DEF Next, Act
<1>3. ASSUME NEW v \in Worker \ {w} PROVE Stored(v)'
  <2>1. Stored(v) /\ Own(v) /\ Distributes(v) /\ rep[v] \in Row \cup {NoRow}
    BY DEF SavedInv, WorkInv, CurInv, RepInv, TypeOK
  <2>2. wpc[v] \in Tasking => cur[v] \in Row /\ mem'[cur[v]] = mem[cur[v]]
    BY <1>1, <2>1 DEF Own
  <2>3. rep[v] # NoRow => rep[v] \in Row /\ mem'[rep[v]] = mem[rep[v]]
    BY <1>1, <2>1 DEF Distributes
  <2>4. wpc'[v] = wpc[v] /\ cur'[v] = cur[v] /\ rep'[v] = rep[v]
    BY <1>1
  <2> QED
    BY <1>2, <2>1, <2>2, <2>3, <2>4 DEF Stored, Tasking, Working
<1>4. ASSUME NEW r \in Row, NEW d \in Docs(r)', d.status = "completed", d.out PROVE Saved(r)'
  <2>1. row \in [Row -> Doc] /\ row[r] \in Docs(r)
    BY DEF WorkInv, TypeOK, Docs
  <2>2. d \in Docs(r) \/ d = row'[r]
    BY Frame DEF Docs, note
  <2>3. d \in Docs(r) => Saved(r)'
    BY <1>2, <1>4 DEF SavedInv
  <2>4. ASSUME NEW x \in Row, row' = [row EXCEPT ![x] = [status |-> "running", out |-> FALSE]]
        PROVE  Saved(r)'
    BY <1>4, <2>1, <2>2, <2>3, <2>4
  <2>5. ASSUME wpc[w] = "record", cur[w] \in Row,
               row' = [row EXCEPT ![cur[w]] = [status |-> mem[cur[w]].status, out |-> mem[cur[w]].out]]
        PROVE  Saved(r)'
    <3>1. CASE r = cur[w]
      <4>1. row'[r].status = mem[cur[w]].status /\ row'[r].out = mem[cur[w]].out
        BY <2>1, <2>5, <3>1
      <4>2. d = row'[r] => Saved(r)
        BY <1>4, <2>5, <3>1, <4>1 DEF SavedInv, Stored
      <4> QED
        BY <1>2, <2>2, <2>3, <4>2
    <3>2. CASE r # cur[w]
      BY <2>1, <2>2, <2>3, <2>5, <3>2
    <3> QED
      BY <3>1, <3>2
  <2> QED
    BY <2>1, <2>2, <2>3, <2>4, <2>5, RowWrites
<1>5. pushed \subseteq Row
  BY DEF WorkInv, TypeOK
<1> QED
  BY <1>1, <1>2, <1>3, <1>4, <1>5, ActStored DEF SavedInv

LEMMA RestSaved ==
  ASSUME WorkInv, RowInv, SnapInv, SavedInv, Rest
  PROVE  SavedInv'
<1>1. Calm
  BY RestType
<1>2. \A r \in Row : Saved(r) => Saved(r)'
  BY SavedStays DEF Next, Rest, Edits, Notes, Parental
<1>3. ASSUME NEW w \in Worker PROVE Stored(w)'
  <2>1. Stored(w) /\ (wpc[w] \in Tasking => cur[w] \in Row) /\ rep[w] \in Row \cup {NoRow}
    BY DEF SavedInv, WorkInv, CurInv, Own, TypeOK
  <2> QED
    BY <1>1, <1>2, <2>1 DEF Stored, Calm, Tasking, Working
<1>4. ASSUME NEW r \in Row, NEW d \in Docs(r)', d.status = "completed", d.out PROVE Saved(r)'
  BY <1>2, <1>4, RestKeepsOut DEF SavedInv
<1>5. pushed' \subseteq pushed \cup {r \in Row : row[r].status = "completed" /\ row[r].out}
  BY DEF Rest, Edits, EditRead, EditSave, Notes, NoteRead, NoteSave, Parental, Parent, Submit, Gather,
     GatherRaises, Cancelled, Kill, Push, Poll, Hook, db
<1>6. pushed \subseteq Row /\ \A r \in Row : row[r] \in Docs(r)
  BY DEF WorkInv, TypeOK, Docs
<1> QED
  BY <1>2, <1>3, <1>4, <1>5, <1>6 DEF SavedInv

LEMMA PushStep ==
  ASSUME WorkInv, VerdictInv, PushInv, [Next]_vars
  PROVE  PushInv'
<1>1. ASSUME NEW w \in Worker, Act(w) PROVE PushInv'
  <2>1. wpc[w] # "returned"
    BY <1>1, Frame DEF AtWork
  <2>2. pushed' = pushed /\ ppc' = ppc /\ exit' = exit
    BY <1>1, Frame DEF parent
  <2> QED
    BY <2>1, <2>2 DEF PushInv
<1>2. CASE Rest
  <2>1. Calm /\ \A w \in Worker : wpc[w] = "returned" => wpc'[w] = "returned"
    BY <1>2, RestType DEF Calm
  <2>2. CASE Gather \/ GatherRaises \/ Cancelled \/ Kill \/ Hook
    BY <2>1, <2>2 DEF Gather, GatherRaises, Cancelled, Kill, Hook, PushInv, Bad, Calm, db
  <2>3. CASE Poll
    BY <2>1, <2>3 DEF Poll, PushInv, Bad, Calm
  <2>4. CASE Push
    <3>1. \A r \in Row : row[r] \in Docs(r)
      BY DEF Docs
    <3> QED
      BY <2>1, <2>4, <3>1 DEF Push, PushInv, VerdictInv, Bad, Calm
  <2>5. CASE UNCHANGED <<pushed, exit, ppc>>
    BY <2>1, <2>5 DEF PushInv, Bad, Calm
  <2> QED
    BY <1>2, <2>2, <2>3, <2>4, <2>5 DEF Rest, Edits, EditRead, EditSave, Notes, NoteRead, NoteSave, Parental,
       Parent, Submit, db, parent
<1>3. CASE UNCHANGED vars
  BY <1>3 DEF PushInv, Bad, vars, db, worker, parent
<1> QED
  BY <1>1, <1>2, <1>3 DEF Next, Act, Rest, Edits, Notes, Parental

DataInv == SnapInv /\ VerdictInv /\ SavedInv /\ PushInv

LEMMA DataStep == WorkInv /\ RowInv /\ DataInv /\ [Next]_vars => DataInv'
<1> SUFFICES ASSUME WorkInv, RowInv, DataInv, [Next]_vars PROVE DataInv'
  OBVIOUS
<1>1. SavedInv'
  <2>1. CASE UNCHANGED vars
    BY <2>1 DEF DataInv, SavedInv, Stored, Saved, Docs, vars, db, worker, user, note
  <2> QED
    BY <2>1, ActSaved, RestSaved DEF DataInv, Next, Act, Rest, Edits, Notes, Parental
<1> QED
  BY <1>1, SnapStep, VerdictStep, PushStep DEF DataInv

\* A rejected result is never published, whichever exception follows, and what is
\* pushed is in the database: the outputs are cleared before the backend save and
\* recorded in a failed row alone; the push finds the saved values.
THEOREM RejectedAbsent == Spec => []RejectedNotPublished
<1>1. WorkInv /\ RowInv /\ DataInv => RejectedNotPublished
  <2>1. \A r \in Row : row[r] \in Docs(r)
    BY DEF Docs
  <2> QED
    BY <2>1 DEF RejectedNotPublished, DataInv, VerdictInv, SavedInv, PushInv, Bad, Absent, Saved
<1>2. Init => DataInv
  BY InitSnap, InitVerdict, InitSaved DEF DataInv
<1> QED
  BY <1>1, <1>2, InitWork, InitRow, WorkStep, RowStep, DataStep, PTL DEF Spec
=============================================================================
