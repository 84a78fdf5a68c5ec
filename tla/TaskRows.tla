------------------------------- MODULE TaskRows -------------------------------
(***************************************************************************)
(* The tasks of one execution that a parallel strategy runs: Dask workers  *)
(* with isolated sessions (scheduling_tasks.py) execute tasks              *)
(* (TaskExecutor.execute) and write rows of task_result_history and the    *)
(* qubit documents; the parent session gathers them, settles what they     *)
(* left running, and pushes the completed rows (CalibService); users edit  *)
(* the same qubits by hand, and annotate or exclude the rows.  A row is    *)
(* one attempt of one task on one qubit; a worker is one future.  One step *)
(* is one round trip to MongoDB or one blocking call.                      *)
(***************************************************************************)
EXTENDS Naturals, FiniteSets

CONSTANTS
  Worker, Row, Qubit, Param,
  WorkerOf, QubitOf, ParamOf,  \* who runs a row, on which qubit, what it measures
  Judged,      \* rows of tasks whose results are validated
  Mux,         \* for a MUX-level row the rows of the other qubits of the MUX
  StageOf,     \* the step of the schedule a worker belongs to
  Edit, EditQubit, EditParam,  \* manual updates, commits and notes
  Note,        \* saves of a stored row by a user or a review
  NoRow,
  Attempts,    \* turns of the finalisers' polling loop (5 in the code)
  Mortal       \* workers that may crash

Targets == UNION {Mux[r] : r \in Row}

\* The workers of one step have disjoint groups of qubits.  A qubit may belong to
\* workers of several steps of a synchronized schedule, and is written by the one that
\* distributes to its MUX.  Each execution of a task has a context, and so rows, of its
\* own.
ASSUME RowConstants ==
  /\ WorkerOf \in [Row -> Worker] /\ QubitOf \in [Row -> Qubit]
  /\ ParamOf \in [Row -> Param] /\ Mux \in [Row -> SUBSET Row]
  /\ EditQubit \in [Edit -> Qubit] /\ EditParam \in [Edit -> Param]
  /\ StageOf \in [Worker -> Nat]
  /\ \A r, s \in Row : QubitOf[r] = QubitOf[s] /\ WorkerOf[r] # WorkerOf[s] =>
       StageOf[WorkerOf[r]] # StageOf[WorkerOf[s]]
  /\ \A r \in Row : \A d \in Mux[r] :
       WorkerOf[d] = WorkerOf[r] /\ Mux[d] = {} /\ QubitOf[d] # QubitOf[r]
  /\ \A r, s \in Row : r # s => Mux[r] \cap Mux[s] = {}
  /\ Judged \subseteq Row /\ NoRow \notin Row \cup Edit
  /\ Attempts \in Nat \ {0}
  /\ Row \cap Edit = {} /\ Worker \cap Edit = {}

VARIABLES
  row,       \* task_result_history: status and whether there are outputs
  data,      \* a qubit's document: the row or edit that wrote each parameter
  pushed,    \* rows whose outputs the parent pushed
  mem,       \* the worker's task model of each row, with the verdict on its run
  wpc, cur,  \* a worker's next step and the row it works on
  rep,       \* the MUX-level row whose results it distributes
  todo,      \* rows of that MUX it has still to write
  snap,      \* the qubit document a writer has read
  epc,       \* the next step of an edit
  npc, seen, \* the next step of a save of a row, and the row it has read
  ppc, exit, \* the parent's next step and how its pipeline ended
  polls,     \* turns of the polling loop
  outlived,  \* workers still at work when the rows were last settled
  edited,    \* history: qubits where an edit and another write overlapped
  clashed    \* history: rows saved with a status or outputs they no longer had

db == <<row, data, pushed>>
worker == <<mem, wpc, cur, rep, todo>>
parent == <<ppc, exit, polls, outlived>>
note == <<npc, seen, clashed>>
user == <<epc, edited, note>>
vars == <<db, worker, parent, snap, user>>

Status == {"none", "running", "completed", "failed", "cancelled"}
Doc == [status : Status, out : BOOLEAN]
Verdict == {"unknown", "good", "bad", "no_r2"}
Rejected == {"bad", "no_r2"}
Working == {"artifacts", "read", "save", "complete", "run"}
Place == Working \cup {"waiting", "idle", "distribute", "record", "returned", "crashed"}
Writer == Row \cup Edit
Doing == Worker \cup Edit

TypeOK ==
  /\ row \in [Row -> Doc] /\ data \in [Qubit -> [Param -> Writer \cup {NoRow}]]
  /\ pushed \subseteq Row
  /\ mem \in [Row -> [status : Status, out : BOOLEAN, verdict : Verdict]]
  /\ wpc \in [Worker -> Place]
  /\ cur \in [Worker -> Row \cup {NoRow}] /\ rep \in [Worker -> Row \cup {NoRow}]
  /\ todo \in [Worker -> SUBSET Row]
  /\ snap \in [Doing -> [Param -> Writer \cup {NoRow}]]
  /\ epc \in [Edit -> {"read", "save", "done"}]
  /\ npc \in [Note -> {"read", "save", "done"}]
  /\ seen \in [Note -> [row : Row \cup {NoRow}, doc : Doc]]
  /\ ppc \in {"gather", "settle", "push", "killed", "ended"}
  /\ exit \in {"none", "completed", "failed", "cancelled"}
  /\ polls \in 0..(Attempts - 1) /\ outlived \subseteq Worker
  /\ edited \subseteq Qubit /\ clashed \subseteq Row

Nothing == [p \in Param |-> NoRow]
Blank == [status |-> "none", out |-> FALSE]

Init ==
  /\ row = [r \in Row |-> Blank]
  /\ data = [q \in Qubit |-> Nothing] /\ pushed = {}
  /\ mem = [r \in Row |-> [status |-> "none", out |-> FALSE, verdict |-> "unknown"]]
  /\ wpc = [w \in Worker |-> "waiting"]
  /\ cur = [w \in Worker |-> NoRow] /\ rep = [w \in Worker |-> NoRow]
  /\ todo = [w \in Worker |-> {}]
  /\ snap = [x \in Doing |-> Nothing]
  /\ epc = [e \in Edit |-> "read"]
  /\ ppc = "gather" /\ exit = "none" /\ polls = 0 /\ outlived = {}
  /\ npc = [n \in Note |-> "read"]
  /\ seen = [n \in Note |-> [row |-> NoRow, doc |-> Blank]]
  /\ edited = {} /\ clashed = {}

Goto(w, l) == wpc' = [wpc EXCEPT ![w] = l]
AtWork(w) == wpc[w] \notin {"waiting", "returned", "crashed"}
Writing(q) == {w \in Worker : wpc[w] = "save" /\ QubitOf[cur[w]] = q}
              \cup {e \in Edit : epc[e] = "save" /\ EditQubit[e] = q}

-----------------------------------------------------------------------------
(* A worker *)

\* execute: start_task and the first record of a new row.  A session runs the
\* tasks of its qubits one after the other, a retried one as a new row.
StartTask(w) ==
  /\ wpc[w] = "idle"
  /\ \E r \in Row \ Targets :
       /\ WorkerOf[r] = w /\ mem[r].status = "none"
       /\ mem' = [mem EXCEPT ![r].status = "running"]
       /\ row' = [row EXCEPT ![r] = [status |-> "running", out |-> FALSE]]
       /\ cur' = [cur EXCEPT ![w] = r]
  /\ Goto(w, "run")
  /\ UNCHANGED <<data, pushed, rep, todo, parent, snap, user>>

\* Preprocess, run and postprocess: the outputs enter the task model before the
\* artifacts are saved.
Measure(w) ==
  /\ wpc[w] = "run"
  /\ \E v \in {"good"} \cup IF cur[w] \in Judged THEN Rejected ELSE {} :
       mem' = [mem EXCEPT ![cur[w]] = [@ EXCEPT !.out = TRUE, !.verdict = v]]
  /\ Goto(w, "artifacts")
  /\ UNCHANGED <<db, cur, rep, todo, parent, snap, user>>

\* No run result: the task completes without outputs.
MeasureNothing(w) ==
  /\ wpc[w] = "run"
  /\ mem' = [mem EXCEPT ![cur[w]].status = "completed"]
  /\ Goto(w, "record")
  /\ UNCHANGED <<db, cur, rep, todo, parent, snap, user>>

\* Faulty: a failed validation does not clear the outputs, and they are saved.
JudgeKeepsOutputs(w) ==
  /\ wpc[w] = "artifacts"
  /\ Goto(w, "read")
  /\ UNCHANGED <<db, mem, cur, rep, todo, parent, snap, user>>

\* After save_artifacts: a validation error, a low R2 ("bad") or a missing R2 clears
\* the outputs.  The backend save that follows writes the outputs there are.
Judge(w) ==
  /\ wpc[w] = "artifacts"
  /\ LET ok == mem[cur[w]].verdict = "good" IN
       /\ mem' = [mem EXCEPT ![cur[w]].out = ok]
       /\ Goto(w, IF ok THEN "read" ELSE "complete")
  /\ UNCHANGED <<db, cur, rep, todo, parent, snap, user>>

\* update_calib_data: the qubit document is read ...
ReadQubit(w) ==
  /\ wpc[w] = "read"
  /\ snap' = [snap EXCEPT ![w] = data[QubitOf[cur[w]]]]
  /\ edited' = IF Writing(QubitOf[cur[w]]) \cap Edit = {} THEN edited
               ELSE edited \cup {QubitOf[cur[w]]}
  /\ Goto(w, "save")
  /\ UNCHANGED <<db, mem, cur, rep, todo, parent, epc, note>>

\* Faulty: the new data replaces the old instead of being merged into it.
SaveQubitUnmerged(w) ==
  /\ wpc[w] = "save"
  /\ LET r == cur[w] IN
       data' = [data EXCEPT ![QubitOf[r]] = [Nothing EXCEPT ![ParamOf[r]] = r]]
  /\ snap' = [snap EXCEPT ![w] = Nothing]
  /\ Goto(w, "complete")
  /\ UNCHANGED <<row, pushed, mem, cur, rep, todo, parent, user>>

\* ... merged and saved as a whole.
SaveQubit(w) ==
  /\ wpc[w] = "save"
  /\ LET r == cur[w] IN
       data' = [data EXCEPT ![QubitOf[r]] = [snap[w] EXCEPT ![ParamOf[r]] = r]]
  /\ snap' = [snap EXCEPT ![w] = Nothing]
  /\ Goto(w, "complete")
  /\ UNCHANGED <<row, pushed, mem, cur, rep, todo, parent, user>>

\* After the backend save a rejected task fails.  The results of a MUX-level task
\* are distributed; then the task completes.
Complete(w) ==
  /\ wpc[w] = "complete"
  /\ LET r == cur[w] IN
       \/ /\ mem[r].verdict = "bad"
          /\ mem' = [mem EXCEPT ![r].status = "failed"]
          /\ Goto(w, "record")
          /\ UNCHANGED <<rep, todo>>
       \/ /\ mem[r].verdict # "bad" /\ Mux[r] # {}
          /\ rep' = [rep EXCEPT ![w] = r]
          /\ todo' = [todo EXCEPT ![w] = Mux[r]]
          /\ Goto(w, "distribute")
          /\ UNCHANGED mem
       \/ /\ mem[r].verdict # "bad" /\ Mux[r] = {}
          /\ mem' = [mem EXCEPT ![r].status = "completed"]
          /\ Goto(w, "record")
          /\ UNCHANGED <<rep, todo>>
  /\ UNCHANGED <<db, cur, parent, snap, user>>

\* _distribute_to_qid: postprocess for another qubit of the MUX.  Its outputs are
\* not validated; a qubit without a result completes without outputs.
Distribute(w) ==
  /\ wpc[w] = "distribute"
  /\ \E d \in todo[w], some \in BOOLEAN :
       /\ todo' = [todo EXCEPT ![w] = @ \ {d}]
       /\ cur' = [cur EXCEPT ![w] = d]
       /\ mem' = [mem EXCEPT ![d] = [status |-> "running", out |-> some, verdict |-> "unknown"]]
       /\ Goto(w, IF some THEN "read" ELSE "complete")
  /\ UNCHANGED <<db, rep, parent, snap, user>>

\* The loop over the MUX ends: the representative's task completes.
Distributed(w) ==
  /\ wpc[w] = "distribute" /\ todo[w] = {}
  /\ cur' = [cur EXCEPT ![w] = rep[w]]
  /\ rep' = [rep EXCEPT ![w] = NoRow]
  /\ mem' = [mem EXCEPT ![rep[w]].status = "completed"]
  /\ Goto(w, "record")
  /\ UNCHANGED <<db, todo, parent, snap, user>>

\* An exception or the Prefect timeout of the task: execute's except block fails
\* the task and leaves the outputs it has.
Raise(w) ==
  /\ wpc[w] \in Working
  /\ mem' = [mem EXCEPT ![cur[w]].status = "failed"]
  /\ snap' = [snap EXCEPT ![w] = Nothing]
  /\ Goto(w, "record")
  /\ UNCHANGED <<db, cur, rep, todo, parent, user>>

\* The task model is not used again.
AfterRecord(w) ==
  /\ Goto(w, IF rep[w] = NoRow THEN "idle" ELSE "distribute")
  /\ cur' = [cur EXCEPT ![w] = NoRow]
  /\ mem' = [mem EXCEPT ![cur[w]].out = FALSE]

\* The finally block: upsert_document overwrites the row, whatever it holds.
Record(w) ==
  /\ wpc[w] = "record"
  /\ LET r == cur[w] IN
       row' = [row EXCEPT ![r] = [status |-> mem[r].status, out |-> mem[r].out]]
  /\ AfterRecord(w)
  /\ UNCHANGED <<data, pushed, rep, todo, parent, snap, user>>

\* The final write fails and raises: the row stays as it is.  From a distributed
\* row the exception fails the representative's task.
RecordRaises(w) ==
  /\ wpc[w] = "record"
  /\ \/ /\ rep[w] = NoRow
        /\ Goto(w, "idle")
        /\ cur' = [cur EXCEPT ![w] = NoRow]
        /\ UNCHANGED <<mem, rep, todo>>
     \/ /\ rep[w] # NoRow
        /\ mem' = [mem EXCEPT ![rep[w]].status = "failed"]
        /\ cur' = [cur EXCEPT ![w] = rep[w]]
        /\ rep' = [rep EXCEPT ![w] = NoRow]
        /\ todo' = [todo EXCEPT ![w] = {}]
        /\ UNCHANGED wpc
  /\ UNCHANGED <<db, parent, snap, user>>

\* The group is done, or a failed qubit leaves no attempt: the future resolves.
Return(w) ==
  /\ wpc[w] = "idle"
  /\ Goto(w, "returned")
  /\ UNCHANGED <<db, mem, cur, rep, todo, parent, snap, user>>

\* The worker process dies.
Crash(w) ==
  /\ w \in Mortal /\ AtWork(w)
  /\ Goto(w, "crashed")
  /\ snap' = [snap EXCEPT ![w] = Nothing]
  /\ UNCHANGED <<db, mem, cur, rep, todo, parent, user>>

Work(w) ==
  \/ StartTask(w) \/ Measure(w) \/ MeasureNothing(w) \/ Judge(w) \/ ReadQubit(w)
  \/ SaveQubit(w) \/ Complete(w) \/ Distribute(w) \/ Distributed(w) \/ Record(w) \/ Return(w)

-----------------------------------------------------------------------------
(* A manual update, a commit of an agent or a note on a qubit *)

\* ManualUpdateService writes the document with the same read, merge and save ...
EditRead(e) ==
  /\ epc[e] = "read"
  /\ snap' = [snap EXCEPT ![e] = data[EditQubit[e]]]
  /\ edited' = IF Writing(EditQubit[e]) = {} THEN edited ELSE edited \cup {EditQubit[e]}
  /\ epc' = [epc EXCEPT ![e] = "save"]
  /\ UNCHANGED <<db, worker, parent, note>>

\* ... and a note saves it as it was read.
EditSave(e) ==
  /\ epc[e] = "save"
  /\ \E new \in {snap[e], [snap[e] EXCEPT ![EditParam[e]] = e]} :
       data' = [data EXCEPT ![EditQubit[e]] = new]
  /\ snap' = [snap EXCEPT ![e] = Nothing]
  /\ epc' = [epc EXCEPT ![e] = "done"]
  /\ UNCHANGED <<row, pushed, worker, parent, edited, note>>

-----------------------------------------------------------------------------
(* A note, a review or the excluded flag of a row *)

\* find_one, for any row there is ...
NoteRead(n) ==
  /\ npc[n] = "read"
  /\ \E r \in Row :
       /\ row[r].status # "none"
       /\ seen' = [seen EXCEPT ![n] = [row |-> r, doc |-> row[r]]]
  /\ npc' = [npc EXCEPT ![n] = "save"]
  /\ UNCHANGED <<db, worker, parent, snap, epc, edited, clashed>>

\* ... and doc.save(): the whole row as it was read, with the note.
NoteSave(n) ==
  /\ npc[n] = "save"
  /\ LET r == seen[n].row IN
       /\ row' = [row EXCEPT ![r] = seen[n].doc]
       /\ clashed' = IF row[r] = seen[n].doc THEN clashed ELSE clashed \cup {r}
  /\ npc' = [npc EXCEPT ![n] = "done"]
  /\ seen' = [seen EXCEPT ![n] = [row |-> NoRow, doc |-> Blank]]
  /\ UNCHANGED <<data, pushed, worker, parent, snap, epc, edited>>

-----------------------------------------------------------------------------
(* The parent session *)

\* Faulty: the steps of the schedule are submitted together.
SubmitAtOnce(w) ==
  /\ ppc = "gather"
  /\ wpc[w] = "waiting"
  /\ Goto(w, "idle")
  /\ UNCHANGED <<db, mem, cur, rep, todo, parent, snap, user>>

\* The workers of a step are submitted when every future of the steps before has
\* resolved.
Submit(w) ==
  /\ ppc = "gather"
  /\ wpc[w] = "waiting"
  /\ \A v \in Worker : StageOf[v] < StageOf[w] => wpc[v] = "returned"
  /\ Goto(w, "idle")
  /\ UNCHANGED <<db, mem, cur, rep, todo, parent, snap, user>>

\* Every future has resolved; a step of the pipeline may raise all the same.
Gather ==
  /\ ppc = "gather"
  /\ \A w \in Worker : wpc[w] = "returned"
  /\ exit' \in {"completed", "failed"}
  /\ ppc' = "settle"
  /\ UNCHANGED <<db, worker, polls, outlived, snap, user>>

\* future.result() raises for a crashed worker, while others of its step may go on;
\* no later step is submitted.
GatherRaises ==
  /\ ppc = "gather"
  /\ \E w \in Worker :
       /\ wpc[w] = "crashed"
       /\ \A v \in Worker : StageOf[v] = StageOf[w] => wpc[v] # "waiting"
  /\ exit' = "failed"
  /\ ppc' = "settle"
  /\ UNCHANGED <<db, worker, polls, outlived, snap, user>>

\* A cancellation that reaches the parent's Python code.
Cancelled ==
  /\ ppc = "gather"
  /\ exit' = "cancelled"
  /\ ppc' = "settle"
  /\ UNCHANGED <<db, worker, polls, outlived, snap, user>>

Stale == {r \in Row : row[r].status = "running"}

\* Faulty: the bulk update has no filter on the status.
SettleAll(s) == row' = [r \in Row |-> IF row[r].status = "none" THEN row[r]
                                      ELSE [row[r] EXCEPT !.status = s]]

\* finalize_running_tasks, finalize_tasks_on_cancel: one update_many.  No row is
\* ever stored as scheduled or pending.
Settle(s) == row' = [r \in Row |-> IF r \in Stale THEN [row[r] EXCEPT !.status = s]
                                   ELSE row[r]]

SettledBy == IF exit = "cancelled" THEN "cancelled" ELSE "failed"

\* Faulty: the loop turns once more than it has delays.
PollOnceMore ==
  /\ ppc = "settle"
  /\ Settle(SettledBy)
  /\ outlived' = {w \in Worker : AtWork(w)}
  /\ \/ /\ Stale # {} /\ polls < Attempts
        /\ polls' = polls + 1
        /\ UNCHANGED <<ppc, exit>>
     \/ /\ Stale = {} \/ polls = Attempts
        /\ polls' = 0
        /\ ppc' = IF exit = "completed" THEN "push" ELSE "ended"
        /\ exit' = "none"
  /\ UNCHANGED <<data, pushed, worker, snap, user>>

\* One turn of _finalize_stale_running_tasks or _finalize_tasks_on_cancel: a turn
\* that found nothing, or the last one, ends the loop.
Poll ==
  /\ ppc = "settle"
  /\ Settle(SettledBy)
  /\ outlived' = {w \in Worker : AtWork(w)}
  /\ \/ /\ Stale # {} /\ polls + 1 < Attempts
        /\ polls' = polls + 1
        /\ UNCHANGED <<ppc, exit>>
     \/ /\ Stale = {} \/ polls + 1 = Attempts
        /\ polls' = 0
        /\ ppc' = IF exit = "completed" THEN "push" ELSE "ended"
        /\ exit' = "none"
  /\ UNCHANGED <<data, pushed, worker, snap, user>>

\* _merge_task_result_calib_data_before_push: the outputs of completed rows.
Push ==
  /\ ppc = "push"
  /\ pushed' = {r \in Row : row[r].status = "completed" /\ row[r].out}
  /\ ppc' = "ended"
  /\ UNCHANGED <<row, data, worker, exit, polls, outlived, snap, user>>

\* SIGTERM: the parent's code does not run again.
Kill ==
  /\ ppc \in {"gather", "settle", "push"}
  /\ ppc' = "killed" /\ exit' = "none" /\ polls' = 0
  /\ UNCHANGED <<db, worker, outlived, snap, user>>

\* Faulty: the hook marks the execution only.
HookNothing ==
  /\ ppc = "killed"
  /\ ppc' = "ended"
  /\ UNCHANGED <<db, worker, exit, polls, outlived, snap, user>>

\* on_cancellation: one update_many for the execution; a parent that dies after
\* it settled its rows is cleaned up like any other.
Hook ==
  /\ ppc = "killed"
  /\ Settle("cancelled")
  /\ outlived' = {w \in Worker : AtWork(w)}
  /\ ppc' = "ended"
  /\ UNCHANGED <<data, pushed, worker, exit, polls, snap, user>>

Parent == (\E w \in Worker : Submit(w)) \/ Gather \/ GatherRaises \/ Poll \/ Push \/ Hook

Next ==
  \/ \E w \in Worker : Work(w) \/ Raise(w) \/ RecordRaises(w) \/ Crash(w)
  \/ \E e \in Edit : EditRead(e) \/ EditSave(e)
  \/ \E n \in Note : NoteRead(n) \/ NoteSave(n)
  \/ Parent \/ Cancelled \/ Kill

\* Workers, a parent and Prefect's call of the hook go on; a worker has a finite
\* number of tasks; nothing makes a user act.
Spec == Init /\ [][Next]_vars /\ WF_vars(Parent) /\ \A w \in Worker : WF_vars(Work(w))

-----------------------------------------------------------------------------
(* Properties *)

\* A settled row changes only when a worker that outlived the settling of the
\* rows records what the finaliser had declared failed or cancelled: no finaliser
\* overrides a recorded outcome, no worker an outcome recorded before.  The exception
\* is a note or review that saves the row as it was before its status changed.
Settled(r) == row[r].status \in {"completed", "failed", "cancelled"}
OutcomeKept ==
  [][\A r \in Row \ clashed' : Settled(r) /\ row'[r] # row[r] =>
       /\ WorkerOf[r] \in outlived /\ wpc[WorkerOf[r]] = "record"
       /\ row[r].status \in {"failed", "cancelled"} /\ ~row[r].out]_vars

\* A result that was rejected (validation error, R2 too low or missing) is never
\* stored as an output, in the qubit's document or in what is pushed, whichever
\* exception follows and whatever old row is saved again; a raise between the
\* measurement and the validation leaves it in a failed row alone.  What is pushed is
\* in the database.
RejectedNotPublished ==
  /\ \A r \in Row : mem[r].verdict \in Rejected =>
       /\ \A q \in Qubit, p \in Param : data[q][p] # r
       /\ r \notin pushed
       /\ row[r].out => row[r].status = "failed"
  /\ \A r \in pushed : QubitOf[r] \notin edited => data[QubitOf[r]][ParamOf[r]] # NoRow

\* A save of a qubit's document changes no parameter but the writer's own, as
\* long as no manual update, commit or note overlaps it: the tasks, retries and MUX
\* distributions of the workers and steps of an execution never lose each other's results.
MergesOwn ==
  [][\A q \in Qubit \ edited', p \in Param : data'[q][p] # data[q][p] =>
       \/ \E w \in Writing(q) \cap Worker :
            p = ParamOf[cur[w]] /\ data'[q][p] = cur[w]
       \/ \E e \in Writing(q) \cap Edit : p = EditParam[e] /\ data'[q][p] = e]_vars

\* In the end no row is running, whoever died or was killed, unless its worker
\* outlived the settling of the rows or a save brought an older row back: the worker,
\* the parent or the hook settles it.
RowsSettle ==
  <>[](\A r \in Row \ clashed : row[r].status = "running" => WorkerOf[r] \in outlived)
=============================================================================
