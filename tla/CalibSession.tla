------------------------------ MODULE CalibSession ------------------------------
(***************************************************************************)
(* The life of a calibration session (CalibService) on top of the project  *)
(* execution lock and the execution_history collection, and the Prefect    *)
(* on_cancellation hook that cleans up after a killed flow process.        *)
(*                                                                         *)
(* A flow is one Prefect flow run in a process of its own.  Its sessions   *)
(* come in the three shapes the workflow package creates:                  *)
(*   "owner"   CalibService.run with an Execution of its own and the lock; *)
(*   "single"  single_task_executor: an Execution of its own, no lock;     *)
(*   "wrapper" the templates: a session with the lock and no Execution     *)
(*             (skip_execution), whose steps create, one after another,    *)
(*             child sessions with an Execution and no lock.               *)
(* One step is one round trip to MongoDB, or one blocking call.            *)
(***************************************************************************)
EXTENDS Naturals, FiniteSets

CONSTANTS
  Flow,        \* Prefect flow runs
  Project,     \* projects sharing the database
  Scope,       \* (username, chip_id) pairs, the rest of the counter's key
  None,        \* the note has no flow_run_id
  ProjectOf,   \* the project a flow runs in
  ScopeOf,     \* the user and chip it runs for
  Killable,    \* flows that a cancellation may kill with SIGTERM
  Crashable,   \* flows whose process may die with no hook (OOM, host loss)
  MaxStages,   \* bound: child sessions a wrapper creates
  MaxIndex     \* bound: largest index of the day

Index == 0..MaxIndex
Kind == {"owner", "single", "wrapper"}
Status == {"scheduled", "running", "completed", "failed", "cancelled"}
Active == {"scheduled", "running"}

ASSUME ConstantsOK ==
  /\ ProjectOf \in [Flow -> Project]
  /\ ScopeOf \in [Flow -> Scope]
  /\ None \notin Flow
  /\ Killable \subseteq Flow
  /\ Crashable \subseteq Flow
  /\ MaxStages \in Nat
  /\ MaxIndex \in Nat

VARIABLES
  locked,      \* execution_lock.locked of each project
  nextIndex,   \* execution_counter: the index the next session gets
  docs,        \* execution_history, at most one document per (project, id)
  kind, pc,    \* the flow's shape and the point its process has reached
  acquired,    \* CalibService._lock_acquired
  id,          \* execution_id of the session that owns an Execution
  mem,         \* its ExecutionService state (a document in memory)
  seen,        \* the version update_with_optimistic_lock read, and of which document
  stage,       \* children a wrapper has finished
  interrupted, \* CancelledRun was raised in the process
  hook, found  \* the hook's progress and the executions its query returned

lockVars == <<locked, acquired>>
storeVars == <<docs, nextIndex>>
sessVars == <<kind, id, mem, seen, stage, interrupted>>
hookVars == <<hook, found>>
vars == <<lockVars, storeVars, sessVars, hookVars, pc>>

NoDoc == [owner |-> None, status |-> "none", flow |-> None, ver |-> 0]
Doc == [owner : Flow, status : Status, flow : Flow \cup {None}, ver : Nat]
Key == Project \X Index
HookPC == {"off", "mark", "unlock", "done", "skipped"}
ProcPC ==
  {"idle", "newid", "check", "acquire", "setup", "start", "connect", "bind",
   "cas", "wrap", "run", "finish", "push", "release", "raise", "fail",
   "cancel", "giveup", "ended", "cut", "killed", "crashed"}
Dead == {"ended", "cut", "killed", "crashed"}
Live(f) == pc[f] \notin Dead \cup {"idle"}

TypeOK ==
  /\ locked \in [Project -> BOOLEAN]
  /\ nextIndex \in [Project \X Scope -> Nat]
  /\ docs \in [Key -> Doc \cup {NoDoc}]
  /\ kind \in [Flow -> Kind]
  /\ pc \in [Flow -> ProcPC]
  /\ acquired \in [Flow -> BOOLEAN]
  /\ id \in [Flow -> Index]
  /\ mem \in [Flow -> [project : Project, doc : Doc \cup {NoDoc}]]
  /\ seen \in [Flow -> [project : Project, doc : Doc \cup {NoDoc}]]
  /\ stage \in [Flow -> Nat]
  /\ interrupted \in [Flow -> BOOLEAN]
  /\ hook \in [Flow -> HookPC]
  /\ found \in [Flow -> SUBSET Key]

Init ==
  /\ locked = [p \in Project |-> FALSE]
  /\ nextIndex = [k \in Project \X Scope |-> 0]
  /\ docs = [k \in Key |-> NoDoc]
  /\ kind \in [Flow -> Kind]
  /\ pc = [f \in Flow |-> "idle"]
  /\ acquired = [f \in Flow |-> FALSE]
  /\ id = [f \in Flow |-> 0]
  /\ mem = [f \in Flow |-> [project |-> ProjectOf[f], doc |-> NoDoc]]
  /\ seen = mem
  /\ stage = [f \in Flow |-> 0]
  /\ interrupted = [f \in Flow |-> FALSE]
  /\ hook = [f \in Flow |-> "off"]
  /\ found = [f \in Flow |-> {}]

-----------------------------------------------------------------------------
(* Helpers *)

Goto(f, from, to) == pc[f] = from /\ pc' = [pc EXCEPT ![f] = to]

UsesLock(f) == kind[f] \in {"owner", "wrapper"}

\* ExecutionService.save: upsert every field of the in-memory model into the
\* document of (model.project, id); _version is not a field of the model.
Save(f, m) ==
  LET k == <<m.project, id[f]>> IN
  /\ mem' = [mem EXCEPT ![f] = m]
  /\ docs' = [docs EXCEPT ![k] = [m.doc EXCEPT !.ver = docs[k].ver]]

\* find_one({"execution_id": ...}) names no project: any document with this
\* execution_id may be the one returned.
FindById(i) == {p \in Project : docs[<<p, i>>] # NoDoc}

\* Faulty: the reloaded service is not kept, the stale one stays in memory.
ReloadAndSaveForgets(f, status) ==
  \E p \in FindById(id[f]) :
    /\ docs' = [docs EXCEPT ![<<p, id[f]>>].status = status]
    /\ mem' = mem

\* ExecutionService.reload followed by complete / fail / cancel, which save.
ReloadAndSave(f, status) ==
  \E p \in FindById(id[f]) :
    Save(f, [project |-> p, doc |-> [docs[<<p, id[f]>>] EXCEPT !.status = status]])

\* Faulty: the flag is cleared and the lock document is not.
ReleaseLockFlagOnly(f) ==
  /\ acquired' = [acquired EXCEPT ![f] = FALSE]
  /\ UNCHANGED locked

\* _release_lock_if_acquired
ReleaseLock(f) ==
  /\ locked' = [locked EXCEPT ![ProjectOf[f]] = @ /\ ~acquired[f]]
  /\ acquired' = [acquired EXCEPT ![f] = FALSE]

\* Faulty: the pipeline's handler cleans up without fail_calibration.
HandlerOfNoFail(f) == "giveup"

\* Where an exception that leaves a session's code takes the flow: an owner's
\* pipeline and the try block of single_task_executor call fail_calibration;
\* an exception in a child session goes straight to its wrapper's handler.
HandlerOf(f) == IF kind[f] = "wrapper" THEN "giveup" ELSE "fail"

-----------------------------------------------------------------------------
(* CalibService._initialize *)

Begin(f) ==
  /\ Goto(f, "idle", "newid")
  /\ UNCHANGED <<lockVars, storeVars, sessVars, hookVars>>

\* generate_execution_id (one atomic ticket, see ExecutionCounter); a wrapper
\* draws an id it never writes, and then one for every child.
NewId(f) ==
  LET k == <<ProjectOf[f], ScopeOf[f]>>
      wrapping == kind[f] = "wrapper" /\ ~acquired[f]
  IN
  /\ Goto(f, "newid", IF UsesLock(f) /\ ~acquired[f] THEN "check" ELSE "setup")
  /\ nextIndex[k] \in Index
  /\ nextIndex' = [nextIndex EXCEPT ![k] = @ + 1]
  /\ id' = IF wrapping THEN id ELSE [id EXCEPT ![f] = nextIndex[k]]
  /\ mem' = [mem EXCEPT ![f] = [project |-> ProjectOf[f], doc |-> NoDoc]]
  /\ UNCHANGED <<lockVars, docs, kind, seen, stage, interrupted, hookVars>>

\* is_locked: a locked project raises RuntimeError before anything is created.
CheckLock(f) ==
  /\ Goto(f, "check", IF locked[ProjectOf[f]] THEN "ended" ELSE "acquire")
  /\ UNCHANGED <<lockVars, storeVars, sessVars, hookVars>>

\* lock: a separate round trip, which does not look at the lock again.
AcquireLock(f) ==
  /\ Goto(f, "acquire", IF kind[f] = "wrapper" THEN "wrap" ELSE "setup")
  /\ locked' = [locked EXCEPT ![ProjectOf[f]] = TRUE]
  /\ acquired' = [acquired EXCEPT ![f] = TRUE]
  /\ UNCHANGED <<storeVars, sessVars, hookVars>>

\* Faulty: the execution is not created before start().
SaveScheduledSkipped(f) ==
  /\ Goto(f, "setup", "start")
  /\ UNCHANGED <<lockVars, storeVars, sessVars, hookVars>>

\* CalibOrchestrator.initialize: save() as scheduled, then start().
SaveScheduled(f) ==
  /\ Goto(f, "setup", "start")
  /\ Save(f, [project |-> ProjectOf[f],
              doc |-> [owner |-> f, status |-> "scheduled", flow |-> None, ver |-> 0]])
  /\ UNCHANGED <<lockVars, nextIndex, kind, id, seen, stage, interrupted, hookVars>>

StartExecution(f) ==
  /\ Goto(f, "start", "connect")
  /\ Save(f, [mem[f] EXCEPT !.doc.status = "running"])
  /\ UNCHANGED <<lockVars, nextIndex, kind, id, seen, stage, interrupted, hookVars>>

ConnectBackend(f) ==
  /\ Goto(f, "connect", "bind")
  /\ UNCHANGED <<lockVars, storeVars, sessVars, hookVars>>

\* An exception inside the guarded part of _initialize: the lock goes first.
\* The constructor of a "single" session is outside the flow's try block.
InitFails(f) ==
  /\ pc[f] \in {"setup", "connect"}
  /\ pc' = [pc EXCEPT ![f] = IF kind[f] = "single" THEN "ended" ELSE HandlerOf(f)]
  /\ IF kind[f] = "owner" THEN ReleaseLock(f) ELSE UNCHANGED lockVars
  /\ UNCHANGED <<storeVars, sessVars, hookVars>>

\* _store_flow_run_id: update_with_optimistic_lock reads a document ...
ReadForNote(f) ==
  /\ Goto(f, "bind", "cas")
  /\ \E p \in FindById(id[f]) :
       seen' = [seen EXCEPT ![f] = [project |-> p, doc |-> docs[<<p, id[f]>>]]]
  /\ UNCHANGED <<lockVars, storeVars, kind, id, mem, stage, interrupted, hookVars>>

\* Faulty: update_note writes the document and not the model in memory.
WriteNoteStoreOnly(f) ==
  LET k == <<seen[f].project, id[f]>> IN
  /\ Goto(f, "cas", "run")
  /\ docs' = [docs EXCEPT ![k] = [seen[f].doc EXCEPT !.flow = f, !.ver = docs[k].ver + 1]]
  /\ UNCHANGED <<lockVars, nextIndex, sessVars, hookVars>>

\* ... and writes all of it back, with the note, if _version is unset or
\* unchanged in some document of this execution_id; else it reads again.  If
\* that is another project's document, setting project_id breaks the unique
\* index, and _store_flow_run_id swallows the exception.
WriteNote(f) ==
  LET same == {p \in FindById(id[f]) :
                 docs[<<p, id[f]>>].ver \in {0, seen[f].doc.ver}}
      k == <<seen[f].project, id[f]>>
  IN
  /\ pc[f] = "cas"
  /\ \/ /\ same = {}
        /\ pc' = [pc EXCEPT ![f] = "bind"]
        /\ UNCHANGED <<docs, mem>>
     \/ /\ seen[f].project \in same
        /\ pc' = [pc EXCEPT ![f] = "run"]
        /\ docs' = [docs EXCEPT ![k] =
                      [seen[f].doc EXCEPT !.flow = f, !.ver = docs[k].ver + 1]]
        /\ mem' = [mem EXCEPT ![f].doc.flow = f]
     \/ /\ same \ {seen[f].project} # {}
        /\ pc' = [pc EXCEPT ![f] = "run"]
        /\ UNCHANGED <<docs, mem>>
  /\ UNCHANGED <<lockVars, nextIndex, kind, id, seen, stage, interrupted, hookVars>>

-----------------------------------------------------------------------------
(* The pipeline *)

\* A wrapper's next step opens a child session (init_calibration).
OpenStage(f) ==
  /\ stage[f] < MaxStages
  /\ Goto(f, "wrap", "newid")
  /\ stage' = [stage EXCEPT ![f] = @ + 1]
  /\ UNCHANGED <<lockVars, storeVars, kind, id, mem, seen, interrupted, hookVars>>

\* The wrapper's own finish_calibration: skip_execution, so only the lock.
CloseWrapper(f) ==
  /\ Goto(f, "wrap", "release")
  /\ UNCHANGED <<lockVars, storeVars, sessVars, hookVars>>

\* The tasks ran; a stage result may be recorded, which saves the whole model.
RecordStage(f) ==
  /\ Goto(f, "run", "finish")
  /\ kind[f] # "single"
  /\ Save(f, mem[f])
  /\ UNCHANGED <<lockVars, nextIndex, kind, id, seen, stage, interrupted, hookVars>>

RunTasks(f) ==
  /\ Goto(f, "run", "finish")
  /\ kind[f] # "wrapper"
  /\ UNCHANGED <<lockVars, storeVars, sessVars, hookVars>>

\* A task, or a step of a wrapper between two children, raises.
TaskRaises(f) ==
  /\ pc[f] \in {"run", "wrap"}
  /\ pc' = [pc EXCEPT ![f] = HandlerOf(f)]
  /\ UNCHANGED <<lockVars, storeVars, sessVars, hookVars>>

\* finish_calibration: reload().complete()
CompleteExecution(f) ==
  /\ Goto(f, "finish", "push")
  /\ ReloadAndSave(f, "completed")
  /\ UNCHANGED <<lockVars, nextIndex, kind, id, seen, stage, interrupted, hookVars>>

\* The GitHub push saves the model once more with its results.
PushResults(f) ==
  /\ Goto(f, "push", IF kind[f] = "wrapper" THEN "wrap" ELSE "release")
  /\ Save(f, mem[f])
  /\ UNCHANGED <<lockVars, nextIndex, kind, id, seen, stage, interrupted, hookVars>>

\* Syncing the parameters before the push may raise; finally releases the lock
\* first, and the handler runs afterwards.
PushRaises(f) ==
  /\ Goto(f, "push", "raise")
  /\ UNCHANGED <<lockVars, storeVars, sessVars, hookVars>>

ReleaseAndRaise(f) ==
  /\ Goto(f, "raise", HandlerOf(f))
  /\ IF kind[f] = "wrapper" THEN UNCHANGED lockVars ELSE ReleaseLock(f)
  /\ UNCHANGED <<storeVars, sessVars, hookVars>>

ReleaseAndEnd(f) ==
  /\ Goto(f, "release", "ended")
  /\ ReleaseLock(f)
  /\ UNCHANGED <<storeVars, sessVars, hookVars>>

\* fail_calibration: an execution that was created is marked failed.
FailExecution(f) ==
  /\ Goto(f, "fail", "release")
  /\ IF mem[f].doc = NoDoc THEN UNCHANGED <<docs, mem>> ELSE ReloadAndSave(f, "failed")
  /\ UNCHANGED <<lockVars, nextIndex, kind, id, seen, stage, interrupted, hookVars>>

\* Faulty: the skip_execution return is taken before the finally that unlocks.
GiveUpKeepsLock(f) ==
  /\ Goto(f, "giveup", "ended")
  /\ UNCHANGED <<lockVars, storeVars, sessVars, hookVars>>

\* fail_calibration / cancel_calibration of a wrapper return at skip_execution.
GiveUp(f) ==
  /\ Goto(f, "giveup", "ended")
  /\ ReleaseLock(f)
  /\ UNCHANGED <<storeVars, sessVars, hookVars>>

-----------------------------------------------------------------------------
(* Cancellation *)

\* CancelledRun reaches the code, once, in a blocking call: the git pull, the
\* hardware, the tasks, the wait for late task results, the push.  It is no
\* Exception, so _initialize and the push let it pass; the finally of
\* finish_calibration releases the lock.
RaiseCancelled(f) ==
  /\ pc[f] \in {"setup", "connect", "wrap", "run", "finish", "push"}
  /\ pc' = [pc EXCEPT ![f] =
              IF kind[f] = "wrapper" THEN "giveup"
              ELSE IF kind[f] = "single" /\ pc[f] \in {"setup", "connect"} THEN "ended"
              ELSE "cancel"]
  /\ interrupted' = [interrupted EXCEPT ![f] = TRUE]
  /\ IF kind[f] # "wrapper" /\ pc[f] \in {"finish", "push"} THEN ReleaseLock(f)
     ELSE UNCHANGED lockVars
  /\ UNCHANGED <<storeVars, kind, id, mem, seen, stage, hookVars>>

\* In the wait of fail_calibration it leaves the handler itself: the lock is
\* released, the execution is not marked.
CancelledWhileFailing(f) ==
  /\ Goto(f, "fail", "cut")
  /\ mem[f].doc # NoDoc
  /\ interrupted' = [interrupted EXCEPT ![f] = TRUE]
  /\ ReleaseLock(f)
  /\ UNCHANGED <<storeVars, kind, id, mem, seen, stage, hookVars>>

\* cancel_calibration: an execution that was created is marked cancelled.
CancelExecution(f) ==
  /\ Goto(f, "cancel", "release")
  /\ IF mem[f].doc = NoDoc THEN UNCHANGED <<docs, mem>> ELSE ReloadAndSave(f, "cancelled")
  /\ UNCHANGED <<lockVars, nextIndex, kind, id, seen, stage, interrupted, hookVars>>

\* SIGTERM ends the process wherever it is; no except or finally block runs.
Kill(f) ==
  /\ f \in Killable /\ Live(f)
  /\ pc' = [pc EXCEPT ![f] = "killed"]
  /\ UNCHANGED <<lockVars, storeVars, sessVars, hookVars>>

Crash(f) ==
  /\ f \in Crashable /\ Live(f)
  /\ pc' = [pc EXCEPT ![f] = "crashed"]
  /\ UNCHANGED <<lockVars, storeVars, sessVars, hookVars>>

\* The process is gone and Prefect has the run down as cancelled.
Cancelled(f) == pc[f] = "killed" \/ (pc[f] \in {"ended", "cut"} /\ interrupted[f])

\* Faulty: the query asks for executions that have not started.
HookFindScheduled(f) ==
  /\ hook[f] = "off"
  /\ Cancelled(f)
  /\ found' = [found EXCEPT ![f] =
                 {k \in Key : docs[k].flow = f /\ docs[k].status = "scheduled"}]
  /\ hook' = [hook EXCEPT ![f] = IF found'[f] = {} THEN "skipped" ELSE "mark"]
  /\ UNCHANGED <<lockVars, storeVars, sessVars, pc>>

\* _cancel_executions_by_flow_run_id, in another process once the flow's is
\* gone: the query, and the early return when it finds nothing.
HookFind(f) ==
  LET hits == {k \in Key : /\ k[1] = ProjectOf[f]
                           /\ docs[k].flow = f
                           /\ docs[k].status \in Active}
  IN
  /\ hook[f] = "off"
  /\ Cancelled(f)
  /\ found' = [found EXCEPT ![f] = hits]
  /\ hook' = [hook EXCEPT ![f] = IF hits = {} THEN "skipped" ELSE "mark"]
  /\ UNCHANGED <<lockVars, storeVars, sessVars, pc>>

\* Faulty: only the tasks of an execution are marked.
HookMarkTasksOnly(f) ==
  /\ hook[f] = "mark"
  /\ hook' = [hook EXCEPT ![f] = "unlock"]
  /\ UNCHANGED <<lockVars, storeVars, sessVars, found, pc>>

HookMark(f) ==
  /\ hook[f] = "mark"
  /\ \E k \in found[f] :
       /\ docs' = [docs EXCEPT ![k].status = "cancelled"]
       /\ found' = [found EXCEPT ![f] = @ \ {k}]
       /\ hook' = [hook EXCEPT ![f] = IF found[f] = {k} THEN "unlock" ELSE "mark"]
  /\ UNCHANGED <<lockVars, nextIndex, sessVars, pc>>

\* "Also release execution lock", whoever holds it.
HookUnlock(f) ==
  /\ hook[f] = "unlock"
  /\ hook' = [hook EXCEPT ![f] = "done"]
  /\ locked' = [locked EXCEPT ![ProjectOf[f]] = FALSE]
  /\ UNCHANGED <<acquired, storeVars, sessVars, found, pc>>

-----------------------------------------------------------------------------
Session(f) ==
  \/ NewId(f) \/ CheckLock(f) \/ AcquireLock(f) \/ SaveScheduled(f)
  \/ StartExecution(f) \/ ConnectBackend(f) \/ InitFails(f)
  \/ ReadForNote(f) \/ WriteNote(f) \/ OpenStage(f) \/ CloseWrapper(f)
  \/ RecordStage(f) \/ RunTasks(f) \/ TaskRaises(f) \/ CompleteExecution(f)
  \/ PushResults(f) \/ PushRaises(f) \/ ReleaseAndRaise(f) \/ ReleaseAndEnd(f)
  \/ FailExecution(f) \/ GiveUp(f) \/ RaiseCancelled(f) \/ CancelExecution(f)
  \/ CancelledWhileFailing(f)

Hook(f) == HookFind(f) \/ HookMark(f) \/ HookUnlock(f)

Next == \E f \in Flow : Begin(f) \/ Session(f) \/ Kill(f) \/ Crash(f) \/ Hook(f)

Spec == Init /\ [][Next]_vars

\* A started process keeps running, and Prefect runs the hook it owes.
FairSpec == Spec /\ \A f \in Flow : WF_vars(Session(f)) /\ WF_vars(Hook(f))

-----------------------------------------------------------------------------
(* Properties *)

Bound(f) == {k \in Key : docs[k].flow = f}
Own(f) == {k \in Key : docs[k].owner = f}

\* A project lock that is on has a session whose release is still owed, and the
\* flow of that session did not get to its end: finish, fail and cancel all
\* release, so only a dead process leaves the lock behind.
LockHeldByUnfinished ==
  \A p \in Project : locked[p] =>
    \E f \in Flow : ProjectOf[f] = p /\ acquired[f] /\ pc[f] \notin {"ended", "cut"}

\* A flow run that returned or raised leaves no execution of its own session
\* scheduled or running (_run_pipeline's handlers reach every exit, unless a
\* cancellation hits the handler itself, "cut").
EndedOwnerSettled ==
  \A f \in Flow : pc[f] = "ended" /\ kind[f] = "owner" =>
    \A k \in Own(f) : docs[k].status \notin Active

\* Once tasks run, the stored note carries the flow run id and no later
\* whole-document save of the in-memory model takes it out: the cancellation
\* hook can find the execution by it.
BridgeKept ==
  \A f \in Flow : pc[f] \in {"run", "finish", "push"} =>
    docs[<<ProjectOf[f], id[f]>>].flow = f

\* When the cancellation hook is done, no execution that carries its flow run
\* id is scheduled or running.
HookSettles ==
  \A f \in Flow : hook[f] \in {"done", "skipped"} =>
    \A k \in Bound(f) : docs[k].status \notin Active

\* The stored status only moves along scheduled, running, completed, and from
\* any of them to failed or cancelled, which are final; nothing overwrites them
\* with an older in-memory state.
NextStatus ==
  [none      |-> {"scheduled"},
   scheduled |-> {"running", "failed", "cancelled"},
   running   |-> {"completed", "failed", "cancelled"},
   completed |-> {"failed", "cancelled"},
   failed    |-> {}, cancelled |-> {}]
StatusFollowsLifecycle ==
  [][\A k \in Key : docs'[k].status # docs[k].status =>
       docs'[k].status \in NextStatus[docs[k].status]]_vars

\* Every lock is released again, unless the process that took it died and no
\* hook will release it: a crash, or a kill whose hook found no execution.
LockLost(p) ==
  \E f \in Flow : /\ ProjectOf[f] = p /\ acquired[f]
                  /\ pc[f] = "crashed" \/ (pc[f] = "killed" /\ hook[f] = "skipped")
LockEventuallyFree == \A p \in Project : locked[p] ~> (~locked[p] \/ LockLost(p))

\* An execution that still is active when the process of a cancelled flow is
\* gone, and carries the id of the flow run, ends cancelled.
KilledIsCancelled ==
  \A f \in Flow : \A k \in Key :
    (Cancelled(f) /\ docs[k].flow = f /\ docs[k].status \in Active)
      ~> docs[k].status = "cancelled"

-----------------------------------------------------------------------------
(* What the documents say and the code does not do *)

\* "the execution lock to prevent multiple workflows from running at the same
\* time" (docs/getting-started/architecture.md:60).
Executing(f) == acquired[f] /\ Live(f)
MutualExclusion ==
  \A f, g \in Flow : f # g /\ Executing(f) /\ Executing(g) => ProjectOf[f] # ProjectOf[g]

\* generate_execution_id promises "a unique execution ID": no session writes
\* over the execution of another flow.
NoTakeover ==
  [][\A k \in Key : docs[k] # NoDoc => docs'[k].owner = docs[k].owner]_vars
=============================================================================
