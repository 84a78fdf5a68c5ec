# QDash: a TLA+ model of sessions, tasks, schedules, reviews and proposals

QDash calibrates quantum processors. Prefect flow runs, each in a process of its
own, execute calibration sessions and store everything in MongoDB; an API lets
users and agents start, cancel and continue this work. There are no MongoDB
transactions in this code. What keeps it correct is the order of single-document
operations in processes that may be killed between any two of them. That is what
this project models, checks with TLC and proves with TLAPS.

Paths below are relative to `src/src/qdash` unless they start with `docs`.

## 1. Inventory

| Component | State | Operations | Interacts through | Hard part |
|---|---|---|---|---|
| Calibration session, `workflow/service/calib_service.py` | flags of the object (`_lock_acquired`, `_initialized`, `skip_execution`), an in-memory execution | `_initialize`, `run`, `record_stage_result`, `finish_`, `fail_`, `cancel_calibration` | lock, counter, execution store, backend, GitHub | several exits, each with its own clean-up; a kill anywhere |
| Execution lifecycle, `workflow/engine/orchestrator.py`, `engine/execution/` | `ExecutionStateManager` (status, note) | create, start, complete, fail, cancel, reload, update_note | execution store | whole-document saves of a model that may be old |
| Execution store, `repository/execution.py`, `dbmodel/execution_history.py` | `execution_history`, unique on (project, id), `_version` | upsert, find by id, optimistic update | sessions, hook, API | two write paths, one of them unversioned; look-up without project |
| Project lock, `dbmodel/execution_lock.py` | one document per project | is_locked, lock, unlock | sessions, hook | check and set are separate; no owner |
| Cancellation, `on_cancellation` hook and API | none (another process) | find by flow run id, mark, unlock | Prefect, store, lock | runs after the process is dead, sees only the database |
| Id counter, `dbmodel/execution_counter.py` | `execution_counter`, unique on (project, date, user, chip) | get_next_index | sessions | concurrent first calls |
| Agent sessions, `api/services/agent_session_service.py`, `client/services/agent_runner.py` | session (status, state_version, action_count), actions by idempotency key, candidate commits | submit, execute, list, commit, apply | Prefect, qubit documents, worker flow | retries that overlap, expiry, a crash between two writes |
| Candidate apply, `workflow/service/agent_candidate_apply_flow.py` | backend fields of a commit, parameter files | reserve, launch; pull, snapshot, update, verify, push, restore | API, Prefect, files, Git | a flow run faster than the API; two flow runs on one file; a lost answer |
| Task execution, `workflow/engine/task/`, `dbmodel/task_result_history.py`, `dbmodel/qubit.py` | task rows, qubit documents, the task model of a session | execute, validate, save, distribute a MUX, record, finalise, push | store, provenance, manual updates | late writers against finalisation; read, merge and save |
| Parallel scheduling, `workflow/service/_internal/scheduling_tasks.py`, `workflow/service/strategy.py` | isolated sessions that share an execution id | fan out, gather | Dask workers | loss of a worker; others go on |
| Schedulers, `workflow/engine/scheduler/` | none | split qubits into stages, colour couplings | wiring, strategies | groups that keep conflicting hardware apart and still cover everything |
| Provenance, `repository/provenance.py`, `engine/task/provenance_recorder.py` | parameter versions, activities, relations | create_version, create_relation | task execution, manual updates | a version number drawn by read then insert; no retry |
| AI review, `workflow/engine/task/ai_review.py`, `api/services/task_result_service.py` | in-flight set, two thread pools, review fields of a row | enqueue, claim, run, store | task rows, users' notes | de-duplication and claims against whole-document saves |
| API, Copilot, sandboxed agent, CLI, UI, analysis | documents | CRUD, I/O | | no protocol of their own |

What makes each correct: a session releases its lock on every exit and never
leaves an execution of its own active; a stored status never goes back; a
killed flow is cleaned up from the database alone; ids are unique and
contiguous; a proposal is authorized within its budget, recorded under its key
and dispatched at most once; the files of a parameter hold what the record says
is applied; a rejected result is never published and a recorded outcome stands;
what the schedulers keep apart is not calibrated at the same time; versions are numbered
without a gap and the newest is current; a row is reviewed by one reviewer at a
time. `PROJECT.json` lists each component, and every
hazard at its line with the properties that cover it.

## 2. Modules

| Module | Models |
|---|---|
| `CalibSession` | sessions in their three shapes, the lock, the execution store and the hook, composed |
| `ExecutionCounter` | `get_next_index`, round trip by round trip |
| `TicketDispenser` | abstract specification of the counter: one atomic draw |
| `ProposalLedger` | abstract specification of an agent session: one atomic decision after the other |
| `AgentSession` | `get_session`, `submit_action`, `execute_action`, expiry and the runner's retries |
| `CandidateApply` | the API's apply request and the worker's flow run on the parameter files, composed |
| `TaskRows` | the workers, the rows and qubit documents they write, manual updates, notes and exclusions, and the parent session's finalisers, push and hook, composed |
| `Schedules` | the one-qubit and the CR scheduler and the flow that executes their schedules |
| `ParameterVersions` | `create_version` and the lineage of tasks and manual updates, round trip by round trip |
| `RowReviews` | one row and all its writers: worker, automatic review, API review, users, finaliser |
| `MC_*` | instances for TLC |
| `CalibSession_proofs`, `ExecutionCounter_proofs`, `AgentSession_proofs`, `CandidateApply_proofs`, `TaskRows_proofs`, `Schedules_proofs`, `ParameterVersions_proofs`, `RowReviews_proofs` | theorems |

`CalibSession` draws ids in one step (`NewId`). `ExecutionCounter` shows that
the real retry loop implements this step (`IsDispenser`, checked by TLC and
proved). `AgentSession` implements `ProposalLedger` in the same way (`IsSerial`):
the mapping reads `open` as "the status is active" and `charged` as the number of
reservations made, because the stored version of a closed session may go back.

### CalibSession

A flow is a Prefect flow run. `kind` tells its shape: `owner` is
`CalibService.run`; `single` is `single_task_executor`, which takes no lock;
`wrapper` is a template, whose session holds the lock with `skip_execution` and
whose steps create child sessions with an execution each. `pc` is the next round
trip of its process. `docs` is `execution_history` with the fields the
properties tell apart: status, `note.flow_run_id`, `_version`, and a history
field `owner` (the flow that created the execution, which the code does not
store). `mem` is the state of `ExecutionService`, `seen` what
`update_with_optimistic_lock` has read.

One action is one round trip to MongoDB or one blocking call: `CheckLock` and
`AcquireLock` are two, `ReadForNote` and `WriteNote` are two. An exception
leaves through `HandlerOf`, a cancellation that reaches Python code through
`RaiseCancelled` (in any blocking call: the git pull of `initialize`, the connection,
the tasks, the wait of `finish_calibration` for late rows, the push) or, if it hits the
wait of `fail_calibration` itself, `CancelledWhileFailing`, which leaves the
execution to the hook (`cut`). SIGTERM is `Kill`, the loss of the process
`Crash`. The hook is `HookFind`, `HookMark` (per execution) and `HookUnlock`.

Abstractions, and why they are sound for the properties:

- `reload()` and the save that follows, `set_lock`'s find and save, and the
  hook's read and save of the lock are one step each. In these pairs the write
  does not depend on what was read except for the existence of the document;
  a document, once written, is never removed.
- The lock document exists from the start (`get_lock_status` creates it).
- `_ensure_document_exists` never inserts, because `save()` came before.
- The hook runs after its process is gone (`calib_service.py:76`). Its early
  return for a flow without a `project_id` parameter is left out: the project
  is injected into every deployment's parameters.
- All ids are of one calendar day. MongoDB is available: a round trip does not
  raise. Blocking calls (backend, tasks, GitHub) may raise.
- A wrapper whose own initialisation fails is the case of a wrapper that fails
  before its first step: both reach the same handler and only the lock is left.
- Task rows are in `TaskRows`.

Where ids are not shared, the branch of `WriteNote` that meets another
document, and the retry after a changed `_version`, cannot happen: the
creator writes alone. They are exercised when two flows draw the same id
(`session_takeover`).

### ExecutionCounter

A caller is one call. `Find`, `Insert` and `Increment` are the round trips of
the loop, `Retry` the `continue` after a lost insert, `Return` the answer.
Counter documents are never deleted (no code does).

### AgentSession

A request is one attempt of an agent's `run_step`: it reads the session,
submits the agent's action with the version it read, and may execute it. `type`,
chosen at the start, is the action each agent proposes. A later attempt of the
same agent has the same idempotency key; it starts from a fresh read (`Start`,
the campaign's retry) or sends the same body (`Resend`, the HTTP client's
retry), and the earlier one may still be running or have died. `Reserve` is the
atomic `find_one_and_update` of the session, `Record` the insert of the action,
`ReserveLaunch` the atomic step from `not_started` to `dispatching`, and
`LaunchRaises` covers both a refusal by Prefect and an answer lost after the flow
run was created. `SaveExpired` writes back the whole document that was read.
`ledger` is a history variable: the reservations made. The policy's checks on
task, qubit and bounds give the same outcome as its list of actions (a
rejection), so one of them is kept. Commits also raise `state_version` and are left
out (so that the n-th proposal has version n), and so is `_refresh_action_execution`, which
later stores what became of a launched execution. The status `cancelled` is never set by the
service and left out.

### CandidateApply

A request is one call of `apply_candidate_to_backend` for a commit. Requests with
equal `BodyOf` have the same idempotency key and the same content. `Look` is
the answer from the stored record, `Reserve` the `find_one_and_update` to
`dispatching`, `Launch` and `LaunchRaises` the call to Prefect, `MarkQueued` and
`MarkFailed` what the handler stores afterwards. The flow run of a request,
`agent_candidate_apply`, has its own counter `run`: `Transition` takes the commit
from `dispatching` or `queued` to `applying`, `Clone` to `MarkApplied` are the try
block, `Raise`, `Restore` and `RunFails` the except block. Each turn of a loop
over the files is a step (`Copy` of the pull, which takes no lock, `Snapshot`, `Update`,
`Verify` and `Restore`, which do), and other flow runs come in between. `snap` is first the
clone a pull copies from, later `params_snapshot`: copies of whole files, which is
why both take back more than their own label. A push is taken, raises before or after it was
taken, or is rejected by the repository, which does not raise (`Push`).

A file has one value per qubit label, so commits of several qubits write the same
files. `Earlier` are commits that were applied before, pushed or not. Three history
variables say what the code can promise about them. `kept` is where the value
of a commit has been left to stand: on this host from the moment it is marked
applied, in the repository from the moment its push is taken, until another apply of the
same label takes its place, or a pull replaces what was never pushed. `company` is the
files other flow runs worked on while a flow run did, and `crossed` the
files that a run in company has written as a whole (by a pull, a
push, a reset or a restore), whatever the other had put there, or in which two runs
wrote the same label at once.

Abstractions: the checks on the session come before the request (one that they
refuse changes nothing); the loops visit the files in any order; the
clone, copy and push of `push_config` are one step, with somebody else's commit to
other files in between as the reason for a rejection, and the reset after it is
another; the writes, pulls and pushes of calibration sessions to the same files are left out, as are
other people's commits to them; `backend_operation_id` only names the
flow run and is left out. A request does
not end before it was made, so its first round trip is not fair.

### TaskRows

A row is one attempt of one task on one qubit, a document of
`task_result_history`; a worker is one isolated session in a Dask process. `mem`
is the task model of `TaskStateManager`, with the verdict its validation will
give. `wpc` follows `TaskExecutor.execute`: `StartTask` stores the row as
running, `Measure` puts the outputs in the task model, `Judge` takes the outputs
of a rejected result back, `ReadQubit` and `SaveQubit` are
`update_calib_data`, `Complete` raises or completes, `Record` is the
`finally` block. A MUX-level task then writes a row for each other qubit of its MUX
(`Distribute`, `Distributed`), whose outputs are not validated, as in the code.
`Raise` is an exception, a timeout or a cancellation in any step, `RecordRaises`
a final write that fails, `Crash` the loss of the process. The parent (`ppc`)
gathers its futures (`Gather`, `GatherRaises`), settles what is running (`Poll`,
one turn of the bounded loop, after success, failure or cancellation), pushes
completed outputs (`Push`), or is killed (`Kill`) and cleaned up by the hook
(`Hook`).

Workers belong to the steps of a schedule (`StageOf`; the groups of MUXes are one
step). `Submit` starts a step when every future of the steps before has resolved.
The workers of one step have different qubits, but in a synchronized schedule the
qubits of a MUX have workers of their own in later steps, and the worker of a MUX-level
task has written all of them. `EditRead` and `EditSave` are the other writers of a qubit
document: manual updates and agents' commits merge their parameter, a note saves the
document as it was read. `NoteRead` and `NoteSave` are the other writers of
a row: notes and reviews (`note_service.py`) and the excluded flag
(`routers/task_result.py`) save the whole row as it was read, status and outputs included.

`outlived`, `edited` and `clashed` are history variables: workers at work during the last
settling, qubits where an edit overlapped another writer, and rows that such a save changed
in status or outputs.

Abstractions: the first write of a row is one step and does not fail; a worker's tasks come in any order; a value is
the row or edit that measured it; a row has one output parameter; the saves of
the execution between the steps are `CalibSession`'s matter; the delays of the
polling loop are left to the scheduler. `execute_batch`, couplings and the merge
within one process are left out. That artifacts are saved before the validation
result is acted on is kept: a raise in between leaves rejected outputs in a
failed row, and `RejectedNotPublished` says that they go no further.

### Schedules

State is what the flow does with the schedules: items `<<what, slot>>` not
started, running, and how often each was calibrated. The wiring, the qubits and
the strategy are chosen in `Init`. The schedulers are operators: `Boxes`,
`BoxType`, `MixedGroups` and `Stages` are `OneQubitScheduler`, `Step` the
checkerboard order, `Directed`, `Selected`, `Conflict` and `Slot` are
`CRScheduler` and `cr_utils`. The colouring is done pair by pair in any order
(`Colour`): networkx's greedy colouring gives each pair the least free colour, and
its strategies differ in the order only. `Generate` takes any subset of the qubits
as those that passed, each source of the direction and both directions.
`Start` and `Finish` run the slots one after the other and the items of a slot in
parallel, the qubits of one MUX of a slot one after the other; `WorkerDies` aborts the
flow around what else of the slot was submitted, which goes on.

`Apart` says what the one-qubit scheduler keeps apart, and no more: qubits of one
MUX, of different box types, of MIXED MUXes that share a Box B control module, and
neighbours in a synchronized schedule. MUXes of one box run together even when they
share a module; comments that say otherwise are among the known disagreements below. Couplings (`Compatible`) have no module in common.

Module names are reduced to the module and its box; the filter of qubits after
the schedule, the simultaneous-spectroscopy batches, schedules set from outside
and the plugin pipeline are left out.

### ParameterVersions

A call is one recording: `record_from_task` of a finished task or
`update_parameters` of a manual edit (which has no inputs). `CreateActivity`,
`RecordUsage` per input, then per output `FindCurrent`, `Retire`, `ReadLatest`
and `Insert` or `Duplicate` (`create_version`), `Generate` and `Derive` per
relation are its round trips. A lost insert ends the call, as no caller retries
(`lost`); `Die` is the loss of the process. `raced` is a history variable:
parameters that two living calls wrote at the same time. `create_activity` and
`create_relation` read before they write, but a call alone writes their documents, so
each is one step.

### RowReviews

`doc` is one row with its status, the status of its review and whether a review
text is there. `Read` and `Save` are the halves of every `find_one ... doc.save()`:
a save replaces the whole document. `RecordSave` is the end of the task,
`EnqueueReview` the two calls of `enqueue_ai_review_note` (the repository's and
the recorder's), `AutoRun` to `AutoSave` the review in the worker's pool (a configuration that cannot be loaded fails it
even when a text is there). A job is
a request to the API: `Find`, `Claim` (the atomic `find_one_and_update`, then
the submit), `JobRead` and `JobSave`. `ApiDies` loses the pool. Users write a note or
toggle `excluded`. `clashed` is a history variable: a save wrote back an older
document, or changed the review under a running claim.

Abstractions: the call of the language model is part of the choice that
follows it; the recorded outcome of the task is always `completed`; the field a
user writes is not kept, as only what the save does to the others matters;
`overwrite_existing` is false, as every caller leaves it.

## 3. Runs

| Run | Question | Result |
|---|---|---|
| `session` | lock, exits, flow run id, hook, lifecycle; the lock is released, killed executions are cancelled | holds |
| `session_mutex` | one session per project at a time? | violated |
| `session_takeover` | is an execution id unique? | violated |
| `counter` | unique ids, as a refinement of the dispenser; the loop returns | holds |
| `agent_safety` | budget, serialisation, audit, dispatch at most once; refinement | holds |
| `apply` | one apply of a commit at a time, applied is final, every reserved apply is decided | holds |
| `apply_shared` | commits in the same files: verified values stand, a parameter's files agree | holds |
| `apply_rejected` | is a pushed value in the files after the reset? | violated |
| `rows` | rejected results unpublished, outcomes kept, no row left running, parameters of tasks, also of different workers of a qubit, not lost | holds |
| `versions` | contiguous numbers, newest is current, exact history of serial calls, complete lineage | holds |
| `reviews` | one automatic review, exclusive claims, claimed reviews end | holds |
| `schedules` | what must be apart is not calibrated at the same time, everything exactly once | holds |

The violated ones compare a sentence of the documentation or the code's comments
with the code; each is a finding in `PROJECT.json` with the quotation and the
lines. None of their counterexamples needs a crash.

**Bounds.** Two flows are enough for every race on the lock, on a shared id and
of a hook with another session, because each of these has two parties; a third
flow repeats one of the roles. A wrapper runs one child session (`MaxStages`), so that what
a child leaves behind meets its wrapper, and `MaxIndex` is large enough that ids
never run out: 2 flows, each with 1 + 1 ids, use 0 to 3. The counter
has three calls for one key (a winner and two losers of the first insert) and one for
another; `MaxRetries` is the code's 5. The agent run has two agents, three
attempts and a budget of two, so that the budget runs out exactly when a retry is
charged twice. The apply runs have a parameter kept in two files, as
`qubit_frequency` is, so that a file can be missed. `apply` has one commit with two
requests of different content, one of which pushes, so that they overlap at every step and one after a
failure meets what the first left. A third request meets the same states of the
commit, one party at a time. `apply_shared` has one request each for commits of two
qubits in the same two files, and an earlier commit of one of the qubits, pushed
or not: so a run works beside another label's, takes the place of its own label's
earlier value, and pulls over or pushes next to what the other has done. Both may die,
and one may lose its answer. `apply_rejected` has one request that pushes and needs no second.

`rows` has two workers in two steps: the first, which may crash, has a MUX-level row
whose result may be rejected and the row it distributes to, the second a row of that second
qubit that writes another parameter. So a qubit is written by workers of two steps. A user
saves one row and edits the second qubit. `Attempts = 2` is the least number for
which a second turn of the polling loop exists (the code has 5). `versions` has
three calls with mutual inputs and outputs, so that three draw a number at the same time, and a
loser comes after a winner that is or is not finished. `reviews` has two requests (a
second claim) and one user; a third writer of whole documents repeats the user.
`schedules` has eleven qubits in five MUXes of an 8x8 grid, twelve stored couplings
with both directions of several, within and between MUXes, `MaxOps = 2` so that colours are cut,
and three wirings after the 64-qubit chip's: MIXED MUXes that share Box B modules,
one module for three MUXes, and pure boxes.

Flows and handlers end, so deadlock is not checked, except in the run of
`Schedules`, where `Done` is the only way to stop; that the others do not stop early is
what the liveness properties say.

**Fairness.** `FairSpec` of `CalibSession` is weak fairness of a session's
process and of its hook: a started process keeps running unless it is killed or
crashes (`Kill` and `Crash` are not fair, and `Begin` is not, as nobody must start a
flow), and Prefect runs the cancellation hook of a run it killed. `FairSpec` of
`ExecutionCounter` is weak fairness of a living caller. `FairSpec` of
`CandidateApply` is weak fairness of a handler that has started and of each flow
run: Prefect starts the runs it created, and a living process goes on. Deaths
(`ApiDies`, `RunDies`) are not fair; `Decided` says who died if nothing was decided.
`TaskRows` has weak fairness of each worker's own steps and of the parent with
Prefect's call of the hook (exceptions, crashes, kills, edits and notes are not fair);
`RowReviews` of the worker and of the threads of both pools, as a pool runs what
it accepted, and not of requests, users or the restart of the API.
No strong fairness is needed; the optimistic update's loop can only be overtaken a bounded number of
times, by the notes of the other flow.

`OneApplyAtATime` and `AppliedIsFinal` leave out one case, `Lost`:
the call to Prefect raised although the flow run was created, and the handler
marked (or is about to mark) the commit failed without looking. The commit may
then be applied a second time beside the first. `VerifiedStands` and `AllOrNothing` do not
need this exception, but leave out files that a run in company wrote as a whole
(`crossed`): whole-file writes of applies that overlap in a file do undo each other (section 5).
They say that everything else is safe: updates of different labels at the same
time, whichever raises or dies, and applies one after the other. `AllOrNothing` also excepts, on the
host, a run that is or has stopped half-way through its update, restore or pull. Likewise the retry of an agent whose first attempt has
recorded its action is refused with 409, as the new request carries a
new `expected_state_version` and so another hash; the model has this step
(`conflict`), and no property claims the opposite.

`LockEventuallyFree` excepts the two cases in which the lock is really lost (a
crash; a kill whose hook found nothing). `RowsSettle` and `OutcomeKept` except
rows that a note or an exclusion wrote back as they were before (`clashed`) and
workers that outlive the settling of the rows: a future that raised or a
cancellation does not stop the others, and what they record afterwards replaces
the finaliser's verdict. `ClaimExclusive` and `ReviewEnds` except a save that
wrote an older document back, `MergesOwn` qubits where an edit overlapped another write.
`EndedOwnerSettled` is about flows that ended through a handler; a cancellation that hits
the handler itself leaves the execution to the hook (`KilledIsCancelled`). Each exception is a history variable that is set by exactly
that event, so the properties hold in all other behaviours.

## 4. Proofs

Every invariant, action property and refinement that a passing run checks is also
a theorem; liveness is not. TLAPS proves them for every value of the constants,
under the named assumptions of the modules (`ConstantsOK`, `CounterConstants`,
`AgentConstants`, `ApplyConstants`, `RowConstants`, `ScheduleConstants`,
`VersionConstants`, `NoVersionAssumption`, `ReviewConstants`), which
only give the constants their types, keep distinct things distinct and, for the
counter, ask for at least two attempts. `RowConstants` also says that
two executions of a MUX-level task distribute to different rows, as each has a
`TaskContext` of its own (`_prepare_execution_context`, `engine/orchestrator.py:478`), and that the
workers of one step have no qubit in common (they are given disjoint groups, and the
representatives of different MUXes distribute to different MUXes); workers of different
steps may. `ApplyConstants` says of the files of two parameters that they
are the same or disjoint, as in `config/app/workflow.yaml`; different commits may write the same ones.

Some theorems have a hypothesis of their own, which the code takes for granted
and without which the statement is false:

| Hypothesis | Says | Without it |
|---|---|---|
| `OneScope` (`CalibSession_proofs`) | the flows draw their ids from one counter, that is, one project, user and chip | two flows draw the same id and one writes over the other's execution: the run `session_takeover` |
| `OneModuleB` (`Schedules`) | of the control modules of a MUX wired to Box A at most one is in Box B, as the dictionary `mux_to_box_b` has room for one | the MUX is in two groups |
| `Wired` (`Schedules`) | the MUX of every target is listed, and has a Box B control module or is in one box | the qubit is in no stage, a known disagreement below |
| `Neighbours`, `OneWay` (`Schedules`) | couplings join qubits of different parity; a topology gives each one direction | a coupling may be calibrated both ways |

The instances that TLC checks satisfy them: `session` has one scope,
and `MC_Schedules` assumes the last three rows (`MCTaken`).

- `CalibSession_proofs`: `TypeCorrect` and `LockSafety`
  (`[]LockHeldByUnfinished`). The property is not inductive. `IInv` adds to the
  type invariant which documents must exist at which point (`KnownDocs`: a
  reload finds something, whatever project's document it is), and `FlagInv`: a
  session has its flag set exactly between taking and releasing the lock, so
  that a flow cannot reach its end with the flag still set. `LockInv` is the
  property itself.
  Under `OneScope` also `OwnersSettled` (`[]EndedOwnerSettled`), `BridgeStands`
  (`[]BridgeKept`), `HookLeavesNone` (`[]HookSettles`) and `StatusMoves`
  (`StatusFollowsLifecycle`). `StoreInv` says that two sessions at work have two
  ids (`IdInv`), that a document is under an id its owner drew and carries no
  flow run id but its owner's (`DocInv`), and, per flow, that the model in memory
  agrees with the stored document on owner, status and flow run id (`ModelOf`),
  which statuses the documents of an owner and of a wrapper's children can have
  at each point (`OwnerOf`), and what the hook has still to mark (`HookOf`).
  `OneDocument` is the central lemma: a session writes under its own id only, so
  nobody else's document moves; the optimistic update and the hook follow it.
- `ExecutionCounter_proofs`: `TypeCorrect`, `Uniqueness`, `Contiguity`,
  `RetriesSuffice` and `ImplementsDispenser`. The invariant says that an index
  handed out is at most the counter, that all up to the counter are handed out,
  and that a call which has lost an insert faces an existing document, so it
  cannot lose another.
- `AgentSession_proofs`: `TypeCorrect`, `Budget` (`[]WithinBudget`), `Serialised`
  (`[]OneReservationPerVersion`), `TrailComplete` (`[]AuditTrail`), `DispatchOnce`
  (`[]LaunchedOnce`), `DispatchGranted` (`[]LaunchedByGrant`), `Closed`
  (`ClosedStaysClosed`) and `ImplementsLedger` (`IsSerial`). `IInv` has a part for
  each. `CountInv`: version and count
  of a session move together in every copy, so the version that a reservation
  compares also fixes the count its decision was made on. `LedgerInv`: as long as
  the session is active, no reservation is later than its version and no more
  are authorized than it counts; a stale expiry breaks this, but closes the session
  in the same write. `LaunchInv`: an attempt at the launch is the only one for its
  action, and nothing that was dispatched goes back to `not_started`.
  `TrailInv` and `GrantInv` carry what an attempt decided to the point where it
  records or launches it. The refinement adds `SizeInv`: the version of an active
  session is the number of its reservations, and an attempt about to reserve has
  read an active session; then each successful `Reserve` is a `Decide`, the first
  stale expiry is the `Close`, and every other step stutters.
- `CandidateApply_proofs`: `TypeCorrect`, `ApplyAlone` (`[]OneApplyAtATime`) and
  `AppliedFinal` (`AppliedIsFinal`). `LoneInv`: unless an answer was lost, a commit
  has at most one request between its reservation and its decision, and its
  status says how far that one is. `AppliedStands` (`[]VerifiedStands`) and `FilesAgree`
  (`[]AllOrNothing`) have no hypothesis: any commits may share any files.
  `HistInv` says that two runs at work on one file are in each other's company. `PartInv`
  is, for every commit whose files nobody crossed, what the repository (`RemotePart`)
  and the files (`FilesPart`) hold, and what each flow run has in hand: the clone
  it copies (`PullPart`), the snapshot it may write back (`SnapPart`), its own value in
  the files it has been through (`OwnPart`). A run without company may write whole files,
  because what it has read is still there (`Alone`); one in company may not, and
  then the files are crossed. There is a lemma per action (`CopyHeld`, `UpdateHeld`,
  `PushHeld`, `RestoreHeld`, ...).
- `TaskRows_proofs`: `TypeCorrect`, `OutcomesKept` (`OutcomeKept`), `SavesMerge`
  (`MergesOwn`) and `RejectedAbsent` (`[]RejectedNotPublished`). `WorkInv`: a worker
  is at the row it works on or distributes to, and an untouched row is fresh.
  `RowInv`: the row a worker still holds has no outcome but, possibly, the
  finaliser's verdict, also in the copies that a note has read, and a row nobody worked on has no
  outputs. `StepInv`: a worker is at work only when those of the steps before it have
  returned, so two that share a qubit never both write it.
  `DataInv`: outside the qubits where an edit overlapped, one writer at a time
  holds a copy of the document, and the copy is current (`SnapInv`); what is in a
  document has a verdict that was not rejected (`VerdictInv`); what was completed
  with outputs is in the document (`SavedInv`); and the parent pushes when all workers have
  returned (`PushInv`). The lemmas `RowWrites` and `DocWrites` bring every action down
  to the few ways in which a row or a document is written.
- `Schedules_proofs`: `KeptApart` (`[]NoConflict`) and `TypeCorrect` under
  `OneModuleB`, `NoneLost` (`[]EachOnce`) under all four hypotheses. `SafeInv`: what is
  left and what runs is of the schedule of the phase, what runs is of one slot
  and of different MUXes, and couplings of one colour are not in conflict.
  It needs that a free colour always exists (`FreeColour`, the pigeonhole
  principle), that a slot determines its colour (`SlotColour`) or its stage, group and
  step (`SlotApart`), and that the checkerboard keeps neighbours apart
  (`Checkerboard`, arithmetic on the coordinates). `ChunkInv`: the items of the
  k-th slot of a colour come after `k * MaxOps` others of that colour, so a slot
  is not full when one joins it. `OnceInv` and `DoneInv`: a qubit is in one stage
  exactly, an item is pending or over and never comes back.
- `ParameterVersions_proofs`: `TypeCorrect`, `Numbering` (`[]Contiguous`),
  `NewestValid` (`[]NewestIsCurrent`), `SerialHistory` (`[]SerialIsExact`) and
  `Lineage` (`[]LineageComplete`), all properties of the run. `NumInv` adds to
  contiguity what a call knows of the numbers (the one it will insert is at most
  one more than the latest, so an insert that the unique index admits is the
  next); `CurInv` adds, for parameters nobody raced on, that only one living call
  creates and what it has found; `LinInv` adds which relations a call has made so
  far.
- `RowReviews_proofs`: `TypeCorrect`, `AutoReviewAlone` (`[]OneAutoReview`) and
  `ClaimsExclude` (`[]ClaimExclusive`). `ClaimStands` makes the claim inductive:
  unless a save has clashed, the row says requested or running as long as a job owns
  it, so that the claim's filter refuses the next.

Theorems without a run of their own: `Uniqueness` (`UniqueIndex`, which
`IsDispenser` implies), `Contiguity` (`NoGap`), `RetriesSuffice`
(`NeverExhausted`), `DispatchGranted` (`LaunchedByGrant`) and `Closed`
(`ClosedStaysClosed`), which hold for every value of the constants.

Only model-checked: liveness (`LockEventuallyFree`, `KilledIsCancelled`,
`Returns`, `Decided`, `RowsSettle`, `ReviewEnds`), which is outside this prover's
reach. The violated runs have no theorem either. The theorems are about `Spec`,
which allows more than the `FairSpec` some runs check.

## 5. Not modelled, and the plan

Next, in this order:

1. Theorems: an abstract specification of a commit (reserved, then applied or failed) that
   `CandidateApply` implements as long as no answer is lost; of the version
   numbers of a parameter as a log that is only appended to, for
   `ParameterVersions`.
2. `commit_action_candidate`, `commit_campaign` and polling, extending
   `AgentSession`: a commit record without its qubit has the shape of an apply
   that nobody decides, which `CandidateApply` has.
3. `execute_batch` and coupling documents, in `TaskRows`; the simultaneous
   spectroscopy batches, in `Schedules`.

Outside the model for good: instrument control and physics, language models,
the sandboxed agent process, presentation, CRUD endpoints with one document per
call, Prefect's own state machine and MongoDB itself. The last two appear only
as the atomic operations and the hook that the code relies on.

**Known disagreements without a run.** Each was seen in a model; the code does the
first, the text says the second.

- The hook returns early and keeps the lock when no execution carries the flow run id
  (`workflow/service/calib_service.py:127`); `docs/development/workflow/quickstart.md:120`
  says that it releases the lock.
- A child session, or the constructor of a single-task session, that raises leaves its
  execution running (`workflow/service/single_task_flow.py:62`), although
  `fail_calibration` is there "to properly mark the execution as failed"
  (`calib_service.py:1115`).
- An attempt that dies between the reservation and the insert is charged again
  under the same key (`api/services/agent_session_service.py:344`);
  `docs/user-guide/agent-calibration.md:153` says that recovery is free.
- `restore` writes whole parameter files back and undoes the values of another commit that was
  applied meanwhile (`workflow/engine/params_updater.py:257`, against line 383: "to prevent race
  conditions"). The pull before an apply and the reset after a push do the same
  (`workflow/worker/tasks/pull_github.py:61`, `push_github.py:43`); the run `apply_rejected`
  shows the reset for a single apply whose push was rejected.
- The pull before a versioned apply replaces what an earlier apply wrote without a push, and keeps
  no copy (`pull_github.py:61-71`), although "a backup of the current configuration is automatically
  created" (`workflow/service/github.py:156-157`). A pull that raises after some of the files
  leaves a parameter's files different.
- Notes and exclusions save the whole row they have read (`api/services/note_service.py:1353`,
  `api/routers/task_result.py:721`): a task that records its result in between loses status and
  outputs, and its row runs again for good, although "raw data is preserved"
  (`routers/task_result.py:698-699`). `clashed` marks these rows in the properties of `TaskRows`.
- The one-qubit schedule submits all MUXes of a stage at once (`scheduling_tasks.py:703-728`),
  so that qubits of one box, and MUXes of Box B alone with a common control module, are
  calibrated at the same time; the scheduler's comments say that qubits using the same box "cannot execute in
  parallel" (`one_qubit_scheduler.py:14`, `:529-530`) and neither can MUXes sharing a Box B module
  (`:266-267`). The tests expect the groups, and line 20 allows different MUXes in parallel.
- A qubit whose MUX the wiring does not list, or that is MIXED through its readout only while
  another MIXED MUX has a Box B control module, is in no stage and never calibrated, without an error
  (`one_qubit_scheduler.py:435`, `:302-361`, `:632-635`); "Mixed qubits" are to be "executed last"
  (`:527`).
- `get_next_version` says that the caller should retry a duplicate key
  (`dbmodel/provenance.py:207`); no caller does, and the loser's version and all its
  later outputs are not recorded.
- A claim is given "unless another worker owns it"
  (`api/services/task_result_service.py:955`); the worker's own review does not claim.
- The plugin filter ignores `inverse` for the design-based direction
  (`workflow/engine/scheduler/plugins/frequency_directionality_filter.py:77`),
  although the parameter is documented without this limit (line 40).
- A MIXED MUX with two Box B control modules at different positions is put in two
  groups and calibrated twice (`one_qubit_scheduler.py:346`).
