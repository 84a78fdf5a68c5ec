---------------------------- MODULE CandidateApply ----------------------------
(***************************************************************************)
(* Applying committed candidates to the backend's parameter files.         *)
(* apply_candidate_to_backend (API) reserves a commit and asks Prefect for *)
(* a flow run; agent_candidate_apply (worker) snapshots, updates, verifies *)
(* and possibly pushes the files the parameter maps to, and restores them  *)
(* when a step raises.                                                     *)
(*                                                                         *)
(* A request is one POST .../apply that passed the checks on the session;  *)
(* the flow run it creates carries its name.  One step is one round trip   *)
(* or one access to one file.  Other writers of the files and of the       *)
(* repository are left out, except that somebody else's commit (to other   *)
(* files) may come between the clone and the push of a flow run.           *)
(***************************************************************************)
EXTENDS FiniteSets

CONSTANTS
  Commit,     \* candidate commits with status "committed"
  Earlier,    \* those that were applied before
  Label,      \* qubit labels in a parameter file
  File,       \* the params YAML files
  LabelOf,    \* the label a commit writes
  FilesOf,    \* the mapped and the extra files of its parameter
  Body,       \* request bodies: idempotency key and content
  Pushing,    \* the bodies with push_to_github
  Request,    \* apply requests
  CommitOf,   \* the commit a request is for
  BodyOf,     \* its body; a repeated request has the body of the first
  Mortal,     \* requests whose API handler or flow run may die
  Lossy,      \* requests whose call to Prefect may raise after it took effect
  Base, Up,   \* values from before, on this host and in the repository
  None        \* no body yet

ASSUME ApplyConstants ==
  /\ LabelOf \in [Commit -> Label]
  /\ FilesOf \in [Commit -> (SUBSET File) \ {{}}]
  \* as in config/app/workflow.yaml
  /\ \A c, d \in Commit : FilesOf[c] = FilesOf[d] \/ FilesOf[c] \cap FilesOf[d] = {}
  /\ Earlier \subseteq Commit
  /\ \A c, d \in Earlier : c # d => LabelOf[c] # LabelOf[d] \/ FilesOf[c] # FilesOf[d]
  /\ Pushing \subseteq Body
  /\ CommitOf \in [Request -> Commit]
  /\ BodyOf \in [Request -> Body]
  /\ Mortal \subseteq Request /\ Lossy \subseteq Request
  /\ Base \notin Commit /\ Up \notin Commit
  /\ None \notin Body

VARIABLES
  doc,      \* backend fields of each commit document
  api,      \* what the handler of a request does next
  run,      \* what its flow run does next
  todo,     \* the files left in the loop of a flow run
  snap,     \* the clone a flow run copies from; later its params_snapshot
  files,    \* the parameter files of the worker's host
  remote,   \* the configuration repository
  kept,     \* history: where the value of a commit has been left to stand
  company,  \* history: the files other flow runs worked on during a flow run
  crossed   \* history: the files written as a whole by a run in company

hist == <<kept, company, crossed>>
host == <<todo, snap, files, remote, hist>>
vars == <<doc, api, run, host>>

BackendStatus ==
  {"not_started", "dispatching", "queued", "applying", "applied", "failed"}
Doc == [status : BackendStatus, body : Body \cup {None}, verified : BOOLEAN]
Content == [Label -> Commit \cup {Base, Up}]
Place == {"no", "local", "pushed"}
API == {"idle", "reserve", "launch", "queue", "fail", "done", "raised", "dead"}
Touching == {"update", "verify", "mark", "push", "sync", "apply", "restore"}
Applying == Touching \cup {"clone", "pull", "prepare", "snapshot", "fail", "tear"}
Run == Applying \cup {"none", "scheduled", "refused", "applied", "failed", "torn", "dead", "killed"}

TypeOK ==
  /\ doc \in [Commit -> Doc]
  /\ api \in [Request -> API]
  /\ run \in [Request -> Run]
  /\ todo \in [Request -> SUBSET File]
  /\ snap \in [Request -> [File -> Content]]
  /\ files \in [File -> Content]
  /\ remote \in [File -> Content]
  /\ kept \in [Commit -> Place]
  /\ company \in [Request -> SUBSET File]
  /\ crossed \subseteq File

Filled(v) == [f \in File |-> [l \in Label |-> v]]

\* The commits whose value is at this place, if all those of cs are.
At(cs, f, l) == {c \in cs : f \in FilesOf[c] /\ l = LabelOf[c]}
With(cs, v) == [f \in File |-> [l \in Label |->
  IF At(cs, f, l) = {} THEN v ELSE CHOOSE c \in At(cs, f, l) : TRUE]]

\* The earlier commits were pushed or not, as their request said.
Init ==
  /\ \E b \in [Earlier -> Body] :
       /\ doc = [c \in Commit |->
            IF c \in Earlier THEN [status |-> "applied", body |-> b[c], verified |-> TRUE]
            ELSE [status |-> "not_started", body |-> None, verified |-> FALSE]]
       /\ kept = [c \in Commit |->
            IF c \notin Earlier THEN "no" ELSE IF b[c] \in Pushing THEN "pushed" ELSE "local"]
  /\ api = [r \in Request |-> "idle"]
  /\ run = [r \in Request |-> "none"]
  /\ todo = [r \in Request |-> {}]
  /\ snap = [r \in Request |-> Filled(Base)]
  /\ files = With(Earlier, Base)
  /\ remote = With({c \in Earlier : kept[c] = "pushed"}, Up)
  /\ company = [r \in Request |-> {}]
  /\ crossed = {}

Status(c) == doc[c].status
ApiGoes(r, from, to) == api[r] = from /\ api' = [api EXCEPT ![r] = to]
RunGoes(r, from, to) == run[r] = from /\ run' = [run EXCEPT ![r] = to]

\* The files a flow run writes: with a push, all that the repository has.
Scope(r) == IF BodyOf[r] \in Pushing THEN File ELSE FilesOf[CommitOf[r]]
Working == {r \in Request : run[r] \in Applying}

\* Two commits write the same place, if they are not the same commit.
Alike(c, d) == LabelOf[c] = LabelOf[d] /\ FilesOf[c] = FilesOf[d]

-----------------------------------------------------------------------------
(* apply_candidate_to_backend *)

\* The record of an earlier request with this body is the answer; another body
\* is refused unless the apply failed.
Look(r) ==
  LET d == doc[CommitOf[r]] IN
  /\ ApiGoes(r, "idle",
       IF d.body = BodyOf[r] \/ (d.body # None /\ d.status # "failed")
       THEN "done" ELSE "reserve")
  /\ UNCHANGED <<doc, run, host>>

\* Faulty: the update filters on the commit alone.
ReserveAny(r) ==
  /\ ApiGoes(r, "reserve", "launch")
  /\ doc' = [doc EXCEPT ![CommitOf[r]].status = "dispatching", ![CommitOf[r]].body = BodyOf[r]]
  /\ UNCHANGED <<run, host>>

\* find_one_and_update; a request that comes too late is answered with the
\* latest record or with 409.
Reserve(r) ==
  LET c == CommitOf[r]
      ok == Status(c) \in {"not_started", "failed"} IN
  /\ ApiGoes(r, "reserve", IF ok THEN "launch" ELSE "done")
  /\ doc' = IF ok THEN [doc EXCEPT ![c].status = "dispatching", ![c].body = BodyOf[r]] ELSE doc
  /\ UNCHANGED <<run, host>>

\* execute_agent_candidate_apply creates the flow run.
Launch(r) ==
  /\ ApiGoes(r, "launch", "queue")
  /\ run' = [run EXCEPT ![r] = "scheduled"]
  /\ UNCHANGED <<doc, host>>

\* Prefect refuses, or its answer is lost after it created the flow run.
LaunchRaises(r) ==
  /\ ApiGoes(r, "launch", "fail")
  /\ \/ UNCHANGED run
     \/ r \in Lossy /\ run' = [run EXCEPT ![r] = "scheduled"]
  /\ UNCHANGED <<doc, host>>

\* update_one after the exception, whatever the status is by now; the exception
\* goes on to the caller.
MarkFailed(r) ==
  /\ ApiGoes(r, "fail", "raised")
  /\ doc' = [doc EXCEPT ![CommitOf[r]].status = "failed"]
  /\ UNCHANGED <<run, host>>

\* Faulty: the state Prefect reports is stored.
MarkQueuedState(r) ==
  /\ ApiGoes(r, "queue", "done")
  /\ doc' = [doc EXCEPT ![CommitOf[r]].status = "scheduled"]
  /\ UNCHANGED <<run, host>>

\* Faulty: the status is not part of the filter.
MarkQueuedAlways(r) ==
  /\ ApiGoes(r, "queue", "done")
  /\ doc' = [doc EXCEPT ![CommitOf[r]].status = "queued"]
  /\ UNCHANGED <<run, host>>

\* dispatching becomes queued, unless the flow run was faster.
MarkQueued(r) ==
  LET c == CommitOf[r] IN
  /\ ApiGoes(r, "queue", "done")
  /\ doc' = IF Status(c) = "dispatching" THEN [doc EXCEPT ![c].status = "queued"] ELSE doc
  /\ UNCHANGED <<run, host>>

Handler(r) ==
  Look(r) \/ Reserve(r) \/ Launch(r) \/ LaunchRaises(r) \/ MarkFailed(r) \/ MarkQueued(r)

\* The API process dies.
ApiDies(r) ==
  /\ r \in Mortal
  /\ api[r] \in {"reserve", "launch", "queue", "fail"}
  /\ api' = [api EXCEPT ![r] = "dead"]
  /\ UNCHANGED <<doc, run, host>>

-----------------------------------------------------------------------------
(* agent_candidate_apply *)

\* Whoever works on the same files is company from now on; two runs that write
\* the same place cross at once, and a pull ends the stand of what was not pushed.
Meet(r) ==
  /\ company' = [q \in Request |->
       IF q = r THEN UNION {Scope(r) \cap Scope(p) : p \in Working}
       ELSE IF q \in Working THEN company[q] \cup (Scope(q) \cap Scope(r))
       ELSE company[q]]
  /\ crossed' = crossed \cup UNION {FilesOf[CommitOf[r]] :
                   q \in {p \in Working : Alike(CommitOf[p], CommitOf[r])}}
  /\ kept' = [c \in Commit |->
       IF BodyOf[r] \in Pushing /\ kept[c] = "local" THEN "no" ELSE kept[c]]

\* Faulty: a flow run that is faster than the API finds dispatching.
TransitionQueued(r) ==
  LET c == CommitOf[r]
      ok == Status(c) = "queued" IN
  /\ RunGoes(r, "scheduled",
       IF ~ok THEN "refused" ELSE IF BodyOf[r] \in Pushing THEN "clone" ELSE "prepare")
  /\ doc' = IF ok THEN [doc EXCEPT ![c].status = "applying"] ELSE doc
  /\ IF ok THEN Meet(r) ELSE UNCHANGED hist
  /\ UNCHANGED <<api, todo, snap, files, remote>>

\* Only one flow run takes a commit from dispatching or queued to applying.
Transition(r) ==
  LET c == CommitOf[r]
      ok == Status(c) \in {"dispatching", "queued"} IN
  /\ RunGoes(r, "scheduled",
       IF ~ok THEN "refused" ELSE IF BodyOf[r] \in Pushing THEN "clone" ELSE "prepare")
  /\ doc' = IF ok THEN [doc EXCEPT ![c].status = "applying"] ELSE doc
  /\ IF ok THEN Meet(r) ELSE UNCHANGED hist
  /\ UNCHANGED <<api, todo, snap, files, remote>>

\* pull_config clones the repository to a temporary directory ...
Clone(r) ==
  /\ RunGoes(r, "clone", "pull")
  /\ snap' = [snap EXCEPT ![r] = remote]
  /\ todo' = [todo EXCEPT ![r] = File]
  /\ UNCHANGED <<doc, api, files, remote, hist>>

\* One turn of a loop over the files; after the last one the run goes on.
Turn(r, f, from, to) ==
  /\ run[r] = from
  /\ f \in todo[r]
  /\ run' = [run EXCEPT ![r] = IF todo[r] = {f} THEN to ELSE from]
  /\ todo' = [todo EXCEPT ![r] = IF @ = {f} THEN FilesOf[CommitOf[r]] ELSE @ \ {f}]

\* A run writes more than its own value, whatever the company has written there.
Cross(r) == crossed' = crossed \cup company[r]

\* ... and copies it over the local files, one after the other, with no lock.
Copy(r) ==
  \E f \in File :
    /\ Turn(r, f, "pull", "prepare")
    /\ files' = [files EXCEPT ![f] = snap[r][f]]
    /\ Cross(r)
    /\ UNCHANGED <<doc, api, snap, remote, kept, company>>

\* create_backend and get_params_updater.
Prepare(r) ==
  /\ RunGoes(r, "prepare", "snapshot")
  /\ todo' = [todo EXCEPT ![r] = FilesOf[CommitOf[r]]]
  /\ snap' = [snap EXCEPT ![r] = Filled(Base)]
  /\ UNCHANGED <<doc, api, files, remote, hist>>

\* snapshot() reads the whole files, each under its lock.
Snapshot(r) ==
  \E f \in File :
    /\ Turn(r, f, "snapshot", "update")
    /\ snap' = [snap EXCEPT ![r][f] = files[f]]
    /\ UNCHANGED <<doc, api, files, remote, hist>>

\* Faulty: the file is read before the lock is taken.
UpdateUnlocked(r) ==
  \E f \in File :
    /\ Turn(r, f, "update", "verify")
    /\ files' = [files EXCEPT ![f] = [snap[r][f] EXCEPT ![LabelOf[CommitOf[r]]] = CommitOf[r]]]
    /\ UNCHANGED <<doc, api, snap, remote, hist>>

\* _update_yaml: read and replace under the file's lock.
Update(r) ==
  \E f \in File :
    /\ Turn(r, f, "update", "verify")
    /\ files' = [files EXCEPT ![f][LabelOf[CommitOf[r]]] = CommitOf[r]]
    /\ UNCHANGED <<doc, api, snap, remote, hist>>

Verify(r) ==
  \E f \in File :
    /\ Turn(r, f, "verify", "mark")
    /\ files[f][LabelOf[CommitOf[r]]] = CommitOf[r]
    /\ UNCHANGED <<doc, api, snap, files, remote, hist>>

\* backend_verified is stored before the push.
MarkVerified(r) ==
  /\ RunGoes(r, "mark", IF BodyOf[r] \in Pushing THEN "push" ELSE "apply")
  /\ doc' = [doc EXCEPT ![CommitOf[r]].verified = TRUE]
  /\ UNCHANGED <<api, host>>

\* Faulty: the extra files of the parameter are not pushed.
PushedOne(r) ==
  LET g == CHOOSE f \in FilesOf[CommitOf[r]] : TRUE IN
  [f \in File |-> IF f = g THEN files[f] ELSE remote[f]]

\* The repository with the target files as they are locally.
Pushed(r) == [f \in File |-> IF f \in FilesOf[CommitOf[r]] THEN files[f] ELSE remote[f]]

\* What the value of one commit does to where the others stand.
Displace(r, own, other) ==
  kept' = [c \in Commit |->
    IF c = CommitOf[r] THEN own[kept[c]]
    ELSE IF Alike(c, CommitOf[r]) THEN other[kept[c]] ELSE kept[c]]
Same == [k \in Place |-> k]
Gone == [k \in Place |-> "no"]

\* push_github_batch.  A push that the repository rejects does not raise: it looks
\* like one that was taken.
Push(r) ==
  /\ RunGoes(r, "push", IF Pushed(r) # remote THEN "sync" ELSE "apply")
  /\ \/ /\ remote' = Pushed(r)
        /\ Displace(r, [k \in Place |-> "pushed"], Gone)
     \/ /\ Pushed(r) # remote
        /\ UNCHANGED <<remote, kept>>
  /\ Cross(r)
  /\ UNCHANGED <<doc, api, todo, snap, files, company>>

\* _sync_local_repo: git reset --hard; a failure is only a warning.
SyncLocal(r) ==
  /\ RunGoes(r, "sync", "apply")
  /\ files' \in {files, remote}
  /\ Cross(r)
  /\ UNCHANGED <<doc, api, todo, snap, remote, kept, company>>

\* The locals of a flow run go with it.
Leave(r) ==
  /\ todo' = [todo EXCEPT ![r] = {}]
  /\ snap' = [snap EXCEPT ![r] = Filled(Base)]
  /\ company' = [company EXCEPT ![r] = {}]

MarkApplied(r) ==
  /\ RunGoes(r, "apply", "applied")
  /\ doc' = [doc EXCEPT ![CommitOf[r]].status = "applied", ![CommitOf[r]].verified = TRUE]
  /\ Displace(r, [k \in Place |-> IF k = "no" /\ BodyOf[r] \notin Pushing THEN "local" ELSE k],
              Gone)
  /\ Leave(r)
  /\ UNCHANGED <<api, files, remote, crossed>>

\* The pull has begun to replace files, or the update has.
Touched(r) == run[r] \in Touching \cup {"tear"} \/ (run[r] = "pull" /\ todo[r] # File)

\* Any step of the try block may raise; before the snapshot is complete nothing
\* is restored, not even after a pull that stopped half-way.
Raise(r) ==
  /\ \/ /\ run[r] \in {"clone", "pull", "prepare", "snapshot"}
        /\ run' = [run EXCEPT ![r] = IF Touched(r) THEN "tear" ELSE "fail"]
     \/ run[r] \in {"update", "verify", "push"} /\ run' = [run EXCEPT ![r] = "restore"]
  /\ todo' = [todo EXCEPT ![r] = FilesOf[CommitOf[r]]]
  \* the answer to a push may be lost after the repository has taken it
  /\ \/ UNCHANGED <<remote, kept, crossed>>
     \/ /\ run[r] = "push"
        /\ remote' = Pushed(r)
        /\ Displace(r, Same, [k \in Place |-> IF k = "pushed" THEN "local" ELSE k])
        /\ Cross(r)
  /\ UNCHANGED <<doc, api, snap, files, company>>

\* restore() writes the whole captured files back.
Restore(r) ==
  \E f \in File :
    /\ Turn(r, f, "restore", "fail")
    /\ files' = [files EXCEPT ![f] = snap[r][f]]
    /\ Cross(r)
    /\ UNCHANGED <<doc, api, snap, remote, kept, company>>

RestoreRaises(r) ==
  /\ RunGoes(r, "restore", "tear")
  /\ Displace(r, Same, Gone)
  /\ UNCHANGED <<doc, api, todo, snap, files, remote, company, crossed>>

\* The except block's update_one, after a restore that succeeded or raised.
RunFails(r) ==
  /\ \/ RunGoes(r, "fail", "failed")
     \/ RunGoes(r, "tear", "torn")
  /\ doc' = [doc EXCEPT ![CommitOf[r]].status = "failed", ![CommitOf[r]].verified = FALSE]
  /\ Leave(r)
  /\ UNCHANGED <<api, files, remote, kept, crossed>>

Worker(r) ==
  \/ Transition(r) \/ Clone(r) \/ Copy(r) \/ Prepare(r) \/ Snapshot(r) \/ Update(r)
  \/ Verify(r) \/ MarkVerified(r) \/ Push(r) \/ SyncLocal(r) \/ MarkApplied(r) \/ Raise(r)
  \/ Restore(r) \/ RestoreRaises(r) \/ RunFails(r)

\* The worker is lost, or Prefect cancels the run: no handler sees it.  "killed"
\* says that it had begun to change files.
RunDies(r) ==
  /\ r \in Mortal
  /\ run[r] \in Applying \cup {"scheduled"}
  /\ run' = [run EXCEPT ![r] = IF Touched(r) THEN "killed" ELSE "dead"]
  /\ IF Touched(r) THEN Displace(r, Same, Gone) ELSE UNCHANGED kept
  /\ Leave(r)
  /\ UNCHANGED <<doc, api, files, remote, crossed>>

Next == \E r \in Request : Handler(r) \/ ApiDies(r) \/ Worker(r) \/ RunDies(r)

Spec == Init /\ [][Next]_vars

\* A process that runs goes on, and Prefect starts the flow runs it created.
FairSpec ==
  /\ Spec
  /\ \A r \in Request : WF_vars(api[r] # "idle" /\ Handler(r)) /\ WF_vars(Worker(r))

-----------------------------------------------------------------------------
(* Properties *)

Of(c) == {r \in Request : CommitOf[r] = c}

\* The commit was marked failed, or is about to be, after Prefect created the
\* flow run of this request and its answer was lost.
Lost(c) == \E r \in Of(c) : api[r] \in {"fail", "raised"} /\ run[r] # "none"

\* At most one flow run applies a commit at a time, whatever requests overlap or
\* die, unless an answer of Prefect was lost.
OneApplyAtATime ==
  \A c \in Commit : ~Lost(c) =>
    \A r, q \in Of(c) : run[r] \in Applying /\ run[q] \in Applying => r = q

\* The handler that is still at its bookkeeping never takes back what a faster
\* flow run has stored: applied is final, with the same exception.
AppliedIsFinal ==
  [][\A c \in Commit :
       ~Lost(c) /\ Status(c) = "applied" => doc'[c] = doc[c]]_vars

InFiles(c, fs) == \A f \in FilesOf[c] : fs[f][LabelOf[c]] = c
Agree(c, fs) == \A f, g \in FilesOf[c] : fs[f][LabelOf[c]] = fs[g][LabelOf[c]]
Uncrossed(c) == FilesOf[c] \cap crossed = {}

\* A value stands from the moment its commit is marked applied or its push is
\* taken.  No later step of this or of another apply, of a run that works on the
\* same files at the same time, raises or dies takes it away, in the files or in
\* the repository, except another apply of the same label, a pull if it was never
\* pushed, and a run in company that pulls, pushes, syncs or restores.
VerifiedStands ==
  \A c \in Commit : Uncrossed(c) =>
    /\ kept[c] = "pushed" => InFiles(c, remote)
    /\ \/ kept[c] = "no"
       \/ InFiles(c, files)
       \/ \E r \in Request : run[r] \in Touching /\ CommitOf[r] # c /\ Alike(CommitOf[r], c)

\* A flow run that may have written one file and not the other: it is at it, died
\* at it, could not restore, or stopped half-way through its pull.
Half(r, c) ==
  \/ Alike(CommitOf[r], c) /\ run[r] \in Touching \cup {"tear", "torn", "killed"}
  \/ /\ BodyOf[r] \in Pushing
     /\ run[r] \in {"tear", "torn", "killed"} \/ (run[r] = "pull" /\ todo[r] # File)

\* A parameter that is kept in several files is in all of them or in none, on the
\* host when no flow run is or has stopped half-way, in the repository always.
AllOrNothing ==
  \A c \in Commit : Uncrossed(c) =>
    Agree(c, remote) /\ ((\A r \in Request : ~Half(r, c)) => Agree(c, files))

\* What push_github.py:30-33 says of the reset after a push: the local changes
\* "have already been pushed", so that it takes nothing away.
SyncKeepsPushed ==
  \A r \in Request : LET c == CommitOf[r] IN
    run[r] = "applied" /\ BodyOf[r] \in Pushing /\ Uncrossed(c) => InFiles(c, files)

\* An apply that was reserved is decided: a polling client sees applied or
\* failed in the end, unless a process died on the way.
Decided ==
  \A c \in Commit :
    Status(c) \in {"dispatching", "queued", "applying"} ~>
      \/ Status(c) \in {"applied", "failed"}
      \/ \E r \in Of(c) : api[r] = "dead" \/ run[r] \in {"dead", "killed"}
=============================================================================
