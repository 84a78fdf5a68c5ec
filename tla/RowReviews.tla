------------------------------ MODULE RowReviews ------------------------------
(***************************************************************************)
(* One row of task_result_history and everyone who writes it as a whole    *)
(* document: the worker that records the end of the task, the AI reviews   *)
(* it enqueues (ai_review.py), the AI reviews users request from the API   *)
(* (TaskResultService), and users who write a note or exclude the result.  *)
(* Bulk updates ($set) are the API's claim and the settling of running     *)
(* rows.  One step is one round trip to MongoDB or one blocking call.      *)
(***************************************************************************)
CONSTANTS
  Job,          \* review requests to the API
  User,         \* users who write a note or toggle excluded
  Recorder,     \* the worker's history recorder
  First, Second,  \* its two calls of enqueue_ai_review_note
  ApiMayDie     \* whether the API process may be restarted

\* A finished task is enqueued twice: by the repository's save and by the
\* recorder after it.
Enqueue == {First, Second}

ASSUME ReviewConstants ==
  /\ First # Second /\ Recorder \notin Enqueue
  /\ ({Recorder} \cup Enqueue) \cap (Job \cup User) = {} /\ Job \cap User = {}
  /\ ApiMayDie \in BOOLEAN

VARIABLES
  doc,     \* the row: status, review status, whether it has a text
  snap,    \* the document each writer has read
  wpc,     \* the worker's next step
  marker,  \* the task id is in _IN_FLIGHT_TASK_IDS
  auto,    \* the reviews the worker enqueued
  job,     \* the API's reviews
  user,    \* the users' requests
  clashed  \* history: a save wrote back an older document, or over a running claim

vars == <<doc, snap, wpc, marker, auto, job, user, clashed>>

Doc == [status : {"running", "completed", "failed"},
        review : {"", "requested", "running", "completed", "failed"}, text : BOOLEAN]
Writer == {Recorder} \cup Enqueue \cup Job \cup User
AutoPC == {"none", "queued", "note", "noted", "fail", "failing", "over"}
JobPC == {"find", "claim", "start", "starting", "note", "noted", "fail", "failing", "over", "dead"}

TypeOK ==
  /\ doc \in Doc /\ snap \in [Writer -> Doc]
  /\ wpc \in {"run", "record", "enqueue1", "enqueue2", "over"}
  /\ marker \in BOOLEAN
  /\ auto \in [Enqueue -> AutoPC] /\ job \in [Job -> JobPC]
  /\ user \in [User -> {"read", "save", "over"}]
  /\ clashed \in BOOLEAN

Started == [status |-> "running", review |-> "", text |-> FALSE]

Init ==
  /\ doc = Started /\ snap = [x \in Writer |-> Started]
  /\ wpc = "run" /\ marker = FALSE
  /\ auto = [e \in Enqueue |-> "none"]
  /\ job = [j \in Job |-> "find"] /\ user = [u \in User |-> "read"]
  /\ clashed = FALSE

\* Jobs that own the review: from their claim to their last write.
Owning == {j \in Job : job[j] \notin {"find", "claim", "over", "dead"}}

\* find_one.
Read(x) == snap' = [snap EXCEPT ![x] = doc] /\ UNCHANGED <<doc, clashed>>

\* doc.save() of what x has read, with its own fields changed.
Save(x, new) ==
  /\ doc' = new
  /\ snap' = [snap EXCEPT ![x] = Started]
  /\ clashed' = (clashed \/ doc # snap[x]
                 \/ (Owning \ {x} # {} /\ new.review # doc.review))

-----------------------------------------------------------------------------
(* The worker *)

\* The end of the task: upsert_document reads the row ...
RecordRead ==
  /\ wpc = "run"
  /\ Read(Recorder)
  /\ wpc' = "record"
  /\ UNCHANGED <<marker, auto, job, user>>

\* ... and saves the task's fields.
RecordSave ==
  /\ wpc = "record"
  /\ Save(Recorder, [snap[Recorder] EXCEPT !.status = "completed"])
  /\ wpc' = "enqueue1"
  /\ UNCHANGED <<marker, auto, job, user>>

AfterEnqueue == wpc' = IF wpc = "enqueue1" THEN "enqueue2" ELSE "over"
Call == IF wpc = "enqueue1" THEN First ELSE Second

\* Faulty: a task whose id is in flight is submitted as well.
EnqueueReviewAgain ==
  /\ wpc \in {"enqueue1", "enqueue2"}
  /\ marker' = TRUE
  /\ auto' = [auto EXCEPT ![Call] = "queued"]
  /\ AfterEnqueue
  /\ UNCHANGED <<doc, snap, job, user, clashed>>

\* enqueue_ai_review_note: nothing when the task id is in flight; otherwise the
\* id is marked under the lock and the review submitted to the thread pool.
EnqueueReview ==
  /\ wpc \in {"enqueue1", "enqueue2"}
  /\ \/ marker /\ UNCHANGED <<marker, auto>>
     \/ ~marker /\ marker' = TRUE /\ auto' = [auto EXCEPT ![Call] = "queued"]
  /\ AfterEnqueue
  /\ UNCHANGED <<doc, snap, job, user, clashed>>

\* The pool refuses the review: the mark is taken back.
SubmitRaises ==
  /\ wpc \in {"enqueue1", "enqueue2"} /\ ~marker
  /\ AfterEnqueue
  /\ UNCHANGED <<doc, snap, marker, auto, job, user, clashed>>

AutoGoto(e, l) == auto' = [auto EXCEPT ![e] = l]

\* maybe_attach_ai_review_note writes no second review; the model answers, answers
\* with nothing, or raises, which loading its configuration may do before the row
\* is looked at.
AutoOutcome(e, l) ==
  /\ auto[e] = "queued"
  /\ doc.text => l # "note"
  /\ AutoGoto(e, l)

\* Faulty: a review without content keeps the mark.
AutoRunKeepsMark(e) ==
  /\ \E l \in {"note", "fail", "over"} : AutoOutcome(e, l)
  /\ UNCHANGED <<doc, snap, wpc, marker, job, user, clashed>>

\* The review's blocking part: the finally block takes the mark back when it
\* ends without a write.
AutoRun(e) ==
  /\ \E l \in {"note", "fail", "over"} :
       /\ AutoOutcome(e, l)
       /\ marker' = (marker /\ l # "over")
  /\ UNCHANGED <<doc, snap, wpc, job, user, clashed>>

\* _set_ai_review_note_content and _set_ai_review_failure: read ...
AutoRead(e) ==
  /\ auto[e] \in {"note", "fail"}
  /\ Read(e)
  /\ AutoGoto(e, IF auto[e] = "note" THEN "noted" ELSE "failing")
  /\ UNCHANGED <<wpc, marker, job, user>>

\* ... and save; the finally block takes the mark back.
AutoSave(e) ==
  /\ auto[e] \in {"noted", "failing"}
  /\ Save(e, IF auto[e] = "noted"
             THEN [snap[e] EXCEPT !.review = "completed", !.text = TRUE]
             ELSE [snap[e] EXCEPT !.review = "failed"])
  /\ AutoGoto(e, "over")
  /\ marker' = FALSE
  /\ UNCHANGED <<wpc, job, user>>

-----------------------------------------------------------------------------
(* The API *)

JobGoto(j, l) == job' = [job EXCEPT ![j] = l]
InFlight == {"requested", "running"}

\* The query for the rows to review: only finished tasks are candidates.
Find(j) ==
  /\ job[j] = "find" /\ doc.status \in {"completed", "failed"}
  /\ JobGoto(j, "claim")
  /\ UNCHANGED <<doc, snap, wpc, marker, auto, user, clashed>>

\* The document is marked; then the thread pool takes the review, or raises.
ClaimAndSubmit(j) ==
  /\ doc' = [doc EXCEPT !.review = "requested"]
  /\ \E l \in {"start", "fail"} : JobGoto(j, l)

\* Faulty: the claim does not look at the review's status.
ClaimAny(j) ==
  /\ job[j] = "claim"
  /\ ClaimAndSubmit(j)
  /\ UNCHANGED <<snap, wpc, marker, auto, user, clashed>>

\* _claim_ai_review_document: one find_one_and_update, filtered on the review's
\* status.  The row's own status is not looked at.
Claim(j) ==
  /\ job[j] = "claim"
  /\ \/ doc.review \notin InFlight /\ ClaimAndSubmit(j)
     \/ doc.review \in InFlight /\ JobGoto(j, "over") /\ UNCHANGED doc
  /\ UNCHANGED <<snap, wpc, marker, auto, user, clashed>>

\* _set_ai_review_status and _upsert_ai_review_note: read ...
JobRead(j) ==
  /\ job[j] \in {"start", "note", "fail"}
  /\ Read(j)
  /\ JobGoto(j, CASE job[j] = "start" -> "starting" [] job[j] = "note" -> "noted"
                  [] job[j] = "fail" -> "failing")
  /\ UNCHANGED <<wpc, marker, auto, user>>

\* Faulty: a failure is stored under a status no reader knows.
JobStoreError(j) ==
  \/ job[j] = "noted" /\ Save(j, [snap[j] EXCEPT !.review = "completed", !.text = TRUE])
  \/ job[j] = "failing" /\ Save(j, [snap[j] EXCEPT !.review = "error"])

\* ... and save.
JobStore(j) ==
  \/ job[j] = "noted" /\ Save(j, [snap[j] EXCEPT !.review = "completed", !.text = TRUE])
  \/ job[j] = "failing" /\ Save(j, [snap[j] EXCEPT !.review = "failed"])

\* Faulty: no status is stored for an answer without content.
JobSaveNoEmpty(j) ==
  /\ \/ /\ job[j] = "starting"
        /\ Save(j, [snap[j] EXCEPT !.review = "running"])
        /\ \E l \in {"note", "over"} : JobGoto(j, l)
     \/ JobStore(j) /\ JobGoto(j, "over")
  /\ UNCHANGED <<wpc, marker, auto, user>>

\* After the status "running" the model answers; no content or an exception is
\* a failure.
JobSave(j) ==
  /\ \/ /\ job[j] = "starting"
        /\ Save(j, [snap[j] EXCEPT !.review = "running"])
        /\ \E l \in {"note", "fail"} : JobGoto(j, l)
     \/ JobStore(j) /\ JobGoto(j, "over")
  /\ UNCHANGED <<wpc, marker, auto, user>>

\* The API process is restarted: its reviews are gone.
ApiDies ==
  /\ ApiMayDie /\ Owning # {}
  /\ job' = [j \in Job |-> IF j \in Owning THEN "dead" ELSE job[j]]
  /\ snap' = [x \in Writer |-> IF x \in Owning THEN Started ELSE snap[x]]
  /\ UNCHANGED <<doc, wpc, marker, auto, user, clashed>>

-----------------------------------------------------------------------------
(* Users and the parent session *)

\* upsert_task_note, delete_task_note, set_task_result_excluded.
UserRead(u) ==
  /\ user[u] = "read"
  /\ Read(u)
  /\ user' = [user EXCEPT ![u] = "save"]
  /\ UNCHANGED <<wpc, marker, auto, job>>

UserSave(u) ==
  /\ user[u] = "save"
  /\ Save(u, snap[u])
  /\ user' = [user EXCEPT ![u] = "over"]
  /\ UNCHANGED <<wpc, marker, auto, job>>

\* finalize_running_tasks: the end of the execution fails what still runs.
Finalize ==
  /\ wpc = "over" /\ doc.status = "running"
  /\ doc' = [doc EXCEPT !.status = "failed"]
  /\ UNCHANGED <<snap, wpc, marker, auto, job, user, clashed>>

Worker == RecordRead \/ RecordSave \/ EnqueueReview
AutoReview(e) == AutoRun(e) \/ AutoRead(e) \/ AutoSave(e)
Review(j) == JobRead(j) \/ JobSave(j)

Next ==
  \/ Worker \/ SubmitRaises \/ Finalize
  \/ \E e \in Enqueue : AutoReview(e)
  \/ \E j \in Job : Find(j) \/ Claim(j) \/ Review(j)
  \/ ApiDies
  \/ \E u \in User : UserRead(u) \/ UserSave(u)

\* The worker and the threads of both pools go on; users and requests need not.
Spec ==
  /\ Init /\ [][Next]_vars
  /\ WF_vars(Worker)
  /\ \A e \in Enqueue : WF_vars(AutoReview(e))
  /\ \A j \in Job : WF_vars(Review(j))

-----------------------------------------------------------------------------
(* Properties *)

\* The worker never runs two reviews of a task at once, and the mark that keeps
\* the second one out is set exactly while one runs, on every path out of it.
OneAutoReview ==
  /\ \A e, f \in Enqueue :
       auto[e] \notin {"none", "over"} /\ auto[f] \notin {"none", "over"} => e = f
  /\ marker <=> \E e \in Enqueue : auto[e] \notin {"none", "over"}

\* Two reviews of a row run in the API at the same time only after another
\* writer replaced the claim of the first: the worker's review, which does not
\* claim, or a save of a document read before.
ClaimExclusive == \A i, j \in Owning : i = j \/ clashed

\* A claimed review is completed or failed in the end, on every path of the job,
\* unless the API process died or a save clashed with another writer's.
ReviewEnds ==
  doc.review \in InFlight ~>
    doc.review \notin InFlight \/ clashed \/ \E j \in Job : job[j] = "dead"
=============================================================================
