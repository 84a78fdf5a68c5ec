------------------------- MODULE CandidateApply_proofs -------------------------
(***************************************************************************)
(* Theorems about CandidateApply, for any number of commits, requests and  *)
(* files, whoever may die and whichever answer of Prefect may be lost.     *)
(***************************************************************************)
EXTENDS CandidateApply, TLAPS

\* The lost answer has done its harm: the commit was marked failed although the
\* flow run exists.
Misjudged(c) == \E r \in Of(c) : api[r] = "raised" /\ run[r] # "none"

\* A request that has reserved its commit and whose apply is not decided.
Owed(r) == api[r] = "launch" \/ (api[r] = "fail" /\ run[r] = "none") \/ run[r] = "scheduled"
Busy(r) == Owed(r) \/ run[r] \in Applying

OrderInv == \A r \in Request : api[r] \in {"idle", "reserve", "launch"} => run[r] = "none"

\* One request of a commit is busy, and the status says how far it is.
Lone(c) ==
  /\ \A r, q \in Of(c) : Busy(r) /\ Busy(q) => r = q
  /\ \A r \in Of(c) : /\ Owed(r) => Status(c) \in {"dispatching", "queued"}
                      /\ run[r] \in Applying => Status(c) = "applying"
LoneInv == \A c \in Commit : ~Misjudged(c) => Lone(c)

Act(r) == Handler(r) \/ ApiDies(r) \/ Worker(r) \/ RunDies(r)

-----------------------------------------------------------------------------
(* What a step leaves alone *)

\* A step of a request touches its own locals and the document of its commit.
LEMMA Frame ==
  ASSUME TypeOK, NEW r \in Request, Act(r)
  PROVE  /\ \A q \in Request \ {r} : /\ api'[q] = api[q] /\ run'[q] = run[q]
                                     /\ todo'[q] = todo[q] /\ snap'[q] = snap[q]
         /\ \A c \in Commit \ {CommitOf[r]} : doc'[c] = doc[c]
<1> USE ApplyConstants DEF TypeOK, ApiGoes, RunGoes, host, Turn, Leave
<1>1. CASE Handler(r)
  BY <1>1 DEF Handler, Look, Reserve, Launch, LaunchRaises, MarkFailed, MarkQueued
<1>2. CASE ApiDies(r)
  BY <1>2 DEF ApiDies
<1>3. CASE RunDies(r)
  BY <1>3 DEF RunDies
<1>4. CASE Transition(r) \/ Clone(r) \/ Prepare(r) \/ MarkVerified(r) \/ Push(r) \/ SyncLocal(r)
  BY <1>4 DEF Transition, Clone, Prepare, MarkVerified, Push, SyncLocal
<1>5. CASE Copy(r) \/ Snapshot(r) \/ Update(r) \/ Verify(r) \/ Restore(r)
  BY <1>5 DEF Copy, Snapshot, Update, Verify, Restore
<1>6. CASE MarkApplied(r) \/ Raise(r) \/ RestoreRaises(r) \/ RunFails(r)
  BY <1>6 DEF MarkApplied, Raise, RestoreRaises, RunFails
<1> QED
  BY <1>1, <1>2, <1>3, <1>4, <1>5, <1>6 DEF Act, Worker

\* The harm is never undone.
LEMMA MisjudgedStays ==
  ASSUME TypeOK, NEW r \in Request, Act(r), NEW c \in Commit, Misjudged(c)
  PROVE  Misjudged(c)'
<1>1. PICK q \in Of(c) : api[q] = "raised" /\ run[q] # "none"
  BY DEF Misjudged
<1>2. q \in Request
  BY <1>1 DEF Of
<1>3. CASE q # r
  BY <1>1, <1>2, <1>3, Frame DEF Misjudged, Of
<1>4. CASE q = r
  <2> USE <1>1, <1>2, <1>4 DEF TypeOK, ApiGoes, RunGoes, host, Turn, Leave
  <2>1. ~Handler(r) /\ ~ApiDies(r)
    BY DEF Handler, Look, Reserve, Launch, LaunchRaises, MarkFailed, MarkQueued, ApiDies
  <2>2. ASSUME Worker(r) \/ RunDies(r) PROVE api'[r] = "raised" /\ run'[r] # "none"
    <3>1. CASE RunDies(r)
      BY <3>1 DEF RunDies
    <3>2. CASE Transition(r) \/ Clone(r) \/ Prepare(r) \/ MarkVerified(r) \/ Push(r) \/ SyncLocal(r)
      BY <3>2 DEF Transition, Clone, Prepare, MarkVerified, Push, SyncLocal
    <3>3. CASE Copy(r) \/ Snapshot(r) \/ Update(r) \/ Verify(r) \/ Restore(r)
      BY <3>3 DEF Copy, Snapshot, Update, Verify, Restore
    <3>4. CASE MarkApplied(r) \/ Raise(r) \/ RestoreRaises(r) \/ RunFails(r)
      BY <3>4 DEF MarkApplied, Raise, RestoreRaises, RunFails
    <3> QED
      BY <2>2, <3>1, <3>2, <3>3, <3>4 DEF Worker
  <2>3. api'[r] = "raised" /\ run'[r] # "none"
    BY <2>1, <2>2 DEF Act
  <2> QED
    BY <2>3 DEF Misjudged, Of
<1> QED
  BY <1>3, <1>4

-----------------------------------------------------------------------------
(* Types *)

LEMMA WithType ==
  ASSUME NEW cs \in SUBSET Commit, NEW v \in {Base, Up} PROVE With(cs, v) \in [File -> Content]
<1>1. ASSUME NEW f \in File, NEW l \in Label, At(cs, f, l) # {}
      PROVE  (CHOOSE c \in At(cs, f, l) : TRUE) \in At(cs, f, l)
  BY <1>1
<1>2. ASSUME NEW f \in File, NEW l \in Label PROVE At(cs, f, l) \subseteq Commit
  BY DEF At
<1> QED
  BY <1>1, <1>2 DEF With, Content

LEMMA FilledType == \A v \in {Base, Up} : Filled(v) \in [File -> Content]
BY DEF Filled, Content

LEMMA InitType == Init => TypeOK
<1> SUFFICES ASSUME Init PROVE TypeOK
  OBVIOUS
<1>1. PICK b \in [Earlier -> Body] :
        /\ doc = [c \in Commit |->
             IF c \in Earlier THEN [status |-> "applied", body |-> b[c], verified |-> TRUE]
             ELSE [status |-> "not_started", body |-> None, verified |-> FALSE]]
        /\ kept = [c \in Commit |->
             IF c \notin Earlier THEN "no" ELSE IF b[c] \in Pushing THEN "pushed" ELSE "local"]
  BY DEF Init
<1>2. doc \in [Commit -> Doc] /\ kept \in [Commit -> Place]
  BY <1>1 DEF Doc, BackendStatus, Place
<1>3. files \in [File -> Content] /\ remote \in [File -> Content]
  <2>1. Earlier \subseteq Commit /\ {c \in Earlier : kept[c] = "pushed"} \subseteq Commit
    BY ApplyConstants
  <2> QED
    BY <2>1, WithType DEF Init
<1>4. snap \in [Request -> [File -> Content]]
  BY FilledType DEF Init
<1> QED
  BY <1>2, <1>3, <1>4 DEF Init, TypeOK, API, Run

\* What the steps write into a commit document.
LEMMA DocFields ==
  ASSUME NEW d \in Doc, NEW s \in BackendStatus, NEW b \in Body
  PROVE  /\ [d EXCEPT !.status = s] \in Doc
         /\ [d EXCEPT !.status = s, !.body = b] \in Doc
         /\ [d EXCEPT !.verified = TRUE] \in Doc
         /\ [d EXCEPT !.status = s, !.verified = TRUE] \in Doc
         /\ [d EXCEPT !.status = s, !.verified = FALSE] \in Doc
BY DEF Doc

\* Each step leaves the documents or writes these fields of its commit.
LEMMA DocType ==
  ASSUME TypeOK, NEW r \in Request, Act(r)
  PROVE  doc' \in [Commit -> Doc]
<1> DEFINE c == CommitOf[r]
           d == doc[c]
<1>1. c \in Commit /\ d \in Doc /\ BodyOf[r] \in Body /\ doc \in [Commit -> Doc]
  BY ApplyConstants DEF TypeOK
<1>2. \A s \in BackendStatus : /\ [d EXCEPT !.status = s] \in Doc
                               /\ [d EXCEPT !.status = s, !.body = BodyOf[r]] \in Doc
                               /\ [d EXCEPT !.verified = TRUE] \in Doc
                               /\ [d EXCEPT !.status = s, !.verified = TRUE] \in Doc
                               /\ [d EXCEPT !.status = s, !.verified = FALSE] \in Doc
  BY <1>1, DocFields
<1>3. \/ doc' = doc
      \/ \E s \in BackendStatus :
           \/ doc' = [doc EXCEPT ![c] = [d EXCEPT !.status = s]]
           \/ doc' = [doc EXCEPT ![c] = [d EXCEPT !.status = s, !.body = BodyOf[r]]]
           \/ doc' = [doc EXCEPT ![c] = [d EXCEPT !.verified = TRUE]]
           \/ doc' = [doc EXCEPT ![c] = [d EXCEPT !.status = s, !.verified = TRUE]]
           \/ doc' = [doc EXCEPT ![c] = [d EXCEPT !.status = s, !.verified = FALSE]]
  <2>1. CASE Look(r) \/ Launch(r) \/ LaunchRaises(r) \/ ApiDies(r) \/ RunDies(r)
             \/ Clone(r) \/ Prepare(r) \/ Push(r) \/ SyncLocal(r) \/ Raise(r)
             \/ RestoreRaises(r) \/ Copy(r) \/ Snapshot(r) \/ Update(r) \/ Verify(r) \/ Restore(r)
    BY <2>1 DEF Look, Launch, LaunchRaises, ApiDies, RunDies, Clone, Prepare, Push, SyncLocal,
         Raise, RestoreRaises, Copy, Snapshot, Update, Verify, Restore
  <2>2. CASE Reserve(r)
    BY <2>2 DEF Reserve, BackendStatus
  <2>3. CASE MarkFailed(r)
    BY <2>3 DEF MarkFailed, BackendStatus
  <2>4. CASE MarkQueued(r)
    BY <2>4 DEF MarkQueued, BackendStatus
  <2>5. CASE Transition(r)
    BY <2>5 DEF Transition, BackendStatus
  <2>6. CASE MarkVerified(r)
    BY <2>6 DEF MarkVerified, BackendStatus
  <2>7. CASE MarkApplied(r)
    BY <2>7 DEF MarkApplied, BackendStatus
  <2>8. CASE RunFails(r)
    BY <2>8 DEF RunFails, BackendStatus
  <2> QED
    BY <2>1, <2>2, <2>3, <2>4, <2>5, <2>6, <2>7, <2>8 DEF Act, Handler, Worker
<1> HIDE DEF c, d
<1> QED
  BY <1>1, <1>2, <1>3

LEMMA DisplaceType ==
  ASSUME TypeOK, NEW r \in Request, NEW own \in [Place -> Place], NEW other \in [Place -> Place],
         Displace(r, own, other)
  PROVE  kept' \in [Commit -> Place]
BY DEF Displace, TypeOK

\* The history variables.
LEMMA HistType ==
  ASSUME TypeOK, NEW r \in Request, Act(r)
  PROVE  kept' \in [Commit -> Place] /\ company' \in [Request -> SUBSET File] /\ crossed' \subseteq File
<1> USE ApplyConstants DEF TypeOK
<1>1. CASE Handler(r) \/ ApiDies(r)
  BY <1>1 DEF Handler, Look, Reserve, Launch, LaunchRaises, MarkFailed, MarkQueued, ApiDies, host, hist
<1>2. CASE Transition(r)
  <2>1. Scope(r) \subseteq File /\ \A q \in Request : Scope(r) \cap Scope(q) \subseteq File
    BY DEF Scope
  <2>2. CASE UNCHANGED hist
    BY <2>2 DEF hist
  <2>3. CASE Meet(r)
    <3>1. UNION {Scope(r) \cap Scope(p) : p \in Working} \subseteq File
      BY <2>1
    <3>2. UNION {FilesOf[CommitOf[r]] : q \in {p \in Working : Alike(CommitOf[p], CommitOf[r])}} \subseteq File
      OBVIOUS
    <3>3. company' \in [Request -> SUBSET File]
      <4>1. \A q \in Request : company[q] \cup (Scope(q) \cap Scope(r)) \subseteq File
        BY <2>1
      <4> QED
        BY <2>3, <3>1, <4>1 DEF Meet
    <3>4. kept' \in [Commit -> Place]
      BY <2>3 DEF Meet, Place
    <3>5. crossed' \subseteq File
      BY <2>3, <3>2 DEF Meet
    <3> QED
      BY <3>3, <3>4, <3>5
  <2> QED
    BY <1>2, <2>2, <2>3 DEF Transition
<1>3. CASE Clone(r) \/ Prepare(r) \/ Snapshot(r) \/ Update(r) \/ Verify(r) \/ MarkVerified(r)
  BY <1>3 DEF Clone, Prepare, Snapshot, Update, Verify, MarkVerified, host, hist
<1>4. CASE Copy(r) \/ Restore(r) \/ SyncLocal(r)
  BY <1>4 DEF Copy, Restore, SyncLocal, Cross
<1>5. Same \in [Place -> Place] /\ Gone \in [Place -> Place]
  BY DEF Same, Gone, Place
<1>6. CASE Push(r)
  <2>1. [k \in Place |-> "pushed"] \in [Place -> Place]
    BY DEF Place
  <2> HIDE DEF TypeOK
  <2>2. kept' \in [Commit -> Place]
    BY <1>5, <1>6, <2>1, DisplaceType DEF Push, TypeOK
  <2> QED
    BY <1>6, <2>2 DEF Push, Cross, TypeOK
<1>7. CASE MarkApplied(r)
  <2>1. [k \in Place |-> IF k = "no" /\ BodyOf[r] \notin Pushing THEN "local" ELSE k] \in [Place -> Place]
    BY DEF Place
  <2>2. kept' \in [Commit -> Place]
    BY <1>5, <1>7, <2>1, DisplaceType DEF MarkApplied
  <2> QED
    BY <1>7, <2>2 DEF MarkApplied, Leave
<1>8. CASE Raise(r)
  <2>1. [k \in Place |-> IF k = "pushed" THEN "local" ELSE k] \in [Place -> Place]
    BY DEF Place
  <2>2. kept' \in [Commit -> Place]
    BY <1>5, <1>8, <2>1, DisplaceType DEF Raise
  <2> QED
    BY <1>8, <2>2 DEF Raise, Cross
<1>9. CASE RestoreRaises(r) \/ RunDies(r)
  <2>1. kept' \in [Commit -> Place]
    BY <1>5, <1>9, DisplaceType DEF RestoreRaises, RunDies
  <2> QED
    BY <1>9, <2>1 DEF RestoreRaises, RunDies, Leave
<1>10. CASE RunFails(r)
  BY <1>10 DEF RunFails, Leave
<1> QED
  BY <1>1, <1>2, <1>3, <1>4, <1>6, <1>7, <1>8, <1>9, <1>10 DEF Act, Worker

LEMMA PushedType == ASSUME TypeOK, NEW r \in Request PROVE Pushed(r) \in [File -> Content]
BY DEF Pushed, TypeOK

LEMMA TypeStep == TypeOK /\ [Next]_vars => TypeOK'
<1> SUFFICES ASSUME TypeOK, [Next]_vars PROVE TypeOK'
  OBVIOUS
<1>1. CASE UNCHANGED vars
  BY <1>1 DEF vars, host, hist, TypeOK
<1>2. ASSUME NEW r \in Request, Act(r) PROVE TypeOK'
  <2> DEFINE Rest == /\ api' \in [Request -> API] /\ run' \in [Request -> Run]
                     /\ todo' \in [Request -> SUBSET File]
                     /\ snap' \in [Request -> [File -> Content]]
                     /\ files' \in [File -> Content] /\ remote' \in [File -> Content]
  <2> SUFFICES Rest
    BY <1>2, DocType, HistType DEF TypeOK
  <2> USE ApplyConstants DEF ApiGoes, RunGoes, host, API, Run, Applying, Touching
  <2>1. CASE Handler(r) \/ ApiDies(r)
    <3>1. api' \in [Request -> API] /\ run' \in [Request -> Run]
      BY <2>1 DEF Handler, Look, Reserve, Launch, LaunchRaises, MarkFailed, MarkQueued, ApiDies, TypeOK
    <3>2. UNCHANGED host
      BY <2>1 DEF Handler, Look, Reserve, Launch, LaunchRaises, MarkFailed, MarkQueued, ApiDies
    <3> QED
      BY <3>1, <3>2 DEF TypeOK
  <2>2. CASE Transition(r) \/ MarkVerified(r) \/ RestoreRaises(r)
    <3>1. run' \in [Request -> Run] /\ UNCHANGED <<api, todo, snap, files, remote>>
      BY <2>2 DEF Transition, MarkVerified, RestoreRaises, TypeOK
    <3> QED
      BY <3>1 DEF TypeOK
  <2>3. CASE Clone(r) \/ Prepare(r)
    <3>1. run' \in [Request -> Run] /\ todo' \in [Request -> SUBSET File]
          /\ UNCHANGED <<api, files, remote>>
      <4>1. FilesOf[CommitOf[r]] \in SUBSET File /\ File \in SUBSET File
        OBVIOUS
      <4>2. CASE Clone(r)
        BY <4>1, <4>2 DEF Clone, TypeOK
      <4>3. CASE Prepare(r)
        BY <4>1, <4>3 DEF Prepare, TypeOK
      <4> QED
        BY <2>3, <4>2, <4>3
    <3>2. snap' \in [Request -> [File -> Content]]
      <4>1. Filled(Base) \in [File -> Content]
        BY FilledType
      <4>2. \E fs \in [File -> Content] : snap' = [snap EXCEPT ![r] = fs]
        BY <2>3, <4>1 DEF Clone, Prepare, TypeOK
      <4> QED
        BY <4>2 DEF TypeOK
    <3> QED
      BY <3>1, <3>2 DEF TypeOK
  <2>4. ASSUME NEW f \in File, NEW from, NEW to \in Run, Turn(r, f, from, to)
        PROVE  run' \in [Request -> Run] /\ todo' \in [Request -> SUBSET File]
    BY <2>4 DEF Turn, TypeOK
  <2>5. CASE Copy(r) \/ Restore(r)
    <3>1. PICK f \in File : /\ Turn(r, f, "pull", "prepare") \/ Turn(r, f, "restore", "fail")
                            /\ files' = [files EXCEPT ![f] = snap[r][f]]
                            /\ UNCHANGED <<api, snap, remote>>
      BY <2>5 DEF Copy, Restore
    <3>2. files' \in [File -> Content]
      BY <3>1 DEF TypeOK
    <3> QED
      BY <2>4, <3>1, <3>2 DEF TypeOK
  <2>6. CASE Snapshot(r)
    <3>1. PICK f \in File : /\ Turn(r, f, "snapshot", "update")
                            /\ snap' = [snap EXCEPT ![r][f] = files[f]]
                            /\ UNCHANGED <<api, files, remote>>
      BY <2>6 DEF Snapshot
    <3>2. snap' \in [Request -> [File -> Content]]
      BY <3>1 DEF TypeOK
    <3> QED
      BY <2>4, <3>1, <3>2 DEF TypeOK
  <2>7. CASE Update(r)
    <3>1. PICK f \in File : /\ Turn(r, f, "update", "verify")
                            /\ files' = [files EXCEPT ![f][LabelOf[CommitOf[r]]] = CommitOf[r]]
                            /\ UNCHANGED <<api, snap, remote>>
      BY <2>7 DEF Update
    <3>2. files' \in [File -> Content]
      BY <3>1 DEF TypeOK, Content
    <3> QED
      BY <2>4, <3>1, <3>2 DEF TypeOK
  <2>8. CASE Verify(r)
    BY <2>4, <2>8 DEF Verify, TypeOK
  <2>9. CASE Push(r) \/ SyncLocal(r)
    <3>1. files' \in [File -> Content] /\ remote' \in [File -> Content]
      BY <2>9, PushedType DEF Push, SyncLocal, TypeOK
    <3>2. run' \in [Request -> Run] /\ UNCHANGED <<api, todo, snap>>
      BY <2>9 DEF Push, SyncLocal, TypeOK
    <3> QED
      BY <3>1, <3>2 DEF TypeOK
  <2>10. CASE Raise(r)
    <3>1. run' \in [Request -> Run] /\ todo' \in [Request -> SUBSET File]
      BY <2>10 DEF Raise, TypeOK
    <3>2. remote' \in [File -> Content] /\ UNCHANGED <<api, snap, files>>
      BY <2>10, PushedType DEF Raise, TypeOK
    <3> QED
      BY <3>1, <3>2 DEF TypeOK
  <2>11. CASE MarkApplied(r) \/ RunFails(r) \/ RunDies(r)
    <3>1. Leave(r) /\ UNCHANGED <<api, files, remote>>
      BY <2>11 DEF MarkApplied, RunFails, RunDies
    <3>2. todo' \in [Request -> SUBSET File] /\ snap' \in [Request -> [File -> Content]]
      BY <3>1, FilledType DEF Leave, TypeOK
    <3>3. run' \in [Request -> Run]
      BY <2>11 DEF MarkApplied, RunFails, RunDies, TypeOK
    <3> QED
      BY <3>1, <3>2, <3>3 DEF TypeOK
  <2> QED
    BY <1>2, <2>1, <2>2, <2>3, <2>5, <2>6, <2>7, <2>8, <2>9, <2>10, <2>11 DEF Act, Worker
<1> QED
  BY <1>1, <1>2 DEF Next, Act

-----------------------------------------------------------------------------
(* One apply at a time *)

\* Whoever is not busy reserves, looks or finishes its bookkeeping.
LEMMA IdleActs ==
  ASSUME TypeOK, OrderInv, NEW r \in Request, Act(r), ~Busy(r)
  PROVE  \/ Look(r) \/ Reserve(r) \/ MarkQueued(r)
         \/ api[r] \in {"reserve", "queue", "fail"} /\ ApiDies(r)
         \/ MarkFailed(r) /\ run[r] # "none"
<1> USE DEF Busy, Owed, Applying, Touching, ApiGoes, RunGoes, Turn
<1>1. ~Launch(r) /\ ~LaunchRaises(r) /\ ~RunDies(r)
  BY DEF Launch, LaunchRaises, RunDies
<1>2. ~Worker(r)
  BY DEF Worker, Transition, Clone, Copy, Prepare, Snapshot, Update, Verify, MarkVerified, Push,
       SyncLocal, MarkApplied, Raise, Restore, RestoreRaises, RunFails
<1>3. MarkFailed(r) => run[r] # "none"
  BY DEF MarkFailed
<1>4. ApiDies(r) => api[r] \in {"reserve", "queue", "fail"}
  BY DEF ApiDies
<1> QED
  BY <1>1, <1>2, <1>3, <1>4 DEF Act, Handler

\* A busy request that goes on keeps the status in step with itself.
LEMMA BusyActs ==
  ASSUME TypeOK, OrderInv, NEW r \in Request, Act(r), Busy(r),
         Owed(r) => Status(CommitOf[r]) \in {"dispatching", "queued"},
         run[r] \in Applying => Status(CommitOf[r]) = "applying"
  PROVE  \/ api'[r] = "raised" /\ run'[r] # "none"
         \/ /\ Owed(r)' => Status(CommitOf[r])' \in {"dispatching", "queued"}
            /\ run'[r] \in Applying => Status(CommitOf[r])' = "applying"
<1> USE ApplyConstants DEF TypeOK, OrderInv, Busy, Owed, Status, Applying, Touching,
      ApiGoes, RunGoes, host, Doc
<1>1. CASE Look(r) \/ Reserve(r) \/ Launch(r)
  BY <1>1 DEF Look, Reserve, Launch
<1>2. CASE LaunchRaises(r) \/ ApiDies(r) \/ RunDies(r)
  BY <1>2 DEF LaunchRaises, ApiDies, RunDies
<1>3. CASE MarkFailed(r)
  BY <1>3 DEF MarkFailed
<1>4. CASE MarkQueued(r)
  BY <1>4 DEF MarkQueued
<1>5. CASE Transition(r)
  BY <1>5 DEF Transition
<1>6. CASE Clone(r) \/ Prepare(r) \/ Push(r) \/ SyncLocal(r) \/ RestoreRaises(r)
  BY <1>6 DEF Clone, Prepare, Push, SyncLocal, RestoreRaises
<1>7. CASE Copy(r) \/ Snapshot(r) \/ Update(r) \/ Verify(r) \/ Restore(r)
  BY <1>7 DEF Copy, Snapshot, Update, Verify, Restore, Turn
<1>8. CASE MarkVerified(r) \/ MarkApplied(r) \/ RunFails(r)
  <2>1. CASE MarkVerified(r)
    BY <2>1 DEF MarkVerified
  <2>2. CASE MarkApplied(r) \/ RunFails(r)
    <3>1. api' = api /\ run[r] \in Applying /\ run'[r] \in {"applied", "failed", "torn"}
      BY <2>2 DEF MarkApplied, RunFails
    <3> QED
      BY <3>1
  <2> QED
    BY <1>8, <2>1, <2>2
<1>9. CASE Raise(r)
  BY <1>9 DEF Raise
<1> QED
  BY <1>1, <1>2, <1>3, <1>4, <1>5, <1>6, <1>7, <1>8, <1>9 DEF Act, Handler, Worker

LEMMA OrderStep ==
  ASSUME TypeOK, OrderInv, NEW r \in Request, Act(r)
  PROVE  OrderInv'
<1>1. api'[r] \in {"idle", "reserve", "launch"} => run'[r] = "none"
  <2> USE DEF TypeOK, OrderInv, ApiGoes, RunGoes, host, Applying, Touching, Turn
  <2>1. CASE Handler(r) \/ ApiDies(r)
    BY <2>1 DEF Handler, Look, Reserve, Launch, LaunchRaises, MarkFailed, MarkQueued, ApiDies
  <2>2. CASE Worker(r) \/ RunDies(r)
    <3>1. run[r] # "none" /\ api' = api
      BY <2>2 DEF Worker, Transition, Clone, Copy, Prepare, Snapshot, Update, Verify, MarkVerified,
           Push, SyncLocal, MarkApplied, Raise, Restore, RestoreRaises, RunFails, RunDies
    <3> QED
      BY <3>1
  <2> QED
    BY <2>1, <2>2 DEF Act
<1> QED
  BY <1>1, Frame DEF OrderInv

LEMMA LoneStep ==
  ASSUME TypeOK, OrderInv, LoneInv, NEW r \in Request, Act(r)
  PROVE  LoneInv'
<1> SUFFICES ASSUME NEW c \in Commit, ~Misjudged(c)' PROVE Lone(c)'
  BY DEF LoneInv
<1>1. Lone(c)
  BY MisjudgedStays DEF LoneInv
<1>2. ASSUME NEW q \in Of(c), q # r
      PROVE  (Owed(q)' <=> Owed(q)) /\ run'[q] = run[q] /\ (Busy(q)' <=> Busy(q))
  BY <1>2, Frame DEF Of, Owed, Busy
<1>3. CASE CommitOf[r] # c
  <2>1. Status(c)' = Status(c) /\ \A q \in Of(c) : q # r
    BY <1>3, Frame DEF Status, Of
  <2> QED
    BY <1>1, <1>2, <2>1 DEF Lone, Of
<1>4. CASE CommitOf[r] = c
  <2>1. r \in Of(c) /\ Of(c)' = Of(c)
    BY <1>4 DEF Of
  <2>2. CASE Busy(r)
    <3>1. \A q \in Of(c) : q # r => ~Busy(q)
      BY <1>1, <2>1, <2>2 DEF Lone
    <3>2. /\ Owed(r) => Status(c) \in {"dispatching", "queued"}
          /\ run[r] \in Applying => Status(c) = "applying"
      BY <1>1, <2>1 DEF Lone
    <3>3. ~(api'[r] = "raised" /\ run'[r] # "none")
      BY <2>1 DEF Misjudged
    <3>4. /\ Owed(r)' => Status(c)' \in {"dispatching", "queued"}
          /\ run'[r] \in Applying => Status(c)' = "applying"
      BY <1>4, <2>2, <3>2, <3>3, BusyActs
    <3> QED
      BY <1>2, <2>1, <3>1, <3>4 DEF Lone, Busy
  <2>3. CASE ~Busy(r)
    <3>1. ASSUME Look(r) \/ (api[r] \in {"reserve", "queue", "fail"} /\ ApiDies(r)) PROVE Lone(c)'
      <4>1. UNCHANGED <<doc, run>> /\ ~Busy(r)'
        BY <2>3, <3>1 DEF Look, ApiDies, ApiGoes, Busy, Owed, TypeOK
      <4> QED
        BY <1>1, <1>2, <2>1, <2>3, <4>1 DEF Lone, Status, Busy
    <3>2. ASSUME Reserve(r) PROVE Lone(c)'
      <4>1. CASE Status(c) \in {"not_started", "failed"}
        <5>1. \A q \in Of(c) : ~Busy(q)
          BY <1>1, <4>1 DEF Lone, Busy
        <5>2. Status(c)' = "dispatching" /\ run' = run
          BY <1>4, <3>2, <4>1, ApplyConstants DEF Reserve, Status, TypeOK, Doc
        <5>3. run'[r] \notin Applying
          BY <5>1, <5>2, <2>1 DEF Busy
        <5> QED
          BY <1>2, <2>1, <5>1, <5>2, <5>3 DEF Lone, Busy
      <4>2. CASE Status(c) \notin {"not_started", "failed"}
        <5>1. UNCHANGED <<doc, run>> /\ ~Busy(r)'
          BY <1>4, <2>3, <3>2, <4>2 DEF Reserve, ApiGoes, Busy, Owed, TypeOK
        <5> QED
          BY <1>1, <1>2, <2>1, <2>3, <5>1 DEF Lone, Status, Busy
      <4> QED
        BY <4>1, <4>2
    <3>3. ASSUME MarkQueued(r) PROVE Lone(c)'
      <4>1. run' = run /\ ~Busy(r)'
        BY <2>3, <3>3 DEF MarkQueued, ApiGoes, Busy, Owed, TypeOK
      <4>2. Status(c)' = Status(c) \/ (Status(c) = "dispatching" /\ Status(c)' = "queued")
        BY <1>4, <3>3, ApplyConstants DEF MarkQueued, Status, TypeOK, Doc
      <4> QED
        BY <1>1, <1>2, <2>1, <2>3, <4>1, <4>2 DEF Lone, Busy
    <3>4. ~(MarkFailed(r) /\ run[r] # "none")
      BY <2>1 DEF MarkFailed, ApiGoes, Misjudged, TypeOK
    <3> QED
      BY <2>3, <3>1, <3>2, <3>3, <3>4, IdleActs
  <2> QED
    BY <2>2, <2>3
<1> QED
  BY <1>3, <1>4

-----------------------------------------------------------------------------

IInv == TypeOK /\ OrderInv /\ LoneInv

LEMMA InitInv == Init => IInv
<1> SUFFICES ASSUME Init PROVE IInv
  OBVIOUS
<1>1. OrderInv
  BY DEF Init, OrderInv
<1>2. LoneInv
  BY DEF Init, LoneInv, Lone, Of, Busy, Owed, Applying, Touching
<1> QED
  BY <1>1, <1>2, InitType DEF IInv

LEMMA InvStep == IInv /\ [Next]_vars => IInv'
<1> SUFFICES ASSUME IInv, [Next]_vars PROVE IInv'
  OBVIOUS
<1>1. TypeOK'
  BY TypeStep DEF IInv
<1>2. ASSUME NEW r \in Request, Act(r) PROVE OrderInv' /\ LoneInv'
  BY <1>2, OrderStep, LoneStep DEF IInv
<1>3. CASE UNCHANGED vars
  <2>1. OrderInv'
    BY <1>3 DEF vars, host, IInv, OrderInv
  <2>2. ASSUME NEW c \in Commit PROVE (Misjudged(c)' <=> Misjudged(c)) /\ (Lone(c) => Lone(c)')
    <3>1. UNCHANGED <<api, run, doc>>
      BY <1>3 DEF vars
    <3> QED
      BY <3>1 DEF Lone, Misjudged, Of, Busy, Owed, Status
  <2> QED
    BY <1>1, <2>1, <2>2 DEF IInv, LoneInv
<1> QED
  BY <1>1, <1>2, <1>3 DEF IInv, Next, Act

\* Every variable keeps its type: in particular only the statuses of the
\* backend fields are stored, and a flow run is created once for a request.
THEOREM TypeCorrect == Spec => []TypeOK
<1>1. IInv => TypeOK
  BY DEF IInv
<1> QED
  BY <1>1, InitInv, InvStep, PTL DEF Spec

\* The filter of the reservation and the status check of the flow run let one
\* apply of a commit run at a time, however requests, deaths and the handler's
\* late bookkeeping interleave, unless an answer of Prefect was lost.
THEOREM ApplyAlone == Spec => []OneApplyAtATime
<1>1. IInv => OneApplyAtATime
  BY DEF IInv, LoneInv, Lone, OneApplyAtATime, Lost, Misjudged, Busy
<1> QED
  BY <1>1, InitInv, InvStep, PTL DEF Spec

\* While a commit is applied none of its requests is busy, so no flow run holds
\* it and the only handler that could write is one whose answer was lost.
LEMMA AppliedStep ==
  ASSUME IInv, NEW r \in Request, Act(r), NEW c \in Commit, ~Lost(c), Status(c) = "applied"
  PROVE  doc'[c] = doc[c]
<1> USE DEF IInv
<1>1. CASE CommitOf[r] # c
  BY <1>1, Frame
<1>2. CASE CommitOf[r] = c
  <2>1. r \in Of(c) /\ ~Misjudged(c)
    BY <1>2 DEF Of, Lost, Misjudged
  <2>2. ~Busy(r)
    BY <2>1 DEF LoneInv, Lone, Busy
  <2>3. ~(MarkFailed(r) /\ run[r] # "none")
    BY <2>1 DEF MarkFailed, ApiGoes, Lost
  <2>4. CASE Look(r) \/ ApiDies(r)
    BY <2>4 DEF Look, ApiDies
  <2>5. CASE Reserve(r) \/ MarkQueued(r)
    BY <1>2, <2>5 DEF Reserve, MarkQueued
  <2> QED
    BY <2>2, <2>3, <2>4, <2>5, IdleActs
<1> QED
  BY <1>1, <1>2

\* Applied is final: the handler that comes late with its bookkeeping, another
\* request and a flow run that is still scheduled all leave the record alone.
THEOREM AppliedFinal == Spec => AppliedIsFinal
<1> DEFINE A == \A c \in Commit : ~Lost(c) /\ Status(c) = "applied" => doc'[c] = doc[c]
<1>1. IInv /\ [Next]_vars => A
  <2>1. ASSUME IInv, NEW r \in Request, Act(r) PROVE A
    BY <2>1, AppliedStep
  <2>2. ASSUME UNCHANGED vars PROVE A
    BY <2>2 DEF vars
  <2> QED
    BY <2>1, <2>2 DEF Next, Act
<1>2. IInv /\ [Next]_vars => [A]_vars
  BY <1>1
<1> HIDE DEF A
<1>3. Spec => [][A]_vars
  BY <1>2, InitInv, InvStep, PTL DEF Spec
<1> QED
  BY <1>3 DEF A, AppliedIsFinal

-----------------------------------------------------------------------------
(* The history variables *)

\* Two runs at work on one file are in company there, and have crossed if they
\* write the same place.
HistInv ==
  \A r, q \in Working : r # q =>
    /\ Scope(r) \cap Scope(q) \subseteq company[r]
    /\ Alike(CommitOf[r], CommitOf[q]) => FilesOf[CommitOf[r]] \subseteq crossed

\* Nothing of the history is taken back while it matters.
LEMMA HistGrows ==
  ASSUME TypeOK, NEW r \in Request, Act(r)
  PROVE  /\ crossed \subseteq crossed'
         /\ \A q \in Request \ {r} : company[q] \subseteq company'[q]
         /\ r \in Working /\ r \in Working' => company'[r] = company[r]
<1> USE DEF TypeOK
<1>1. CASE Handler(r) \/ ApiDies(r)
  BY <1>1 DEF Handler, Look, Reserve, Launch, LaunchRaises, MarkFailed, MarkQueued, ApiDies, host, hist
<1>2. CASE Transition(r)
  <2>1. r \notin Working
    BY <1>2 DEF Transition, RunGoes, Working, Applying, Touching
  <2> QED
    BY <1>2, <2>1 DEF Transition, Meet, hist
<1>3. CASE Clone(r) \/ Prepare(r) \/ Snapshot(r) \/ Update(r) \/ Verify(r) \/ MarkVerified(r)
  BY <1>3 DEF Clone, Prepare, Snapshot, Update, Verify, MarkVerified, host, hist
<1>4. CASE Copy(r) \/ Restore(r) \/ SyncLocal(r) \/ Push(r) \/ Raise(r) \/ RestoreRaises(r)
  BY <1>4 DEF Copy, Restore, SyncLocal, Push, Raise, RestoreRaises, Cross
<1>5. CASE MarkApplied(r) \/ RunFails(r) \/ RunDies(r)
  <2>1. Leave(r) /\ crossed' = crossed
    BY <1>5 DEF MarkApplied, RunFails, RunDies
  <2>2. run'[r] \in {"applied", "failed", "torn", "killed", "dead"}
    BY <1>5 DEF MarkApplied, RunFails, RunDies, RunGoes
  <2> QED
    BY <2>1, <2>2 DEF Leave, Working, Applying, Touching
<1> QED
  BY <1>1, <1>2, <1>3, <1>4, <1>5 DEF Act, Worker

\* A flow run begins its work with the transition, where it meets the others.
LEMMA Entry ==
  ASSUME TypeOK, NEW r \in Request, Act(r), r \notin Working
  PROVE  \/ Transition(r) /\ Meet(r) /\ run'[r] \in {"clone", "prepare"}
         \/ UNCHANGED <<kept, crossed>> /\ r \notin Working'
<1> USE DEF TypeOK, Working, Applying, Touching, ApiGoes, RunGoes
<1>1. CASE Handler(r) \/ ApiDies(r)
  BY <1>1 DEF Handler, Look, Reserve, Launch, LaunchRaises, MarkFailed, MarkQueued, ApiDies, host, hist
<1>2. CASE Transition(r)
  BY <1>2 DEF Transition, hist
<1>3. CASE RunDies(r)
  <2>1. run[r] = "scheduled" /\ ~Touched(r)
    BY <1>3 DEF RunDies, Touched
  <2> QED
    BY <1>3, <2>1 DEF RunDies
<1>4. Worker(r) => Transition(r)
  BY DEF Worker, Clone, Copy, Prepare, Snapshot, Update, Verify, MarkVerified, Push,
       SyncLocal, MarkApplied, Raise, Restore, RestoreRaises, RunFails, Turn
<1> QED
  BY <1>1, <1>2, <1>3, <1>4 DEF Act

LEMMA HistStep ==
  ASSUME TypeOK, HistInv, NEW r \in Request, Act(r)
  PROVE  HistInv'
<1>1. ASSUME NEW p \in Working', NEW q \in Working', p # q
      PROVE  /\ Scope(p) \cap Scope(q) \subseteq company'[p]
             /\ Alike(CommitOf[p], CommitOf[q]) => FilesOf[CommitOf[p]] \subseteq crossed'
  <2>1. p \in Request /\ q \in Request /\ (p # r => p \in Working) /\ (q # r => q \in Working)
    BY Frame DEF Working
  <2>2. CASE p \in Working /\ q \in Working
    <3>1. company[p] \subseteq company'[p] /\ crossed \subseteq crossed'
      BY <2>1, <2>2, HistGrows
    <3> QED
      BY <1>1, <2>2, <3>1 DEF HistInv
  <2>3. CASE r \notin Working /\ (p = r \/ q = r)
    <3>1. Meet(r)
      BY <2>3, Entry
    <3>2. CASE p = r
      <4>1. q \in Working
        BY <1>1, <2>1, <3>2
      <4>2. company'[r] = UNION {Scope(r) \cap Scope(x) : x \in Working}
        BY <3>1 DEF Meet
      <4> QED
        BY <3>1, <3>2, <4>1, <4>2 DEF Meet, Alike
    <3>3. CASE q = r
      <4>1. p \in Working /\ p # r
        BY <1>1, <2>1, <3>3
      <4>2. company'[p] = company[p] \cup (Scope(p) \cap Scope(r))
        BY <2>1, <3>1, <4>1 DEF Meet
      <4> QED
        BY <3>1, <3>3, <4>1, <4>2 DEF Meet, Alike
    <3> QED
      BY <2>3, <3>2, <3>3
  <2> QED
    BY <1>1, <2>1, <2>2, <2>3
<1>2. \A p : Scope(p)' = Scope(p)
  BY DEF Scope
<1> QED
  BY <1>1, <1>2 DEF HistInv, Alike

-----------------------------------------------------------------------------
(* What the files hold *)

Ahead(r) == FilesOf[CommitOf[r]] \ todo[r]
View(d, fs, gs) == \A f \in FilesOf[d] : fs[f][LabelOf[d]] = gs[f][LabelOf[d]]

\* The flow run works on the files of this commit, or works on them alone.
Covers(r, d) == r \in Working /\ FilesOf[d] \subseteq Scope(r)
Alone(r, d) == Covers(r, d) /\ FilesOf[d] \cap company[r] = {}

Rival(r, d) == run[r] \in Touching /\ CommitOf[r] # d /\ Alike(CommitOf[r], d)
RivalElse(r, d) == \E q \in Request \ {r} : Rival(q, d)
HalfElse(r, d) == \E q \in Request \ {r} : Half(q, d)

TodoInv ==
  \A r \in Request :
    /\ run[r] # "pull" => todo[r] \subseteq FilesOf[CommitOf[r]]
    /\ run[r] \in {"clone", "pull", "push", "sync"} => BodyOf[r] \in Pushing

RemotePart(d) == Agree(d, remote) /\ (kept[d] = "pushed" => InFiles(d, remote))

FilesPart(d) ==
  /\ kept[d] = "no" \/ InFiles(d, files) \/ \E r \in Request : Rival(r, d)
  /\ (\A r \in Request : ~Half(r, d)) => Agree(d, files)

\* What a flow run that is alone has pulled and captured.
PullPart(r, d) ==
  /\ run[r] = "pull" =>
       /\ Agree(d, snap[r])
       /\ kept[d] = "pushed" => InFiles(d, snap[r])
       /\ \A f \in FilesOf[d] \ todo[r] : files[f][LabelOf[d]] = snap[r][f][LabelOf[d]]
  /\ BodyOf[r] \in Pushing =>
       /\ run[r] \in Applying \ {"apply", "restore", "fail", "tear"} => kept[d] # "local"
       /\ run[r] \in {"prepare", "snapshot"} => Agree(d, files)
Captured == {"update", "verify", "mark", "push", "restore"}
SnapPart(r, d) ==
  /\ run[r] = "snapshot" =>
       \A f \in FilesOf[d] \cap Ahead(r) : snap[r][f][LabelOf[d]] = files[f][LabelOf[d]]
  /\ run[r] = "restore" =>
       \A f \in FilesOf[d] \cap Ahead(r) : files[f][LabelOf[d]] = snap[r][f][LabelOf[d]]
  /\ run[r] \in Captured /\ FilesOf[d] = FilesOf[CommitOf[r]] =>
       /\ BodyOf[r] \in Pushing => Agree(d, snap[r])
       /\ LabelOf[d] # LabelOf[CommitOf[r]] => View(d, snap[r], files)
       /\ LabelOf[d] = LabelOf[CommitOf[r]] =>
            /\ kept[d] # "no" => InFiles(d, snap[r])
            /\ ~HalfElse(r, d) => Agree(d, snap[r])

\* What a flow run has written of its own commit.
OwnPart(r) ==
  LET c == CommitOf[r] IN
  /\ run[r] = "update" => \A f \in Ahead(r) : files[f][LabelOf[c]] = c
  /\ run[r] \in {"verify", "mark", "push"} \/ (run[r] = "apply" /\ BodyOf[r] \notin Pushing)
       => InFiles(c, files)
  /\ run[r] \in {"sync", "apply"} => Agree(c, files)

RunPart(r, d) ==
  /\ Alone(r, d) => PullPart(r, d) /\ SnapPart(r, d)
  /\ CommitOf[r] = d => OwnPart(r)

\* What is claimed of the files of one commit, as long as nothing has crossed there.
Held(d) == RemotePart(d) /\ FilesPart(d) /\ \A r \in Request : RunPart(r, d)
PartInv == \A d \in Commit : Uncrossed(d) => Held(d)

\* The handler of a request only creates its flow run.
LEMMA HandlerActs ==
  ASSUME TypeOK, OrderInv, NEW r \in Request, Handler(r) \/ ApiDies(r)
  PROVE  UNCHANGED host /\ (run'[r] = run[r] \/ (run[r] = "none" /\ run'[r] = "scheduled"))
<1> USE DEF TypeOK, OrderInv, ApiGoes
<1>1. CASE Look(r) \/ Reserve(r) \/ MarkFailed(r) \/ MarkQueued(r) \/ ApiDies(r)
  BY <1>1 DEF Look, Reserve, MarkFailed, MarkQueued, ApiDies
<1>2. CASE Launch(r) \/ LaunchRaises(r)
  <2>1. UNCHANGED host /\ (run' = run \/ run' = [run EXCEPT ![r] = "scheduled"])
    BY <1>2 DEF Launch, LaunchRaises
  <2>2. run[r] = "none"
    BY <1>2 DEF Launch, LaunchRaises
  <2> QED
    BY <2>1, <2>2
<1> QED
  BY <1>1, <1>2 DEF Handler

\* A flow run loops over the files of its own commit, and clones, pulls, pushes
\* and synchronises for a body that pushes.
LEMMA TodoStep ==
  ASSUME TypeOK, OrderInv, TodoInv, NEW r \in Request, Act(r)
  PROVE  TodoInv'
<1> USE ApplyConstants DEF TypeOK, TodoInv, ApiGoes, RunGoes
<1>1. /\ run'[r] # "pull" => todo'[r] \subseteq FilesOf[CommitOf[r]]
      /\ run'[r] \in {"clone", "pull", "push", "sync"} => BodyOf[r] \in Pushing
  <2>1. CASE Handler(r) \/ ApiDies(r)
    BY <2>1, HandlerActs DEF host
  <2>2. CASE Transition(r) \/ Clone(r) \/ Prepare(r)
    BY <2>2 DEF Transition, Clone, Prepare
  <2>3. CASE MarkVerified(r) \/ Push(r) \/ SyncLocal(r) \/ RestoreRaises(r)
    BY <2>3 DEF MarkVerified, Push, SyncLocal, RestoreRaises, host
  <2>4. CASE Copy(r) \/ Snapshot(r) \/ Update(r) \/ Verify(r) \/ Restore(r)
    <3>1. PICK f \in File :
            \/ Turn(r, f, "pull", "prepare") \/ Turn(r, f, "snapshot", "update")
            \/ Turn(r, f, "update", "verify") \/ Turn(r, f, "verify", "mark")
            \/ Turn(r, f, "restore", "fail")
      BY <2>4 DEF Copy, Snapshot, Update, Verify, Restore
    <3>2. todo'[r] = FilesOf[CommitOf[r]] \/ (todo'[r] = todo[r] \ {f} /\ run'[r] = run[r])
      BY <3>1 DEF Turn
    <3>3. run'[r] \in {"clone", "pull", "push", "sync"} => run[r] = "pull"
      BY <3>1 DEF Turn
    <3> QED
      BY <3>2, <3>3
  <2>5. CASE MarkApplied(r) \/ RunFails(r) \/ RunDies(r) \/ Raise(r)
    BY <2>5 DEF MarkApplied, RunFails, RunDies, Raise, Leave
  <2> QED
    BY <2>1, <2>2, <2>3, <2>4, <2>5 DEF Act, Worker
<1> QED
  BY <1>1, Frame

\* The others stay as they are.
LEMMA ElseSame ==
  ASSUME TypeOK, NEW r \in Request, Act(r), NEW d \in Commit
  PROVE  (RivalElse(r, d)' <=> RivalElse(r, d)) /\ (HalfElse(r, d)' <=> HalfElse(r, d))
<1>1. \A q \in Request \ {r} : run'[q] = run[q] /\ todo'[q] = todo[q]
  BY Frame
<1>2. \A q \in Request \ {r} : (Rival(q, d)' <=> Rival(q, d)) /\ (Half(q, d)' <=> Half(q, d))
  BY <1>1 DEF Rival, Half, Touched, Alike
<1> QED
  BY <1>2 DEF RivalElse, HalfElse

\* A flow run that works on the files alone, or that writes the same place, has
\* no rival as long as nothing has crossed.
LEMMA NoRival ==
  ASSUME HistInv, NEW r \in Request, NEW d \in Commit, Uncrossed(d), Covers(r, d),
         Alone(r, d) \/ Alike(CommitOf[r], d)
  PROVE  ~RivalElse(r, d)
<1> SUFFICES ASSUME NEW q \in Request \ {r}, Rival(q, d) PROVE FALSE
  BY DEF RivalElse
<1>1. r \in Working /\ q \in Working /\ FilesOf[d] # {}
  BY ApplyConstants DEF Rival, Covers, Working, Applying
<1>2. FilesOf[d] = FilesOf[CommitOf[q]] /\ FilesOf[d] \subseteq Scope(q)
  BY ApplyConstants DEF Rival, Alike, Scope
<1>3. CASE Alone(r, d)
  <2>1. FilesOf[d] \subseteq Scope(r) \cap Scope(q)
    BY <1>2 DEF Covers
  <2>2. Scope(r) \cap Scope(q) \subseteq company[r]
    BY <1>1 DEF HistInv
  <2> QED
    BY <1>1, <1>3, <2>1, <2>2 DEF Alone
<1>4. CASE Alike(CommitOf[r], d)
  <2>1. Alike(CommitOf[r], CommitOf[q]) /\ FilesOf[CommitOf[r]] = FilesOf[d]
    BY <1>4 DEF Rival, Alike
  <2>2. FilesOf[d] \subseteq crossed
    BY <1>1, <2>1 DEF HistInv
  <2> QED
    BY <1>1, <2>2 DEF Uncrossed
<1> QED
  BY <1>3, <1>4

\* Two commits share all their files or none.
LEMMA Shared ==
  ASSUME NEW c \in Commit, NEW d \in Commit, NEW f \in FilesOf[c], f \in FilesOf[d]
  PROVE  FilesOf[c] = FilesOf[d]
BY ApplyConstants

LEMMA Viewed ==
  ASSUME NEW d \in Commit, NEW fs, NEW gs, View(d, fs, gs)
  PROVE  (InFiles(d, fs) <=> InFiles(d, gs)) /\ (Agree(d, fs) <=> Agree(d, gs))
BY DEF View, InFiles, Agree

-----------------------------------------------------------------------------
(* A step leaves alone what is not among the files it works on *)

LEMMA OutsideIdle ==
  ASSUME TypeOK, OrderInv, NEW r \in Request, Act(r), NEW d \in Commit, r \notin Working
  PROVE  /\ UNCHANGED <<files, remote>> /\ kept'[d] \in {kept[d], "no"}
         /\ (Rival(r, d)' <=> Rival(r, d)) /\ (Half(r, d)' <=> Half(r, d))
<1> USE DEF TypeOK, RunGoes
<1>1. run[r] \in {"none", "scheduled", "refused", "applied", "failed", "torn", "dead", "killed"}
  BY DEF Working, Run
<1>2. CASE Handler(r) \/ ApiDies(r)
  <2>1. UNCHANGED host /\ (run'[r] = run[r] \/ (run[r] = "none" /\ run'[r] = "scheduled"))
    BY <1>2, HandlerActs
  <2> QED
    BY <1>1, <2>1 DEF host, hist, Rival, Half, Touched, Touching
<1>3. CASE Transition(r)
  <2>1. run[r] = "scheduled" /\ run'[r] \in {"refused", "clone", "prepare"}
    BY <1>3 DEF Transition
  <2>2. UNCHANGED <<files, remote>> /\ kept'[d] \in {kept[d], "no"}
    BY <1>3 DEF Transition, Meet, hist
  <2> QED
    BY <2>1, <2>2 DEF Rival, Half, Touched, Touching
<1>4. CASE RunDies(r)
  <2>1. run[r] = "scheduled" /\ ~Touched(r)
    BY <1>1, <1>4 DEF RunDies, Applying, Touching, Touched
  <2>2. UNCHANGED <<files, remote, kept>> /\ run'[r] = "dead"
    BY <1>4, <2>1 DEF RunDies
  <2> QED
    BY <2>1, <2>2 DEF Rival, Half, Touched, Touching
<1>5. Worker(r) => Transition(r)
  BY <1>1 DEF Worker, Clone, Copy, Prepare, Snapshot, Update, Verify, MarkVerified, Push,
       SyncLocal, MarkApplied, Raise, Restore, RestoreRaises, RunFails, Turn
<1> QED
  BY <1>2, <1>3, <1>4, <1>5 DEF Act

LEMMA OutsideBusy ==
  ASSUME TypeOK, OrderInv, TodoInv, NEW r \in Request, Act(r), NEW d \in Commit,
         r \in Working, ~(FilesOf[d] \subseteq Scope(r))
  PROVE  /\ View(d, files', files) /\ View(d, remote', remote) /\ kept'[d] = kept[d]
         /\ (Rival(r, d)' <=> Rival(r, d)) /\ (Half(r, d)' <=> Half(r, d))
<1> DEFINE c == CommitOf[r]
<1>1. c \in Commit /\ BodyOf[r] \notin Pushing /\ FilesOf[d] \cap FilesOf[c] = {} /\ FilesOf[d] # FilesOf[c]
  BY ApplyConstants DEF Scope
<1>2. ~Alike(c, d) /\ ~Alike(d, c) /\ d # c
  BY <1>1 DEF Alike
<1>3. (Rival(r, d)' <=> Rival(r, d)) /\ (Half(r, d)' <=> Half(r, d))
  BY <1>1, <1>2 DEF Rival, Half
<1>4. run[r] \notin {"scheduled", "clone", "pull", "push", "sync"} /\ todo[r] \subseteq FilesOf[c]
  BY <1>1 DEF TodoInv, Working, Applying, Touching
<1>5. \A own, other : Displace(r, own, other) => kept'[d] = kept[d]
  BY <1>2 DEF Displace
<1> USE <1>1, <1>4 DEF TypeOK, RunGoes, Turn
<1>6. CASE Handler(r) \/ ApiDies(r)
  BY <1>3, <1>6, HandlerActs DEF host, hist, View
<1>7. CASE Prepare(r) \/ Snapshot(r) \/ Verify(r) \/ MarkVerified(r)
  <2>1. UNCHANGED <<files, remote, kept>>
    BY <1>7 DEF Prepare, Snapshot, Verify, MarkVerified, host, hist
  <2> QED
    BY <1>3, <2>1 DEF View
<1>8. CASE Update(r) \/ Restore(r)
  <2>1. PICK f \in FilesOf[c] : \A g \in File \ {f} : files'[g] = files[g]
    BY <1>8 DEF Update, Restore
  <2>2. UNCHANGED <<remote, kept>>
    BY <1>8 DEF Update, Restore, hist
  <2> QED
    BY <1>3, <2>1, <2>2, ApplyConstants DEF View
<1>9. CASE MarkApplied(r) \/ Raise(r) \/ RestoreRaises(r) \/ RunFails(r) \/ RunDies(r)
  <2>1. UNCHANGED <<files, remote>> /\ kept'[d] = kept[d]
    BY <1>5, <1>9 DEF MarkApplied, Raise, RestoreRaises, RunFails, RunDies
  <2> QED
    BY <1>3, <2>1 DEF View
<1>10. ~(Transition(r) \/ Clone(r) \/ Copy(r) \/ Push(r) \/ SyncLocal(r))
  BY DEF Transition, Clone, Copy, Push, SyncLocal
<1> QED
  BY <1>6, <1>7, <1>8, <1>9, <1>10 DEF Act, Worker

\* The rivals and the halves of the request that steps, and those of the others.
LEMMA Split ==
  ASSUME NEW r \in Request, NEW d
  PROVE  /\ (\E q \in Request : Rival(q, d)) <=> Rival(r, d) \/ RivalElse(r, d)
         /\ (\A q \in Request : ~Half(q, d)) <=> ~Half(r, d) /\ ~HalfElse(r, d)
         /\ (\E q \in Request : Rival(q, d))' <=> Rival(r, d)' \/ RivalElse(r, d)'
         /\ (\A q \in Request : ~Half(q, d))' <=> ~Half(r, d)' /\ ~HalfElse(r, d)'
BY DEF RivalElse, HalfElse

LEMMA OutsideHeld ==
  ASSUME TypeOK, OrderInv, TodoInv, NEW r \in Request, Act(r), NEW d \in Commit, Held(d), ~Covers(r, d)
  PROVE  Held(d)'
<1>1. /\ View(d, files', files) /\ View(d, remote', remote) /\ kept'[d] \in {kept[d], "no"}
      /\ (Rival(r, d)' <=> Rival(r, d)) /\ (Half(r, d)' <=> Half(r, d))
  <2>1. CASE r \notin Working
    BY <2>1, OutsideIdle DEF View
  <2>2. CASE r \in Working
    BY <2>2, OutsideBusy DEF Covers
  <2> QED
    BY <2>1, <2>2
<1>2. (InFiles(d, files)' <=> InFiles(d, files)) /\ (Agree(d, files)' <=> Agree(d, files))
  BY <1>1 DEF View, InFiles, Agree
<1>3. (InFiles(d, remote)' <=> InFiles(d, remote)) /\ (Agree(d, remote)' <=> Agree(d, remote))
  BY <1>1 DEF View, InFiles, Agree
<1>4. RemotePart(d)'
  BY <1>1, <1>3 DEF Held, RemotePart
<1>5. FilesPart(d)'
  BY <1>1, <1>2, Split, ElseSame DEF Held, FilesPart
<1>6. RunPart(r, d)'
  <2>1. Alone(r, d)' => r \notin Working /\ r \in Working'
    BY DEF Alone, Covers, Scope
  <2>2. CommitOf[r] = d => r \notin Working
    BY ApplyConstants DEF Covers, Scope
  <2>3. r \notin Working => \/ Transition(r) /\ Meet(r) /\ run'[r] \in {"clone", "prepare"}
                           \/ r \notin Working'
    BY Entry
  <2>4. CommitOf[r] = d => OwnPart(r)'
    BY <2>2, <2>3 DEF OwnPart, Working, Applying, Touching
  <2>5. ASSUME Alone(r, d)' PROVE PullPart(r, d)' /\ SnapPart(r, d)'
    <3>1. Transition(r) /\ Meet(r) /\ run'[r] \in {"clone", "prepare"}
      BY <2>1, <2>3, <2>5
    <3>2. BodyOf[r] \in Pushing => run'[r] = "clone" /\ kept'[d] # "local"
      BY <3>1 DEF Transition, Meet, RunGoes, TypeOK
    <3> QED
      BY <3>1, <3>2 DEF PullPart, SnapPart, Captured
  <2> QED
    BY <2>4, <2>5 DEF RunPart
<1>7. ASSUME NEW q \in Request \ {r} PROVE RunPart(q, d)'
  <2>1. run'[q] = run[q] /\ todo'[q] = todo[q] /\ snap'[q] = snap[q] /\ company[q] \subseteq company'[q]
    BY Frame, HistGrows
  <2>2. Alone(q, d)' => Alone(q, d)
    BY <2>1 DEF Alone, Covers, Scope, Working
  <2>3. PullPart(q, d) => PullPart(q, d)'
    BY <1>1, <1>2, <2>1 DEF PullPart, View, InFiles, Agree
  <2>4. HalfElse(q, d)' <=> HalfElse(q, d)
    <3>1. \A p \in Request \ {q} : Half(p, d)' <=> Half(p, d)
      BY <1>1, Frame DEF Half, Touched
    <3> QED
      BY <3>1 DEF HalfElse
  <2>5. SnapPart(q, d) => SnapPart(q, d)'
    BY <1>1, <2>1, <2>4 DEF SnapPart, View, InFiles, Agree, Ahead
  <2>6. CommitOf[q] = d /\ OwnPart(q) => OwnPart(q)'
    BY <1>1, <1>2, <2>1, ApplyConstants DEF OwnPart, View, Ahead
  <2> QED
    BY <2>2, <2>3, <2>5, <2>6 DEF Held, RunPart
<1> QED
  BY <1>4, <1>5, <1>6, <1>7 DEF Held

-----------------------------------------------------------------------------
(* A step of a flow run that works on the files *)

\* What holds before a step, and what the step has to keep up.
Before(r, d) == TypeOK /\ TodoInv /\ HistInv /\ PartInv /\ Uncrossed(d) /\ Covers(r, d)
After(r, d) ==
  /\ RemotePart(d)' /\ FilesPart(d)'
  /\ Alone(r, d) /\ run'[r] \in Applying => PullPart(r, d)' /\ SnapPart(r, d)'
  /\ CommitOf[r] = d => OwnPart(r)'

LEMMA Setting ==
  ASSUME NEW r \in Request, NEW d \in Commit, Before(r, d)
  PROVE  /\ CommitOf[r] \in Commit /\ FilesOf[d] \subseteq File /\ FilesOf[d] # {} /\ run[r] \in Applying
         /\ RemotePart(d) /\ FilesPart(d) /\ RunPart(r, d)
         /\ Alone(r, d) \/ Alike(CommitOf[r], d) => ~RivalElse(r, d)
         /\ Alike(CommitOf[r], d) => Covers(r, CommitOf[r]) /\ Held(CommitOf[r])
<1>1. Alone(r, d) \/ Alike(CommitOf[r], d) => ~RivalElse(r, d)
  BY NoRival DEF Before
<1>2. Alike(CommitOf[r], d) => Covers(r, CommitOf[r]) /\ Held(CommitOf[r])
  BY ApplyConstants DEF Before, Covers, PartInv, Uncrossed, Alike
<1> QED
  BY <1>1, <1>2, ApplyConstants DEF Before, PartInv, Held, Covers, Working

\* A run that writes whole files crosses with its company.
LEMMA CrossAlone ==
  ASSUME NEW r \in Request, NEW d \in Commit, Covers(r, d), Cross(r), Uncrossed(d)'
  PROVE  Alone(r, d)
BY DEF Cross, Uncrossed, Alone

\* The files are as they were, and the step makes the exceptions no narrower.
LEMMA FilesStay ==
  ASSUME TypeOK, NEW r \in Request, Act(r), NEW d \in Commit, FilesPart(d), View(d, files', files),
         kept[d] = "no" => kept'[d] = "no",
         Rival(r, d) => Rival(r, d)' \/ kept'[d] = "no",
         Half(r, d) => Half(r, d)'
  PROVE  FilesPart(d)'
<1>1. (InFiles(d, files)' <=> InFiles(d, files)) /\ (Agree(d, files)' <=> Agree(d, files))
  BY DEF View, InFiles, Agree
<1> QED
  BY <1>1, Split, ElseSame DEF FilesPart

\* Another flow run of the same files is not alone, and what it has written of its
\* own commit can only be overwritten by a run that writes the same place or crosses.
LEMMA OthersHeld ==
  ASSUME NEW r \in Request, Act(r), OrderInv, NEW d \in Commit, Before(r, d), Uncrossed(d)',
         NEW q \in Request \ {r}
  PROVE  RunPart(q, d)'
<1>1. /\ FilesOf[d] # {} /\ FilesOf[d] \subseteq File /\ r \in Working /\ FilesOf[d] \subseteq Scope(r)
      /\ TypeOK /\ HistInv /\ TodoInv /\ RunPart(q, d)
  BY Setting DEF Before, Covers, PartInv, Held
<1>2. run'[q] = run[q] /\ todo'[q] = todo[q] /\ snap'[q] = snap[q] /\ company[q] \subseteq company'[q]
  BY <1>1, Frame, HistGrows
<1>3. ~Alone(q, d)'
  <2> SUFFICES ASSUME Alone(q, d)' PROVE FALSE
    OBVIOUS
  <2>1. q \in Working /\ FilesOf[d] \subseteq Scope(q) \cap Scope(r)
    BY <1>1, <1>2 DEF Alone, Covers, Working, Scope
  <2>2. Scope(q) \cap Scope(r) \subseteq company[q]
    BY <1>1, <2>1 DEF HistInv
  <2> QED
    BY <1>1, <1>2, <2>1, <2>2 DEF Alone
<1>4. ASSUME CommitOf[q] = d PROVE OwnPart(q)'
  <2>1. CASE q \notin Working
    <3>1. run'[q] \notin Applying
      BY <1>2, <2>1 DEF Working
    <3> QED
      BY <3>1 DEF OwnPart, Applying, Touching
  <2>2. CASE q \in Working
    <3>1. FilesOf[d] \subseteq Scope(q)
      BY <1>4, ApplyConstants DEF Scope
    <3>2. FilesOf[d] \subseteq company[r] /\ ~Alike(d, CommitOf[r])
      <4>1. Scope(r) \cap Scope(q) \subseteq company[r]
        BY <1>1, <2>2 DEF HistInv
      <4>2. Alike(d, CommitOf[r]) => FilesOf[d] \subseteq crossed
        BY <1>1, <1>4, <2>2 DEF HistInv
      <4> QED
        BY <1>1, <3>1, <4>1, <4>2 DEF Before, Uncrossed
    <3>3. ~Cross(r)
      BY <1>1, <3>2 DEF Cross, Uncrossed
    <3>4. View(d, files', files)
      <4> USE <1>1 DEF TypeOK
      <4>1. ~Transition(r) /\ ~Copy(r) /\ ~Restore(r) /\ ~SyncLocal(r)
        BY <3>3 DEF Transition, RunGoes, Working, Applying, Touching, Copy, Restore, SyncLocal
      <4>2. CASE Update(r)
        <5>1. PICK f \in File : /\ Turn(r, f, "update", "verify")
                               /\ files' = [files EXCEPT ![f][LabelOf[CommitOf[r]]] = CommitOf[r]]
          BY <4>2 DEF Update
        <5>2. f \in FilesOf[d] => LabelOf[d] # LabelOf[CommitOf[r]]
          <6>1. f \in FilesOf[CommitOf[r]] /\ CommitOf[r] \in Commit
            BY <5>1, ApplyConstants DEF Turn, TodoInv
          <6>2. f \in FilesOf[d] => FilesOf[CommitOf[r]] = FilesOf[d]
            BY <6>1, Shared
          <6> QED
            BY <3>2, <6>2 DEF Alike
        <5> QED
          BY <5>1, <5>2, ApplyConstants DEF View, Content
      <4>3. CASE Handler(r) \/ ApiDies(r)
        BY <4>3, HandlerActs DEF host, View
      <4>4. CASE Clone(r) \/ Prepare(r) \/ Snapshot(r) \/ Verify(r) \/ MarkVerified(r) \/ Push(r)
                 \/ MarkApplied(r) \/ Raise(r) \/ RestoreRaises(r) \/ RunFails(r) \/ RunDies(r)
        <5>1. files' = files
          BY <4>4 DEF Clone, Prepare, Snapshot, Verify, MarkVerified, Push, MarkApplied, Raise,
               RestoreRaises, RunFails, RunDies, host
        <5> QED
          BY <5>1 DEF View
      <4> QED
        BY <4>1, <4>2, <4>3, <4>4 DEF Act, Worker
    <3> QED
      BY <1>1, <1>2, <1>4, <3>4, ApplyConstants DEF RunPart, OwnPart, Ahead, View, InFiles, Agree
  <2> QED
    BY <2>1, <2>2
<1> QED
  BY <1>3, <1>4 DEF RunPart

-----------------------------------------------------------------------------
(* Steps that leave the files *)

LEMMA HandlerHeld ==
  ASSUME NEW r \in Request, Handler(r) \/ ApiDies(r), OrderInv, NEW d \in Commit, Before(r, d)
  PROVE  After(r, d)
<1>1. TypeOK /\ RemotePart(d) /\ FilesPart(d) /\ RunPart(r, d) /\ run[r] \in Applying
  BY Setting DEF Before
<1>2. UNCHANGED host /\ run'[r] = run[r]
  BY <1>1, HandlerActs DEF Applying, Touching
<1>3. Act(r) /\ View(d, files', files)
  BY <1>2 DEF Act, host, View
<1>4. (Rival(r, d)' <=> Rival(r, d)) /\ (Half(r, d)' <=> Half(r, d))
  BY <1>2 DEF host, Rival, Half
<1>5. FilesPart(d)'
  BY <1>1, <1>2, <1>3, <1>4, FilesStay DEF host, hist
<1>6. RemotePart(d)' /\ (OwnPart(r) => OwnPart(r)')
  BY <1>1, <1>2 DEF host, hist, RemotePart, Agree, InFiles, OwnPart, Ahead
<1>7. (PullPart(r, d) => PullPart(r, d)') /\ (SnapPart(r, d) => SnapPart(r, d)')
  BY <1>1, <1>2, <1>3, ElseSame DEF host, hist, PullPart, SnapPart, Ahead, View, Agree, InFiles
<1> QED
  BY <1>1, <1>5, <1>6, <1>7 DEF After, RunPart

LEMMA CloneHeld ==
  ASSUME NEW r \in Request, Clone(r), NEW d \in Commit, Before(r, d)
  PROVE  After(r, d)
<1>1. /\ TypeOK /\ RemotePart(d) /\ FilesPart(d) /\ RunPart(r, d)
      /\ FilesOf[d] \subseteq File
  BY Setting DEF Before
<1>2. /\ run[r] = "clone" /\ run'[r] = "pull" /\ todo'[r] = File /\ snap'[r] = remote
      /\ UNCHANGED <<files, remote, kept>>
  BY <1>1 DEF Clone, RunGoes, TypeOK, hist
<1>3. Act(r) /\ View(d, files', files)
  BY <1>2 DEF Act, Worker, View
<1>4. ~Rival(r, d) /\ ~Half(r, d)
  BY <1>2 DEF Rival, Half, Touching
<1>5. FilesPart(d)'
  BY <1>1, <1>2, <1>3, <1>4, FilesStay
<1>6. RemotePart(d)'
  BY <1>1, <1>2 DEF RemotePart, Agree, InFiles
<1>7. Alone(r, d) => PullPart(r, d)'
  BY <1>1, <1>2 DEF RunPart, RemotePart, PullPart, Agree, InFiles, Applying, Touching
<1>8. SnapPart(r, d)' /\ OwnPart(r)'
  BY <1>2 DEF SnapPart, Captured, OwnPart
<1> QED
  BY <1>5, <1>6, <1>7, <1>8 DEF After

LEMMA PrepareHeld ==
  ASSUME NEW r \in Request, Prepare(r), NEW d \in Commit, Before(r, d)
  PROVE  After(r, d)
<1>1. TypeOK /\ RemotePart(d) /\ FilesPart(d) /\ RunPart(r, d)
  BY Setting DEF Before
<1>2. /\ run[r] = "prepare" /\ run'[r] = "snapshot" /\ todo'[r] = FilesOf[CommitOf[r]]
      /\ UNCHANGED <<files, remote, kept>>
  BY <1>1 DEF Prepare, RunGoes, TypeOK, hist
<1>3. Act(r) /\ View(d, files', files)
  BY <1>2 DEF Act, Worker, View
<1>4. ~Rival(r, d) /\ ~Half(r, d)
  BY <1>2 DEF Rival, Half, Touching
<1>5. FilesPart(d)'
  BY <1>1, <1>2, <1>3, <1>4, FilesStay
<1>6. RemotePart(d)'
  BY <1>1, <1>2 DEF RemotePart, Agree, InFiles
<1>7. Alone(r, d) => PullPart(r, d)'
  BY <1>1, <1>2 DEF RunPart, PullPart, Agree, Applying, Touching
<1>8. SnapPart(r, d)' /\ OwnPart(r)'
  BY <1>2 DEF SnapPart, Captured, OwnPart, Ahead
<1> QED
  BY <1>5, <1>6, <1>7, <1>8 DEF After

LEMMA SnapshotHeld ==
  ASSUME NEW r \in Request, Snapshot(r), NEW d \in Commit, Before(r, d)
  PROVE  After(r, d)
<1> DEFINE c == CommitOf[r]
<1>1. /\ TypeOK /\ TodoInv /\ RemotePart(d) /\ FilesPart(d) /\ RunPart(r, d)
      /\ c \in Commit /\ FilesOf[d] \subseteq File /\ (Alone(r, d) => ~RivalElse(r, d))
  BY Setting DEF Before
<1>2. PICK f \in File : /\ Turn(r, f, "snapshot", "update")
                       /\ snap' = [snap EXCEPT ![r][f] = files[f]]
                       /\ UNCHANGED <<files, remote, kept>>
  BY DEF Snapshot, hist
<1>3. /\ run[r] = "snapshot" /\ f \in todo[r] /\ todo[r] \subseteq FilesOf[c]
      /\ \/ todo[r] # {f} /\ run'[r] = "snapshot" /\ todo'[r] = todo[r] \ {f}
         \/ todo[r] = {f} /\ run'[r] = "update" /\ todo'[r] = FilesOf[c]
  BY <1>1, <1>2 DEF Turn, TypeOK, TodoInv
<1>4. snap'[r][f] = files[f] /\ \A g \in File \ {f} : snap'[r][g] = snap[r][g]
  BY <1>1, <1>2 DEF TypeOK
<1>5. Act(r) /\ View(d, files', files)
  BY <1>2 DEF Act, Worker, View
<1>6. ~Rival(r, d) /\ ~Half(r, d)
  BY <1>3 DEF Rival, Half, Touching
<1>7. FilesPart(d)'
  BY <1>1, <1>2, <1>5, <1>6, FilesStay
<1>8. RemotePart(d)'
  BY <1>1, <1>2 DEF RemotePart, Agree, InFiles
<1>9. Alone(r, d) => PullPart(r, d)'
  BY <1>1, <1>2, <1>3 DEF RunPart, PullPart, Agree, Applying, Touching
<1>10. ASSUME Alone(r, d) PROVE SnapPart(r, d)'
  <2>1. PullPart(r, d) /\ SnapPart(r, d)
    BY <1>1, <1>10 DEF RunPart
  <2>2. \A g \in FilesOf[d] \cap (Ahead(r) \cup {f}) : snap'[r][g][LabelOf[d]] = files'[g][LabelOf[d]]
    BY <1>1, <1>2, <1>3, <1>4, <2>1 DEF SnapPart
  <2>3. CASE run'[r] = "snapshot"
    <3>1. Ahead(r)' \subseteq Ahead(r) \cup {f}
      BY <1>3, <2>3 DEF Ahead
    <3> QED
      BY <2>2, <2>3, <3>1 DEF SnapPart, Captured
  <2>4. CASE run'[r] = "update" /\ FilesOf[d] = FilesOf[c]
    <3>1. View(d, snap'[r], files') /\ View(d, snap'[r], files)
      <4>1. Ahead(r) \cup {f} = FilesOf[d]
        BY <1>3, <2>4 DEF Ahead
      <4> QED
        BY <1>2, <2>2, <4>1 DEF View
    <3>2. (InFiles(d, snap'[r]) <=> InFiles(d, files)) /\ (Agree(d, snap'[r]) <=> Agree(d, files))
      BY <3>1, Viewed
    <3>3. BodyOf[r] \in Pushing => Agree(d, snap'[r])
      BY <1>3, <2>1, <3>2 DEF PullPart
    <3>4. kept[d] # "no" => InFiles(d, snap'[r])
      BY <1>1, <1>6, <1>10, <3>2, Split DEF FilesPart
    <3>5. ~HalfElse(r, d)' => Agree(d, snap'[r])
      BY <1>1, <1>5, <1>6, <3>2, Split, ElseSame DEF FilesPart
    <3> QED
      BY <1>2, <2>4, <3>1, <3>3, <3>4, <3>5 DEF SnapPart, InFiles, Agree, View
  <2>5. CASE run'[r] = "update" /\ FilesOf[d] # FilesOf[c]
    BY <2>5 DEF SnapPart
  <2> QED
    BY <1>3, <2>3, <2>4, <2>5
<1>11. OwnPart(r)'
  BY <1>3 DEF OwnPart, Ahead
<1> QED
  BY <1>7, <1>8, <1>9, <1>10, <1>11 DEF After

LEMMA VerifyHeld ==
  ASSUME NEW r \in Request, Verify(r), NEW d \in Commit, Before(r, d)
  PROVE  After(r, d)
<1>1. TypeOK /\ RemotePart(d) /\ FilesPart(d) /\ RunPart(r, d)
  BY Setting DEF Before
<1>2. /\ run[r] = "verify" /\ run'[r] \in {"verify", "mark"}
      /\ UNCHANGED <<snap, files, remote, kept>>
  BY <1>1 DEF Verify, Turn, TypeOK, hist
<1>3. Act(r) /\ View(d, files', files)
  BY <1>2 DEF Act, Worker, View
<1>4. (Rival(r, d)' <=> Rival(r, d)) /\ (Half(r, d) => Half(r, d)')
  BY <1>2 DEF Rival, Half, Touching
<1>5. FilesPart(d)'
  BY <1>1, <1>2, <1>3, <1>4, FilesStay
<1>6. RemotePart(d)'
  BY <1>1, <1>2 DEF RemotePart, Agree, InFiles
<1>7. Alone(r, d) => PullPart(r, d)'
  BY <1>1, <1>2 DEF RunPart, PullPart, Applying, Touching
<1>8. Alone(r, d) => SnapPart(r, d)'
  BY <1>1, <1>2, <1>3, ElseSame DEF RunPart, SnapPart, Captured, View, Agree, InFiles
<1>9. CommitOf[r] = d => OwnPart(r)'
  BY <1>1, <1>2 DEF RunPart, OwnPart, InFiles
<1> QED
  BY <1>5, <1>6, <1>7, <1>8, <1>9 DEF After

LEMMA MarkVerifiedHeld ==
  ASSUME NEW r \in Request, MarkVerified(r), NEW d \in Commit, Before(r, d)
  PROVE  After(r, d)
<1>1. TypeOK /\ RemotePart(d) /\ FilesPart(d) /\ RunPart(r, d)
  BY Setting DEF Before
<1>2. /\ run[r] = "mark" /\ run'[r] = IF BodyOf[r] \in Pushing THEN "push" ELSE "apply"
      /\ UNCHANGED <<snap, files, remote, kept>>
  BY <1>1 DEF MarkVerified, RunGoes, TypeOK, host, hist
<1>3. Act(r) /\ View(d, files', files)
  BY <1>2 DEF Act, Worker, View
<1>4. (Rival(r, d)' <=> Rival(r, d)) /\ (Half(r, d) => Half(r, d)')
  BY <1>2 DEF Rival, Half, Touching
<1>5. FilesPart(d)'
  BY <1>1, <1>2, <1>3, <1>4, FilesStay
<1>6. RemotePart(d)'
  BY <1>1, <1>2 DEF RemotePart, Agree, InFiles
<1>7. Alone(r, d) => PullPart(r, d)'
  BY <1>1, <1>2 DEF RunPart, PullPart, Applying, Touching
<1>8. Alone(r, d) => SnapPart(r, d)'
  BY <1>1, <1>2, <1>3, ElseSame DEF RunPart, SnapPart, Captured, View, Agree, InFiles
<1>9. CommitOf[r] = d => OwnPart(r)'
  BY <1>1, <1>2 DEF RunPart, OwnPart, InFiles, Agree
<1> QED
  BY <1>5, <1>6, <1>7, <1>8, <1>9 DEF After

\* The exception: its answer lost, a push may have been taken.
LEMMA RaiseHeld ==
  ASSUME NEW r \in Request, Raise(r), UNCHANGED remote /\ UNCHANGED kept,
         NEW d \in Commit, Before(r, d)
  PROVE  After(r, d)
<1>1. TypeOK /\ TodoInv /\ RemotePart(d) /\ FilesPart(d) /\ RunPart(r, d)
  BY Setting DEF Before
<1>2. /\ \/ run[r] \in {"clone", "pull", "prepare", "snapshot"} /\ run'[r] = IF Touched(r) THEN "tear" ELSE "fail"
         \/ run[r] \in {"update", "verify", "push"} /\ run'[r] = "restore"
      /\ todo'[r] = FilesOf[CommitOf[r]] /\ UNCHANGED <<snap, files>>
  BY <1>1 DEF Raise, TypeOK
<1>3. Act(r) /\ View(d, files', files)
  BY <1>2 DEF Act, Worker, View
<1>4. (Rival(r, d) => Rival(r, d)') /\ (Half(r, d) => Half(r, d)')
  BY <1>2 DEF Rival, Half, Touched, Touching
<1>5. FilesPart(d)'
  BY <1>1, <1>3, <1>4, FilesStay
<1>6. RemotePart(d)'
  BY <1>1 DEF RemotePart, Agree, InFiles
<1>7. PullPart(r, d)' /\ OwnPart(r)'
  BY <1>2 DEF PullPart, OwnPart
<1>8. Alone(r, d) => SnapPart(r, d)'
  <2>1. run'[r] = "restore" => Ahead(r)' = {}
    BY <1>2 DEF Ahead
  <2> QED
    BY <1>1, <1>2, <1>3, <2>1, ElseSame DEF RunPart, SnapPart, Captured, View, Agree, InFiles
<1> QED
  BY <1>5, <1>6, <1>7, <1>8 DEF After

LEMMA RestoreRaisesHeld ==
  ASSUME NEW r \in Request, RestoreRaises(r), NEW d \in Commit, Before(r, d)
  PROVE  After(r, d)
<1>1. TypeOK /\ RemotePart(d) /\ FilesPart(d) /\ CommitOf[r] \in Commit
  BY Setting DEF Before
<1>2. run[r] = "restore" /\ run'[r] = "tear" /\ UNCHANGED <<todo, files, remote>>
  BY <1>1 DEF RestoreRaises, RunGoes, TypeOK
<1>3. kept'[d] \in {kept[d], "no"} /\ (CommitOf[r] # d /\ Alike(d, CommitOf[r]) => kept'[d] = "no")
  BY <1>1 DEF RestoreRaises, Displace, Same, Gone, TypeOK
<1>4. Act(r) /\ View(d, files', files)
  BY <1>2 DEF Act, Worker, View
<1>5. (Rival(r, d) => kept'[d] = "no") /\ (Half(r, d) => Half(r, d)')
  BY <1>2, <1>3 DEF Rival, Half, Touching, Alike
<1>6. FilesPart(d)'
  BY <1>1, <1>3, <1>4, <1>5, FilesStay
<1>7. RemotePart(d)'
  BY <1>1, <1>2, <1>3 DEF RemotePart, Agree, InFiles
<1>8. PullPart(r, d)' /\ SnapPart(r, d)' /\ OwnPart(r)'
  BY <1>2 DEF PullPart, SnapPart, Captured, OwnPart
<1> QED
  BY <1>6, <1>7, <1>8 DEF After

\* The last steps: nothing is claimed of the run any more.
LEMMA RunFailsHeld ==
  ASSUME NEW r \in Request, RunFails(r), NEW d \in Commit, Before(r, d)
  PROVE  After(r, d)
<1>1. TypeOK /\ RemotePart(d) /\ FilesPart(d)
  BY Setting DEF Before
<1>2. /\ (run[r] = "fail" /\ run'[r] = "failed") \/ (run[r] = "tear" /\ run'[r] = "torn")
      /\ UNCHANGED <<files, remote, kept>>
  BY <1>1 DEF RunFails, RunGoes, TypeOK
<1>3. Act(r) /\ View(d, files', files)
  BY <1>2 DEF Act, Worker, View
<1>4. ~Rival(r, d) /\ (Half(r, d) => Half(r, d)')
  BY <1>2 DEF Rival, Half, Touching
<1>5. FilesPart(d)'
  BY <1>1, <1>2, <1>3, <1>4, FilesStay
<1>6. RemotePart(d)'
  BY <1>1, <1>2 DEF RemotePart, Agree, InFiles
<1>7. run'[r] \notin Applying /\ OwnPart(r)'
  BY <1>2 DEF Applying, Touching, OwnPart
<1> QED
  BY <1>5, <1>6, <1>7 DEF After

LEMMA RunDiesHeld ==
  ASSUME NEW r \in Request, RunDies(r), NEW d \in Commit, Before(r, d)
  PROVE  After(r, d)
<1>1. TypeOK /\ RemotePart(d) /\ FilesPart(d) /\ CommitOf[r] \in Commit
  BY Setting DEF Before
<1>2. run'[r] = (IF Touched(r) THEN "killed" ELSE "dead") /\ UNCHANGED <<files, remote>>
  BY <1>1 DEF RunDies, TypeOK
<1>3. /\ kept'[d] \in {kept[d], "no"}
      /\ Touched(r) /\ CommitOf[r] # d /\ Alike(d, CommitOf[r]) => kept'[d] = "no"
  BY <1>1 DEF RunDies, Displace, Same, Gone, TypeOK
<1>4. Act(r) /\ View(d, files', files)
  BY <1>2 DEF Act, View
<1>5. (Rival(r, d) => kept'[d] = "no") /\ (Half(r, d) => Half(r, d)')
  <2>1. Rival(r, d) => kept'[d] = "no"
    BY <1>3 DEF Rival, Touched, Alike
  <2>2. Half(r, d) => Half(r, d)'
    <3>1. CASE Touched(r)
      BY <1>2, <3>1 DEF Half, Touched
    <3>2. CASE ~Touched(r)
      <4>1. Half(r, d) => run[r] \in {"torn", "killed"}
        BY <3>2 DEF Half, Touched
      <4> QED
        BY <4>1 DEF RunDies, Applying, Touching
    <3> QED
      BY <3>1, <3>2
  <2> QED
    BY <2>1, <2>2
<1>6. FilesPart(d)'
  BY <1>1, <1>3, <1>4, <1>5, FilesStay
<1>7. RemotePart(d)'
  BY <1>1, <1>2, <1>3 DEF RemotePart, Agree, InFiles
<1>8. run'[r] \notin Applying /\ OwnPart(r)'
  BY <1>2 DEF Applying, Touching, OwnPart
<1> QED
  BY <1>6, <1>7, <1>8 DEF After

\* A value that is marked applied is in the files.
LEMMA MarkAppliedHeld ==
  ASSUME NEW r \in Request, MarkApplied(r), NEW d \in Commit, Before(r, d)
  PROVE  After(r, d)
<1> DEFINE c == CommitOf[r]
<1>1. /\ TypeOK /\ TodoInv /\ RemotePart(d) /\ FilesPart(d) /\ RunPart(r, d) /\ c \in Commit
      /\ Alike(c, d) => Covers(r, c) /\ Held(c) /\ ~RivalElse(r, d)
  BY Setting DEF Before
<1>2. run[r] = "apply" /\ run'[r] = "applied" /\ UNCHANGED <<files, remote>>
  BY <1>1 DEF MarkApplied, RunGoes, TypeOK
<1>3. /\ d = c => kept'[d] = kept[d] \/ (BodyOf[r] \notin Pushing /\ kept'[d] = "local")
      /\ d # c /\ Alike(c, d) => kept'[d] = "no"
      /\ ~Alike(c, d) => kept'[d] = kept[d]
  BY <1>1 DEF MarkApplied, Displace, Gone, TypeOK, Alike
<1>4. Act(r) /\ View(d, files', files)
  BY <1>2 DEF Act, Worker, View
<1>5. RemotePart(d)'
  BY <1>1, <1>2, <1>3 DEF RemotePart, Agree, InFiles
<1>6. ~Rival(r, d)' /\ ~Half(r, d)'
  BY <1>2 DEF Rival, Half, Touching
<1>7. FilesPart(d)'
  <2>1. CASE Alike(c, d)
    <3>1. Agree(c, files) /\ (BodyOf[r] \notin Pushing => InFiles(c, files))
      BY <1>1, <1>2, <2>1 DEF Held, RunPart, OwnPart
    <3>2. Agree(d, files)'
      BY <1>2, <2>1, <3>1 DEF Agree, Alike
    <3>3. d = c => InFiles(d, files) \/ kept'[d] = "no"
      BY <1>1, <1>3, <2>1, <3>1, Split DEF FilesPart, Rival
    <3> QED
      BY <1>2, <1>3, <2>1, <3>2, <3>3 DEF FilesPart, InFiles
  <2>2. CASE ~Alike(c, d)
    <3>1. ~Rival(r, d) /\ ~Half(r, d)
      BY <1>2, <2>2 DEF Rival, Half, Touching
    <3> QED
      BY <1>1, <1>3, <1>4, <2>2, <3>1, FilesStay
  <2> QED
    BY <2>1, <2>2
<1>8. run'[r] \notin Applying /\ OwnPart(r)'
  BY <1>2 DEF Applying, Touching, OwnPart
<1> QED
  BY <1>5, <1>7, <1>8 DEF After

-----------------------------------------------------------------------------
(* Steps that write *)

\* The pull replaces file by file; a value that was pushed is in the clone too.
LEMMA CopyHeld ==
  ASSUME NEW r \in Request, Copy(r), NEW d \in Commit, Before(r, d), Uncrossed(d)'
  PROVE  After(r, d)
<1>1. /\ TypeOK /\ TodoInv /\ RemotePart(d) /\ FilesPart(d) /\ RunPart(r, d)
      /\ FilesOf[d] \subseteq File /\ (Alone(r, d) => ~RivalElse(r, d))
  BY Setting DEF Before
<1>2. PICK f \in File : /\ Turn(r, f, "pull", "prepare")
                       /\ files' = [files EXCEPT ![f] = snap[r][f]]
                       /\ UNCHANGED <<snap, remote, kept>>
  BY DEF Copy
<1>3. /\ run[r] = "pull" /\ f \in todo[r] /\ todo[r] \subseteq File
      /\ \/ todo[r] # {f} /\ run'[r] = "pull" /\ todo'[r] = todo[r] \ {f}
         \/ todo[r] = {f} /\ run'[r] = "prepare"
  BY <1>1, <1>2 DEF Turn, TypeOK
<1>4. Alone(r, d) /\ PullPart(r, d) /\ BodyOf[r] \in Pushing
  <2>1. Alone(r, d)
    BY CrossAlone DEF Copy, Before
  <2> QED
    BY <1>1, <1>3, <2>1 DEF RunPart, TodoInv
<1>5. \A g \in FilesOf[d] : files'[g] = IF g = f THEN snap[r][g] ELSE files[g]
  BY <1>1, <1>2 DEF TypeOK
<1>6. /\ Agree(d, snap[r]) /\ (kept[d] = "pushed" => InFiles(d, snap[r])) /\ kept[d] # "local"
      /\ \A g \in FilesOf[d] \ todo[r] : files[g][LabelOf[d]] = snap[r][g][LabelOf[d]]
  BY <1>3, <1>4 DEF PullPart, Applying, Touching
<1>7. kept[d] = "pushed" => InFiles(d, files)
  BY <1>1, <1>3, <1>4, Split DEF FilesPart, Rival, Touching
<1>8. kept[d] = "no" \/ InFiles(d, files)'
  BY <1>1, <1>5, <1>6, <1>7 DEF TypeOK, Place, InFiles
<1>9. run'[r] = "prepare" => Agree(d, files)'
  BY <1>3, <1>5, <1>6 DEF Agree
<1>10. FilesPart(d)'
  <2>1. run'[r] = "pull" => Half(r, d)'
    BY <1>3, <1>4 DEF Half
  <2> QED
    BY <1>2, <1>3, <1>8, <1>9, <2>1 DEF FilesPart
<1>11. RemotePart(d)'
  BY <1>1, <1>2 DEF RemotePart, Agree, InFiles
<1>12. PullPart(r, d)'
  <2>1. run'[r] = "pull" => \A g \in FilesOf[d] \ todo'[r] : files'[g][LabelOf[d]] = snap[r][g][LabelOf[d]]
    BY <1>3, <1>5, <1>6
  <2> QED
    BY <1>2, <1>3, <1>6, <1>9, <2>1 DEF PullPart, Agree, InFiles
<1>13. SnapPart(r, d)' /\ OwnPart(r)'
  BY <1>3 DEF SnapPart, Captured, OwnPart
<1> QED
  BY <1>10, <1>11, <1>12, <1>13 DEF After

\* The update changes one place in each file.
LEMMA UpdateHeld ==
  ASSUME NEW r \in Request, Update(r), NEW d \in Commit, Before(r, d)
  PROVE  After(r, d)
<1> DEFINE c == CommitOf[r]
<1>1. /\ TypeOK /\ TodoInv /\ RemotePart(d) /\ FilesPart(d) /\ RunPart(r, d)
      /\ c \in Commit /\ FilesOf[d] \subseteq File /\ FilesOf[c] \subseteq File
      /\ (Alike(c, d) => ~RivalElse(r, d)) /\ LabelOf[c] \in Label /\ LabelOf[d] \in Label
  BY Setting, ApplyConstants DEF Before
<1>2. PICK f \in File : /\ Turn(r, f, "update", "verify")
                       /\ files' = [files EXCEPT ![f][LabelOf[c]] = c]
                       /\ UNCHANGED <<snap, remote, kept>>
  BY DEF Update, hist
<1>3. /\ run[r] = "update" /\ f \in todo[r] /\ todo[r] \subseteq FilesOf[c]
      /\ \/ todo[r] # {f} /\ run'[r] = "update" /\ todo'[r] = todo[r] \ {f}
         \/ todo[r] = {f} /\ run'[r] = "verify" /\ todo'[r] = FilesOf[c]
  BY <1>1, <1>2 DEF Turn, TypeOK, TodoInv
<1>4. \A g \in File, l \in Label : files'[g][l] = IF g = f /\ l = LabelOf[c] THEN c ELSE files[g][l]
  BY <1>1, <1>2 DEF TypeOK, Content
<1>5. Act(r)
  BY DEF Act, Worker
<1>6. ~Alike(c, d) => View(d, files', files)
  <2>1. f \in FilesOf[d] => FilesOf[c] = FilesOf[d]
    BY <1>1, <1>3, Shared
  <2> QED
    BY <1>1, <1>4, <2>1 DEF Alike, View
<1>7. FilesPart(d)'
  <2>1. CASE Alike(c, d)
    <3>1. d # c => Rival(r, d)'
      BY <1>3, <2>1 DEF Rival, Touching
    <3>2. Half(r, d)'
      BY <1>3, <2>1 DEF Half, Touching
    <3>3. d = c => kept'[d] = "no" \/ InFiles(d, files)'
      BY <1>1, <1>2, <1>4, <2>1, Split DEF FilesPart, Rival, InFiles
    <3> QED
      BY <3>1, <3>2, <3>3 DEF FilesPart
  <2>2. CASE ~Alike(c, d)
    <3>1. ~Rival(r, d) /\ ~Half(r, d)
      BY <1>3, <2>2 DEF Rival, Half, Touching
    <3> QED
      BY <1>1, <1>2, <1>5, <1>6, <2>2, <3>1, FilesStay
  <2> QED
    BY <2>1, <2>2
<1>8. RemotePart(d)'
  BY <1>1, <1>2 DEF RemotePart, Agree, InFiles
<1>9. Alone(r, d) => PullPart(r, d)'
  BY <1>1, <1>2, <1>3 DEF RunPart, PullPart, Applying, Touching
<1>10. Alone(r, d) => SnapPart(r, d)'
  <2>1. FilesOf[d] = FilesOf[c] /\ LabelOf[d] # LabelOf[c] => View(d, files', files)
    BY <1>6 DEF Alike
  <2> QED
    BY <1>1, <1>2, <1>3, <1>5, <2>1, ElseSame DEF RunPart, SnapPart, Captured, View, Agree, InFiles
<1>11. c = d => OwnPart(r)'
  <2>1. c = d => \A g \in Ahead(r) : files[g][LabelOf[c]] = c
    BY <1>1, <1>3 DEF RunPart, OwnPart
  <2>2. c = d => \A g \in Ahead(r) \cup {f} : files'[g][LabelOf[c]] = c
    BY <1>1, <1>3, <1>4, <2>1 DEF Ahead
  <2>3. run'[r] = "update" => Ahead(r)' \subseteq Ahead(r) \cup {f}
    BY <1>3 DEF Ahead
  <2>4. run'[r] = "verify" => FilesOf[c] \subseteq Ahead(r) \cup {f}
    BY <1>3 DEF Ahead
  <2> QED
    BY <1>3, <2>2, <2>3, <2>4 DEF OwnPart, InFiles
<1> QED
  BY <1>7, <1>8, <1>9, <1>10, <1>11 DEF After

\* What a push that is taken leaves in the repository: the value of its commit, which
\* it has verified, and the other values as this host has them.
LEMMA Taken ==
  ASSUME NEW r \in Request, NEW d \in Commit, Before(r, d), run[r] = "push", Alone(r, d),
         remote' = Pushed(r)
  PROVE  /\ Agree(d, remote)'
         /\ CommitOf[r] = d => InFiles(d, remote)' /\ InFiles(d, files)
         /\ kept[d] = "pushed" /\ ~Alike(d, CommitOf[r]) => InFiles(d, remote)'
<1> DEFINE c == CommitOf[r]
<1>1. /\ TypeOK /\ TodoInv /\ RemotePart(d) /\ FilesPart(d) /\ RunPart(r, d)
      /\ c \in Commit /\ FilesOf[d] \subseteq File /\ ~RivalElse(r, d)
      /\ Alike(c, d) => Held(c) /\ Covers(r, c)
  BY Setting DEF Before
<1>2. CASE FilesOf[d] # FilesOf[c]
  <2>1. FilesOf[d] \cap FilesOf[c] = {} /\ c # d
    BY <1>2, ApplyConstants
  <2>2. View(d, remote', remote)
    BY <1>1, <2>1 DEF Pushed, View
  <2> QED
    BY <1>1, <2>1, <2>2 DEF RemotePart, View, InFiles, Agree
<1>3. CASE FilesOf[d] = FilesOf[c]
  <2>1. View(d, remote', files)
    BY <1>1, <1>3 DEF Pushed, View
  <2>2. CASE Alike(c, d)
    <3>1. InFiles(c, files)
      BY <1>1, <2>2 DEF Held, RunPart, OwnPart
    <3>2. Agree(d, files)
      BY <2>2, <3>1 DEF Alike, InFiles, Agree
    <3> QED
      BY <2>1, <2>2, <3>1, <3>2 DEF View, InFiles, Agree, Alike
  <2>3. CASE ~Alike(c, d)
    <3>1. LabelOf[d] # LabelOf[c] /\ c # d /\ BodyOf[r] \in Pushing
      BY <1>1, <1>3, <2>3 DEF Alike, TodoInv
    <3>2. View(d, snap[r], files) /\ Agree(d, snap[r])
      BY <1>1, <1>3, <3>1 DEF RunPart, SnapPart, Captured
    <3>3. kept[d] = "pushed" => InFiles(d, files)
      BY <1>1, <2>3, Split DEF FilesPart, Rival
    <3> QED
      BY <2>1, <3>1, <3>2, <3>3 DEF View, InFiles, Agree
  <2> QED
    BY <2>2, <2>3
<1> QED
  BY <1>2, <1>3

LEMMA PushHeld ==
  ASSUME NEW r \in Request, Push(r), NEW d \in Commit, Before(r, d), Uncrossed(d)'
  PROVE  After(r, d)
<1> DEFINE c == CommitOf[r]
<1>1. /\ TypeOK /\ TodoInv /\ RemotePart(d) /\ FilesPart(d) /\ RunPart(r, d) /\ c \in Commit
      /\ Alone(r, d)
  BY Setting, CrossAlone DEF Before, Push
<1>2. /\ run[r] = "push" /\ run'[r] \in {"sync", "apply"} /\ UNCHANGED <<todo, snap, files>>
      /\ run'[r] = "apply" => Pushed(r) = remote
  BY <1>1 DEF Push, RunGoes, TypeOK
<1>3. /\ BodyOf[r] \in Pushing /\ kept[d] # "local"
      /\ c = d => InFiles(d, files)
  BY <1>1, <1>2 DEF TodoInv, RunPart, PullPart, OwnPart, Applying, Touching
<1>4. Act(r) /\ View(d, files', files)
  BY <1>2 DEF Act, Worker, View
<1>5. (Rival(r, d)' <=> Rival(r, d)) /\ (Half(r, d)' <=> Half(r, d))
  BY <1>2 DEF Rival, Half, Touching
<1>6. CASE remote' = Pushed(r) /\ Displace(r, [k \in Place |-> "pushed"], Gone)
  <2>1. /\ c = d => kept'[d] = "pushed"
        /\ c # d /\ Alike(d, c) => kept'[d] = "no"
        /\ ~Alike(d, c) => kept'[d] = kept[d]
    BY <1>1, <1>6 DEF Displace, Gone, TypeOK, Alike
  <2>2. RemotePart(d)'
    BY <1>1, <1>2, <1>6, <2>1, Taken DEF RemotePart
  <2>3. FilesPart(d)'
    <3>1. CASE c = d
      <4>1. InFiles(d, files)'
        BY <1>2, <1>3, <3>1 DEF InFiles
      <4>2. (\A q \in Request : ~Half(q, d))' => Agree(d, files)'
        BY <4>1 DEF InFiles, Agree
      <4> QED
        BY <4>1, <4>2 DEF FilesPart
    <3>2. CASE c # d
      BY <1>1, <1>4, <1>5, <2>1, <3>2, FilesStay
    <3> QED
      BY <3>1, <3>2
  <2>4. kept'[d] # "local"
    BY <1>3, <2>1
  <2> QED
    BY <1>2, <1>3, <2>2, <2>3, <2>4
    DEF After, PullPart, SnapPart, Captured, OwnPart, InFiles, Agree
<1>7. CASE UNCHANGED <<remote, kept>>
  <2>1. RemotePart(d)' /\ FilesPart(d)'
    BY <1>1, <1>4, <1>5, <1>7, FilesStay DEF RemotePart, InFiles, Agree
  <2> QED
    BY <1>2, <1>3, <1>7, <2>1
    DEF After, PullPart, SnapPart, Captured, OwnPart, InFiles, Agree
<1> QED
  BY <1>6, <1>7 DEF Push

\* The lost answer of a push: nobody knows that the value of this commit is there.
LEMMA RaisePushedHeld ==
  ASSUME NEW r \in Request, Raise(r), run[r] = "push", remote' = Pushed(r), Cross(r),
         Displace(r, Same, [k \in Place |-> IF k = "pushed" THEN "local" ELSE k]),
         NEW d \in Commit, Before(r, d), Uncrossed(d)'
  PROVE  After(r, d)
<1> DEFINE c == CommitOf[r]
<1>1. /\ TypeOK /\ RemotePart(d) /\ FilesPart(d) /\ RunPart(r, d) /\ c \in Commit
      /\ Alone(r, d)
  BY Setting, CrossAlone DEF Before
<1>2. /\ run'[r] = "restore" /\ todo'[r] = FilesOf[c] /\ UNCHANGED <<snap, files>>
  BY <1>1 DEF Raise, TypeOK
<1>3. /\ c = d \/ ~Alike(d, c) => kept'[d] = kept[d]
      /\ c # d /\ Alike(d, c) => kept'[d] # "pushed" /\ (kept'[d] = "no" <=> kept[d] = "no")
  BY <1>1 DEF Displace, Same, TypeOK, Place
<1>4. Act(r) /\ View(d, files', files)
  BY <1>2 DEF Act, Worker, View
<1>5. (Rival(r, d)' <=> Rival(r, d)) /\ (Half(r, d)' <=> Half(r, d))
  BY <1>2 DEF Rival, Half, Touching
<1>6. FilesPart(d)'
  BY <1>1, <1>3, <1>4, <1>5, FilesStay
<1>7. RemotePart(d)'
  BY <1>1, <1>3, Taken DEF RemotePart
<1>8. PullPart(r, d)' /\ OwnPart(r)'
  BY <1>2 DEF PullPart, OwnPart
<1>9. SnapPart(r, d)'
  <2>1. Ahead(r)' = {} /\ SnapPart(r, d) /\ (kept'[d] # "no" => kept[d] # "no")
    BY <1>1, <1>2, <1>3 DEF Ahead, RunPart
  <2> QED
    BY <1>1, <1>2, <1>4, <2>1, ElseSame DEF SnapPart, Captured, View, Agree, InFiles
<1> QED
  BY <1>6, <1>7, <1>8, <1>9 DEF After

\* The reset takes back what was not pushed; a run that is alone has nothing of that
\* kind to lose, except its own value, which does not stand yet.
LEMMA SyncHeld ==
  ASSUME NEW r \in Request, SyncLocal(r), NEW d \in Commit, Before(r, d), Uncrossed(d)'
  PROVE  After(r, d)
<1>1. /\ TypeOK /\ TodoInv /\ RemotePart(d) /\ FilesPart(d) /\ RunPart(r, d)
      /\ Alone(r, d) /\ FilesOf[d] \subseteq File
  BY Setting, CrossAlone DEF Before, SyncLocal
<1>2. /\ run[r] = "sync" /\ run'[r] = "apply" /\ UNCHANGED <<remote, kept>>
      /\ files' = files \/ files' = remote
  BY <1>1 DEF SyncLocal, RunGoes, TypeOK
<1>3. BodyOf[r] \in Pushing /\ kept[d] # "local"
  BY <1>1, <1>2 DEF TodoInv, RunPart, PullPart, Applying, Touching
<1>4. Act(r)
  BY DEF Act, Worker
<1>5. (Rival(r, d)' <=> Rival(r, d)) /\ (Half(r, d)' <=> Half(r, d))
  BY <1>2 DEF Rival, Half, Touching
<1>6. RemotePart(d)'
  BY <1>1, <1>2 DEF RemotePart, InFiles, Agree
<1>7. FilesPart(d)'
  <2>1. CASE files' = files
    BY <1>1, <1>2, <1>4, <1>5, <2>1, FilesStay DEF View
  <2>2. CASE files' = remote
    <3>1. (kept[d] = "no" \/ InFiles(d, files)') /\ Agree(d, files)'
      BY <1>1, <1>3, <2>2 DEF RemotePart, InFiles, Agree, TypeOK, Place
    <3> QED
      BY <1>2, <3>1 DEF FilesPart
  <2> QED
    BY <1>2, <2>1, <2>2
<1>8. CommitOf[r] = d => OwnPart(r)'
  BY <1>1, <1>2, <1>3 DEF RunPart, OwnPart, RemotePart, Agree
<1> QED
  BY <1>2, <1>6, <1>7, <1>8 DEF After, PullPart, SnapPart, Captured

\* The restore brings back, for the other values, what is there already, and for the
\* place of its commit what stood there before the update.
LEMMA RestoreHeld ==
  ASSUME NEW r \in Request, Restore(r), NEW d \in Commit, Before(r, d), Uncrossed(d)'
  PROVE  After(r, d)
<1> DEFINE c == CommitOf[r]
<1>1. /\ TypeOK /\ TodoInv /\ RemotePart(d) /\ FilesPart(d) /\ RunPart(r, d)
      /\ c \in Commit /\ FilesOf[d] \subseteq File /\ FilesOf[c] \subseteq File
      /\ Alone(r, d) => ~RivalElse(r, d)
  BY Setting, ApplyConstants DEF Before
<1>2. PICK f \in File : /\ Turn(r, f, "restore", "fail")
                       /\ files' = [files EXCEPT ![f] = snap[r][f]]
                       /\ UNCHANGED <<snap, remote, kept>>
  BY DEF Restore
<1>3. /\ run[r] = "restore" /\ f \in todo[r] /\ todo[r] \subseteq FilesOf[c]
      /\ \/ todo[r] # {f} /\ run'[r] = "restore" /\ todo'[r] = todo[r] \ {f}
         \/ todo[r] = {f} /\ run'[r] = "fail"
  BY <1>1, <1>2 DEF Turn, TypeOK, TodoInv
<1>4. Alone(r, d) /\ SnapPart(r, d)
  BY <1>1, CrossAlone DEF Restore, Before, RunPart
<1>5. \A g \in FilesOf[d] : files'[g] = IF g = f THEN snap[r][g] ELSE files[g]
  BY <1>1, <1>2 DEF TypeOK
<1>6. Act(r)
  BY DEF Act, Worker
<1>7. \A g \in FilesOf[d] \cap (Ahead(r) \cup {f}) : files'[g][LabelOf[d]] = snap'[r][g][LabelOf[d]]
  BY <1>2, <1>3, <1>4, <1>5 DEF SnapPart
<1>8. ~Alike(c, d) => View(d, files', files)
  <2>1. f \in FilesOf[d] => FilesOf[c] = FilesOf[d]
    BY <1>1, <1>3, Shared
  <2>2. f \in FilesOf[d] /\ ~Alike(c, d) => View(d, snap[r], files)
    BY <1>3, <1>4, <2>1 DEF SnapPart, Captured, Alike
  <2> QED
    BY <1>5, <2>2 DEF View
<1>9. Alike(c, d) => /\ kept[d] # "no" => InFiles(d, snap[r])
                     /\ ~HalfElse(r, d) => Agree(d, snap[r])
  BY <1>3, <1>4 DEF SnapPart, Captured, Alike
<1>10. run'[r] = "fail" /\ Alike(c, d) => View(d, files', snap[r])
  <2>1. run'[r] = "fail" /\ Alike(c, d) => FilesOf[d] \subseteq Ahead(r) \cup {f}
    BY <1>3 DEF Ahead, Alike
  <2> QED
    BY <1>2, <1>7, <2>1 DEF View
<1>11. FilesPart(d)'
  <2>1. CASE ~Alike(c, d)
    <3>1. ~Rival(r, d) /\ ~Half(r, d)
      BY <1>3, <2>1 DEF Rival, Half, Touching
    <3> QED
      BY <1>1, <1>2, <1>6, <1>8, <2>1, <3>1, FilesStay
  <2>2. CASE Alike(c, d) /\ run'[r] = "restore"
    <3>1. Half(r, d)' /\ (d # c => Rival(r, d)')
      BY <2>2 DEF Half, Rival, Touching
    <3>2. d = c /\ kept[d] # "no" => InFiles(d, files)
      BY <1>1, <1>4, Split DEF FilesPart, Rival
    <3>3. d = c /\ kept[d] # "no" => InFiles(d, files)'
      BY <1>5, <1>9, <2>2, <3>2 DEF InFiles
    <3> QED
      BY <1>2, <3>1, <3>3 DEF FilesPart
  <2>3. CASE Alike(c, d) /\ run'[r] = "fail"
    <3>1. kept[d] # "no" => InFiles(d, files)'
      BY <1>9, <1>10, <2>3 DEF View, InFiles
    <3>2. (\A q \in Request : ~Half(q, d))' => Agree(d, files)'
      BY <1>1, <1>6, <1>9, <1>10, <2>3, Split, ElseSame DEF View, Agree
    <3> QED
      BY <1>2, <3>1, <3>2 DEF FilesPart
  <2> QED
    BY <1>3, <2>1, <2>2, <2>3
<1>12. RemotePart(d)'
  BY <1>1, <1>2 DEF RemotePart, Agree, InFiles
<1>13. PullPart(r, d)' /\ OwnPart(r)'
  BY <1>3 DEF PullPart, OwnPart
<1>14. SnapPart(r, d)'
  <2>1. CASE run'[r] = "fail"
    BY <2>1 DEF SnapPart, Captured
  <2>2. CASE run'[r] = "restore"
    <3>1. Ahead(r)' \subseteq Ahead(r) \cup {f}
      BY <1>3, <2>2 DEF Ahead
    <3>2. FilesOf[d] = FilesOf[c] /\ LabelOf[d] # LabelOf[c] => View(d, files', files)
      BY <1>8 DEF Alike
    <3> QED
      BY <1>1, <1>2, <1>3, <1>4, <1>6, <1>7, <2>2, <3>1, <3>2, ElseSame
      DEF SnapPart, Captured, View, Agree, InFiles
  <2> QED
    BY <1>3, <2>1, <2>2
<1> QED
  BY <1>11, <1>12, <1>13, <1>14 DEF After

-----------------------------------------------------------------------------
(* All steps together *)

LEMMA WorkerHeld ==
  ASSUME NEW r \in Request, Worker(r) \/ RunDies(r), NEW d \in Commit, Before(r, d), Uncrossed(d)'
  PROVE  After(r, d)
<1>1. ~Transition(r)
  BY DEF Transition, RunGoes, Before, Covers, Working, Applying, Touching
<1>2. CASE Raise(r)
  BY <1>2, RaiseHeld, RaisePushedHeld DEF Raise
<1>3. CASE Clone(r) \/ Copy(r) \/ Prepare(r) \/ Snapshot(r) \/ Update(r) \/ Verify(r) \/ MarkVerified(r)
  BY <1>3, CloneHeld, CopyHeld, PrepareHeld, SnapshotHeld, UpdateHeld, VerifyHeld, MarkVerifiedHeld
<1>4. CASE Push(r) \/ SyncLocal(r) \/ MarkApplied(r) \/ Restore(r) \/ RestoreRaises(r) \/ RunFails(r)
  BY <1>4, PushHeld, SyncHeld, MarkAppliedHeld, RestoreHeld, RestoreRaisesHeld, RunFailsHeld
<1>5. CASE RunDies(r)
  BY <1>5, RunDiesHeld
<1> QED
  BY <1>1, <1>2, <1>3, <1>4, <1>5 DEF Worker

LEMMA PartStep ==
  ASSUME TypeOK, OrderInv, TodoInv, HistInv, PartInv, NEW r \in Request, Act(r)
  PROVE  PartInv'
<1> SUFFICES ASSUME NEW d \in Commit, Uncrossed(d)' PROVE Held(d)'
  BY DEF PartInv
<1>1. Uncrossed(d) /\ Held(d)
  BY HistGrows DEF Uncrossed, PartInv
<1>2. CASE ~Covers(r, d)
  BY <1>1, <1>2, OutsideHeld
<1>3. CASE Covers(r, d)
  <2>1. Before(r, d)
    BY <1>1, <1>3 DEF Before
  <2>2. After(r, d)
    BY <2>1, HandlerHeld, WorkerHeld DEF Act
  <2>3. Alone(r, d)' => Alone(r, d) /\ run'[r] \in Applying
    BY <1>3, HistGrows DEF Alone, Covers, Working, Scope
  <2>4. RunPart(r, d)'
    BY <2>2, <2>3 DEF After, RunPart
  <2>5. \A q \in Request \ {r} : RunPart(q, d)'
    BY <2>1, OthersHeld
  <2> QED
    BY <2>2, <2>4, <2>5 DEF After, Held
<1> QED
  BY <1>2, <1>3

\* The values of the earlier commits are where their commits say.
LEMMA WithIn ==
  ASSUME NEW cs \in SUBSET Earlier, NEW v, NEW d \in cs
  PROVE  InFiles(d, With(cs, v))
<1> SUFFICES ASSUME NEW f \in FilesOf[d] PROVE With(cs, v)[f][LabelOf[d]] = d
  BY DEF InFiles
<1>1. d \in Commit /\ f \in File /\ LabelOf[d] \in Label
  BY ApplyConstants
<1>2. At(cs, f, LabelOf[d]) = {d}
  <2>1. ASSUME NEW c \in At(cs, f, LabelOf[d]) PROVE c = d
    <3>1. c \in cs /\ c \in Commit /\ f \in FilesOf[c] /\ LabelOf[d] = LabelOf[c]
      BY ApplyConstants DEF At
    <3>2. FilesOf[c] = FilesOf[d]
      BY <1>1, <3>1, Shared
    <3> QED
      BY <3>1, <3>2, ApplyConstants
  <2> QED
    BY <2>1 DEF At
<1> QED
  BY <1>1, <1>2 DEF With

LEMMA WithAgree ==
  ASSUME NEW cs \in SUBSET Earlier, NEW v, NEW d \in Commit
  PROVE  Agree(d, With(cs, v))
<1> SUFFICES ASSUME NEW f \in FilesOf[d], NEW g \in FilesOf[d]
             PROVE  With(cs, v)[f][LabelOf[d]] = With(cs, v)[g][LabelOf[d]]
  BY DEF Agree
<1>1. f \in File /\ g \in File /\ LabelOf[d] \in Label
  BY ApplyConstants
<1>2. CASE \E c \in cs : f \in FilesOf[c] /\ LabelOf[d] = LabelOf[c]
  <2>1. PICK c \in cs : f \in FilesOf[c] /\ LabelOf[d] = LabelOf[c]
    BY <1>2
  <2>2. FilesOf[c] = FilesOf[d] /\ InFiles(c, With(cs, v))
    BY <2>1, Shared, WithIn, ApplyConstants
  <2> QED
    BY <2>1, <2>2 DEF InFiles
<1>3. CASE \A c \in cs : ~(f \in FilesOf[c] /\ LabelOf[d] = LabelOf[c])
  <2>1. \A c \in cs : (f \in FilesOf[c] <=> g \in FilesOf[c])
    BY Shared, ApplyConstants
  <2>2. At(cs, f, LabelOf[d]) = {} /\ At(cs, g, LabelOf[d]) = {}
    BY <1>3, <2>1 DEF At
  <2> QED
    BY <1>1, <2>2 DEF With
<1> QED
  BY <1>2, <1>3

LEMMA InitPart == Init => TodoInv /\ HistInv /\ PartInv
<1> SUFFICES ASSUME Init PROVE TodoInv /\ HistInv /\ PartInv
  OBVIOUS
<1>1. \A r \in Request : run[r] = "none" /\ todo[r] = {}
  BY DEF Init
<1>2. TodoInv /\ HistInv
  BY <1>1 DEF TodoInv, HistInv, Working, Applying, Touching
<1>3. ASSUME NEW d \in Commit PROVE Held(d)
  <2> DEFINE cs == {c \in Earlier : kept[c] = "pushed"}
  <2>1. Earlier \subseteq Commit /\ cs \subseteq Earlier /\ cs \subseteq Commit
    BY ApplyConstants
  <2>2. files = With(Earlier, Base) /\ remote = With(cs, Up) /\ (kept[d] # "no" => d \in Earlier)
    BY DEF Init
  <2>3. RemotePart(d)
    BY <2>1, <2>2, WithAgree, WithIn DEF RemotePart
  <2>4. FilesPart(d)
    BY <2>1, <2>2, WithAgree, WithIn DEF FilesPart
  <2>5. \A r \in Request : RunPart(r, d)
    BY <1>1 DEF RunPart, Alone, Covers, Working, Applying, Touching, OwnPart
  <2> QED
    BY <2>3, <2>4, <2>5 DEF Held
<1> QED
  BY <1>2, <1>3 DEF PartInv

FInv == IInv /\ TodoInv /\ HistInv /\ PartInv

LEMMA InitFiles == Init => FInv
BY InitInv, InitPart DEF FInv

LEMMA FilesStep == FInv /\ [Next]_vars => FInv'
<1> SUFFICES ASSUME FInv, [Next]_vars PROVE FInv'
  OBVIOUS
<1>1. IInv'
  BY InvStep DEF FInv
<1>2. ASSUME NEW r \in Request, Act(r) PROVE TodoInv' /\ HistInv' /\ PartInv'
  BY <1>2, TodoStep, HistStep, PartStep DEF FInv, IInv
<1>3. CASE UNCHANGED vars
  <2> USE <1>3 DEF vars, host, hist, FInv
  <2>1. TodoInv'
    BY DEF TodoInv
  <2>2. HistInv'
    BY DEF HistInv, Working, Scope
  <2>3. ASSUME NEW d \in Commit, Uncrossed(d)' PROVE Held(d)'
    <3>1. Held(d)
      BY <2>3 DEF Uncrossed, PartInv
    <3>2. RemotePart(d)'
      BY <3>1 DEF Held, RemotePart, Agree, InFiles
    <3>3. FilesPart(d)'
      BY <3>1 DEF Held, FilesPart, Agree, InFiles, Rival, Half, Touched
    <3>4. ASSUME NEW q \in Request PROVE RunPart(q, d)'
      <4>1. RunPart(q, d) /\ (Alone(q, d)' => Alone(q, d)) /\ (HalfElse(q, d)' <=> HalfElse(q, d))
        BY <3>1 DEF Held, Alone, Covers, Working, Scope, HalfElse, Half, Touched
      <4>2. PullPart(q, d) => PullPart(q, d)'
        BY DEF PullPart, Agree, InFiles
      <4>3. SnapPart(q, d) => SnapPart(q, d)'
        BY <4>1 DEF SnapPart, Agree, InFiles, View, Ahead
      <4>4. OwnPart(q) => OwnPart(q)'
        BY DEF OwnPart, Agree, InFiles, Ahead
      <4> QED
        BY <4>1, <4>2, <4>3, <4>4 DEF RunPart
    <3> QED
      BY <3>2, <3>3, <3>4 DEF Held
  <2> QED
    BY <1>1, <2>1, <2>2, <2>3 DEF PartInv
<1> QED
  BY <1>1, <1>2, <1>3 DEF FInv, Next, Act

\* Whatever applies, of this or of other qubits, with and without a push, run at the
\* same time on the same files, raise, are rejected or die: a value that stands is in
\* the files, and in the repository if it was pushed, as long as no run that had company
\* wrote a whole file there.
THEOREM AppliedStands == Spec => []VerifiedStands
<1>1. FInv => VerifiedStands
  BY DEF FInv, PartInv, Held, RemotePart, FilesPart, Rival, VerifiedStands
<1> QED
  BY <1>1, InitFiles, FilesStep, PTL DEF Spec

\* The same of the copies of one parameter: its files agree whenever no run is at them
\* or has stopped half-way, those of the repository always.
THEOREM FilesAgree == Spec => []AllOrNothing
<1>1. FInv => AllOrNothing
  BY DEF FInv, PartInv, Held, RemotePart, FilesPart, AllOrNothing
<1> QED
  BY <1>1, InitFiles, FilesStep, PTL DEF Spec
=============================================================================
