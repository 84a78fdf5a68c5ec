-------------------------- MODULE CalibSession_proofs --------------------------
(***************************************************************************)
(* Theorems about CalibSession, for every set of flows, projects and       *)
(* scopes, every assignment of flows to them, and every choice of flows    *)
(* that may be killed or crash.                                            *)
(***************************************************************************)
EXTENDS CalibSession, TLAPS

\* A session past SaveScheduled holds a document in memory, the optimistic
\* update has read one, and the hook only holds keys of stored documents.
HasModel == {"start", "connect", "bind", "cas", "run", "finish", "push"}
KnownDocs ==
  /\ \A f \in Flow : pc[f] \in HasModel => mem[f].doc \in Doc
  /\ \A f \in Flow : pc[f] = "cas" => seen[f].doc \in Doc
  /\ \A f \in Flow : \A k \in found[f] : docs[k] \in Doc

TypeInv == TypeOK /\ KnownDocs

\* The flag of a session is down before it takes the lock, at the end of its
\* flow, and always in a flow that uses no lock.
FlagInv ==
  \A f \in Flow :
    /\ acquired[f] => UsesLock(f) /\ pc[f] \notin {"idle", "check", "acquire", "ended", "cut"}
    /\ pc[f] \in {"check", "acquire"} => UsesLock(f)
LockInv ==
  \A p \in Project : locked[p] => \E f \in Flow : ProjectOf[f] = p /\ acquired[f]

\* A document stays one when a note and a version are written into it.
LEMMA NoteType ==
  ASSUME NEW d \in Doc, NEW f \in Flow, NEW n \in Nat
  PROVE  [d EXCEPT !.flow = f, !.ver = n] \in Doc
BY DEF Doc

\* The upsert of a well-typed model keeps the store and the memory well typed,
\* and never takes a document away.
LEMMA SaveType ==
  ASSUME TypeInv, NEW f \in Flow, NEW m \in [project : Project, doc : Doc], Save(f, m)
  PROVE  /\ docs' \in [Key -> Doc \cup {NoDoc}]
         /\ mem' \in [Flow -> [project : Project, doc : Doc \cup {NoDoc}]]
         /\ mem'[f].doc \in Doc
         /\ \A g \in Flow \ {f} : mem'[g] = mem[g]
         /\ \A k \in Key : docs[k] \in Doc => docs'[k] \in Doc
<1> DEFINE k == <<m.project, id[f]>>
           d == [m.doc EXCEPT !.ver = docs[k].ver]
<1>1. k \in Key
  BY DEF TypeInv, TypeOK, Key
<1>2. docs[k].ver \in Nat
  BY <1>1 DEF TypeInv, TypeOK, Doc, NoDoc
<1>3. d \in Doc
  BY <1>2 DEF Doc
<1>4. docs' = [docs EXCEPT ![k] = d] /\ mem' = [mem EXCEPT ![f] = m]
  BY DEF Save
<1> QED
  BY <1>1, <1>3, <1>4 DEF TypeInv, TypeOK

\* The same for reload followed by a change of status.
LEMMA ReloadType ==
  ASSUME TypeInv, NEW f \in Flow, NEW status \in Status, ReloadAndSave(f, status)
  PROVE  /\ docs' \in [Key -> Doc \cup {NoDoc}]
         /\ mem' \in [Flow -> [project : Project, doc : Doc \cup {NoDoc}]]
         /\ mem'[f].doc \in Doc
         /\ \A g \in Flow \ {f} : mem'[g] = mem[g]
         /\ \A k \in Key : docs[k] \in Doc => docs'[k] \in Doc
<1>1. PICK p \in FindById(id[f]) :
        Save(f, [project |-> p, doc |-> [docs[<<p, id[f]>>] EXCEPT !.status = status]])
  BY DEF ReloadAndSave
<1>2. p \in Project /\ docs[<<p, id[f]>>] \in Doc
  BY <1>1 DEF FindById, TypeInv, TypeOK, Key
<1>3. [docs[<<p, id[f]>>] EXCEPT !.status = status] \in Doc
  BY <1>2 DEF Doc
<1>4. [project |-> p, doc |-> [docs[<<p, id[f]>>] EXCEPT !.status = status]]
        \in [project : Project, doc : Doc]
  BY <1>2, <1>3
<1> QED
  BY <1>1, <1>4, SaveType

\* Every step keeps the types and the three facts of KnownDocs.
LEMMA TypeStep == TypeInv /\ [Next]_vars => TypeInv'
<1> SUFFICES ASSUME TypeInv, [Next]_vars PROVE TypeInv'
  OBVIOUS
<1> USE ConstantsOK DEF TypeInv, TypeOK, KnownDocs, HasModel, ProcPC, Goto,
      lockVars, storeVars, sessVars, hookVars
<1>1. ASSUME NEW f \in Flow, Begin(f) PROVE TypeInv'
  BY <1>1 DEF Begin
<1>2. ASSUME NEW f \in Flow, NewId(f) PROVE TypeInv'
  BY <1>2 DEF NewId, Index, UsesLock
<1>3. ASSUME NEW f \in Flow, CheckLock(f) PROVE TypeInv'
  BY <1>3 DEF CheckLock
<1>4. ASSUME NEW f \in Flow, AcquireLock(f) PROVE TypeInv'
  BY <1>4 DEF AcquireLock
<1>5. ASSUME NEW f \in Flow, SaveScheduled(f) PROVE TypeInv'
  <2> DEFINE m == [project |-> ProjectOf[f],
                   doc |-> [owner |-> f, status |-> "scheduled", flow |-> None, ver |-> 0]]
  <2>1. m \in [project : Project, doc : Doc] /\ Save(f, m)
    BY <1>5 DEF SaveScheduled, Doc, Status
  <2> QED
    BY <1>5, <2>1, SaveType DEF SaveScheduled
<1>6. ASSUME NEW f \in Flow, StartExecution(f) PROVE TypeInv'
  <2> DEFINE m == [mem[f] EXCEPT !.doc.status = "running"]
  <2>1. mem[f] \in [project : Project, doc : Doc]
    BY <1>6 DEF StartExecution
  <2>2. m \in [project : Project, doc : Doc] /\ Save(f, m)
    BY <1>6, <2>1 DEF StartExecution, Doc, Status
  <2> QED
    BY <1>6, <2>2, SaveType DEF StartExecution
<1>7. ASSUME NEW f \in Flow, ConnectBackend(f) PROVE TypeInv'
  BY <1>7 DEF ConnectBackend
<1>8. ASSUME NEW f \in Flow, InitFails(f) PROVE TypeInv'
  BY <1>8 DEF InitFails, ReleaseLock, HandlerOf
<1>9. ASSUME NEW f \in Flow, ReadForNote(f) PROVE TypeInv'
  <2>1. PICK p \in FindById(id[f]) :
          seen' = [seen EXCEPT ![f] = [project |-> p, doc |-> docs[<<p, id[f]>>]]]
    BY <1>9 DEF ReadForNote
  <2>2. p \in Project /\ docs[<<p, id[f]>>] \in Doc
    BY DEF FindById, Key
  <2> QED
    BY <1>9, <2>1, <2>2 DEF ReadForNote
<1>10. ASSUME NEW f \in Flow, WriteNote(f) PROVE TypeInv'
  <2> DEFINE k == <<seen[f].project, id[f]>>
             d == [seen[f].doc EXCEPT !.flow = f, !.ver = docs[k].ver + 1]
  <2>1. CASE UNCHANGED <<docs, mem>> /\ pc' \in {[pc EXCEPT ![f] = "bind"], [pc EXCEPT ![f] = "run"]}
    BY <1>10, <2>1 DEF WriteNote
  <2>2. CASE pc' = [pc EXCEPT ![f] = "run"] /\ docs' = [docs EXCEPT ![k] = d]
               /\ mem' = [mem EXCEPT ![f].doc.flow = f]
    <3>1. k \in Key /\ docs[k].ver \in Nat
      BY DEF Key, Doc, NoDoc
    <3>2. seen[f].doc \in Doc /\ mem[f] \in [project : Project, doc : Doc]
      BY <1>10 DEF WriteNote
    <3>3. d \in Doc /\ mem'[f] \in [project : Project, doc : Doc]
      <4>1. d \in Doc
        <5>1. docs[k].ver + 1 \in Nat
          BY <3>1
        <5> QED
          BY <3>2, <5>1, NoteType
      <4>2. [mem[f].doc EXCEPT !.flow = f] \in Doc
        BY <3>2 DEF Doc
      <4>3. mem'[f] = [mem[f] EXCEPT !.doc = [mem[f].doc EXCEPT !.flow = f]]
        BY <2>2
      <4> QED
        BY <3>2, <4>1, <4>2, <4>3
    <3> HIDE DEF k, d
    <3>4. /\ docs' \in [Key -> Doc \cup {NoDoc}]
          /\ mem' \in [Flow -> [project : Project, doc : Doc \cup {NoDoc}]]
          /\ \A g \in Flow \ {f} : mem'[g] = mem[g]
          /\ \A j \in Key : docs[j] \in Doc => docs'[j] \in Doc
      BY <2>2, <3>1, <3>3
    <3> QED
      BY <1>10, <2>2, <3>3, <3>4 DEF WriteNote
  <2> QED
    BY <1>10, <2>1, <2>2 DEF WriteNote
<1>11. ASSUME NEW f \in Flow, OpenStage(f) PROVE TypeInv'
  BY <1>11 DEF OpenStage
<1>12. ASSUME NEW f \in Flow, CloseWrapper(f) PROVE TypeInv'
  BY <1>12 DEF CloseWrapper
<1>13. ASSUME NEW f \in Flow, RecordStage(f) PROVE TypeInv'
  <2>1. mem[f] \in [project : Project, doc : Doc] /\ Save(f, mem[f])
    BY <1>13 DEF RecordStage
  <2> QED
    BY <1>13, <2>1, SaveType DEF RecordStage
<1>14. ASSUME NEW f \in Flow, RunTasks(f) PROVE TypeInv'
  BY <1>14 DEF RunTasks
<1>15. ASSUME NEW f \in Flow, TaskRaises(f) PROVE TypeInv'
  BY <1>15 DEF TaskRaises, HandlerOf
<1>16. ASSUME NEW f \in Flow, CompleteExecution(f) PROVE TypeInv'
  <2>1. ReloadAndSave(f, "completed") /\ "completed" \in Status
    BY <1>16 DEF CompleteExecution, Status
  <2> QED
    BY <1>16, <2>1, ReloadType DEF CompleteExecution
<1>17. ASSUME NEW f \in Flow, PushResults(f) PROVE TypeInv'
  <2>1. mem[f] \in [project : Project, doc : Doc] /\ Save(f, mem[f])
    BY <1>17 DEF PushResults
  <2> QED
    BY <1>17, <2>1, SaveType DEF PushResults
<1>18. ASSUME NEW f \in Flow, PushRaises(f) PROVE TypeInv'
  BY <1>18 DEF PushRaises
<1>19. ASSUME NEW f \in Flow, ReleaseAndRaise(f) PROVE TypeInv'
  BY <1>19 DEF ReleaseAndRaise, ReleaseLock, HandlerOf
<1>20. ASSUME NEW f \in Flow, ReleaseAndEnd(f) PROVE TypeInv'
  BY <1>20 DEF ReleaseAndEnd, ReleaseLock
<1>21. ASSUME NEW f \in Flow, FailExecution(f) PROVE TypeInv'
  <2>1. CASE mem[f].doc = NoDoc
    BY <1>21, <2>1 DEF FailExecution
  <2>2. CASE mem[f].doc # NoDoc
    <3>1. ReloadAndSave(f, "failed") /\ "failed" \in Status
      BY <1>21, <2>2 DEF FailExecution, Status
    <3> QED
      BY <1>21, <3>1, ReloadType DEF FailExecution
  <2> QED
    BY <2>1, <2>2
<1>22. ASSUME NEW f \in Flow, GiveUp(f) PROVE TypeInv'
  BY <1>22 DEF GiveUp, ReleaseLock
<1>23. ASSUME NEW f \in Flow, RaiseCancelled(f) PROVE TypeInv'
  BY <1>23 DEF RaiseCancelled, ReleaseLock
<1>24. ASSUME NEW f \in Flow, CancelExecution(f) PROVE TypeInv'
  <2>1. CASE mem[f].doc = NoDoc
    BY <1>24, <2>1 DEF CancelExecution
  <2>2. CASE mem[f].doc # NoDoc
    <3>1. ReloadAndSave(f, "cancelled") /\ "cancelled" \in Status
      BY <1>24, <2>2 DEF CancelExecution, Status
    <3> QED
      BY <1>24, <3>1, ReloadType DEF CancelExecution
  <2> QED
    BY <2>1, <2>2
<1>25. ASSUME NEW f \in Flow, Kill(f) PROVE TypeInv'
  BY <1>25 DEF Kill
<1>26. ASSUME NEW f \in Flow, Crash(f) PROVE TypeInv'
  BY <1>26 DEF Crash
<1>27. ASSUME NEW f \in Flow, HookFind(f) PROVE TypeInv'
  BY <1>27 DEF HookFind, Cancelled, HookPC, Key, NoDoc, Doc
<1>28. ASSUME NEW f \in Flow, HookMark(f) PROVE TypeInv'
  <2>1. PICK k \in found[f] :
          /\ docs' = [docs EXCEPT ![k].status = "cancelled"]
          /\ found' = [found EXCEPT ![f] = @ \ {k}]
          /\ hook' = [hook EXCEPT ![f] = IF found[f] = {k} THEN "unlock" ELSE "mark"]
    BY <1>28 DEF HookMark
  <2>2. k \in Key /\ docs[k] \in Doc
    OBVIOUS
  <2>3. [docs[k] EXCEPT !.status = "cancelled"] \in Doc
    BY <2>2 DEF Doc, Status
  <2> QED
    BY <1>28, <2>1, <2>2, <2>3 DEF HookMark, HookPC
<1>29. ASSUME NEW f \in Flow, HookUnlock(f) PROVE TypeInv'
  BY <1>29 DEF HookUnlock, HookPC
<1>30. ASSUME UNCHANGED vars PROVE TypeInv'
  BY <1>30 DEF vars
<1>31. ASSUME NEW f \in Flow, CancelledWhileFailing(f) PROVE TypeInv'
  BY <1>31 DEF CancelledWhileFailing, ReleaseLock
<1> QED
  BY <1>1, <1>2, <1>3, <1>4, <1>5, <1>6, <1>7, <1>8, <1>9, <1>10, <1>11, <1>12, <1>13, <1>14, <1>15, <1>16, <1>17, <1>18, <1>19, <1>20, <1>21, <1>22, <1>23, <1>24, <1>25, <1>26, <1>27, <1>28, <1>29, <1>30, <1>31 DEF Next, Session, Hook

\* The flag discipline holds in every step.
LEMMA FlagStep == TypeOK /\ FlagInv /\ [Next]_vars => FlagInv'
<1> SUFFICES ASSUME TypeOK, FlagInv, [Next]_vars PROVE FlagInv'
  OBVIOUS
<1> USE DEF TypeOK, FlagInv, Goto, UsesLock, Kind, ReleaseLock, HandlerOf,
      lockVars, storeVars, sessVars, hookVars
<1>1. ASSUME NEW f \in Flow, Begin(f) PROVE FlagInv'
  BY <1>1 DEF Begin
<1>2. ASSUME NEW f \in Flow, NewId(f) PROVE FlagInv'
  BY <1>2 DEF NewId
<1>3. ASSUME NEW f \in Flow, CheckLock(f) PROVE FlagInv'
  BY <1>3 DEF CheckLock
<1>4. ASSUME NEW f \in Flow, AcquireLock(f) PROVE FlagInv'
  BY <1>4 DEF AcquireLock
<1>5. ASSUME NEW f \in Flow, SaveScheduled(f) PROVE FlagInv'
  BY <1>5 DEF SaveScheduled, Save
<1>6. ASSUME NEW f \in Flow, StartExecution(f) PROVE FlagInv'
  BY <1>6 DEF StartExecution, Save
<1>7. ASSUME NEW f \in Flow, ConnectBackend(f) PROVE FlagInv'
  BY <1>7 DEF ConnectBackend
<1>8. ASSUME NEW f \in Flow, InitFails(f) PROVE FlagInv'
  BY <1>8 DEF InitFails
<1>9. ASSUME NEW f \in Flow, ReadForNote(f) PROVE FlagInv'
  BY <1>9 DEF ReadForNote
<1>10. ASSUME NEW f \in Flow, WriteNote(f) PROVE FlagInv'
  BY <1>10 DEF WriteNote
<1>11. ASSUME NEW f \in Flow, OpenStage(f) PROVE FlagInv'
  BY <1>11 DEF OpenStage
<1>12. ASSUME NEW f \in Flow, CloseWrapper(f) PROVE FlagInv'
  BY <1>12 DEF CloseWrapper
<1>13. ASSUME NEW f \in Flow, RecordStage(f) PROVE FlagInv'
  BY <1>13 DEF RecordStage, Save
<1>14. ASSUME NEW f \in Flow, RunTasks(f) PROVE FlagInv'
  BY <1>14 DEF RunTasks
<1>15. ASSUME NEW f \in Flow, TaskRaises(f) PROVE FlagInv'
  BY <1>15 DEF TaskRaises
<1>16. ASSUME NEW f \in Flow, CompleteExecution(f) PROVE FlagInv'
  BY <1>16 DEF CompleteExecution, ReloadAndSave, Save
<1>17. ASSUME NEW f \in Flow, PushResults(f) PROVE FlagInv'
  BY <1>17 DEF PushResults, Save
<1>18. ASSUME NEW f \in Flow, PushRaises(f) PROVE FlagInv'
  BY <1>18 DEF PushRaises
<1>19. ASSUME NEW f \in Flow, ReleaseAndRaise(f) PROVE FlagInv'
  BY <1>19 DEF ReleaseAndRaise
<1>20. ASSUME NEW f \in Flow, ReleaseAndEnd(f) PROVE FlagInv'
  BY <1>20 DEF ReleaseAndEnd
<1>21. ASSUME NEW f \in Flow, FailExecution(f) PROVE FlagInv'
  BY <1>21 DEF FailExecution, ReloadAndSave, Save
<1>22. ASSUME NEW f \in Flow, GiveUp(f) PROVE FlagInv'
  BY <1>22 DEF GiveUp
<1>23. ASSUME NEW f \in Flow, RaiseCancelled(f) PROVE FlagInv'
  BY <1>23 DEF RaiseCancelled
<1>24. ASSUME NEW f \in Flow, CancelExecution(f) PROVE FlagInv'
  BY <1>24 DEF CancelExecution, ReloadAndSave, Save
<1>25. ASSUME NEW f \in Flow, Kill(f) PROVE FlagInv'
  BY <1>25 DEF Kill, Live, Dead
<1>26. ASSUME NEW f \in Flow, Crash(f) PROVE FlagInv'
  BY <1>26 DEF Crash, Live, Dead
<1>27. ASSUME NEW f \in Flow, HookFind(f) PROVE FlagInv'
  BY <1>27 DEF HookFind
<1>28. ASSUME NEW f \in Flow, HookMark(f) PROVE FlagInv'
  BY <1>28 DEF HookMark
<1>29. ASSUME NEW f \in Flow, HookUnlock(f) PROVE FlagInv'
  BY <1>29 DEF HookUnlock
<1>30. ASSUME UNCHANGED vars PROVE FlagInv'
  BY <1>30 DEF vars
<1>31. ASSUME NEW f \in Flow, CancelledWhileFailing(f) PROVE FlagInv'
  BY <1>31 DEF CancelledWhileFailing
<1> QED
  BY <1>1, <1>2, <1>3, <1>4, <1>5, <1>6, <1>7, <1>8, <1>9, <1>10, <1>11, <1>12, <1>13, <1>14, <1>15, <1>16, <1>17, <1>18, <1>19, <1>20, <1>21, <1>22, <1>23, <1>24, <1>25, <1>26, <1>27, <1>28, <1>29, <1>30, <1>31 DEF Next, Session, Hook

\* Releasing turns the lock off or leaves it to the sessions that hold it.
LEMMA ReleaseKeepsLockInv ==
  ASSUME TypeOK, LockInv, NEW f \in Flow, ReleaseLock(f)
  PROVE  LockInv'
<1> SUFFICES ASSUME NEW p \in Project, locked'[p]
             PROVE  \E g \in Flow : ProjectOf[g] = p /\ acquired'[g]
  BY DEF LockInv
<1>1. locked[p] /\ (ProjectOf[f] = p => ~acquired[f])
  BY DEF TypeOK, ReleaseLock
<1>2. PICK g \in Flow : ProjectOf[g] = p /\ acquired[g]
  BY <1>1 DEF LockInv
<1>3. g # f
  BY <1>1, <1>2
<1>4. acquired'[g]
  BY <1>2, <1>3 DEF TypeOK, ReleaseLock
<1> QED
  BY <1>2, <1>4

\* A lock that is on has a session that owes its release, in every step.
LEMMA LockStep == TypeOK /\ LockInv /\ [Next]_vars => LockInv'
<1> SUFFICES ASSUME TypeOK, LockInv, [Next]_vars PROVE LockInv'
  OBVIOUS
<1> USE ConstantsOK DEF lockVars, storeVars, sessVars, hookVars
<1>1. ASSUME UNCHANGED lockVars PROVE LockInv'
  BY <1>1 DEF LockInv
<1>2. ASSUME NEW f \in Flow, AcquireLock(f) PROVE LockInv'
  BY <1>2 DEF AcquireLock, LockInv, TypeOK
<1>3. ASSUME NEW f \in Flow, HookUnlock(f) PROVE LockInv'
  BY <1>3 DEF HookUnlock, LockInv, TypeOK
<1>4. ASSUME NEW f \in Flow,
             \/ InitFails(f) \/ ReleaseAndRaise(f) \/ ReleaseAndEnd(f)
             \/ GiveUp(f) \/ RaiseCancelled(f) \/ CancelledWhileFailing(f)
      PROVE  LockInv'
  <2>1. ReleaseLock(f) \/ UNCHANGED lockVars
    BY <1>4 DEF InitFails, ReleaseAndRaise, ReleaseAndEnd, GiveUp, RaiseCancelled,
           CancelledWhileFailing
  <2> QED
    BY <2>1, <1>1, ReleaseKeepsLockInv
<1>5. ASSUME NEW f \in Flow,
             \/ Begin(f) \/ Kill(f) \/ Crash(f) \/ HookFind(f) \/ HookMark(f)
             \/ NewId(f) \/ CheckLock(f) \/ SaveScheduled(f) \/ StartExecution(f)
             \/ ConnectBackend(f) \/ ReadForNote(f) \/ WriteNote(f) \/ OpenStage(f)
             \/ CloseWrapper(f) \/ RecordStage(f) \/ RunTasks(f) \/ TaskRaises(f)
             \/ CompleteExecution(f) \/ PushResults(f) \/ PushRaises(f)
             \/ FailExecution(f) \/ CancelExecution(f)
      PROVE  LockInv'
  <2>1. UNCHANGED lockVars
    BY <1>5 DEF Begin, NewId, CheckLock, SaveScheduled, StartExecution, ConnectBackend, ReadForNote, WriteNote, OpenStage, CloseWrapper, RecordStage, RunTasks, TaskRaises, CompleteExecution, PushResults, PushRaises, FailExecution, CancelExecution, Kill, Crash, HookFind, HookMark
  <2> QED
    BY <2>1, <1>1
<1>6. ASSUME UNCHANGED vars PROVE LockInv'
  BY <1>1, <1>6 DEF vars
<1> QED
  BY <1>2, <1>3, <1>4, <1>5, <1>6 DEF Next, Session, Hook

-----------------------------------------------------------------------------

IInv == TypeInv /\ FlagInv /\ LockInv

\* Nothing is stored, locked or held at the start.
LEMMA InitInv == Init => IInv
<1> SUFFICES ASSUME Init PROVE IInv
  OBVIOUS
<1> USE ConstantsOK DEF Init
<1>1. TypeOK
  <2>1. mem \in [Flow -> [project : Project, doc : Doc \cup {NoDoc}]]
    OBVIOUS
  <2> QED
    BY <2>1 DEF TypeOK, ProcPC, HookPC, Kind, Index
<1>2. KnownDocs
  BY DEF KnownDocs, HasModel
<1>3. FlagInv /\ LockInv
  BY DEF FlagInv, LockInv
<1> QED
  BY <1>1, <1>2, <1>3 DEF IInv, TypeInv

\* The three parts are kept by every step.
LEMMA InvStep == IInv /\ [Next]_vars => IInv'
BY TypeStep, FlagStep, LockStep DEF IInv, TypeInv

\* The inductive invariant holds in every reachable state.
THEOREM Invariance == Spec => []IInv
BY InitInv, InvStep, PTL DEF Spec

\* Every variable keeps its type: in particular only the statuses of
\* ExecutionStatusModel are ever stored, and documents are never removed.
THEOREM TypeCorrect == Spec => []TypeOK
<1>1. IInv => TypeOK
  BY DEF IInv, TypeInv
<1> QED
  BY <1>1, Invariance, PTL

\* Finish, fail, cancel and a failed initialisation all give the lock back:
\* a project lock that is on is owed by a flow that has not reached its end.
THEOREM LockSafety == Spec => []LockHeldByUnfinished
<1>1. IInv => LockHeldByUnfinished
  BY DEF IInv, FlagInv, LockInv, LockHeldByUnfinished
<1> QED
  BY <1>1, Invariance, PTL

-----------------------------------------------------------------------------
(***************************************************************************)
(* What the sessions store.  An execution id is drawn from the counter of  *)
(* one (project, user, chip), and reload and the note's update look a      *)
(* document up by the id alone; so these theorems are about flows that     *)
(* share one counter.  Between two counters the same id is drawn twice and *)
(* one session writes over another's execution: the run session_takeover.  *)
(***************************************************************************)
OneScope == \A f, g \in Flow : ProjectOf[f] = ProjectOf[g] /\ ScopeOf[f] = ScopeOf[g]

Counter(f) == nextIndex[<<ProjectOf[f], ScopeOf[f]>>]
KeyOf(f) == <<ProjectOf[f], id[f]>>

\* The flow works under an id that its session has drawn.
Drawn(f) ==
  \/ pc[f] \in {"setup", "raise", "fail", "cancel"} \cup HasModel
  \/ kind[f] = "owner" /\ pc[f] \in {"check", "acquire"}

\* The session has stored its execution, ...
Stored(f) ==
  \/ pc[f] \in {"raise"} \cup HasModel
  \/ pc[f] \in {"fail", "cancel"} /\ mem[f].doc # NoDoc

\* ... and the model in memory is what is stored, but for the version.
Current(f) ==
  LET d == docs[KeyOf(f)]
      m == mem[f].doc
  IN /\ mem[f].project = ProjectOf[f]
     /\ m \in Doc /\ d \in Doc
     /\ m.owner = f /\ d.owner = f
     /\ m.status = d.status /\ m.flow = d.flow

StatusAt(label) ==
  CASE label = "start" -> {"scheduled"}
    [] label \in {"connect", "bind", "cas", "run", "finish"} -> {"running"}
    [] label \in {"push", "raise"} -> {"completed"}
    [] OTHER -> {"running", "completed"}

\* Two sessions at work have two ids, and a document is under an id that its
\* owner drew and carries no flow run id but its owner's.
IdInv ==
  /\ \A f \in Flow : Drawn(f) => id[f] < Counter(f)
  /\ \A f, g \in Flow : Drawn(f) /\ Drawn(g) /\ f # g => id[f] # id[g]
DocInv ==
  \A k \in Key : docs[k] # NoDoc =>
    /\ k[1] = ProjectOf[docs[k].owner]
    /\ k[2] < Counter(docs[k].owner)
    /\ docs[k].flow \in {None, docs[k].owner}

ModelOf(f) ==
  /\ Drawn(f) /\ ~Stored(f) => mem[f].doc = NoDoc /\ docs[KeyOf(f)] = NoDoc
  /\ Stored(f) => Current(f) /\ mem[f].doc.status \in StatusAt(pc[f])
  /\ pc[f] \in {"run", "finish", "push"} => mem[f].doc.flow = f
  /\ pc[f] = "cas" => seen[f].project = ProjectOf[f] /\ seen[f].doc = docs[KeyOf(f)]

\* An owner has one execution, and settles it on its way out.
OwnerOf(f) ==
  /\ kind[f] # "wrapper" => pc[f] \notin {"wrap", "giveup"}
  /\ kind[f] = "owner" => \A k \in Key : docs[k].owner = f =>
       /\ k = KeyOf(f)
       /\ pc[f] \notin {"idle", "newid"}
       /\ pc[f] \in {"release", "ended"} => docs[k].status \notin Active

\* The hook of a dead flow holds exactly what is left to settle.
HookOf(f) ==
  /\ hook[f] # "off" => pc[f] \in Dead
  /\ hook[f] # "mark" => found[f] = {}
  /\ \A k \in found[f] : docs[k].flow = f /\ docs[k].status \in Active
  /\ hook[f] # "off" =>
       \A k \in Key : docs[k].flow = f /\ docs[k].status \in Active => k \in found[f]

FlowInv == \A f \in Flow : ModelOf(f) /\ OwnerOf(f) /\ HookOf(f)
StoreInv == TypeInv /\ FlagInv /\ IdInv /\ DocInv /\ FlowInv

\* A step of flow f stores its own execution with status s and flow run id l.
Stores(f, s, l) ==
  LET d == docs'[KeyOf(f)]
      m == mem'[f].doc
  IN /\ d \in Doc /\ d.owner = f /\ d.status = s /\ d.flow = l
     /\ \A k \in Key \ {KeyOf(f)} : docs'[k] = docs[k]
     /\ mem'[f].project = ProjectOf[f]
     /\ m \in Doc /\ m.owner = f /\ m.status = s /\ m.flow = l
     /\ \A g \in Flow \ {f} : mem'[g] = mem[g]

\* What a stored execution is, seen from its session.
LEMMA StoredFacts ==
  ASSUME StoreInv, NEW f \in Flow, Stored(f)
  PROVE  /\ KeyOf(f) \in Key /\ Current(f) /\ Drawn(f)
         /\ mem[f] \in [project : Project, doc : Doc]
         /\ mem[f].doc.flow \in {None, f}
<1>1. KeyOf(f) \in Key
  BY ConstantsOK DEF StoreInv, TypeInv, TypeOK, Key, KeyOf
<1>2. Current(f) /\ Drawn(f)
  BY DEF StoreInv, FlowInv, ModelOf, Stored, Drawn
<1>3. docs[KeyOf(f)] # NoDoc
  BY <1>2, ConstantsOK DEF Current, Doc, NoDoc
<1>4. mem[f].doc.flow \in {None, f}
  BY <1>1, <1>2, <1>3 DEF StoreInv, DocInv, Current
<1>5. mem[f] \in [project : Project, doc : Doc]
  <2>1. mem[f] \in [project : Project, doc : Doc \cup {NoDoc}] /\ mem[f].doc \in Doc
    BY <1>2 DEF StoreInv, TypeInv, TypeOK, Current
  <2> QED
    BY <2>1
<1> QED
  BY <1>1, <1>2, <1>4, <1>5

\* Saving a model of the flow's own stores it under the flow's own key.
LEMMA SaveEffect ==
  ASSUME StoreInv, NEW f \in Flow, NEW m \in [project : Project, doc : Doc],
         m.project = ProjectOf[f], m.doc.owner = f, Save(f, m)
  PROVE  Stores(f, m.doc.status, m.doc.flow)
<1> DEFINE d == [m.doc EXCEPT !.ver = docs[KeyOf(f)].ver]
<1>1. KeyOf(f) \in Key
  BY ConstantsOK DEF StoreInv, TypeInv, TypeOK, Key, KeyOf
<1>2. docs[KeyOf(f)].ver \in Nat
  BY <1>1 DEF StoreInv, TypeInv, TypeOK, Doc, NoDoc
<1>3. d \in Doc /\ d.owner = f /\ d.status = m.doc.status /\ d.flow = m.doc.flow
  BY <1>2 DEF Doc
<1>4. docs' = [docs EXCEPT ![KeyOf(f)] = d] /\ mem' = [mem EXCEPT ![f] = m]
  BY DEF Save, KeyOf
<1>5. docs'[KeyOf(f)] = d /\ \A k \in Key \ {KeyOf(f)} : docs'[k] = docs[k]
  BY <1>1, <1>4 DEF StoreInv, TypeInv, TypeOK
<1>6. mem'[f] = m /\ \A g \in Flow \ {f} : mem'[g] = mem[g]
  BY <1>4 DEF StoreInv, TypeInv, TypeOK
<1> HIDE DEF d
<1> QED
  BY <1>3, <1>5, <1>6 DEF Stores

\* All flows draw from one counter, so an id is in one project only.
LEMMA OneDocument ==
  ASSUME OneScope, StoreInv, NEW f \in Flow, NEW p \in FindById(id[f])
  PROVE  p = ProjectOf[f]
<1>1. p \in Project /\ <<p, id[f]>> \in Key /\ docs[<<p, id[f]>>] # NoDoc
  BY DEF FindById, StoreInv, TypeInv, TypeOK, Key
<1>2. docs[<<p, id[f]>>].owner \in Flow
  BY <1>1 DEF StoreInv, TypeInv, TypeOK, Doc
<1>3. p = ProjectOf[docs[<<p, id[f]>>].owner]
  BY <1>1 DEF StoreInv, DocInv
<1> QED
  BY <1>2, <1>3 DEF OneScope

\* reload finds the execution of the session, whatever it then records.
LEMMA ReloadEffect ==
  ASSUME OneScope, StoreInv, NEW f \in Flow, Stored(f), NEW s \in Status,
         ReloadAndSave(f, s)
  PROVE  Stores(f, s, mem[f].doc.flow)
<1>1. PICK p \in FindById(id[f]) :
        Save(f, [project |-> p, doc |-> [docs[<<p, id[f]>>] EXCEPT !.status = s]])
  BY DEF ReloadAndSave
<1> DEFINE d == [docs[KeyOf(f)] EXCEPT !.status = s]
           m == [project |-> ProjectOf[f], doc |-> d]
<1>2. Save(f, m)
  BY <1>1, OneDocument DEF KeyOf
<1>3. Current(f)
  BY StoredFacts
<1>4. d \in Doc /\ d.owner = f /\ d.status = s /\ d.flow = mem[f].doc.flow
  BY <1>3 DEF Current, Doc
<1>5. m \in [project : Project, doc : Doc]
  BY <1>4, ConstantsOK
<1> HIDE DEF d
<1>6. Stores(f, m.doc.status, m.doc.flow)
  BY <1>2, <1>4, <1>5, SaveEffect
<1> QED
  BY <1>4, <1>6

\* The optimistic update finds the version it read, and writes the note into
\* the execution of the session and into the model in memory.
LEMMA NoteEffect ==
  ASSUME OneScope, StoreInv, NEW f \in Flow, WriteNote(f)
  PROVE  pc' = [pc EXCEPT ![f] = "run"] /\ Stores(f, mem[f].doc.status, f)
<1> DEFINE same == {p \in FindById(id[f]) :
                      docs[<<p, id[f]>>].ver \in {0, seen[f].doc.ver}}
           d == [docs[KeyOf(f)] EXCEPT !.flow = f, !.ver = docs[KeyOf(f)].ver + 1]
           m == [mem[f].doc EXCEPT !.flow = f]
<1>1. pc[f] = "cas" /\ Stored(f)
  BY DEF WriteNote, Stored, HasModel
<1>2. KeyOf(f) \in Key /\ Current(f) /\ mem[f] \in [project : Project, doc : Doc]
  BY <1>1, StoredFacts
<1>3. seen[f].project = ProjectOf[f] /\ seen[f].doc = docs[KeyOf(f)]
  BY <1>1 DEF StoreInv, FlowInv, ModelOf
<1>4. same = {ProjectOf[f]}
  <2>1. docs[KeyOf(f)] # NoDoc
    BY <1>2, ConstantsOK DEF Current, Doc, NoDoc
  <2>2. ProjectOf[f] \in same
    BY <1>3, <2>1, ConstantsOK DEF FindById, KeyOf
  <2> QED
    BY <2>2, OneDocument
<1>5. /\ pc' = [pc EXCEPT ![f] = "run"]
      /\ docs' = [docs EXCEPT ![KeyOf(f)] = d]
      /\ mem' = [mem EXCEPT ![f].doc.flow = f]
  BY <1>3, <1>4 DEF WriteNote, KeyOf
<1>6. d \in Doc /\ d.owner = f /\ d.status = mem[f].doc.status /\ d.flow = f
  <2>1. docs[KeyOf(f)] \in Doc /\ docs[KeyOf(f)].ver + 1 \in Nat
    BY <1>2 DEF Current, Doc
  <2>2. d \in Doc
    BY <2>1, NoteType
  <2> QED
    BY <1>2, <2>1, <2>2 DEF Current, Doc
<1>7. m \in Doc /\ m.owner = f /\ m.status = mem[f].doc.status /\ m.flow = f
  BY <1>2 DEF Current, Doc
<1>8. mem'[f].project = ProjectOf[f] /\ mem'[f].doc = m
      /\ \A g \in Flow \ {f} : mem'[g] = mem[g]
  <2>1. mem' = [mem EXCEPT ![f] = [mem[f] EXCEPT !.doc = m]]
    BY <1>5
  <2>2. mem'[f] = [mem[f] EXCEPT !.doc = m] /\ \A g \in Flow \ {f} : mem'[g] = mem[g]
    BY <2>1 DEF StoreInv, TypeInv, TypeOK
  <2> QED
    BY <1>2, <2>2 DEF Current
<1>9. docs'[KeyOf(f)] = d /\ \A k \in Key \ {KeyOf(f)} : docs'[k] = docs[k]
  BY <1>2, <1>5 DEF StoreInv, TypeInv, TypeOK
<1> HIDE DEF d, m
<1> QED
  BY <1>5, <1>6, <1>7, <1>8, <1>9 DEF Stores

\* A session at work finds under its key its own execution, or nothing.
LEMMA OwnKey ==
  ASSUME StoreInv, NEW f \in Flow, Drawn(f)
  PROVE  /\ KeyOf(f) \in Key
         /\ docs[KeyOf(f)].flow \in {None, f}
         /\ docs[KeyOf(f)] # NoDoc => Stored(f)
<1>1. CASE Stored(f)
  BY <1>1, StoredFacts DEF Current
<1>2. CASE ~Stored(f)
  <2>1. KeyOf(f) \in Key /\ docs[KeyOf(f)] = NoDoc
    BY <1>2, ConstantsOK DEF StoreInv, TypeInv, TypeOK, FlowInv, ModelOf, Key, KeyOf
  <2> QED
    BY <2>1 DEF NoDoc
<1> QED
  BY <1>1, <1>2

\* A step of one session that draws no id and writes at most its own execution
\* leaves the ids, the documents and every other flow in order.
LEMMA Frame ==
  ASSUME OneScope, StoreInv, TypeInv', NEW f \in Flow,
         \A g \in Flow \ {f} : /\ pc'[g] = pc[g] /\ mem'[g] = mem[g] /\ seen'[g] = seen[g]
                               /\ hook'[g] = hook[g] /\ found'[g] = found[g],
         kind' = kind, id' = id, nextIndex' = nextIndex,
         Drawn(f)' => Drawn(f),
         \/ docs' = docs
         \/ Drawn(f) /\ \E s \in Status, l \in {None, f} : Stores(f, s, l)
  PROVE  IdInv' /\ DocInv' /\ \A g \in Flow \ {f} : (ModelOf(g) /\ OwnerOf(g) /\ HookOf(g))'
<1>1. \A g \in Flow : Counter(g)' = Counter(g) /\ KeyOf(g)' = KeyOf(g)
  BY DEF Counter, KeyOf
<1>2. \A g \in Flow \ {f} : Drawn(g)' = Drawn(g) /\ Stored(g)' = Stored(g)
  BY DEF Drawn, Stored
<1>3. IdInv'
  BY <1>1, <1>2 DEF StoreInv, IdInv
<1>4. \A k \in Key : docs'[k] = docs[k]
        \/ /\ k = KeyOf(f) /\ Drawn(f)
           /\ docs'[k] \in Doc /\ docs'[k].owner = f /\ docs'[k].flow \in {None, f}
  BY DEF Stores
<1>5. DocInv'
  <2> SUFFICES ASSUME NEW k \in Key, docs'[k] # NoDoc
               PROVE  /\ k[1] = ProjectOf[docs'[k].owner]
                      /\ k[2] < nextIndex[<<ProjectOf[docs'[k].owner], ScopeOf[docs'[k].owner]>>]
                      /\ docs'[k].flow \in {None, docs'[k].owner}
    BY DEF DocInv, Counter
  <2>1. CASE docs'[k] = docs[k]
    BY <2>1 DEF StoreInv, DocInv, Counter
  <2>2. CASE k = KeyOf(f) /\ Drawn(f) /\ docs'[k].owner = f /\ docs'[k].flow \in {None, f}
    BY <2>2 DEF StoreInv, IdInv, KeyOf, Counter
  <2> QED
    BY <1>4, <2>1, <2>2
<1>6. ASSUME NEW g \in Flow \ {f} PROVE (ModelOf(g) /\ OwnerOf(g) /\ HookOf(g))'
  <2>1. ModelOf(g) /\ OwnerOf(g) /\ HookOf(g)
    BY DEF StoreInv, FlowInv
  <2>2. ModelOf(g)'
    <3>1. CASE Drawn(g)
      <4>1. KeyOf(g) \in Key /\ docs'[KeyOf(g)] = docs[KeyOf(g)]
        <5>1. KeyOf(g) \in Key
          BY <3>1, OwnKey
        <5>2. Drawn(f) => KeyOf(g) # KeyOf(f)
          BY <3>1 DEF KeyOf, StoreInv, IdInv
        <5> QED
          BY <1>4, <5>1, <5>2
      <4> QED
        BY <1>1, <1>2, <2>1, <4>1 DEF ModelOf, Current
    <3>2. CASE ~Drawn(g)
      BY <1>2, <3>2 DEF ModelOf, Drawn, Stored, HasModel
    <3> QED
      BY <3>1, <3>2
  <2>3. OwnerOf(g)'
    <3>1. \A k \in Key : docs'[k].owner = g => docs'[k] = docs[k]
      BY <1>4
    <3> QED
      BY <1>1, <2>1, <3>1 DEF OwnerOf
  <2>4. HookOf(g)'
    <3>1. \A k \in Key : docs'[k] = docs[k] \/ (docs'[k].flow # g /\ docs[k].flow # g)
      <4>1. Drawn(f) => docs[KeyOf(f)].flow \in {None, f}
        BY OwnKey
      <4> QED
        BY <1>4, <4>1, ConstantsOK
    <3>2. found'[g] = found[g] /\ found[g] \subseteq Key /\ hook'[g] = hook[g] /\ pc'[g] = pc[g]
      BY DEF StoreInv, TypeInv, TypeOK
    <3> QED
      BY <2>1, <3>1, <3>2 DEF HookOf
  <2> QED
    BY <2>2, <2>3, <2>4
<1> QED
  BY <1>3, <1>5, <1>6

\* So a step of a live session is left with what it does to its own flow.
LEMMA SessionFrame ==
  ASSUME OneScope, StoreInv, TypeInv', FlagInv', NEW f \in Flow, NEW label \in ProcPC,
         pc[f] \notin Dead, pc' = [pc EXCEPT ![f] = label],
         \A g \in Flow \ {f} : mem'[g] = mem[g] /\ seen'[g] = seen[g],
         kind' = kind, id' = id, nextIndex' = nextIndex, hook' = hook, found' = found,
         Drawn(f)' => Drawn(f),
         \/ docs' = docs
         \/ Drawn(f) /\ \E s \in Status, l \in {None, f} : Stores(f, s, l),
         ModelOf(f)', OwnerOf(f)'
  PROVE  StoreInv'
<1>1. \A g \in Flow \ {f} : pc'[g] = pc[g]
  BY DEF StoreInv, TypeInv, TypeOK
<1>2. IdInv' /\ DocInv' /\ \A g \in Flow \ {f} : (ModelOf(g) /\ OwnerOf(g) /\ HookOf(g))'
  BY <1>1, Frame
<1>3. HookOf(f)'
  BY DEF StoreInv, FlowInv, HookOf
<1>4. FlowInv'
  BY <1>2, <1>3 DEF FlowInv
<1> QED
  BY <1>2, <1>4 DEF StoreInv

\* A step that stores the execution of its session keeps the invariant when the
\* status suits the place it goes to.
LEMMA WriterFrame ==
  ASSUME OneScope, StoreInv, TypeInv', FlagInv', NEW f \in Flow,
         NEW label \in {"start", "connect", "run", "finish", "push", "wrap", "release"},
         NEW s \in Status, NEW l \in {None, f},
         Drawn(f), Stores(f, s, l), pc' = [pc EXCEPT ![f] = label],
         kind' = kind, id' = id, nextIndex' = nextIndex, seen' = seen,
         hook' = hook, found' = found,
         label = "start" => s = "scheduled",
         label \in {"connect", "run", "finish"} => s = "running",
         label = "push" => s = "completed",
         label \in {"run", "finish", "push"} => l = f,
         label = "wrap" => kind[f] = "wrapper",
         label = "release" => s \notin Active
  PROVE  StoreInv'
<1>1. pc'[f] = label /\ label \in ProcPC /\ pc[f] \notin Dead
  BY DEF StoreInv, TypeInv, TypeOK, ProcPC, Drawn, HasModel, Dead
<1>2. KeyOf(f)' = KeyOf(f) /\ kind'[f] = kind[f]
  BY DEF KeyOf
<1>3. ModelOf(f)'
  <2>1. Current(f)'
    BY <1>2 DEF Stores, Current
  <2>2. mem'[f].doc.status = s /\ mem'[f].doc.flow = l /\ mem'[f].doc # NoDoc
    BY ConstantsOK DEF Stores, Doc, NoDoc
  <2>3. label \notin {"wrap", "release"} => s \in StatusAt(label)
    BY DEF StatusAt
  <2> QED
    BY <1>1, <2>1, <2>2, <2>3 DEF ModelOf, Stored, Drawn, HasModel
<1>4. OwnerOf(f)'
  <2>1. OwnerOf(f)
    BY DEF StoreInv, FlowInv
  <2>2. \A k \in Key : docs'[k].owner = f /\ kind[f] = "owner" => k = KeyOf(f)
    BY <2>1 DEF OwnerOf, Stores
  <2>3. docs'[KeyOf(f)].status = s
    BY DEF Stores
  <2> QED
    BY <1>1, <1>2, <2>2, <2>3 DEF OwnerOf
<1>5. \A g \in Flow \ {f} : mem'[g] = mem[g] /\ seen'[g] = seen[g]
  BY DEF Stores
<1> QED
  BY <1>1, <1>3, <1>4, <1>5, SessionFrame

\* The steps of a flow's process that store nothing.
Quiet(f) ==
  \/ Begin(f) \/ CheckLock(f) \/ AcquireLock(f) \/ ConnectBackend(f) \/ InitFails(f)
  \/ OpenStage(f) \/ CloseWrapper(f) \/ RunTasks(f) \/ TaskRaises(f) \/ PushRaises(f)
  \/ ReleaseAndRaise(f) \/ ReleaseAndEnd(f) \/ GiveUp(f) \/ RaiseCancelled(f)
  \/ CancelledWhileFailing(f) \/ Kill(f) \/ Crash(f)

\* They move a session along with its execution as it is stored; an owner only
\* comes to an end from its release, or before it has stored anything.
LEMMA QuietStep ==
  ASSUME OneScope, StoreInv, TypeInv', FlagInv', NEW f \in Flow, Quiet(f)
  PROVE  StoreInv'
<1> DEFINE Good == (ModelOf(f) /\ OwnerOf(f))' /\ (Drawn(f)' => Drawn(f))
<1>1. UNCHANGED <<docs, mem, id, kind, nextIndex, seen, hook, found>>
  BY DEF Quiet, Begin, CheckLock, AcquireLock, ConnectBackend, InitFails, OpenStage, CloseWrapper, RunTasks, TaskRaises, PushRaises, ReleaseAndRaise, ReleaseAndEnd, GiveUp, RaiseCancelled, CancelledWhileFailing, Kill, Crash, ReleaseLock, lockVars, storeVars, sessVars, hookVars
<1>2. PICK label \in ProcPC : pc[f] \notin Dead /\ pc' = [pc EXCEPT ![f] = label]
  BY DEF Quiet, Begin, CheckLock, AcquireLock, ConnectBackend, InitFails, OpenStage, CloseWrapper, RunTasks, TaskRaises, PushRaises, ReleaseAndRaise, ReleaseAndEnd, GiveUp, RaiseCancelled, CancelledWhileFailing, Kill, Crash, Goto, HandlerOf, ProcPC, Dead, Live
<1>3. pc'[f] = label /\ kind[f] \in Kind /\ pc[f] \in ProcPC
  BY <1>2 DEF StoreInv, TypeInv, TypeOK
<1>4. ModelOf(f) /\ OwnerOf(f) /\ (pc[f] \in {"check", "acquire"} => UsesLock(f))
  BY DEF StoreInv, FlowInv, FlagInv
<1>5. /\ KeyOf(f)' = KeyOf(f) /\ Current(f)' = Current(f)
      /\ Stored(f) => mem[f].doc # NoDoc
  BY <1>1, <1>4, ConstantsOK DEF KeyOf, Current, ModelOf, Doc, NoDoc
<1>6. ASSUME ~Stored(f), Drawn(f) PROVE \A k \in Key : docs[k].owner = f => k # KeyOf(f)
  BY <1>4, <1>6, ConstantsOK DEF ModelOf, NoDoc
<1>7. Good
  <2> USE <1>1, <1>3, <1>4, <1>5, <1>6 DEF ModelOf, OwnerOf, Drawn, Stored, HasModel, StatusAt,
        Goto, HandlerOf, Kind, UsesLock
  <2>1. CASE Begin(f)
    BY <2>1 DEF Begin
  <2>2. CASE CheckLock(f)
    BY <2>2 DEF CheckLock
  <2>3. CASE AcquireLock(f)
    BY <2>3 DEF AcquireLock
  <2>4. CASE ConnectBackend(f)
    BY <2>4 DEF ConnectBackend
  <2>5. CASE InitFails(f)
    BY <2>5 DEF InitFails
  <2>6. CASE OpenStage(f)
    BY <2>6 DEF OpenStage
  <2>7. CASE CloseWrapper(f)
    BY <2>7 DEF CloseWrapper
  <2>8. CASE RunTasks(f)
    BY <2>8 DEF RunTasks
  <2>9. CASE TaskRaises(f)
    BY <2>9 DEF TaskRaises
  <2>10. CASE PushRaises(f)
    BY <2>10 DEF PushRaises
  <2>11. CASE ReleaseAndRaise(f)
    BY <2>11 DEF ReleaseAndRaise
  <2>12. CASE ReleaseAndEnd(f)
    BY <2>12 DEF ReleaseAndEnd
  <2>13. CASE GiveUp(f)
    BY <2>13 DEF GiveUp
  <2>14. CASE RaiseCancelled(f)
    BY <2>14 DEF RaiseCancelled
  <2>15. CASE Kill(f)
    BY <2>15 DEF Kill, Dead, Live
  <2>16. CASE Crash(f)
    BY <2>16 DEF Crash, Dead, Live
  <2>17. CASE CancelledWhileFailing(f)
    BY <2>17 DEF CancelledWhileFailing
  <2> QED
    BY <2>1, <2>2, <2>3, <2>4, <2>5, <2>6, <2>7, <2>8, <2>9, <2>10, <2>11, <2>12, <2>13, <2>14, <2>15, <2>16, <2>17 DEF Quiet
<1> QED
  BY <1>1, <1>2, <1>7, SessionFrame

\* What each write of a session makes of its stored execution.
LEMMA WriterEffects ==
  ASSUME OneScope, StoreInv, NEW f \in Flow
  PROVE  /\ SaveScheduled(f) => docs[KeyOf(f)] = NoDoc /\ Stores(f, "scheduled", None)
         /\ StartExecution(f) => Stores(f, "running", mem[f].doc.flow)
         /\ RecordStage(f) \/ PushResults(f) => Stores(f, mem[f].doc.status, mem[f].doc.flow)
         /\ CompleteExecution(f) => Stores(f, "completed", mem[f].doc.flow)
         /\ FailExecution(f) /\ mem[f].doc # NoDoc => Stores(f, "failed", mem[f].doc.flow)
         /\ CancelExecution(f) /\ mem[f].doc # NoDoc => Stores(f, "cancelled", mem[f].doc.flow)
<1>1. ASSUME SaveScheduled(f)
      PROVE  docs[KeyOf(f)] = NoDoc /\ Stores(f, "scheduled", None)
  <2> DEFINE m == [project |-> ProjectOf[f],
                   doc |-> [owner |-> f, status |-> "scheduled", flow |-> None, ver |-> 0]]
  <2>1. m \in [project : Project, doc : Doc] /\ Save(f, m)
    BY <1>1, ConstantsOK DEF SaveScheduled, Doc, Status
  <2>2. Drawn(f) /\ ~Stored(f)
    BY <1>1 DEF SaveScheduled, Goto, Drawn, Stored, HasModel
  <2>3. docs[KeyOf(f)] = NoDoc
    BY <2>2, OwnKey
  <2>4. Stores(f, m.doc.status, m.doc.flow)
    BY <2>1, SaveEffect
  <2> QED
    BY <2>3, <2>4
<1>2. ASSUME StartExecution(f)
      PROVE  Stores(f, "running", mem[f].doc.flow)
  <2> DEFINE m == [mem[f] EXCEPT !.doc.status = "running"]
  <2>1. Stored(f) /\ Save(f, m)
    BY <1>2 DEF StartExecution, Goto, Stored, HasModel
  <2>2. Current(f) /\ mem[f] \in [project : Project, doc : Doc]
    BY <2>1, StoredFacts
  <2>3. [mem[f].doc EXCEPT !.status = "running"] \in Doc
    BY <2>2 DEF Doc, Status
  <2>4. m = [project |-> ProjectOf[f], doc |-> [mem[f].doc EXCEPT !.status = "running"]]
    BY <2>2 DEF Current
  <2>5. m \in [project : Project, doc : Doc]
    BY <2>3, <2>4, ConstantsOK
  <2>6. m.project = ProjectOf[f] /\ m.doc.owner = f
        /\ m.doc.status = "running" /\ m.doc.flow = mem[f].doc.flow
    BY <2>2, <2>4 DEF Current, Doc
  <2> HIDE DEF m
  <2>7. Stores(f, m.doc.status, m.doc.flow)
    BY <2>1, <2>5, <2>6, SaveEffect
  <2> QED
    BY <2>6, <2>7
<1>3. ASSUME RecordStage(f) \/ PushResults(f)
      PROVE  Stores(f, mem[f].doc.status, mem[f].doc.flow)
  <2>1. Stored(f) /\ Save(f, mem[f])
    BY <1>3 DEF RecordStage, PushResults, Goto, Stored, HasModel
  <2>2. Current(f) /\ mem[f] \in [project : Project, doc : Doc]
    BY <2>1, StoredFacts
  <2> QED
    BY <2>1, <2>2, SaveEffect DEF Current
<1>4. ASSUME CompleteExecution(f)
      PROVE  Stores(f, "completed", mem[f].doc.flow)
  <2>1. Stored(f) /\ ReloadAndSave(f, "completed") /\ "completed" \in Status
    BY <1>4 DEF CompleteExecution, Goto, Stored, HasModel, Status
  <2> QED
    BY <2>1, ReloadEffect
<1>5. ASSUME FailExecution(f), mem[f].doc # NoDoc
      PROVE  Stores(f, "failed", mem[f].doc.flow)
  <2>1. Stored(f) /\ ReloadAndSave(f, "failed") /\ "failed" \in Status
    BY <1>5 DEF FailExecution, Goto, Stored, Status
  <2> QED
    BY <2>1, ReloadEffect
<1>6. ASSUME CancelExecution(f), mem[f].doc # NoDoc
      PROVE  Stores(f, "cancelled", mem[f].doc.flow)
  <2>1. Stored(f) /\ ReloadAndSave(f, "cancelled") /\ "cancelled" \in Status
    BY <1>6 DEF CancelExecution, Goto, Stored, Status
  <2> QED
    BY <2>1, ReloadEffect
<1> QED
  BY <1>1, <1>2, <1>3, <1>4, <1>5, <1>6

\* The statuses a session meets where it writes.
LEMMA StatusThere ==
  ASSUME StoreInv, NEW f \in Flow, Stored(f)
  PROVE  /\ docs[KeyOf(f)].status = mem[f].doc.status
         /\ pc[f] = "start" => mem[f].doc.status = "scheduled"
         /\ pc[f] \in {"cas", "run", "finish"} => mem[f].doc.status = "running"
         /\ pc[f] = "push" => mem[f].doc.status = "completed"
         /\ pc[f] \in {"fail", "cancel"} => mem[f].doc.status \in {"running", "completed"}
BY StoredFacts DEF StoreInv, FlowInv, ModelOf, StatusAt, Current

\* Every write of a session keeps the invariant.
LEMMA WriterStep ==
  ASSUME OneScope, StoreInv, TypeInv', FlagInv', NEW f \in Flow,
         \/ SaveScheduled(f) \/ StartExecution(f) \/ WriteNote(f) \/ RecordStage(f)
         \/ CompleteExecution(f) \/ PushResults(f)
         \/ (CancelExecution(f) \/ FailExecution(f)) /\ mem[f].doc # NoDoc
  PROVE  StoreInv'
<1> USE DEF lockVars, storeVars, sessVars, hookVars
<1>1. CASE SaveScheduled(f)
  <2>1. Drawn(f) /\ Stores(f, "scheduled", None)
    BY <1>1, WriterEffects DEF SaveScheduled, Goto, Drawn
  <2> QED
    BY <1>1, <2>1, WriterFrame DEF SaveScheduled, Goto, Status
<1>2. CASE ~SaveScheduled(f)
  <2>1. Stored(f)
    BY <1>2 DEF StartExecution, WriteNote, RecordStage, CompleteExecution, PushResults,
           CancelExecution, FailExecution, Goto, Stored, HasModel
  <2>2. Drawn(f) /\ mem[f].doc.flow \in {None, f} /\ mem[f].doc.status \in Status
    BY <2>1, StoredFacts DEF Current, Doc
  <2>3. pc[f] \in {"run", "finish", "push"} => mem[f].doc.flow = f
    BY DEF StoreInv, FlowInv, ModelOf
  <2>4. CASE StartExecution(f)
    BY <2>2, <2>4, WriterEffects, WriterFrame DEF StartExecution, Goto, Status
  <2>5. CASE WriteNote(f)
    <3>1. Stores(f, mem[f].doc.status, f) /\ pc' = [pc EXCEPT ![f] = "run"]
      BY <2>5, NoteEffect
    <3>2. mem[f].doc.status = "running"
      BY <2>1, <2>5, StatusThere DEF WriteNote
    <3> QED
      BY <2>2, <2>5, <3>1, <3>2, WriterFrame DEF WriteNote
  <2>6. CASE RecordStage(f)
    <3>1. mem[f].doc.status = "running"
      BY <2>1, <2>6, StatusThere DEF RecordStage, Goto
    <3> QED
      BY <2>2, <2>3, <2>6, <3>1, WriterEffects, WriterFrame DEF RecordStage, Goto
  <2>7. CASE CompleteExecution(f)
    BY <2>2, <2>3, <2>7, WriterEffects, WriterFrame DEF CompleteExecution, Goto, Status
  <2>8. CASE PushResults(f)
    <3>1. mem[f].doc.status = "completed"
      BY <2>1, <2>8, StatusThere DEF PushResults, Goto
    <3>2. Stores(f, "completed", mem[f].doc.flow) /\ "completed" \notin Active
      BY <2>8, <3>1, WriterEffects DEF Active
    <3>3. CASE kind[f] = "wrapper"
      BY <2>2, <2>8, <3>1, <3>2, <3>3, WriterFrame DEF PushResults, Goto
    <3>4. CASE kind[f] # "wrapper"
      BY <2>2, <2>8, <3>1, <3>2, <3>4, WriterFrame DEF PushResults, Goto
    <3> QED
      BY <3>3, <3>4
  <2>9. CASE CancelExecution(f) /\ mem[f].doc # NoDoc
    BY <2>2, <2>9, WriterEffects, WriterFrame DEF CancelExecution, Goto, Status, Active
  <2>10. CASE FailExecution(f) /\ mem[f].doc # NoDoc
    BY <2>2, <2>10, WriterEffects, WriterFrame DEF FailExecution, Goto, Status, Active
  <2> QED
    BY <1>2, <2>4, <2>5, <2>6, <2>7, <2>8, <2>9, <2>10
<1> QED
  BY <1>1, <1>2

\* The counter gives a session an id that no session at work and no document has.
LEMMA NewIdStep ==
  ASSUME OneScope, StoreInv, TypeInv', FlagInv', NEW f \in Flow, NewId(f)
  PROVE  StoreInv'
<1> DEFINE key == <<ProjectOf[f], ScopeOf[f]>>
<1>1. /\ pc[f] = "newid" /\ pc'[f] \in {"check", "setup"} /\ nextIndex[key] \in Index
      /\ UNCHANGED <<docs, kind, seen, hook, found>>
      /\ mem'[f].doc = NoDoc
      /\ \A g \in Flow \ {f} : pc'[g] = pc[g] /\ mem'[g] = mem[g] /\ id'[g] = id[g]
  BY DEF NewId, Goto, hookVars, StoreInv, TypeInv, TypeOK
<1>2. \A g \in Flow : Counter(g) \in Nat /\ Counter(g) = nextIndex[key]
                      /\ Counter(g)' = Counter(g) + 1
  <2>1. key \in Project \X Scope /\ nextIndex[key] \in Nat
    BY ConstantsOK DEF StoreInv, TypeInv, TypeOK
  <2>2. nextIndex' = [nextIndex EXCEPT ![key] = @ + 1]
    BY DEF NewId
  <2>3. nextIndex'[key] = nextIndex[key] + 1
    BY <2>1, <2>2 DEF StoreInv, TypeInv, TypeOK
  <2>4. \A g \in Flow : <<ProjectOf[g], ScopeOf[g]>> = key
    BY DEF OneScope
  <2> QED
    BY <2>1, <2>3, <2>4 DEF Counter
<1>3. Drawn(f)' => id'[f] = nextIndex[key]
  BY DEF NewId, Goto, UsesLock, Kind, Drawn, HasModel, StoreInv, TypeInv, TypeOK
<1>4. \A g \in Flow \ {f} : /\ Drawn(g)' = Drawn(g) /\ Stored(g)' = Stored(g)
                            /\ KeyOf(g)' = KeyOf(g) /\ Current(g)' = Current(g)
  BY <1>1 DEF Drawn, Stored, KeyOf, Current
<1>5. IdInv'
  <2>1. \A g \in Flow : Drawn(g) => id[g] < nextIndex[key]
    BY <1>2 DEF StoreInv, IdInv
  <2>2. \A g \in Flow : id[g] \in Nat /\ id'[g] \in Nat
    BY DEF StoreInv, TypeInv, TypeOK, Index
  <2>3. ASSUME NEW g \in Flow, Drawn(g)' PROVE id'[g] < Counter(g)'
    BY <1>1, <1>2, <1>3, <1>4, <2>1, <2>2, <2>3
  <2>4. ASSUME NEW g \in Flow, NEW h \in Flow, Drawn(g)', Drawn(h)', g # h
        PROVE  id'[g] # id'[h]
    <3>1. CASE g = f
      BY <1>1, <1>2, <1>3, <1>4, <2>1, <2>2, <2>4, <3>1
    <3>2. CASE h = f
      BY <1>1, <1>2, <1>3, <1>4, <2>1, <2>2, <2>4, <3>2
    <3>3. CASE g # f /\ h # f
      BY <1>1, <1>4, <2>4, <3>3 DEF StoreInv, IdInv
    <3> QED
      BY <3>1, <3>2, <3>3
  <2> QED
    BY <2>3, <2>4 DEF IdInv
<1>6. DocInv'
  <2> SUFFICES ASSUME NEW k \in Key, docs[k] # NoDoc
               PROVE  /\ k[1] = ProjectOf[docs[k].owner]
                      /\ k[2] < nextIndex'[<<ProjectOf[docs[k].owner], ScopeOf[docs[k].owner]>>]
                      /\ docs[k].flow \in {None, docs[k].owner}
    BY <1>1 DEF DocInv, Counter
  <2>1. docs[k].owner \in Flow /\ k[2] \in Nat
    BY DEF StoreInv, TypeInv, TypeOK, Doc, Key, Index
  <2> QED
    BY <1>2, <2>1 DEF StoreInv, DocInv, Counter
<1>7. ModelOf(f) /\ OwnerOf(f) /\ HookOf(f)
  BY DEF StoreInv, FlowInv
<1>8. ModelOf(f)'
  <2>1. ~Stored(f)' /\ pc'[f] \notin {"run", "finish", "push", "cas"}
    BY <1>1 DEF Stored, HasModel
  <2>2. ASSUME Drawn(f)' PROVE docs'[KeyOf(f)'] = NoDoc
    <3>1. KeyOf(f)' \in Key /\ KeyOf(f)'[2] = nextIndex[key]
      BY <1>3, <2>2, ConstantsOK DEF KeyOf, Key, TypeInv, TypeOK
    <3> DEFINE k == KeyOf(f)'
    <3>2. ASSUME docs[k] # NoDoc PROVE FALSE
      <4>1. docs[k].owner \in Flow
        BY <3>1, <3>2 DEF StoreInv, TypeInv, TypeOK, Doc
      <4>2. k[2] < Counter(docs[k].owner)
        BY <3>1, <3>2 DEF StoreInv, DocInv
      <4> QED
        BY <1>2, <3>1, <4>1, <4>2
    <3> QED
      BY <1>1, <3>2
  <2> QED
    BY <1>1, <2>1, <2>2 DEF ModelOf
<1>9. OwnerOf(f)' /\ HookOf(f)'
  BY <1>1, <1>7 DEF OwnerOf, HookOf, Dead
<1>10. ASSUME NEW g \in Flow \ {f} PROVE (ModelOf(g) /\ OwnerOf(g) /\ HookOf(g))'
  BY <1>1, <1>4 DEF StoreInv, FlowInv, ModelOf, OwnerOf, HookOf
<1> QED
  BY <1>5, <1>6, <1>8, <1>9, <1>10 DEF StoreInv, FlowInv

\* The note's read keeps what it found.
LEMMA ReadStep ==
  ASSUME OneScope, StoreInv, TypeInv', FlagInv', NEW f \in Flow, ReadForNote(f)
  PROVE  StoreInv'
<1>1. /\ pc[f] = "bind" /\ pc' = [pc EXCEPT ![f] = "cas"] /\ pc'[f] = "cas"
      /\ UNCHANGED <<docs, mem, kind, id, nextIndex, hook, found>>
      /\ \A g \in Flow \ {f} : seen'[g] = seen[g]
  BY DEF ReadForNote, Goto, lockVars, storeVars, hookVars, StoreInv, TypeInv, TypeOK
<1>2. Stored(f) /\ Drawn(f) /\ Drawn(f)'
  BY <1>1 DEF Stored, Drawn, HasModel
<1>3. seen'[f].project = ProjectOf[f] /\ seen'[f].doc = docs[KeyOf(f)]
  <2>1. PICK p \in FindById(id[f]) :
          seen' = [seen EXCEPT ![f] = [project |-> p, doc |-> docs[<<p, id[f]>>]]]
    BY DEF ReadForNote
  <2>2. p = ProjectOf[f]
    BY OneDocument
  <2> QED
    BY <2>1, <2>2 DEF KeyOf, StoreInv, TypeInv, TypeOK
<1>4. KeyOf(f)' = KeyOf(f) /\ Current(f)' = Current(f)
  BY <1>1 DEF KeyOf, Current
<1>5. ModelOf(f)' /\ OwnerOf(f)'
  <2>1. ModelOf(f) /\ OwnerOf(f)
    BY DEF StoreInv, FlowInv
  <2>2. ModelOf(f)'
    BY <1>1, <1>2, <1>3, <1>4, <2>1 DEF ModelOf, StatusAt, Stored, HasModel
  <2> QED
    BY <1>1, <1>4, <2>1, <2>2 DEF OwnerOf
<1> QED
  BY <1>1, <1>2, <1>5, SessionFrame DEF ProcPC, Dead

\* The hook's query finds every execution that carries the flow's id and is
\* not settled: they are all in the project the hook is asked about.
LEMMA HookFindStep ==
  ASSUME OneScope, StoreInv, TypeInv', FlagInv', NEW f \in Flow, HookFind(f)
  PROVE  StoreInv'
<1> DEFINE hits == {k \in Key : /\ k[1] = ProjectOf[f]
                                /\ docs[k].flow = f
                                /\ docs[k].status \in Active}
<1>1. /\ pc[f] \in Dead /\ found'[f] = hits
      /\ hook'[f] = IF hits = {} THEN "skipped" ELSE "mark"
      /\ UNCHANGED <<docs, mem, pc, kind, id, nextIndex, seen>>
      /\ \A g \in Flow \ {f} : hook'[g] = hook[g] /\ found'[g] = found[g]
  BY DEF HookFind, Cancelled, Dead, lockVars, storeVars, sessVars, StoreInv, TypeInv, TypeOK
<1>2. IdInv' /\ DocInv' /\ \A g \in Flow \ {f} : (ModelOf(g) /\ OwnerOf(g) /\ HookOf(g))'
  <2>1. Drawn(f)' => Drawn(f)
    BY <1>1 DEF Drawn
  <2> QED
    BY <1>1, <2>1, Frame
<1>3. \A k \in Key : docs[k].flow = f => k[1] = ProjectOf[f]
  BY ConstantsOK DEF StoreInv, DocInv, NoDoc
<1>4. HookOf(f)'
  BY <1>1, <1>3 DEF HookOf
<1>5. (ModelOf(f) /\ OwnerOf(f))'
  BY <1>1 DEF StoreInv, FlowInv, ModelOf, OwnerOf, Drawn, Stored, Current, KeyOf
<1> QED
  BY <1>2, <1>4, <1>5 DEF StoreInv, FlowInv

\* A mark settles one of them, which is the dead flow's own.
LEMMA HookMarkEffect ==
  ASSUME StoreInv, NEW f \in Flow, HookMark(f)
  PROVE  \E k \in found[f] :
           /\ k \in Key /\ docs[k] \in Doc /\ docs[k].flow = f /\ docs[k].owner = f
           /\ docs[k].status \in Active
           /\ docs'[k] \in Doc /\ docs'[k].flow = f /\ docs'[k].owner = f
           /\ docs'[k].status = "cancelled"
           /\ \A j \in Key \ {k} : docs'[j] = docs[j]
           /\ found'[f] = found[f] \ {k}
           /\ hook'[f] = IF found[f] = {k} THEN "unlock" ELSE "mark"
<1>1. PICK k \in found[f] :
        /\ docs' = [docs EXCEPT ![k].status = "cancelled"]
        /\ found' = [found EXCEPT ![f] = @ \ {k}]
        /\ hook' = [hook EXCEPT ![f] = IF found[f] = {k} THEN "unlock" ELSE "mark"]
  BY DEF HookMark
<1>2. k \in Key /\ docs[k] \in Doc
  BY DEF StoreInv, TypeInv, TypeOK, KnownDocs
<1>3. docs[k].flow = f /\ docs[k].status \in Active
  BY DEF StoreInv, FlowInv, HookOf
<1>4. docs[k].owner = f
  BY <1>2, <1>3, ConstantsOK DEF StoreInv, DocInv, NoDoc
<1> DEFINE d == [docs[k] EXCEPT !.status = "cancelled"]
<1>5. d \in Doc /\ d.flow = f /\ d.owner = f /\ d.status = "cancelled"
  BY <1>2, <1>3, <1>4 DEF Doc, Status
<1>6. docs'[k] = d /\ \A j \in Key \ {k} : docs'[j] = docs[j]
  BY <1>1, <1>2 DEF StoreInv, TypeInv, TypeOK
<1>7. found'[f] = found[f] \ {k} /\ hook'[f] = IF found[f] = {k} THEN "unlock" ELSE "mark"
  BY <1>1 DEF StoreInv, TypeInv, TypeOK
<1> HIDE DEF d
<1> QED
  BY <1>2, <1>3, <1>4, <1>5, <1>6, <1>7

LEMMA HookMarkStep ==
  ASSUME OneScope, StoreInv, TypeInv', FlagInv', NEW f \in Flow, HookMark(f)
  PROVE  StoreInv'
<1>1. PICK k \in found[f] :
           /\ k \in Key /\ docs[k] \in Doc /\ docs[k].flow = f /\ docs[k].owner = f
           /\ docs[k].status \in Active
           /\ docs'[k] \in Doc /\ docs'[k].flow = f /\ docs'[k].owner = f
           /\ docs'[k].status = "cancelled"
           /\ \A j \in Key \ {k} : docs'[j] = docs[j]
           /\ found'[f] = found[f] \ {k}
           /\ hook'[f] = IF found[f] = {k} THEN "unlock" ELSE "mark"
  BY HookMarkEffect
<1>2. /\ UNCHANGED <<nextIndex, mem, pc, kind, id, seen>>
      /\ \A g \in Flow \ {f} : hook'[g] = hook[g] /\ found'[g] = found[g]
      /\ hook[f] = "mark" /\ pc[f] \in Dead
  BY DEF HookMark, sessVars, StoreInv, TypeInv, TypeOK, FlowInv, HookOf
<1>3. \A g \in Flow : /\ Drawn(g)' = Drawn(g) /\ Stored(g)' = Stored(g)
                      /\ KeyOf(g)' = KeyOf(g) /\ Counter(g)' = Counter(g)
  BY <1>2 DEF Drawn, Stored, KeyOf, Counter
<1>4. IdInv'
  BY <1>2, <1>3 DEF StoreInv, IdInv
<1>5. DocInv'
  <2>1. docs[k] # NoDoc
    BY <1>1, ConstantsOK DEF NoDoc
  <2> QED
    BY <1>1, <1>2, <2>1 DEF StoreInv, DocInv, Counter
<1>6. ASSUME NEW g \in Flow PROVE (ModelOf(g) /\ OwnerOf(g) /\ HookOf(g))'
  <2>1. ModelOf(g) /\ OwnerOf(g) /\ HookOf(g)
    BY DEF StoreInv, FlowInv
  <2>2. ModelOf(g)'
    <3>1. Drawn(g) => g # f
      BY <1>2 DEF Drawn, HasModel, Dead
    <3>2. Drawn(g) => docs'[KeyOf(g)] = docs[KeyOf(g)]
      BY <1>1, <3>1, OwnKey, ConstantsOK
    <3>3. CASE Drawn(g)
      BY <1>2, <1>3, <2>1, <3>2, <3>3 DEF ModelOf, Current
    <3>4. CASE ~Drawn(g)
      BY <1>2, <1>3, <3>4 DEF ModelOf, Drawn, Stored, HasModel
    <3> QED
      BY <3>3, <3>4
  <2>3. OwnerOf(g)'
    BY <1>1, <1>2, <1>3, <2>1 DEF OwnerOf, Active
  <2>4. HookOf(g)'
    <3>1. found[g] \subseteq Key
      BY DEF StoreInv, TypeInv, TypeOK
    <3>2. CASE g = f
      BY <1>1, <1>2, <2>1, <3>1, <3>2 DEF HookOf, Active
    <3>3. CASE g # f
      BY <1>1, <1>2, <2>1, <3>1, <3>3 DEF HookOf
    <3> QED
      BY <3>2, <3>3
  <2> QED
    BY <2>2, <2>3, <2>4
<1> QED
  BY <1>4, <1>5, <1>6 DEF StoreInv, FlowInv

LEMMA HookUnlockStep ==
  ASSUME OneScope, StoreInv, TypeInv', FlagInv', NEW f \in Flow, HookUnlock(f)
  PROVE  StoreInv'
<1>1. /\ hook[f] = "unlock" /\ hook'[f] = "done"
      /\ UNCHANGED <<docs, mem, pc, kind, id, nextIndex, seen, found>>
      /\ \A g \in Flow \ {f} : hook'[g] = hook[g]
  BY DEF HookUnlock, storeVars, sessVars, StoreInv, TypeInv, TypeOK
<1>2. Drawn(f)' => Drawn(f)
  BY <1>1 DEF Drawn
<1>3. IdInv' /\ DocInv' /\ \A g \in Flow \ {f} : (ModelOf(g) /\ OwnerOf(g) /\ HookOf(g))'
  BY <1>1, <1>2, Frame
<1>4. (ModelOf(f) /\ OwnerOf(f) /\ HookOf(f))'
  BY <1>1 DEF StoreInv, FlowInv, ModelOf, OwnerOf, HookOf, Drawn, Stored, Current, KeyOf
<1> QED
  BY <1>3, <1>4 DEF StoreInv, FlowInv

\* A step is one of these.
LEMMA StoreStep == OneScope /\ StoreInv /\ [Next]_vars => StoreInv'
<1> SUFFICES ASSUME OneScope, StoreInv, [Next]_vars PROVE StoreInv'
  OBVIOUS
<1>1. TypeInv' /\ FlagInv'
  BY TypeStep, FlagStep DEF StoreInv, TypeInv
<1>2. ASSUME NEW f \in Flow, Begin(f) \/ Session(f) \/ Kill(f) \/ Crash(f) \/ Hook(f)
      PROVE  StoreInv'
  <2>1. CASE Quiet(f)
    BY <1>1, <2>1, QuietStep
  <2>2. CASE NewId(f)
    BY <1>1, <2>2, NewIdStep
  <2>3. CASE ReadForNote(f)
    BY <1>1, <2>3, ReadStep
  <2>4. CASE (FailExecution(f) \/ CancelExecution(f)) /\ mem[f].doc = NoDoc
    <3>1. /\ UNCHANGED <<docs, mem, kind, id, nextIndex, seen, hook, found>>
          /\ pc[f] \in {"fail", "cancel"}
          /\ pc' = [pc EXCEPT ![f] = "release"] /\ pc'[f] = "release"
      BY <2>4 DEF FailExecution, CancelExecution, Goto, hookVars, StoreInv, TypeInv, TypeOK
    <3>2. Drawn(f) /\ ~Stored(f) /\ ~Drawn(f)' /\ ~Stored(f)'
      BY <2>4, <3>1 DEF Drawn, Stored, HasModel
    <3>3. ModelOf(f)' /\ OwnerOf(f)'
      <4>1. docs[KeyOf(f)] = NoDoc
        BY <3>2, OwnKey
      <4> QED
        BY <3>1, <3>2, <4>1, ConstantsOK DEF StoreInv, FlowInv, ModelOf, OwnerOf, KeyOf, NoDoc
    <3> QED
      BY <1>1, <3>1, <3>2, <3>3, SessionFrame DEF ProcPC, Dead
  <2>5. CASE \/ SaveScheduled(f) \/ StartExecution(f) \/ WriteNote(f) \/ RecordStage(f)
             \/ CompleteExecution(f) \/ PushResults(f)
             \/ (CancelExecution(f) \/ FailExecution(f)) /\ mem[f].doc # NoDoc
    BY <1>1, <2>5, WriterStep
  <2>6. CASE Hook(f)
    BY <1>1, <2>6, HookFindStep, HookMarkStep, HookUnlockStep DEF Hook
  <2> QED
    BY <1>2, <2>1, <2>2, <2>3, <2>4, <2>5, <2>6 DEF Session, Quiet
<1>3. ASSUME UNCHANGED vars PROVE StoreInv'
  <2>1. /\ UNCHANGED <<docs, mem, pc, kind, id, nextIndex, seen, hook, found>>
    BY <1>3 DEF vars, lockVars, storeVars, sessVars, hookVars
  <2> QED
    BY <1>1, <2>1 DEF StoreInv, IdInv, DocInv, FlowInv, ModelOf, OwnerOf, HookOf,
                      Drawn, Stored, Current, KeyOf, Counter
<1> QED
  BY <1>2, <1>3 DEF Next

-----------------------------------------------------------------------------

\* Nothing is drawn or stored at the start.
LEMMA StoreInit == Init => StoreInv
<1> SUFFICES ASSUME Init PROVE StoreInv
  OBVIOUS
<1>1. TypeInv /\ FlagInv
  BY InitInv DEF IInv
<1>2. \A f \in Flow : ~Drawn(f) /\ ~Stored(f)
  BY DEF Init, Drawn, Stored, HasModel
<1>3. \A k \in Key : docs[k] = NoDoc
  BY DEF Init
<1>4. \A f \in Flow : ModelOf(f) /\ OwnerOf(f) /\ HookOf(f)
  BY <1>2, <1>3, ConstantsOK DEF Init, ModelOf, OwnerOf, HookOf, NoDoc
<1> QED
  BY <1>1, <1>2, <1>3, <1>4 DEF StoreInv, IdInv, DocInv, FlowInv

\* Flows that share a counter keep their executions apart in every reachable
\* state, and the model each has in memory current.
THEOREM StoreInvariance == ASSUME OneScope PROVE Spec => []StoreInv
<1>1. StoreInv /\ [Next]_vars => StoreInv'
  BY StoreStep
<1> QED
  BY <1>1, StoreInit, PTL DEF Spec

\* A flow run that returned or raised has settled the execution of its owner
\* session: finish, fail and cancel write what reload finds under the id.
THEOREM OwnersSettled == ASSUME OneScope PROVE Spec => []EndedOwnerSettled
<1>1. StoreInv => EndedOwnerSettled
  BY DEF StoreInv, FlowInv, OwnerOf, EndedOwnerSettled, Own
<1> QED
  BY <1>1, StoreInvariance, PTL

\* From the tasks on the stored note carries the flow run id: no save of the
\* model in memory takes out what the optimistic update wrote.
THEOREM BridgeStands == ASSUME OneScope PROVE Spec => []BridgeKept
<1>1. StoreInv => BridgeKept
  <2> SUFFICES ASSUME StoreInv, NEW f \in Flow, pc[f] \in {"run", "finish", "push"}
               PROVE  docs[KeyOf(f)].flow = f
    BY DEF BridgeKept, KeyOf
  <2>1. Stored(f)
    BY DEF Stored, HasModel
  <2> QED
    BY <2>1 DEF StoreInv, FlowInv, ModelOf, Current
<1> QED
  BY <1>1, StoreInvariance, PTL

\* A hook that is done, or that found nothing, leaves no execution with its
\* flow run id scheduled or running.
THEOREM HookLeavesNone == ASSUME OneScope PROVE Spec => []HookSettles
<1>1. StoreInv => HookSettles
  BY DEF StoreInv, FlowInv, HookOf, HookSettles, Bound
<1> QED
  BY <1>1, StoreInvariance, PTL

\* A session writes over its own execution only, from a model as new as the
\* store, and a hook only over an execution whose process is gone.
LEMMA StatusStep ==
  ASSUME OneScope, StoreInv, [Next]_vars
  PROVE  \A k \in Key : docs'[k].status # docs[k].status =>
           docs'[k].status \in NextStatus[docs[k].status]
<1> DEFINE A == \A k \in Key : docs'[k].status # docs[k].status =>
                  docs'[k].status \in NextStatus[docs[k].status]
<1> SUFFICES A
  OBVIOUS
<1>1. ASSUME NEW f \in Flow, NEW s, NEW l, Stores(f, s, l),
             docs[KeyOf(f)].status # s => s \in NextStatus[docs[KeyOf(f)].status]
      PROVE  A
  BY <1>1 DEF Stores
<1>2. ASSUME docs' = docs PROVE A
  BY <1>2
<1> HIDE DEF A
<1>3. ASSUME NEW f \in Flow, Session(f) PROVE A
  <2>1. CASE SaveScheduled(f)
    <3>1. docs[KeyOf(f)].status = "none"
      BY <2>1, WriterEffects DEF NoDoc
    <3> QED
      BY <1>1, <2>1, <3>1, WriterEffects DEF NextStatus
  <2>2. CASE StartExecution(f)
    <3>1. docs[KeyOf(f)].status = "scheduled"
      BY <2>2, StatusThere DEF StartExecution, Goto, Stored, HasModel
    <3> QED
      BY <1>1, <2>2, <3>1, WriterEffects DEF NextStatus
  <2>3. CASE WriteNote(f)
    <3>1. docs[KeyOf(f)].status = mem[f].doc.status
      BY <2>3, StatusThere DEF WriteNote, Stored, HasModel
    <3> QED
      BY <1>1, <2>3, <3>1, NoteEffect
  <2>4. CASE RecordStage(f) \/ PushResults(f)
    <3>1. docs[KeyOf(f)].status = mem[f].doc.status
      BY <2>4, StatusThere DEF RecordStage, PushResults, Goto, Stored, HasModel
    <3> QED
      BY <1>1, <2>4, <3>1, WriterEffects
  <2>5. CASE CompleteExecution(f)
    <3>1. docs[KeyOf(f)].status = "running"
      BY <2>5, StatusThere DEF CompleteExecution, Goto, Stored, HasModel
    <3> QED
      BY <1>1, <2>5, <3>1, WriterEffects DEF NextStatus
  <2>6. CASE FailExecution(f) /\ mem[f].doc # NoDoc
    <3>1. docs[KeyOf(f)].status \in {"running", "completed"}
      BY <2>6, StatusThere DEF FailExecution, Goto, Stored
    <3> QED
      BY <1>1, <2>6, <3>1, WriterEffects DEF NextStatus
  <2>7. CASE CancelExecution(f) /\ mem[f].doc # NoDoc
    <3>1. docs[KeyOf(f)].status \in {"running", "completed"}
      BY <2>7, StatusThere DEF CancelExecution, Goto, Stored
    <3> QED
      BY <1>1, <2>7, <3>1, WriterEffects DEF NextStatus
  <2>8. CASE \/ NewId(f) \/ ReadForNote(f) \/ Quiet(f)
             \/ (FailExecution(f) \/ CancelExecution(f)) /\ mem[f].doc = NoDoc
    <3>1. docs' = docs
      BY <2>8 DEF NewId, ReadForNote, Quiet, FailExecution, CancelExecution, storeVars,
           Begin, CheckLock, AcquireLock, ConnectBackend, InitFails, OpenStage,
           CloseWrapper, RunTasks, TaskRaises, PushRaises, ReleaseAndRaise,
           ReleaseAndEnd, GiveUp, RaiseCancelled, CancelledWhileFailing, Kill, Crash
    <3> QED
      BY <1>2, <3>1
  <2> QED
    BY <1>3, <2>1, <2>2, <2>3, <2>4, <2>5, <2>6, <2>7, <2>8 DEF Session, Quiet
<1>4. ASSUME NEW f \in Flow, HookMark(f) PROVE A
  <2>1. PICK k \in found[f] : /\ k \in Key /\ docs[k].status \in Active
                              /\ docs'[k].status = "cancelled"
                              /\ \A j \in Key \ {k} : docs'[j] = docs[j]
    BY <1>4, HookMarkEffect
  <2>2. docs'[k].status \in NextStatus[docs[k].status]
    BY <2>1 DEF NextStatus, Active
  <2> QED
    BY <2>1, <2>2 DEF A
<1>5. ASSUME NEW f \in Flow, Begin(f) \/ Kill(f) \/ Crash(f) \/ HookFind(f) \/ HookUnlock(f)
      PROVE  docs' = docs
  BY <1>5 DEF Begin, Kill, Crash, HookFind, HookUnlock, storeVars
<1>6. ASSUME UNCHANGED vars PROVE docs' = docs
  BY <1>6 DEF vars, storeVars
<1> QED
  BY <1>2, <1>3, <1>4, <1>5, <1>6 DEF Next, Hook

\* The stored status never leaves its lifecycle in any reachable step.
THEOREM StatusMoves == ASSUME OneScope PROVE Spec => StatusFollowsLifecycle
<1> DEFINE A == \A k \in Key : docs'[k].status # docs[k].status =>
                  docs'[k].status \in NextStatus[docs[k].status]
<1>1. StoreInv /\ [Next]_vars => [A]_vars
  BY StatusStep
<1> HIDE DEF A
<1>2. Spec => [][A]_vars
  BY <1>1, StoreInvariance, PTL DEF Spec
<1> QED
  BY <1>2 DEF A, StatusFollowsLifecycle
=============================================================================
