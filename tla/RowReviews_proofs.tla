--------------------------- MODULE RowReviews_proofs ---------------------------
(***************************************************************************)
(* Theorems about RowReviews, for any number of review requests and users, *)
(* whether the API may be restarted or not.                                *)
(***************************************************************************)
EXTENDS RowReviews, TLAPS

\* The claim of a running review stands in the row until another writer's save
\* replaces it, which sets clashed.
ClaimStands == clashed \/ \A j \in Owning : doc.review \in InFlight

IInv == TypeOK /\ OneAutoReview /\ ClaimStands /\ ClaimExclusive

\* A read or a save keeps the types.
LEMMA DocTypes ==
  ASSUME TypeOK, NEW x \in Writer
  PROVE  /\ Read(x) => doc' \in Doc /\ snap' \in [Writer -> Doc] /\ clashed' \in BOOLEAN
         /\ \A new \in Doc :
              Save(x, new) => doc' \in Doc /\ snap' \in [Writer -> Doc] /\ clashed' \in BOOLEAN
<1>1. doc \in Doc /\ snap \in [Writer -> Doc] /\ Started \in Doc /\ clashed \in BOOLEAN
  BY DEF TypeOK, Doc, Started
<1>2. Read(x) => doc' \in Doc /\ snap' \in [Writer -> Doc] /\ clashed' \in BOOLEAN
  BY <1>1 DEF Read
<1>3. ASSUME NEW new \in Doc, Save(x, new)
      PROVE  doc' \in Doc /\ snap' \in [Writer -> Doc] /\ clashed' \in BOOLEAN
  <2>1. doc' \in Doc /\ snap' \in [Writer -> Doc]
    BY <1>1, <1>3 DEF Save
  <2>2. clashed' \in BOOLEAN
    BY <1>3, Zenon DEF Save
  <2> QED
    BY <2>1, <2>2
<1> QED
  BY <1>2, <1>3

\* Changing one field of a document.
LEMMA DocFields ==
  ASSUME NEW d \in Doc
  PROVE  /\ [d EXCEPT !.status = "completed"] \in Doc
         /\ [d EXCEPT !.status = "failed"] \in Doc
         /\ [d EXCEPT !.review = "requested"] \in Doc
         /\ [d EXCEPT !.review = "running"] \in Doc
         /\ [d EXCEPT !.review = "failed"] \in Doc
         /\ [d EXCEPT !.review = "completed", !.text = TRUE] \in Doc
         /\ [d EXCEPT !.status = "failed"].review = d.review
         /\ [d EXCEPT !.review = "requested"].review = "requested"
         /\ [d EXCEPT !.review = "running"].review = "running"
BY DEF Doc

\* A save that leaves the claims of the other reviews alone, or clashes.
LEMMA SaveKeepsClaims ==
  ASSUME IInv, NEW x \in Writer, NEW new \in Doc, Save(x, new),
         \A j \in Owning' : j \in Owning /\ (j = x => new.review \in InFlight)
  PROVE  ClaimStands' /\ ClaimExclusive'
<1>1. /\ doc' = new
      /\ clashed' = (clashed \/ doc # snap[x]
                     \/ (Owning \ {x} # {} /\ new.review # doc.review))
  BY DEF Save
<1>2. ASSUME ~clashed' PROVE ~clashed /\ \A j \in Owning' : new.review \in InFlight
  <2>1. ~clashed
    BY <1>1, <1>2
  <2>2. ASSUME NEW j \in Owning' PROVE new.review \in InFlight
    <3>1. CASE j = x
      BY <3>1
    <3>2. CASE j # x
      <4>1. doc.review \in InFlight
        BY <2>1 DEF IInv, ClaimStands
      <4>2. new.review = doc.review
        BY <1>1, <1>2, <3>2
      <4> QED
        BY <4>1, <4>2
    <3> QED
      BY <3>1, <3>2
  <2> QED
    BY <2>1, <2>2
<1>3. ClaimStands'
  BY <1>1, <1>2 DEF ClaimStands, InFlight
<1>4. ClaimExclusive'
  BY <1>2 DEF IInv, ClaimExclusive
<1> QED
  BY <1>3, <1>4

\* A step that stores nothing in the row and lets no job own the review.
LEMMA NoStoreKeepsClaims ==
  ASSUME IInv, UNCHANGED <<doc, clashed>>, Owning' \subseteq Owning
  PROVE  ClaimStands' /\ ClaimExclusive'
BY DEF IInv, ClaimStands, ClaimExclusive, InFlight

LEMMA InvInit == Init => IInv
<1> SUFFICES ASSUME Init PROVE IInv
  OBVIOUS
<1>1. Started \in Doc
  BY DEF Started, Doc
<1>2. TypeOK
  BY <1>1 DEF Init, TypeOK, AutoPC, JobPC
<1>3. OneAutoReview
  BY DEF Init, OneAutoReview
<1>4. Owning = {}
  BY DEF Init, Owning
<1> QED
  BY <1>2, <1>3, <1>4 DEF IInv, ClaimStands, ClaimExclusive

LEMMA InvStep == IInv /\ [Next]_vars => IInv'
<1> SUFFICES ASSUME IInv, [Next]_vars PROVE IInv'
  OBVIOUS
<1> USE ReviewConstants
<1>a. TypeOK /\ doc \in Doc /\ snap \in [Writer -> Doc] /\ OneAutoReview
  BY DEF IInv, TypeOK
<1>b. ASSUME UNCHANGED <<marker, auto>> PROVE OneAutoReview'
  BY <1>a, <1>b DEF OneAutoReview
<1>c. ASSUME UNCHANGED job PROVE Owning' = Owning
  BY <1>c DEF Owning
<1>1. CASE RecordRead
  <2>1. Recorder \in Writer
    BY DEF Writer
  <2>2. Read(Recorder) /\ wpc' = "record" /\ UNCHANGED <<doc, clashed, marker, auto, job, user>>
    BY <1>1 DEF RecordRead, Read
  <2>3. TypeOK'
    BY <1>a, <2>1, <2>2, DocTypes DEF TypeOK
  <2> QED
    BY <1>b, <1>c, <2>2, <2>3, NoStoreKeepsClaims DEF IInv
<1>2. CASE RecordSave
  <2> DEFINE new == [snap[Recorder] EXCEPT !.status = "completed"]
  <2>1. Recorder \in Writer /\ Recorder \notin Job /\ new \in Doc
    BY <1>a, DocFields DEF Writer
  <2>2. Save(Recorder, new) /\ wpc' = "enqueue1" /\ UNCHANGED <<marker, auto, job, user>>
    BY <1>2 DEF RecordSave
  <2>3. TypeOK'
    BY <1>a, <2>1, <2>2, DocTypes DEF TypeOK
  <2>4. \A j \in Owning' : j \in Owning /\ j # Recorder
    BY <1>c, <2>1, <2>2 DEF Owning
  <2>5. ClaimStands' /\ ClaimExclusive'
    BY <2>1, <2>2, <2>4, SaveKeepsClaims
  <2> QED
    BY <1>b, <2>2, <2>3, <2>5 DEF IInv
<1>3. CASE EnqueueReview
  <2>1. UNCHANGED <<doc, snap, job, user, clashed>> /\ wpc' \in {"enqueue2", "over"}
    BY <1>3 DEF EnqueueReview, AfterEnqueue
  <2>2. \/ UNCHANGED <<marker, auto>>
        \/ ~marker /\ marker' = TRUE /\ auto' = [auto EXCEPT ![Call] = "queued"]
    BY <1>3 DEF EnqueueReview
  <2>3. Call \in Enqueue
    BY DEF Call, Enqueue
  <2>4. TypeOK'
    BY <1>a, <2>1, <2>2, <2>3 DEF TypeOK, AutoPC
  <2>5. OneAutoReview'
    BY <1>a, <1>b, <2>2, <2>3 DEF OneAutoReview, TypeOK
  <2> QED
    BY <1>c, <2>1, <2>4, <2>5, NoStoreKeepsClaims DEF IInv
<1>4. CASE SubmitRaises
  <2>1. UNCHANGED <<doc, snap, marker, auto, job, user, clashed>> /\ wpc' \in {"enqueue2", "over"}
    BY <1>4 DEF SubmitRaises, AfterEnqueue
  <2>2. TypeOK'
    BY <1>a, <2>1 DEF TypeOK
  <2> QED
    BY <1>b, <1>c, <2>1, <2>2, NoStoreKeepsClaims DEF IInv
<1>5. CASE Finalize
  <2>1. /\ doc' = [doc EXCEPT !.status = "failed"]
        /\ UNCHANGED <<snap, wpc, marker, auto, job, user, clashed>>
    BY <1>5 DEF Finalize
  <2>2. doc' \in Doc /\ doc'.review = doc.review
    BY <1>a, <2>1, DocFields
  <2>3. TypeOK'
    BY <1>a, <2>1, <2>2 DEF TypeOK
  <2>4. ClaimStands' /\ ClaimExclusive'
    BY <1>c, <2>1, <2>2 DEF IInv, ClaimStands, ClaimExclusive, InFlight
  <2> QED
    BY <1>b, <2>1, <2>3, <2>4 DEF IInv
<1>6. ASSUME NEW e \in Enqueue, AutoRun(e) PROVE IInv'
  <2>1. PICK l \in {"note", "fail", "over"} :
          /\ auto[e] = "queued" /\ auto' = [auto EXCEPT ![e] = l]
          /\ marker' = (marker /\ l # "over")
    BY <1>6 DEF AutoRun, AutoOutcome, AutoGoto
  <2>2. UNCHANGED <<doc, snap, wpc, job, user, clashed>>
    BY <1>6 DEF AutoRun
  <2>3. marker' \in BOOLEAN
    BY <2>1, Zenon
  <2>4. TypeOK'
    BY <1>a, <2>1, <2>2, <2>3 DEF TypeOK, AutoPC
  <2>5. OneAutoReview'
    BY <1>a, <2>1 DEF OneAutoReview, TypeOK
  <2> QED
    BY <1>c, <2>2, <2>4, <2>5, NoStoreKeepsClaims DEF IInv
<1>7. ASSUME NEW e \in Enqueue, AutoRead(e) PROVE IInv'
  <2>1. e \in Writer
    BY DEF Writer
  <2>2. /\ Read(e) /\ UNCHANGED <<doc, clashed, wpc, marker, job, user>>
        /\ auto[e] \in {"note", "fail"}
        /\ auto' = [auto EXCEPT ![e] = IF auto[e] = "note" THEN "noted" ELSE "failing"]
    BY <1>7 DEF AutoRead, Read, AutoGoto
  <2>3. TypeOK'
    BY <1>a, <2>1, <2>2, DocTypes DEF TypeOK, AutoPC
  <2>4. OneAutoReview'
    BY <1>a, <2>2 DEF OneAutoReview, TypeOK
  <2> QED
    BY <1>c, <2>2, <2>3, <2>4, NoStoreKeepsClaims DEF IInv
<1>8. ASSUME NEW e \in Enqueue, AutoSave(e) PROVE IInv'
  <2>1. e \in Writer /\ e \notin Job
    BY DEF Writer
  <2>2. /\ auto[e] \in {"noted", "failing"} /\ auto' = [auto EXCEPT ![e] = "over"]
        /\ marker' = FALSE /\ UNCHANGED <<wpc, job, user>>
    BY <1>8 DEF AutoSave, AutoGoto
  <2>3. PICK new \in Doc : Save(e, new)
    BY <1>8, <1>a, <2>1, DocFields DEF AutoSave
  <2>4. TypeOK'
    BY <1>a, <2>1, <2>2, <2>3, DocTypes DEF TypeOK, AutoPC
  <2>5. OneAutoReview'
    BY <1>a, <2>2 DEF OneAutoReview, TypeOK
  <2>6. \A j \in Owning' : j \in Owning /\ j # e
    BY <1>c, <2>1, <2>2 DEF Owning
  <2>7. ClaimStands' /\ ClaimExclusive'
    BY <2>1, <2>3, <2>6, SaveKeepsClaims
  <2> QED
    BY <2>4, <2>5, <2>7 DEF IInv
<1>9. ASSUME NEW j \in Job, Find(j) PROVE IInv'
  <2>1. /\ job[j] = "find" /\ job' = [job EXCEPT ![j] = "claim"]
        /\ UNCHANGED <<doc, snap, wpc, marker, auto, user, clashed>>
    BY <1>9 DEF Find, JobGoto
  <2>2. TypeOK' /\ Owning' \subseteq Owning
    BY <1>a, <2>1 DEF TypeOK, JobPC, Owning
  <2> QED
    BY <1>b, <2>1, <2>2, NoStoreKeepsClaims DEF IInv
<1>10. ASSUME NEW j \in Job, Claim(j) PROVE IInv'
  <2>1. job[j] = "claim" /\ UNCHANGED <<snap, wpc, marker, auto, user, clashed>>
    BY <1>10 DEF Claim
  <2>2. CASE doc.review \in InFlight /\ JobGoto(j, "over") /\ UNCHANGED doc
    <3>1. TypeOK' /\ Owning' \subseteq Owning
      BY <1>a, <2>1, <2>2 DEF TypeOK, JobPC, Owning, JobGoto
    <3> QED
      BY <1>b, <2>1, <2>2, <3>1, NoStoreKeepsClaims DEF IInv
  <2>3. CASE doc.review \notin InFlight /\ ClaimAndSubmit(j)
    <3>1. PICK l \in {"start", "fail"} : job' = [job EXCEPT ![j] = l]
      BY <2>3 DEF ClaimAndSubmit, JobGoto
    <3>2. doc' \in Doc /\ doc'.review = "requested"
      BY <1>a, <2>3, DocFields DEF ClaimAndSubmit
    <3>3. TypeOK' /\ Owning' = Owning \cup {j}
      BY <1>a, <2>1, <3>1, <3>2 DEF TypeOK, JobPC, Owning
    <3>4. clashed \/ Owning = {}
      BY <2>3 DEF IInv, ClaimStands
    <3>5. ClaimStands' /\ ClaimExclusive'
      BY <2>1, <3>2, <3>3, <3>4 DEF ClaimStands, ClaimExclusive, InFlight
    <3> QED
      BY <1>b, <2>1, <3>3, <3>5 DEF IInv
  <2> QED
    BY <1>10, <2>2, <2>3 DEF Claim
<1>11. ASSUME NEW j \in Job, JobRead(j) PROVE IInv'
  <2>1. j \in Writer
    BY DEF Writer
  <2>2. PICK l \in {"starting", "noted", "failing"} : job' = [job EXCEPT ![j] = l]
    BY <1>11 DEF JobRead, JobGoto
  <2>3. /\ Read(j) /\ UNCHANGED <<doc, clashed, wpc, marker, auto, user>>
        /\ job[j] \in {"start", "note", "fail"}
    BY <1>11 DEF JobRead, Read
  <2>4. TypeOK'
    BY <1>a, <2>1, <2>2, <2>3, DocTypes DEF TypeOK, JobPC
  <2>5. Owning' \subseteq Owning
    BY <1>a, <2>2, <2>3 DEF TypeOK, Owning
  <2> QED
    BY <1>b, <2>3, <2>4, <2>5, NoStoreKeepsClaims DEF IInv
<1>12. ASSUME NEW j \in Job, JobSave(j) PROVE IInv'
  <2>1. j \in Writer /\ UNCHANGED <<wpc, marker, auto, user>>
    BY <1>12 DEF Writer, JobSave
  <2>2. CASE /\ job[j] = "starting" /\ Save(j, [snap[j] EXCEPT !.review = "running"])
             /\ \E l \in {"note", "fail"} : JobGoto(j, l)
    <3> DEFINE new == [snap[j] EXCEPT !.review = "running"]
    <3>1. new \in Doc /\ new.review \in InFlight
      BY <1>a, <2>1, DocFields DEF InFlight
    <3>2. TypeOK'
      BY <1>a, <2>1, <2>2, <3>1, DocTypes DEF TypeOK, JobPC, JobGoto
    <3>3. Owning' \subseteq Owning
      BY <1>a, <2>2 DEF TypeOK, Owning, JobGoto
    <3>4. ClaimStands' /\ ClaimExclusive'
      BY <2>1, <2>2, <3>1, <3>3, SaveKeepsClaims
    <3> QED
      BY <1>b, <2>1, <3>2, <3>4 DEF IInv
  <2>3. CASE JobStore(j) /\ JobGoto(j, "over")
    <3>1. PICK new \in Doc : Save(j, new)
      BY <1>a, <2>1, <2>3, DocFields DEF JobStore
    <3>2. TypeOK'
      BY <1>a, <2>1, <2>3, <3>1, DocTypes DEF TypeOK, JobPC, JobGoto
    <3>3. \A i \in Owning' : i \in Owning /\ i # j
      BY <1>a, <2>3 DEF TypeOK, Owning, JobGoto
    <3>4. ClaimStands' /\ ClaimExclusive'
      BY <2>1, <3>1, <3>3, SaveKeepsClaims
    <3> QED
      BY <1>b, <2>1, <3>2, <3>4 DEF IInv
  <2> QED
    BY <1>12, <2>2, <2>3 DEF JobSave
<1>13. CASE ApiDies
  <2>1. UNCHANGED <<doc, wpc, marker, auto, user, clashed>>
    BY <1>13 DEF ApiDies
  <2>2. /\ job' = [j \in Job |-> IF j \in Owning THEN "dead" ELSE job[j]]
        /\ snap' = [x \in Writer |-> IF x \in Owning THEN Started ELSE snap[x]]
    BY <1>13 DEF ApiDies
  <2>3. Started \in Doc
    BY DEF Started, Doc
  <2>4. TypeOK' /\ Owning' \subseteq Owning
    BY <1>a, <2>1, <2>2, <2>3 DEF TypeOK, JobPC, Owning
  <2> QED
    BY <1>b, <2>1, <2>4, NoStoreKeepsClaims DEF IInv
<1>14. ASSUME NEW u \in User, UserRead(u) PROVE IInv'
  <2>1. u \in Writer
    BY DEF Writer
  <2>2. Read(u) /\ user' = [user EXCEPT ![u] = "save"]
        /\ UNCHANGED <<doc, clashed, wpc, marker, auto, job>>
    BY <1>14 DEF UserRead, Read
  <2>3. TypeOK'
    BY <1>a, <2>1, <2>2, DocTypes DEF TypeOK
  <2> QED
    BY <1>b, <1>c, <2>2, <2>3, NoStoreKeepsClaims DEF IInv
<1>15. ASSUME NEW u \in User, UserSave(u) PROVE IInv'
  <2>1. u \in Writer /\ u \notin Job /\ snap[u] \in Doc
    BY <1>a DEF Writer
  <2>2. Save(u, snap[u]) /\ user' = [user EXCEPT ![u] = "over"]
        /\ UNCHANGED <<wpc, marker, auto, job>>
    BY <1>15 DEF UserSave
  <2>3. TypeOK'
    BY <1>a, <2>1, <2>2, DocTypes DEF TypeOK
  <2>4. \A j \in Owning' : j \in Owning /\ j # u
    BY <1>c, <2>1, <2>2 DEF Owning
  <2>5. ClaimStands' /\ ClaimExclusive'
    BY <2>1, <2>2, <2>4, SaveKeepsClaims
  <2> QED
    BY <1>b, <2>2, <2>3, <2>5 DEF IInv
<1>16. CASE UNCHANGED vars
  <2>1. TypeOK'
    BY <1>a, <1>16 DEF vars, TypeOK
  <2> QED
    BY <1>b, <1>c, <1>16, <2>1, NoStoreKeepsClaims DEF vars, IInv
<1>17. CASE Worker \/ SubmitRaises \/ Finalize
  BY <1>1, <1>2, <1>3, <1>4, <1>5, <1>17 DEF Worker
<1>18. CASE \E e \in Enqueue : AutoReview(e)
  BY <1>6, <1>7, <1>8, <1>18 DEF AutoReview
<1>19. CASE \E j \in Job : Find(j) \/ Claim(j) \/ Review(j)
  BY <1>9, <1>10, <1>11, <1>12, <1>19 DEF Review
<1>20. CASE \E u \in User : UserRead(u) \/ UserSave(u)
  BY <1>14, <1>15, <1>20
<1> QED
  BY <1>13, <1>16, <1>17, <1>18, <1>19, <1>20 DEF Next

\* The inductive invariant holds in every reachable state.
THEOREM Invariance == Spec => []IInv
BY InvInit, InvStep, PTL DEF Spec

\* Every variable keeps its type: no writer stores a status no reader knows.
THEOREM TypeCorrect == Spec => []TypeOK
<1>1. IInv => TypeOK
  BY DEF IInv
<1> QED
  BY <1>1, Invariance, PTL

\* The worker never runs two reviews of a task, and its mark is set while one runs.
THEOREM AutoReviewAlone == Spec => []OneAutoReview
<1>1. IInv => OneAutoReview
  BY DEF IInv
<1> QED
  BY <1>1, Invariance, PTL

\* Two reviews of a row run in the API only after a clash of whole-document saves.
THEOREM ClaimsExclude == Spec => []ClaimExclusive
<1>1. IInv => ClaimExclusive
  BY DEF IInv
<1> QED
  BY <1>1, Invariance, PTL
=============================================================================
