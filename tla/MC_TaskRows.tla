------------------------------ MODULE MC_TaskRows ------------------------------
(* Instance of TaskRows for TLC: a synchronized schedule with two steps.  The worker
   of the first has a MUX-level task whose result is validated, that of the second a
   task on another qubit of the MUX.  A row is annotated or excluded, and a user edits
   that qubit. *)
EXTENDS TaskRows, TLC

CONSTANTS w1, w2, r1, d1, r2, q1, q2, p1, p2, e1, n1

MCWorkerOf == r1 :> w1 @@ d1 :> w1 @@ r2 :> w2
MCStageOf == w1 :> 1 @@ w2 :> 2
MCQubitOf == r1 :> q1 @@ d1 :> q2 @@ r2 :> q2
MCParamOf == r1 :> p1 @@ d1 :> p1 @@ r2 :> p2
MCMux == r1 :> {d1} @@ d1 :> {} @@ r2 :> {}
MCEditQubit == e1 :> q2
MCEditParam == e1 :> p2
=============================================================================
