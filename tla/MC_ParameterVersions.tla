-------------------------- MODULE MC_ParameterVersions --------------------------
(* Instance of ParameterVersions for TLC: two tasks that read what each of them
   measures, and a manual update of what both write. *)
EXTENDS ParameterVersions, TLC

CONSTANTS t1, t2, m1, a, b

MCInputs == t1 :> {a, b} @@ t2 :> {b} @@ m1 :> {}
MCOutputs == t1 :> {a, b} @@ t2 :> {a} @@ m1 :> {a}
=============================================================================
