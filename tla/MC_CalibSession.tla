---------------------------- MODULE MC_CalibSession ----------------------------
(* Instances of CalibSession for TLC. *)
EXTENDS CalibSession, TLC

CONSTANTS f1, f2, p1, p2, s1, s2

MCProject1 == [f \in Flow |-> p1]
MCProject2 == f1 :> p1 @@ f2 :> p2
MCScope1 == [f \in Flow |-> s1]
MCScope2 == f1 :> s1 @@ f2 :> s2
=============================================================================
