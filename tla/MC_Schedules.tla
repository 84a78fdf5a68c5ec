------------------------------ MODULE MC_Schedules ------------------------------
(* Instances of Schedules for TLC: five MUXes of a 64-qubit chip. *)
EXTENDS Schedules, TLC

CONSTANTS a1, a2, b1, b2

MCQubit == {0, 1, 2, 3, 4, 6, 7, 10, 16, 17, 20}
MCPair == {<<0, 1>>, <<1, 0>>, <<0, 2>>, <<4, 6>>, <<4, 1>>, <<6, 3>>, <<3, 6>>,
           <<10, 7>>, <<2, 16>>, <<16, 2>>, <<20, 6>>, <<16, 17>>}
MCBox == a1 :> "A" @@ a2 :> "A" @@ b1 :> "B" @@ b2 :> "B"
MCTopology == {<<0, 1>>, <<0, 2>>, <<4, 6>>, <<4, 1>>, <<3, 6>>, <<10, 7>>, <<16, 2>>, <<20, 6>>, <<16, 17>>}
MCFrequency ==
  0 :> 2 @@ 1 :> 2 @@ 2 :> 1 @@ 3 :> 1 @@ 4 :> 1 @@ 6 :> 3 @@ 7 :> 2 @@ 10 :> 1 @@ 16 :> 1 @@ 17 :> 2 @@ 20 :> 0

W(ctrl, out, other) == [ctrl |-> ctrl, out |-> out, other |-> other]

\* As in the 64-qubit wirings: a pure MUX next to MIXED ones that share Box B
\* modules; one Box B module for three MUXes; and MUXes of one box each.
MCWirings ==
  {0 :> W({b1}, a1, {a1}) @@ 1 :> W({a1}, a1, {a1}) @@ 2 :> W({b2}, a2, {a2}) @@
   4 :> W({b1}, a2, {a2}) @@ 5 :> W({b2}, a1, {}),
   0 :> W({b1}, a1, {a1}) @@ 1 :> W({b1}, a2, {a1}) @@ 2 :> W({a1}, a1, {}) @@
   4 :> W({b1}, a2, {a2}) @@ 5 :> W({b2}, a1, {}),
   0 :> W({a1}, a1, {}) @@ 1 :> W({a2}, a2, {}) @@ 2 :> W({a2}, a2, {a2}) @@
   4 :> W({b1}, b1, {}) @@ 5 :> W({b2}, b2, {b2})}
MCTargets == {MCQubit, MCQubit \ {0, 4, 10}}

\* What the schedulers take for granted holds here.
ASSUME MCTaken ==
  OneModuleB /\ Wired /\ Neighbours /\ OneWay
=============================================================================
