------------------------------- MODULE Schedules -------------------------------
(***************************************************************************)
(* The two calibration schedulers and the execution of their schedules.    *)
(* OneQubitScheduler splits qubits into stages by the boxes their MUX is   *)
(* wired to; CRScheduler directs the couplings of the qubits that passed,  *)
(* colours the graph of their conflicts and cuts each colour into groups.  *)
(* Either schedule is a set of items <<what, slot>>: the flow runs the     *)
(* slots one after the other, the items of a slot in parallel.             *)
(***************************************************************************)
EXTENDS Integers, Sequences, FiniteSets, FiniteSetsExt

CONSTANTS
  Qubit,      \* qubit ids; MUX N controls the qubits 4N .. 4N + 3
  Pair,       \* <<control, target>>: the couplings stored for the chip
  Module,     \* hardware modules
  BoxOf,      \* [Module -> {"A", "B", "?"}]: the last letter of the module's name
  Wirings,    \* wiring.yaml: MUX -> [ctrl, out, other], for the MUXes it lists
  Targets,    \* sets of qubits a flow may be asked to calibrate
  GridSize,   \* 8 or 12 qubits in a row
  Topology,   \* directed couplings of the chip's topology
  Frequency,  \* measured frequencies; 0 when there is none
  MaxOps      \* max_parallel_ops

MuxOf(q) == q \div 4
Mux == {MuxOf(q) : q \in Qubit}

ASSUME ScheduleConstants ==
  /\ Qubit \subseteq Nat /\ IsFiniteSet(Qubit)
  /\ Pair \subseteq {p \in Qubit \X Qubit : p[1] # p[2]}
  /\ BoxOf \in [Module -> {"A", "B", "?"}]
  /\ \A w \in Wirings :
       /\ DOMAIN w \subseteq Mux
       /\ \A m \in DOMAIN w : /\ w[m].ctrl \subseteq Module /\ w[m].out \in Module
                              /\ w[m].other \subseteq Module
  /\ Targets \subseteq SUBSET Qubit
  /\ GridSize \in {8, 12} /\ MaxOps \in Nat \ {0}
  /\ Topology \subseteq Qubit \X Qubit /\ Frequency \in [Qubit -> Nat]

VARIABLES
  wiring,    \* the wiring the schedulers have loaded
  qids,      \* the qubits to calibrate
  mode,      \* the one-qubit strategy
  phase,     \* what the flow does
  uncoloured, \* couplings the colouring has not reached
  colour,    \* the colours given so far
  left,      \* items not started
  running,   \* items being calibrated
  ran        \* how often each qubit and coupling was calibrated

vars == <<wiring, qids, mode, phase, uncoloured, colour, left, running, ran>>
inputs == <<wiring, qids, mode>>

One(q) == <<q>>
Things == {One(q) : q \in Qubit} \cup Pair

TypeOK ==
  /\ wiring \in Wirings /\ qids \in Targets
  /\ mode \in {"scheduled", "synchronized"}
  /\ phase \in {"one", "candidates", "colour", "two", "over", "aborted"}
  /\ uncoloured \subseteq Pair
  /\ colour \in [Pair -> -1..Cardinality(Pair)]
  /\ left \cup running \subseteq Things \X Nat /\ left \cap running = {}
  /\ phase = "two" => Cardinality(running) <= MaxOps
  /\ ran \in [Things -> 0..2]

-----------------------------------------------------------------------------
(* Wiring *)

Mapped(q) == MuxOf(q) \in DOMAIN wiring
Boxes(m) == {BoxOf[x] : x \in wiring[m].ctrl \cup {wiring[m].out} \cup wiring[m].other} \ {"?"}

\* _get_qubit_box_type: no MUX, no box or both boxes count as MIXED.
BoxType(q) ==
  IF Mapped(q) /\ Cardinality(Boxes(MuxOf(q))) = 1
  THEN CHOOSE b \in Boxes(MuxOf(q)) : TRUE ELSE "MIXED"

\* build_mux_conflict_map: two MUXes share their readout module or a control module.
\* Faulty: the map is filled in one direction.
MuxConflictOneWay(m, n) ==
  /\ m < n
  /\ wiring[m].out = wiring[n].out \/ wiring[m].ctrl \cap wiring[n].ctrl # {}

MuxConflict(m, n) ==
  /\ m # n
  /\ wiring[m].out = wiring[n].out \/ wiring[m].ctrl \cap wiring[n].ctrl # {}

-----------------------------------------------------------------------------
(* The one-qubit schedule *)

MixedMuxes == {MuxOf(q) : q \in {r \in qids : Mapped(r) /\ BoxType(r) = "MIXED"}}
BoxB == {x \in Module : BoxOf[x] = "B"}
Sharing(x) == {m \in MixedMuxes : x \in wiring[m].ctrl}

\* Faulty: every MIXED MUX is put in the first group.
MixedGroupsFirst(m) == {0}

\* _group_mixed_muxes_by_box_b: a MUX goes to the groups of its positions among
\* the MUXes that share its Box B modules; without any such module at all there
\* is one group.
MixedGroups(m) ==
  IF \A x \in BoxB : Sharing(x) = {} THEN {0}
  ELSE {Cardinality({n \in Sharing(x) : n < m}) : x \in {y \in BoxB : m \in Sharing(y)}}

\* Stage 0 is Box A, stage 1 Box B, the MIXED groups follow.  A qubit without a
\* MUX in the wiring is in none.
Stages(q) ==
  CASE BoxType(q) = "A" -> {0}
    [] BoxType(q) = "B" -> {1}
    [] OTHER -> IF Mapped(q) THEN {2 + g : g \in MixedGroups(MuxOf(q))} ELSE {}

\* CheckerboardOrderingStrategy: MUXes with an odd id start with their lower row.
\* Faulty: every MUX uses the same order, rotated by its id.
StepRotated(q) == (q + MuxOf(q)) % 4
Step(q) == IF MuxOf(q) % 2 = 0 THEN q % 4 ELSE (q + 2) % 4

\* generate: one slot per stage.  generate_synchronized: four steps per stage.
OneQubitSlot(q, s) == 4 * s + IF mode = "synchronized" THEN Step(q) ELSE 0
OneQubitItems == UNION {{<<One(q), OneQubitSlot(q, s)>> : s \in Stages(q)} : q \in qids}

-----------------------------------------------------------------------------
(* The CR schedule *)

\* qid_to_coords.
MuxRow == GridSize \div 2
Row(q) == 2 * (MuxOf(q) \div MuxRow) + ((q % 4) \div 2)
Col(q) == 2 * (MuxOf(q) % MuxRow) + (q % 2)
Parity(q) == (Row(q) + Col(q)) % 2

\* Faulty: equal frequencies are accepted in both directions.
DirectedOrEqual(p, source, inverse) ==
  LET f == Frequency[p[1]]  g == Frequency[p[2]] IN
  CASE source = "topology" -> (IF inverse THEN <<p[2], p[1]>> ELSE p) \in Topology
    [] source = "design" -> (Parity(p[1]) < Parity(p[2])) # inverse
    [] source = "measured" -> f # 0 /\ g # 0 /\ (IF inverse THEN f >= g ELSE f <= g)

\* The control qubit has the lower frequency, by the topology's couplings, the
\* checkerboard design or the measured frequencies; inverse turns the pair round.
Directed(p, source, inverse) ==
  LET f == Frequency[p[1]]  g == Frequency[p[2]] IN
  CASE source = "topology" -> (IF inverse THEN <<p[2], p[1]>> ELSE p) \in Topology
    [] source = "design" -> (Parity(p[1]) < Parity(p[2])) # inverse
    [] source = "measured" -> f # 0 /\ g # 0 /\ (IF inverse THEN f > g ELSE f < g)

Selected(candidates, source, inverse) ==
  {p \in Pair : /\ p[1] \in candidates /\ p[2] \in candidates
                /\ Directed(p, source, inverse)
                /\ Mapped(p[1]) /\ Mapped(p[2])}

Muxes(p) == {MuxOf(p[1]), MuxOf(p[2])}
Intra(p) == MuxOf(p[1]) = MuxOf(p[2])

\* The edges of the graph: a shared qubit or MUX, or MUXes that conflict.
Conflict(p, r) ==
  \/ Muxes(p) \cap Muxes(r) # {}
  \/ \E m \in Muxes(p), n \in Muxes(r) : MuxConflict(m, n)

\* Intra-MUX and inter-MUX pairs are coloured apart.
Coloured(p) == {r \in Pair : colour[r] # -1 /\ (Intra(r) <=> Intra(p))}

LeastColour(p) ==
  Min({c \in 0..Cardinality(Pair) : \A r \in Coloured(p) : Conflict(p, r) => colour[r] # c})

\* Faulty: the colours are not cut into chunks.
SlotUncut(p, c) ==
  LET n == Cardinality(Pair) + 1
  IN  ((IF Intra(p) THEN 0 ELSE n) + c) * n

\* Intra-MUX groups come first, then by colour; a colour is cut, in the order it
\* was given, into chunks of max_parallel_ops.
Slot(p, c) ==
  LET n == Cardinality(Pair) + 1
      position == Cardinality({r \in Coloured(p) : colour[r] = c})
  IN  ((IF Intra(p) THEN 0 ELSE n) + c) * n + position \div MaxOps

-----------------------------------------------------------------------------
(* The flow *)

Init ==
  /\ wiring \in Wirings /\ qids \in Targets
  /\ mode \in {"scheduled", "synchronized"}
  /\ phase = "one"
  /\ uncoloured = {} /\ colour = [p \in Pair |-> -1]
  /\ left = OneQubitItems /\ running = {}
  /\ ran = [t \in Things |-> 0]

\* A slot starts when the one before is over.  The qubits of a MUX are calibrated
\* one after the other, also when the flow has ended around them.
Start(i) ==
  /\ i \in left /\ \A j \in left : i[2] <= j[2]
  /\ \A j \in running : j[2] = i[2]
  /\ Len(i[1]) = 1 =>
       /\ \A j \in running : MuxOf(j[1][1]) # MuxOf(i[1][1])
       /\ \A j \in left : j[2] = i[2] /\ MuxOf(j[1][1]) = MuxOf(i[1][1]) => i[1][1] <= j[1][1]
  /\ left' = left \ {i} /\ running' = running \cup {i}
  /\ UNCHANGED <<inputs, phase, uncoloured, colour, ran>>

Finish(i) ==
  /\ i \in running
  /\ running' = running \ {i}
  /\ ran' = [ran EXCEPT ![i[1]] = @ + 1]
  /\ UNCHANGED <<inputs, phase, uncoloured, colour, left>>

\* A worker process dies: its future raises in the flow, which ends.  The later
\* slots and the rest of the worker's MUX are lost; what else of the slot has been
\* submitted goes on, or dies with the cluster.
WorkerDies(i) ==
  /\ i \in running
  /\ running' = running \ {i} /\ phase' = "aborted"
  /\ left' = {j \in left : /\ j[2] = i[2]
                           /\ Len(i[1]) = 1 => MuxOf(j[1][1]) # MuxOf(i[1][1])}
  /\ UNCHANGED <<inputs, uncoloured, colour, ran>>

\* The qubits that passed are the candidates of the CR schedule; without a pair
\* generate raises ValueError.
Generate ==
  /\ phase = "one" /\ left = {} /\ running = {}
  /\ \E candidates \in SUBSET qids, inverse \in BOOLEAN,
        source \in {"topology", "design", "measured"} :
       uncoloured' = Selected(candidates, source, inverse)
  /\ phase' = IF uncoloured' = {} THEN "over" ELSE "colour"
  /\ UNCHANGED <<inputs, colour, left, running, ran>>

\* One step of networkx's greedy_color, in the order of any strategy.
Colour(p) ==
  /\ phase = "colour" /\ p \in uncoloured
  /\ Intra(p) \/ \A r \in uncoloured : ~Intra(r)
  /\ LET c == LeastColour(p) IN
       /\ colour' = [colour EXCEPT ![p] = c]
       /\ left' = left \cup {<<p, Slot(p, c)>>}
  /\ uncoloured' = uncoloured \ {p}
  /\ phase' = IF uncoloured' = {} THEN "two" ELSE phase
  /\ UNCHANGED <<inputs, running, ran>>

End ==
  /\ phase = "two" /\ left = {} /\ running = {}
  /\ phase' = "over"
  /\ UNCHANGED <<inputs, uncoloured, colour, left, running, ran>>

Done == phase \in {"over", "aborted"} /\ running = {} /\ UNCHANGED vars

Next ==
  \/ \E i \in left : phase # "colour" /\ Start(i)
  \/ \E i \in running : Finish(i) \/ WorkerDies(i)
  \/ Generate \/ End \/ Done
  \/ \E p \in uncoloured : Colour(p)

Spec == Init /\ [][Next]_vars

-----------------------------------------------------------------------------
(* What the schedulers take for granted *)

\* mux_to_box_b gives a MIXED MUX one Box B module: of the control modules of a
\* MUX that is wired to Box A, at most one is in Box B.  With two, the MUX is put
\* in the groups of both and may meet another one's module there.
Modules(w, m) == w[m].ctrl \cup {w[m].out} \cup w[m].other
OneModuleB ==
  \A w \in Wirings : \A m \in DOMAIN w :
    (\E x \in Modules(w, m) : BoxOf[x] = "A") =>
      \A x, y \in w[m].ctrl \cap BoxB : x = y

\* Every MUX of a target qubit is listed, and is wired to a Box B control module
\* or to one box only: otherwise the qubit may be in no stage.
Wired ==
  \A w \in Wirings : \A T \in Targets : \A q \in T :
    /\ MuxOf(q) \in DOMAIN w
    /\ \/ w[MuxOf(q)].ctrl \cap BoxB # {}
       \/ \E x \in Modules(w, MuxOf(q)) :
            BoxOf[x] # "?" /\ \A y \in Modules(w, MuxOf(q)) : BoxOf[y] \in {BoxOf[x], "?"}

\* Couplings join neighbours of the checkerboard, ...
Neighbours == \A p \in Pair : Parity(p[1]) # Parity(p[2])

\* ... and a topology has one direction for each.
OneWay == \A e \in Topology : <<e[2], e[1]>> \notin Topology

-----------------------------------------------------------------------------
(* Properties *)

Adjacent(q, r) ==
  \/ Row(q) = Row(r) /\ Col(q) - Col(r) \in {-1, 1}
  \/ Col(q) = Col(r) /\ Row(q) - Row(r) \in {-1, 1}

\* What the one-qubit scheduler keeps apart: qubits of one MUX, of different box
\* types, of MIXED MUXes with a common Box B control module and, in a synchronized
\* schedule, neighbours on the chip.  Qubits of different MUXes of one box run
\* together, also when those MUXes share a control or a readout module.
Apart(q, r) ==
  /\ MuxOf(q) # MuxOf(r)
  /\ BoxType(q) = BoxType(r)
  /\ BoxType(q) = "MIXED" =>
       wiring[MuxOf(q)].ctrl \cap wiring[MuxOf(r)].ctrl \cap BoxB = {}
  /\ mode = "synchronized" => ~Adjacent(q, r)

\* Couplings calibrated together have disjoint qubits, MUXes, readout modules and
\* control modules, in whatever order the graph was coloured and the colours cut.
Compatible(p, r) ==
  /\ {p[1], p[2]} \cap {r[1], r[2]} = {}
  /\ \A m \in Muxes(p), n \in Muxes(r) :
       m # n /\ wiring[m].out # wiring[n].out /\ wiring[m].ctrl \cap wiring[n].ctrl = {}

\* Calibrations that run at the same time are kept apart as Apart says for qubits
\* and have no hardware in common for couplings, even when a worker dies and the
\* flow ends around the others.
NoConflict ==
  \A i, j \in running : i # j =>
    IF Len(i[1]) = 1 THEN Apart(i[1][1], j[1][1]) ELSE Compatible(i[1], j[1])

\* A flow that gets to its end has calibrated every qubit it was given and every
\* selected coupling exactly once, and no coupling in both directions.
EachOnce ==
  phase = "over" =>
    /\ \A q \in qids : ran[One(q)] = 1
    /\ \A p \in Pair : ran[p] = IF colour[p] = -1 THEN 0 ELSE 1
    /\ \A p, r \in Pair : p[1] = r[2] /\ p[2] = r[1] => ran[p] + ran[r] <= 1
=============================================================================
