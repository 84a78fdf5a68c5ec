---------------------------- MODULE Schedules_proofs ----------------------------
(***************************************************************************)
(* Theorems about Schedules, for every chip, wiring, set of couplings and  *)
(* topology, every number of parallel operations and every order in which  *)
(* the conflict graph is coloured.                                         *)
(***************************************************************************)
EXTENDS Schedules, FiniteSetTheorems, WellFoundedInduction, TLAPS

-----------------------------------------------------------------------------
(* Sets of numbers and of couplings *)

\* Min is the least element: a set of numbers has one, as the initial intervals
\* are well founded under inclusion.
LEMMA MinOf ==
  ASSUME NEW S \in SUBSET Nat, S # {}
  PROVE  Min(S) \in S /\ \A y \in S : Min(S) <= y
<1> DEFINE T == {0..x : x \in S}
<1>1. T \subseteq FiniteSubsetsOf(Nat) /\ T # {}
  <2>1. ASSUME NEW x \in S PROVE 0..x \in FiniteSubsetsOf(Nat)
    <3>1. IsFiniteSet(0..x) /\ 0..x \subseteq Nat
      BY FS_Interval
    <3> QED
      BY <3>1 DEF FiniteSubsetsOf
  <2> QED
    BY <2>1
<1>2. PICK t \in T : \A u \in T : ~ (<<u, t>> \in StrictSubsetOrdering(Nat))
  BY <1>1, FS_StrictSubsetOrderingWellFounded, WFMin
<1>3. PICK x \in S : t = 0..x
  OBVIOUS
<1>4. \A y \in S : x <= y
  <2> SUFFICES ASSUME NEW y \in S, y < x PROVE FALSE
    OBVIOUS
  <2>1. 0..y \in T /\ 0..y \subseteq 0..x /\ x \notin 0..y /\ x \in 0..x
    OBVIOUS
  <2>2. <<0..y, t>> \in StrictSubsetOrdering(Nat)
    BY <1>3, <2>1 DEF StrictSubsetOrdering
  <2> QED
    BY <1>2, <2>1, <2>2
<1> QED
  BY <1>4 DEF Min

\* The chip has finitely many couplings, of two qubits each, so that a qubit and a
\* coupling are never the same item.
LEMMA Couplings ==
  /\ IsFiniteSet(Pair) /\ Cardinality(Pair) \in Nat
  /\ \A p \in Pair : p \in Qubit \X Qubit /\ p[1] # p[2] /\ Len(p) = 2
  /\ \A q : Len(One(q)) = 1 /\ One(q) \notin Pair /\ One(q)[1] = q
<1>1. IsFiniteSet(Qubit \X Qubit) /\ Pair \subseteq Qubit \X Qubit
  BY ScheduleConstants, FS_Product DEF ScheduleConstants
<1>2. IsFiniteSet(Pair)
  BY <1>1, FS_Subset
<1>3. Cardinality(Pair) \in Nat
  BY <1>2, FS_CardinalityType
<1>4. \A p \in Pair : p \in Qubit \X Qubit /\ p[1] # p[2] /\ Len(p) = 2
  BY ScheduleConstants DEF ScheduleConstants
<1>5. \A q : Len(One(q)) = 1 /\ One(q)[1] = q
  BY DEF One
<1> QED
  BY <1>2, <1>3, <1>4, <1>5

\* Division by a positive number.
LEMMA Division ==
  ASSUME NEW n \in Nat, NEW m \in Nat \ {0}
  PROVE  n \div m \in 0..n /\ n - (n \div m) * m \in 0..(m - 1)
<1>1. n \div m \in Int /\ n - (n \div m) * m \in 0..(m - 1)
  OBVIOUS
<1>2. ASSUME NEW d \in Int, n - d * m \in 0..(m - 1) PROVE d \in 0..n
  BY <1>2
<1> QED
  BY <1>1, <1>2

\* A number has one quotient and one remainder.
LEMMA OneQuotient ==
  ASSUME NEW n \in Nat \ {0}, NEW b \in Nat, NEW c \in Nat,
         NEW k \in 0..(n - 1), NEW l \in 0..(n - 1), b * n + k = c * n + l
  PROVE  b = c /\ k = l
<1>1. ASSUME NEW x \in Nat, NEW y \in Nat, x < y PROVE x * n + n <= y * n
  <2>1. y * n = x * n + (y - x) * n /\ y - x >= 1
    BY <1>1
  <2>2. (y - x) * n >= n
    BY <2>1
  <2> QED
    BY <2>1, <2>2
<1>2. ~ (b < c) /\ ~ (c < b)
  BY <1>1
<1> QED
  BY <1>2

-----------------------------------------------------------------------------
(* The one-qubit schedule *)

\* What the schedulers have loaded.
Loaded ==
  /\ wiring \in Wirings /\ qids \in Targets
  /\ mode \in {"scheduled", "synchronized"}

\* A MUX is in one box, or MIXED.
LEMMA BoxesOf ==
  ASSUME Loaded, NEW m \in DOMAIN wiring
  PROVE  /\ Boxes(m) = {BoxOf[x] : x \in Modules(wiring, m)} \ {"?"}
         /\ Boxes(m) \subseteq {"A", "B"}
         /\ Cardinality(Boxes(m)) = 1 <=> \E b \in {"A", "B"} : Boxes(m) = {b}
<1>1. /\ wiring[m].ctrl \subseteq Module /\ wiring[m].out \in Module
      /\ wiring[m].other \subseteq Module
  BY ScheduleConstants DEF ScheduleConstants, Loaded
<1>2. Boxes(m) = {BoxOf[x] : x \in Modules(wiring, m)} \ {"?"}
  BY DEF Boxes, Modules
<1>3. Boxes(m) \subseteq {"A", "B"}
  BY <1>1, <1>2, ScheduleConstants DEF ScheduleConstants, Modules
<1>4. IsFiniteSet({"A", "B"})
  <2>1. IsFiniteSet({"A"} \cup {"B"})
    BY FS_Singleton, FS_AddElement
  <2> QED
    BY <2>1
<1>5. IsFiniteSet(Boxes(m))
  BY <1>3, <1>4, FS_Subset
<1>6. Cardinality(Boxes(m)) = 1 <=> \E b : Boxes(m) = {b}
  BY <1>5, FS_Singleton
<1> QED
  BY <1>2, <1>3, <1>6

LEMMA BoxTypes ==
  ASSUME Loaded, NEW q \in Qubit
  PROVE  /\ BoxType(q) \in {"A", "B", "MIXED"}
         /\ BoxType(q) # "MIXED" => Mapped(q)
<1>1. CASE Mapped(q) /\ Cardinality(Boxes(MuxOf(q))) = 1
  <2>1. PICK b \in {"A", "B"} : Boxes(MuxOf(q)) = {b}
    BY <1>1, BoxesOf DEF Mapped
  <2> QED
    BY <1>1, <2>1 DEF BoxType
<1>2. CASE ~ (Mapped(q) /\ Cardinality(Boxes(MuxOf(q))) = 1)
  BY <1>2 DEF BoxType
<1> QED
  BY <1>1, <1>2

\* There are finitely many MIXED MUXes, so every position in a group is a number.
LEMMA MixedFinite ==
  ASSUME Loaded
  PROVE  /\ IsFiniteSet(MixedMuxes) /\ MixedMuxes \subseteq Nat
         /\ \A x : IsFiniteSet(Sharing(x)) /\ Sharing(x) \subseteq MixedMuxes
         /\ \A m : MixedGroups(m) \subseteq Nat
<1> DEFINE S == {r \in qids : Mapped(r) /\ BoxType(r) = "MIXED"}
<1>1. qids \subseteq Qubit /\ IsFiniteSet(qids) /\ qids \subseteq Nat
  BY ScheduleConstants, FS_Subset DEF ScheduleConstants, Loaded
<1>2. IsFiniteSet(S)
  BY <1>1, FS_Subset
<1> DEFINE h == [q \in S |-> MuxOf(q)]
<1>3. MixedMuxes = {MuxOf(q) : q \in S}
  BY DEF MixedMuxes
<1> HIDE DEF S
<1>4. h \in Surjection(S, MixedMuxes)
  BY <1>3 DEF Surjection
<1>5. IsFiniteSet(MixedMuxes)
  BY <1>2, <1>4, FS_Surjection
<1>6. MixedMuxes \subseteq Nat
  <2>1. \A q \in S : MuxOf(q) \in Nat
    BY <1>1 DEF S, MuxOf
  <2> QED
    BY <1>3, <2>1
<1>7. \A x : IsFiniteSet(Sharing(x)) /\ Sharing(x) \subseteq MixedMuxes
  BY <1>5, FS_Subset DEF Sharing
<1>8. ASSUME NEW x, NEW m PROVE Cardinality({n \in Sharing(x) : n < m}) \in Nat
  <2>1. IsFiniteSet({n \in Sharing(x) : n < m})
    BY <1>7, FS_Subset
  <2> QED
    BY <2>1, FS_CardinalityType
<1>9. ASSUME NEW m, NEW g \in MixedGroups(m) PROVE g \in Nat
  <2>1. g = 0 \/ \E x : g = Cardinality({n \in Sharing(x) : n < m})
    BY DEF MixedGroups
  <2>2. ASSUME NEW x, g = Cardinality({n \in Sharing(x) : n < m}) PROVE g \in Nat
    BY <1>8, <2>2, Zenon
  <2>3. 0 \in Nat
    OBVIOUS
  <2> QED
    BY <2>1, <2>2, <2>3, Zenon
<1> QED
  BY <1>5, <1>6, <1>7, <1>9

\* The stage of a qubit tells the boxes of its MUX.
LEMMA StageOfBox ==
  ASSUME Loaded, NEW q \in Qubit, NEW s \in Stages(q)
  PROVE  /\ s \in Nat
         /\ BoxType(q) = "A" <=> s = 0
         /\ BoxType(q) = "B" <=> s = 1
         /\ BoxType(q) = "MIXED" => Mapped(q) /\ s - 2 \in MixedGroups(MuxOf(q))
<1>1. CASE BoxType(q) = "A"
  BY <1>1 DEF Stages
<1>2. CASE BoxType(q) = "B"
  BY <1>2 DEF Stages
<1>3. CASE BoxType(q) = "MIXED"
  <2>1. Mapped(q) /\ s \in {2 + g : g \in MixedGroups(MuxOf(q))}
    BY <1>3 DEF Stages
  <2>2. PICK g \in MixedGroups(MuxOf(q)) : s = 2 + g
    BY <2>1
  <2>3. g \in Nat
    BY MixedFinite
  <2> QED
    BY <1>3, <2>1, <2>2, <2>3
<1> QED
  BY <1>1, <1>2, <1>3, BoxTypes

\* A MIXED MUX has no second Box B control module.
LEMMA OneModule ==
  ASSUME Loaded, OneModuleB, NEW m \in MixedMuxes,
         NEW x \in wiring[m].ctrl \cap BoxB, NEW y \in wiring[m].ctrl \cap BoxB
  PROVE  x = y
<1>1. PICK q \in qids : m = MuxOf(q) /\ Mapped(q) /\ BoxType(q) = "MIXED"
  BY DEF MixedMuxes
<1>2. m \in DOMAIN wiring /\ Cardinality(Boxes(m)) # 1
  <2>1. m \in DOMAIN wiring
    BY <1>1 DEF Mapped
  <2>2. ASSUME Cardinality(Boxes(m)) = 1 PROVE FALSE
    <3>1. PICK b \in {"A", "B"} : Boxes(m) = {b}
      BY <2>1, <2>2, BoxesOf
    <3> QED
      BY <1>1, <2>2, <3>1 DEF BoxType
  <2> QED
    BY <2>1, <2>2
<1>3. "B" \in Boxes(m)
  BY <1>2, BoxesOf DEF BoxB, Modules
<1>4. "A" \in Boxes(m)
  BY <1>2, <1>3, BoxesOf
<1>5. \E z \in Modules(wiring, m) : BoxOf[z] = "A"
  BY <1>2, <1>4, BoxesOf
<1> QED
  BY <1>2, <1>5 DEF OneModuleB, Loaded

\* The group of a MIXED MUX is its position among those that share its module.
LEMMA GroupOf ==
  ASSUME Loaded, OneModuleB, NEW m \in MixedMuxes, NEW x \in wiring[m].ctrl \cap BoxB
  PROVE  MixedGroups(m) = {Cardinality({n \in Sharing(x) : n < m})}
<1>1. x \in BoxB /\ m \in Sharing(x)
  BY DEF Sharing
<1>2. {y \in BoxB : m \in Sharing(y)} = {x}
  BY <1>1, OneModule DEF Sharing
<1>3. MixedGroups(m) = {Cardinality({n \in Sharing(y) : n < m}) : y \in {x}}
  BY <1>1, <1>2 DEF MixedGroups
<1> QED
  BY <1>3

\* So two that share one are in two groups.
LEMMA GroupsApart ==
  ASSUME Loaded, OneModuleB, NEW m \in MixedMuxes, NEW n \in MixedMuxes, m < n,
         NEW x \in wiring[m].ctrl \cap wiring[n].ctrl \cap BoxB
  PROVE  MixedGroups(m) \cap MixedGroups(n) = {}
<1> DEFINE Before(k) == {l \in Sharing(x) : l < k}
<1>1. MixedGroups(m) = {Cardinality(Before(m))} /\ MixedGroups(n) = {Cardinality(Before(n))}
  BY GroupOf
<1>2. m \in Sharing(x) /\ IsFiniteSet(Sharing(x)) /\ Sharing(x) \subseteq Nat /\ m \in Nat /\ n \in Nat
  BY MixedFinite DEF Sharing
<1>3. IsFiniteSet(Before(n))
  BY <1>2, FS_Subset
<1>4. Before(m) \in SUBSET Before(n) /\ m \in Before(n) /\ m \notin Before(m)
  BY <1>2
<1>5. Cardinality(Before(m)) # Cardinality(Before(n))
  BY <1>3, <1>4, FS_Subset
<1> QED
  BY <1>1, <1>5

\* Neighbours on the chip are in one MUX or at different checkerboard steps.
LEMMA Checkerboard ==
  ASSUME NEW q \in Qubit, NEW r \in Qubit, MuxOf(q) # MuxOf(r), Step(q) = Step(r)
  PROVE  ~Adjacent(q, r)
BY ScheduleConstants DEF ScheduleConstants, MuxOf, Step, Adjacent, Row, Col, MuxRow

\* An item of the schedule is a qubit at a step of its stage.
LEMMA OneQubitItem ==
  ASSUME NEW i \in OneQubitItems
  PROVE  \E q \in qids : \E s \in Stages(q) : i = <<One(q), OneQubitSlot(q, s)>>
BY DEF OneQubitItems

\* Two qubits of different MUXes in one slot use different hardware.
LEMMA SlotApart ==
  ASSUME Loaded, OneModuleB, NEW q \in qids, NEW r \in qids, MuxOf(q) # MuxOf(r),
         NEW s \in Stages(q), NEW t \in Stages(r), OneQubitSlot(q, s) = OneQubitSlot(r, t)
  PROVE  Apart(q, r)
<1>1. q \in Qubit /\ r \in Qubit /\ q \in Nat /\ r \in Nat
  BY ScheduleConstants DEF ScheduleConstants, Loaded
<1>2. s \in Nat /\ t \in Nat
  BY <1>1, StageOfBox
<1>3. Step(q) \in 0..3 /\ Step(r) \in 0..3
  BY <1>1 DEF Step, MuxOf
<1>4. s = t /\ (mode = "synchronized" => Step(q) = Step(r))
  BY <1>2, <1>3 DEF OneQubitSlot
<1>5. BoxType(q) = BoxType(r)
  BY <1>1, <1>4, StageOfBox, BoxTypes
<1>6. ASSUME BoxType(q) = "MIXED"
      PROVE  wiring[MuxOf(q)].ctrl \cap wiring[MuxOf(r)].ctrl \cap BoxB = {}
  <2>1. Mapped(q) /\ Mapped(r) /\ s - 2 \in MixedGroups(MuxOf(q)) \cap MixedGroups(MuxOf(r))
    BY <1>1, <1>4, <1>5, <1>6, StageOfBox
  <2>2. MuxOf(q) \in MixedMuxes /\ MuxOf(r) \in MixedMuxes
    BY <1>5, <1>6, <2>1 DEF MixedMuxes
  <2>3. MuxOf(q) < MuxOf(r) \/ MuxOf(r) < MuxOf(q)
    BY <1>1 DEF MuxOf
  <2> QED
    BY <2>1, <2>2, <2>3, GroupsApart
<1> QED
  BY <1>1, <1>4, <1>5, <1>6, Checkerboard DEF Apart

-----------------------------------------------------------------------------
(* The CR schedule *)

\* A conflict is one of both.
LEMMA ConflictSymmetric ==
  ASSUME NEW p, NEW r PROVE Conflict(p, r) <=> Conflict(r, p)
<1>1. \A m, n : MuxConflict(m, n) <=> MuxConflict(n, m)
  BY DEF MuxConflict
<1> QED
  BY <1>1 DEF Conflict

\* There is always a colour that no conflicting coupling has: one more colour
\* than couplings.
LEMMA FreeColour ==
  ASSUME colour \in [Pair -> -1..Cardinality(Pair)], NEW p \in Pair
  PROVE  /\ LeastColour(p) \in 0..Cardinality(Pair)
         /\ \A r \in Coloured(p) : Conflict(p, r) => colour[r] # LeastColour(p)
<1> DEFINE N == Cardinality(Pair)
           Free == {c \in 0..N : \A r \in Coloured(p) : Conflict(p, r) => colour[r] # c}
<1>1. N \in Nat /\ IsFiniteSet(Pair)
  BY Couplings
<1>2. Free # {}
  <2> SUFFICES ASSUME Free = {} PROVE FALSE
    OBVIOUS
  <2>1. \A c \in 0..N : \E r \in Pair : colour[r] = c
    BY DEF Coloured
  <2> DEFINE user == [c \in 0..N |-> CHOOSE r \in Pair : colour[r] = c]
  <2>2. user \in [0..N -> Pair] /\ \A c \in 0..N : colour[user[c]] = c
    BY <2>1
  <2>3. IsFiniteSet(0..N) /\ Cardinality(0..N) = N + 1
    BY <1>1, FS_Interval
  <2>4. Cardinality(Pair) < Cardinality(0..N)
    BY <1>1, <2>3
  <2> HIDE DEF user
  <2>5. \E c, d \in 0..N : c # d /\ user[c] = user[d]
    BY <1>1, <2>2, <2>3, <2>4, FS_PigeonHole
  <2> QED
    BY <2>2, <2>5
<1>3. Free \in SUBSET Nat
  BY <1>1
<1>4. LeastColour(p) = Min(Free)
  BY DEF LeastColour
<1> HIDE DEF Free
<1>5. LeastColour(p) \in Free
  BY <1>2, <1>3, <1>4, MinOf
<1> QED
  BY <1>5 DEF Free

\* The slots of a colour of the couplings within, or between, MUXes.
Width == Cardinality(Pair) + 1
Band(p, c) == (IF Intra(p) THEN 0 ELSE Width) + c
Same(p, c) == {r \in Coloured(p) : colour[r] = c}

\* A colour is cut into chunks of MaxOps, in the order it was given.
LEMMA SlotOf ==
  ASSUME NEW p \in Pair, NEW c
  PROVE  /\ Cardinality(Same(p, c)) \in 0..Cardinality(Pair)
         /\ Cardinality(Same(p, c)) \div MaxOps \in 0..Cardinality(Pair)
         /\ Slot(p, c) = Band(p, c) * Width + Cardinality(Same(p, c)) \div MaxOps
<1> DEFINE n == Cardinality(Same(p, c))
<1>1. IsFiniteSet(Pair) /\ Cardinality(Pair) \in Nat /\ Same(p, c) \in SUBSET Pair
  BY Couplings DEF Same, Coloured
<1>2. n \in Nat /\ n <= Cardinality(Pair)
  BY <1>1, FS_Subset, FS_CardinalityType
<1>3. MaxOps \in Nat \ {0}
  BY ScheduleConstants DEF ScheduleConstants
<1>4. Slot(p, c) = Band(p, c) * Width + n \div MaxOps
  BY DEF Slot, Band, Width, Same
<1> HIDE DEF n
<1>5. n \div MaxOps \in 0..n
  BY <1>2, <1>3, Division
<1> QED
  BY <1>1, <1>2, <1>4, <1>5 DEF n

LEMMA BandType ==
  ASSUME NEW p, NEW c \in 0..Cardinality(Pair)
  PROVE  Band(p, c) \in Nat /\ Width \in Nat \ {0}
BY Couplings DEF Band, Width

\* A slot holds one colour.
LEMMA SlotColour ==
  ASSUME NEW p, NEW r, NEW c \in 0..Cardinality(Pair), NEW d \in 0..Cardinality(Pair),
         NEW k \in 0..Cardinality(Pair), NEW l \in 0..Cardinality(Pair),
         Band(p, c) * Width + k = Band(r, d) * Width + l
  PROVE  c = d /\ k = l /\ (Intra(p) <=> Intra(r))
<1>1. Band(p, c) \in Nat /\ Band(r, d) \in Nat /\ Width \in Nat \ {0}
      /\ k \in 0..(Width - 1) /\ l \in 0..(Width - 1)
  BY BandType, Couplings DEF Width
<1>2. Band(p, c) = Band(r, d) /\ k = l
  BY <1>1, OneQuotient
<1> QED
  BY <1>2, Couplings DEF Band, Width

\* Couplings that are not in conflict share no qubit, MUX or module.
LEMMA NoConflictCompatible ==
  ASSUME NEW p \in Pair, NEW r \in Pair, ~Conflict(p, r)
  PROVE  Compatible(p, r)
<1>1. \A m \in Muxes(p), n \in Muxes(r) :
        m # n /\ wiring[m].out # wiring[n].out /\ wiring[m].ctrl \cap wiring[n].ctrl = {}
  BY DEF Conflict, MuxConflict
<1>2. {p[1], p[2]} \cap {r[1], r[2]} = {}
  BY <1>1 DEF Muxes
<1> QED
  BY <1>1, <1>2 DEF Compatible

-----------------------------------------------------------------------------
(* The invariant of the flow *)

TypeInv ==
  /\ Loaded
  /\ phase \in {"one", "colour", "two", "over", "aborted"}
  /\ uncoloured \subseteq Pair
  /\ colour \in [Pair -> -1..Cardinality(Pair)]
  /\ left \subseteq Things \X Nat /\ running \subseteq Things \X Nat
  /\ left \cap running = {}
  /\ ran \in [Things -> Nat]

LEMMA ColourType ==
  ASSUME TypeInv, NEW p \in Pair, colour[p] # -1
  PROVE  colour[p] \in 0..Cardinality(Pair)
<1>1. colour[p] \in -1..Cardinality(Pair) /\ Cardinality(Pair) \in Nat
  BY Couplings DEF TypeInv
<1> QED
  BY <1>1

\* An item of the CR schedule is a coupling in a slot of its colour.
InSlot(i) ==
  /\ i[1] \in Pair /\ colour[i[1]] # -1
  /\ \E k \in 0..Cardinality(Pair) : i[2] = Band(i[1], colour[i[1]]) * Width + k

\* What is left and what runs is of the schedule of the phase, ...
PhaseInv ==
  /\ phase = "one" =>
       left \cup running \subseteq OneQubitItems /\ \A p \in Pair : colour[p] = -1
  /\ phase \in {"colour", "two"} => \A i \in left \cup running : InSlot(i)
  /\ phase = "colour" => running = {} /\ \A p \in uncoloured : colour[p] = -1
  /\ phase = "over" => left = {} /\ running = {}
  /\ phase = "aborted" =>
       left \cup running \subseteq OneQubitItems \/ \A i \in left \cup running : InSlot(i)

\* ... what runs is of one slot and of different MUXes, ...
RunInv ==
  /\ \A i, j \in running : i[2] = j[2]
  /\ \A i, j \in running : i # j /\ i \in OneQubitItems /\ j \in OneQubitItems =>
       MuxOf(i[1][1]) # MuxOf(j[1][1])

\* ... and couplings of one colour are not in conflict.
ProperInv ==
  \A p, r \in Pair :
    p # r /\ colour[p] # -1 /\ colour[p] = colour[r] /\ (Intra(p) <=> Intra(r)) =>
      ~Conflict(p, r)

SafeInv == TypeInv /\ PhaseInv /\ RunInv /\ ProperInv

\* Two items of one slot, as the invariant has them, may run together.
LEMMA SafeImplies ==
  ASSUME OneModuleB, SafeInv PROVE NoConflict
<1> SUFFICES ASSUME NEW i \in running, NEW j \in running, i # j
             PROVE  IF Len(i[1]) = 1 THEN Apart(i[1][1], j[1][1]) ELSE Compatible(i[1], j[1])
  BY DEF NoConflict
<1>1. i[2] = j[2] /\ i \in Things \X Nat /\ j \in Things \X Nat
  BY DEF SafeInv, RunInv, TypeInv
<1>2. i[1] # j[1]
  BY <1>1
<1>3. running \subseteq OneQubitItems \/ \A x \in running : InSlot(x)
  BY DEF SafeInv, TypeInv, PhaseInv
<1>4. CASE running \subseteq OneQubitItems
  <2>a. PICK q \in qids : \E s \in Stages(q) : i = <<One(q), OneQubitSlot(q, s)>>
    BY <1>4, OneQubitItem
  <2>1. PICK s \in Stages(q) : i = <<One(q), OneQubitSlot(q, s)>>
    BY <2>a
  <2>b. PICK r \in qids : \E t \in Stages(r) : j = <<One(r), OneQubitSlot(r, t)>>
    BY <1>4, OneQubitItem
  <2>2. PICK t \in Stages(r) : j = <<One(r), OneQubitSlot(r, t)>>
    BY <2>b
  <2>3. i[1][1] = q /\ j[1][1] = r /\ Len(i[1]) = 1
    BY <2>1, <2>2, Couplings
  <2>4. MuxOf(q) # MuxOf(r)
    BY <1>4, <2>3 DEF SafeInv, RunInv
  <2>5. OneQubitSlot(q, s) = OneQubitSlot(r, t)
    BY <1>1, <2>1, <2>2
  <2>6. Loaded
    BY DEF SafeInv, TypeInv
  <2>7. Apart(q, r)
    BY <2>4, <2>5, <2>6, SlotApart
  <2> QED
    BY <2>3, <2>7
<1>5. CASE InSlot(i) /\ InSlot(j)
  <2> DEFINE p == i[1]
             r == j[1]
  <2>1. p \in Pair /\ r \in Pair /\ colour[p] # -1 /\ colour[r] # -1 /\ Len(p) = 2
    BY <1>5, Couplings DEF InSlot
  <2>2. colour[p] \in 0..Cardinality(Pair) /\ colour[r] \in 0..Cardinality(Pair)
    BY <2>1, ColourType DEF SafeInv
  <2>3. PICK k \in 0..Cardinality(Pair) : i[2] = Band(p, colour[p]) * Width + k
    BY <1>5 DEF InSlot
  <2>4. PICK l \in 0..Cardinality(Pair) : j[2] = Band(r, colour[r]) * Width + l
    BY <1>5 DEF InSlot
  <2>5. colour[p] = colour[r] /\ (Intra(p) <=> Intra(r))
    <3>1. Band(p, colour[p]) * Width + k = Band(r, colour[r]) * Width + l
      BY <1>1, <2>3, <2>4
    <3> HIDE DEF p, r
    <3> QED
      BY <2>2, <3>1, SlotColour
  <2>6. ~Conflict(p, r)
    BY <1>2, <2>1, <2>5 DEF SafeInv, ProperInv
  <2>7. Compatible(p, r)
    BY <2>1, <2>6, NoConflictCompatible
  <2> QED
    BY <2>1, <2>7
<1> QED
  BY <1>3, <1>4, <1>5

\* The one-qubit schedule and the conflicts are those of the inputs, which no step
\* changes.
LEMMA InputsFixed ==
  ASSUME UNCHANGED inputs
  PROVE  /\ OneQubitItems' = OneQubitItems
         /\ \A p, r : Conflict(p, r)' = Conflict(p, r)
<1>1. wiring' = wiring /\ qids' = qids /\ mode' = mode
  BY DEF inputs
<1>2. \A q, m : Mapped(q)' = Mapped(q) /\ Boxes(m)' = Boxes(m)
  BY <1>1 DEF Mapped, Boxes
<1>3. ASSUME NEW q PROVE BoxType(q)' = BoxType(q)
  <2>1. Mapped(q)' = Mapped(q) /\ Boxes(MuxOf(q))' = Boxes(MuxOf(q))
    BY <1>1 DEF Mapped, Boxes
  <2> QED
    BY <2>1 DEF BoxType
<1>4. MixedMuxes' = MixedMuxes
  <2> DEFINE S == {r \in qids : Mapped(r) /\ BoxType(r) = "MIXED"}
  <2>1. S' = S
    BY <1>1, <1>2, <1>3
  <2> QED
    BY <2>1 DEF MixedMuxes
<1>5. \A x : Sharing(x)' = Sharing(x)
  BY <1>1, <1>4 DEF Sharing
<1>6. \A m : MixedGroups(m)' = MixedGroups(m)
  BY <1>5 DEF MixedGroups
<1>7. \A q : Stages(q)' = Stages(q)
  BY <1>2, <1>3, <1>6 DEF Stages
<1>8. \A q, s : OneQubitSlot(q, s)' = OneQubitSlot(q, s)
  BY <1>1 DEF OneQubitSlot
<1>9. OneQubitItems' = OneQubitItems
  BY <1>1, <1>7, <1>8 DEF OneQubitItems
<1>10. \A p, r : Conflict(p, r)' = Conflict(p, r)
  BY <1>1 DEF Conflict, MuxConflict
<1> QED
  BY <1>9, <1>10

\* Starting an item keeps to its slot and takes a MUX of its own.
LEMMA StartSafe ==
  ASSUME SafeInv, NEW i \in left, phase # "colour", Start(i)
  PROVE  SafeInv'
<1>1. /\ UNCHANGED inputs /\ UNCHANGED <<phase, uncoloured, colour, ran>>
      /\ left' = left \ {i} /\ running' = running \cup {i}
      /\ \A j \in running : j[2] = i[2]
      /\ Len(i[1]) = 1 => \A j \in running : MuxOf(j[1][1]) # MuxOf(i[1][1])
  BY DEF Start
<1>2. /\ OneQubitItems' = OneQubitItems /\ \A p, r : Conflict(p, r)' = Conflict(p, r)
      /\ \A j : InSlot(j)' = InSlot(j)
      /\ Loaded' = Loaded
  BY <1>1, InputsFixed DEF InSlot, Loaded, inputs
<1>3. phase \in {"one", "two", "aborted"}
  BY DEF SafeInv, TypeInv, PhaseInv
<1>4. TypeInv'
  BY <1>1, <1>2 DEF SafeInv, TypeInv
<1>5. PhaseInv'
  BY <1>1, <1>2, <1>3 DEF SafeInv, PhaseInv
<1>6. RunInv'
  <2>1. i \in OneQubitItems => Len(i[1]) = 1
    BY OneQubitItem, Couplings
  <2> QED
    BY <1>1, <1>2, <2>1 DEF SafeInv, RunInv
<1>7. ProperInv'
  BY <1>1, <1>2 DEF SafeInv, ProperInv
<1> QED
  BY <1>4, <1>5, <1>6, <1>7 DEF SafeInv

\* An item that ends, well or not, takes nothing.
LEMMA StopSafe ==
  ASSUME SafeInv, NEW i \in running, Finish(i) \/ WorkerDies(i)
  PROVE  SafeInv'
<1>1. /\ UNCHANGED inputs /\ UNCHANGED <<uncoloured, colour>>
      /\ running' = running \ {i} /\ left' \subseteq left
      /\ (phase' = phase /\ left' = left) \/ phase' = "aborted"
  BY DEF Finish, WorkerDies
<1>2. /\ OneQubitItems' = OneQubitItems /\ \A p, r : Conflict(p, r)' = Conflict(p, r)
      /\ \A j : InSlot(j)' = InSlot(j)
      /\ Loaded' = Loaded
  BY <1>1, InputsFixed DEF InSlot, Loaded, inputs
<1>3. ran' \in [Things -> Nat]
  BY DEF Finish, WorkerDies, SafeInv, TypeInv
<1>4. TypeInv'
  BY <1>1, <1>2, <1>3 DEF SafeInv, TypeInv
<1>5. PhaseInv'
  BY <1>1, <1>2 DEF SafeInv, TypeInv, PhaseInv
<1>6. RunInv'
  BY <1>1, <1>2 DEF SafeInv, RunInv
<1>7. ProperInv'
  BY <1>1, <1>2 DEF SafeInv, ProperInv
<1> QED
  BY <1>4, <1>5, <1>6, <1>7 DEF SafeInv

\* Between the schedules nothing is left and nothing runs.
LEMMA GenerateSafe ==
  ASSUME SafeInv, Generate \/ End
  PROVE  SafeInv'
<1>1. /\ UNCHANGED inputs /\ UNCHANGED <<colour, left, running, ran>>
      /\ left = {} /\ running = {}
      /\ uncoloured' \subseteq Pair
      /\ phase' \in {"colour", "over"} /\ phase \in {"one", "two"}
      /\ phase' = "colour" => phase = "one"
  BY DEF Generate, End, Selected, SafeInv, TypeInv
<1>2. \A p, r : Conflict(p, r)' = Conflict(p, r)
  BY <1>1, InputsFixed
<1>3. TypeInv'
  BY <1>1 DEF SafeInv, TypeInv, Loaded, inputs
<1>4. PhaseInv'
  BY <1>1 DEF SafeInv, PhaseInv
<1>5. RunInv'
  BY <1>1 DEF RunInv
<1>6. ProperInv'
  BY <1>1, <1>2 DEF SafeInv, ProperInv
<1> QED
  BY <1>3, <1>4, <1>5, <1>6 DEF SafeInv

\* What colouring a coupling does to the colours and the items.
LEMMA ColourEffect ==
  ASSUME SafeInv, NEW p \in uncoloured, Colour(p)
  PROVE  \E c \in 0..Cardinality(Pair) :
           /\ p \in Pair /\ colour[p] = -1
           /\ c = LeastColour(p)
           /\ colour'[p] = c
           /\ \A r \in Pair \ {p} : colour'[r] = colour[r]
           /\ colour' \in [Pair -> -1..Cardinality(Pair)]
           /\ left' = left \cup {<<p, Slot(p, c)>>}
           /\ uncoloured' = uncoloured \ {p}
           /\ phase = "colour" /\ phase' \in {"colour", "two"}
           /\ running = {} /\ UNCHANGED <<running, ran>> /\ UNCHANGED inputs
<1>1. /\ phase = "colour" /\ p \in Pair
      /\ colour' = [colour EXCEPT ![p] = LeastColour(p)]
      /\ left' = left \cup {<<p, Slot(p, LeastColour(p))>>}
      /\ uncoloured' = uncoloured \ {p}
      /\ phase' \in {"colour", "two"}
      /\ UNCHANGED <<running, ran>> /\ UNCHANGED inputs
  BY DEF Colour, SafeInv, TypeInv
<1>2. colour[p] = -1 /\ running = {}
  BY <1>1 DEF SafeInv, PhaseInv
<1>3. LeastColour(p) \in 0..Cardinality(Pair)
  BY <1>1, FreeColour DEF SafeInv, TypeInv
<1>4. 0..Cardinality(Pair) \subseteq -1..Cardinality(Pair)
  BY Couplings
<1>5. colour \in [Pair -> -1..Cardinality(Pair)]
  BY DEF SafeInv, TypeInv
<1>6. /\ colour'[p] = LeastColour(p)
      /\ \A r \in Pair \ {p} : colour'[r] = colour[r]
      /\ colour' \in [Pair -> -1..Cardinality(Pair)]
  BY <1>1, <1>3, <1>4, <1>5
<1> QED
  BY <1>1, <1>2, <1>3, <1>6

LEMMA ColourSafe ==
  ASSUME SafeInv, NEW p \in uncoloured, Colour(p)
  PROVE  SafeInv'
<1>1. PICK c \in 0..Cardinality(Pair) :
           /\ p \in Pair /\ colour[p] = -1
           /\ c = LeastColour(p)
           /\ colour'[p] = c
           /\ \A r \in Pair \ {p} : colour'[r] = colour[r]
           /\ colour' \in [Pair -> -1..Cardinality(Pair)]
           /\ left' = left \cup {<<p, Slot(p, c)>>}
           /\ uncoloured' = uncoloured \ {p}
           /\ phase = "colour" /\ phase' \in {"colour", "two"}
           /\ running = {} /\ UNCHANGED <<running, ran>> /\ UNCHANGED inputs
  BY ColourEffect
<1>2. \A q, r : Conflict(q, r)' = Conflict(q, r)
  BY <1>1, InputsFixed
<1>3. PICK k \in 0..Cardinality(Pair) : Slot(p, c) = Band(p, c) * Width + k
  BY <1>1, SlotOf
<1>4. TypeInv'
  <2>1. Slot(p, c) \in Nat
    <3>1. Band(p, c) \in Nat /\ Width \in Nat /\ k \in Nat
      BY BandType, Couplings
    <3> QED
      BY <1>3, <3>1
  <2>2. <<p, Slot(p, c)>> \in Things \X Nat
    BY <1>1, <2>1 DEF Things
  <2> QED
    BY <1>1, <2>2 DEF SafeInv, TypeInv, Loaded, inputs
<1>5. PhaseInv'
  <2>1. ASSUME NEW i \in left PROVE InSlot(i)'
    <3>1. InSlot(i)
      BY <1>1 DEF SafeInv, PhaseInv
    <3> QED
      BY <1>1, <3>1 DEF InSlot
  <2>2. ASSUME NEW s, s = Slot(p, c) PROVE InSlot(<<p, s>>)'
    <3>1. \E l \in 0..Cardinality(Pair) : s = Band(p, c) * Width + l
      BY <1>3, <2>2
    <3>2. c # -1
      BY Couplings
    <3> QED
      BY <1>1, <3>1, <3>2 DEF InSlot
  <2>3. \A i \in left' \cup running' : InSlot(i)'
    <3>1. PICK s : s = Slot(p, c)
      OBVIOUS
    <3>2. left' = left \cup {<<p, s>>} /\ running' = {}
      BY <1>1, <3>1
    <3> QED
      BY <2>1, <2>2, <3>1, <3>2
  <2>4. \A r \in uncoloured' : colour'[r] = -1
    BY <1>1 DEF SafeInv, PhaseInv, TypeInv
  <2> QED
    BY <1>1, <2>3, <2>4 DEF PhaseInv
<1>6. RunInv'
  BY <1>1 DEF RunInv
<1>7. ProperInv'
  <2>1. \A r \in Coloured(p) : Conflict(p, r) => colour[r] # c
    BY <1>1, FreeColour DEF SafeInv, TypeInv
  <2>2. ASSUME NEW r \in Pair \ {p}, colour'[r] = c, Intra(p) <=> Intra(r)
        PROVE  ~Conflict(p, r) /\ ~Conflict(r, p)
    <3>1. r \in Coloured(p) /\ colour[r] = c
      BY <1>1, <2>2, Couplings DEF Coloured
    <3> QED
      BY <2>1, <3>1, ConflictSymmetric
  <2>3. ASSUME NEW q \in Pair, NEW r \in Pair, q # r, colour'[q] # -1,
               colour'[q] = colour'[r], Intra(q) <=> Intra(r)
        PROVE  ~Conflict(q, r)
    <3>1. CASE q = p
      BY <1>1, <2>2, <2>3, <3>1
    <3>2. CASE r = p
      BY <1>1, <2>2, <2>3, <3>2
    <3>3. CASE q # p /\ r # p
      BY <1>1, <2>3, <3>3 DEF SafeInv, ProperInv
    <3> QED
      BY <3>1, <3>2, <3>3
  <2> QED
    BY <1>2, <2>3 DEF ProperInv
<1> QED
  BY <1>4, <1>5, <1>6, <1>7 DEF SafeInv

LEMMA SafeInit == Init => SafeInv
<1> SUFFICES ASSUME Init PROVE SafeInv
  OBVIOUS
<1>1. Loaded
  BY DEF Init, Loaded
<1>2. left \subseteq Things \X Nat
  <2> SUFFICES ASSUME NEW i \in OneQubitItems PROVE i \in Things \X Nat
    BY DEF Init
  <2>1. PICK q \in qids : \E s \in Stages(q) : i = <<One(q), OneQubitSlot(q, s)>>
    BY OneQubitItem
  <2>2. PICK s \in Stages(q) : i = <<One(q), OneQubitSlot(q, s)>>
    BY <2>1
  <2>3. q \in Qubit /\ q \in Nat
    BY <1>1, ScheduleConstants DEF ScheduleConstants, Loaded
  <2>4. s \in Nat
    BY <1>1, <2>3, StageOfBox
  <2>5. OneQubitSlot(q, s) \in Nat
    BY <2>3, <2>4 DEF OneQubitSlot, Step, MuxOf
  <2> QED
    BY <2>2, <2>3, <2>5 DEF Things
<1>3. TypeInv
  BY <1>1, <1>2, Couplings DEF Init, TypeInv
<1>4. PhaseInv
  BY DEF Init, PhaseInv
<1>5. RunInv /\ ProperInv
  BY DEF Init, RunInv, ProperInv
<1> QED
  BY <1>3, <1>4, <1>5 DEF SafeInv

LEMMA SafeStep == SafeInv /\ [Next]_vars => SafeInv'
<1> SUFFICES ASSUME SafeInv, [Next]_vars PROVE SafeInv'
  OBVIOUS
<1>1. ASSUME UNCHANGED vars PROVE SafeInv'
  <2>1. UNCHANGED inputs /\ UNCHANGED <<phase, uncoloured, colour, left, running, ran>>
    BY <1>1 DEF vars, inputs
  <2>2. /\ OneQubitItems' = OneQubitItems /\ \A p, r : Conflict(p, r)' = Conflict(p, r)
        /\ \A j : InSlot(j)' = InSlot(j)
        /\ Loaded' = Loaded
    BY <2>1, InputsFixed DEF InSlot, Loaded, inputs
  <2> QED
    BY <2>1, <2>2 DEF SafeInv, TypeInv, PhaseInv, RunInv, ProperInv
<1>2. CASE Next
  BY <1>1, <1>2, StartSafe, StopSafe, GenerateSafe, ColourSafe DEF Next, Done
<1> QED
  BY <1>1, <1>2

\* The invariant holds in every reachable state, for any wiring.
THEOREM Invariance == Spec => []SafeInv
BY SafeInit, SafeStep, PTL DEF Spec

\* Calibrations that run at the same time are kept apart: qubits by the stage of
\* their box type, their group and their checkerboard step, in the sense of Apart
\* (MUXes of one box may still share a module); couplings, which share no qubit,
\* MUX, readout or control module, by the colouring, in whatever order it is done,
\* and by its cut into chunks.  A worker's death does not change that for the
\* calibrations that go on.
THEOREM KeptApart == ASSUME OneModuleB PROVE Spec => []NoConflict
<1>1. SafeInv => NoConflict
  BY SafeImplies
<1> QED
  BY <1>1, Invariance, PTL

-----------------------------------------------------------------------------
(* The cut of a colour *)

\* What is not over in a slot.
At(s) == {i \in left \cup running : i[2] = s}

\* A slot never holds more than MaxOps couplings, and the items of the k-th slot of
\* a colour come after k * MaxOps couplings of that colour.
ChunkInv ==
  phase \in {"colour", "two"} =>
    \A p \in Pair : \A c, k \in 0..Cardinality(Pair) : \A s \in Nat :
      s = Band(p, c) * Width + k =>
        /\ IsFiniteSet(At(s)) /\ Cardinality(At(s)) <= MaxOps
        /\ At(s) = {} \/ Cardinality(At(s)) + k * MaxOps <= Cardinality(Same(p, c))

LEMMA SameFinite ==
  ASSUME NEW p, NEW c
  PROVE  IsFiniteSet(Same(p, c)) /\ Cardinality(Same(p, c)) \in Nat
<1>1. IsFiniteSet(Pair) /\ Same(p, c) \in SUBSET Pair
  BY Couplings DEF Same, Coloured
<1> QED
  BY <1>1, FS_Subset, FS_CardinalityType

\* A slot that only loses items keeps to its bounds.
LEMMA ChunkShrinks ==
  ASSUME ChunkInv, UNCHANGED colour, phase' \in {"colour", "two"} => phase' = phase,
         left' \cup running' \subseteq left \cup running
  PROVE  ChunkInv'
<1> SUFFICES ASSUME phase' \in {"colour", "two"}, NEW p \in Pair,
                    NEW c \in 0..Cardinality(Pair), NEW k \in 0..Cardinality(Pair),
                    NEW s \in Nat, s = Band(p, c) * Width + k
             PROVE  /\ IsFiniteSet(At(s)') /\ Cardinality(At(s)') <= MaxOps
                    /\ At(s)' = {} \/ Cardinality(At(s)') + k * MaxOps <= Cardinality(Same(p, c)')
  BY DEF ChunkInv, Band, Width, Intra
<1>1. /\ IsFiniteSet(At(s)) /\ Cardinality(At(s)) <= MaxOps
      /\ At(s) = {} \/ Cardinality(At(s)) + k * MaxOps <= Cardinality(Same(p, c))
  BY DEF ChunkInv
<1>2. Same(p, c)' = Same(p, c)
  BY DEF Same, Coloured
<1>3. At(s)' \in SUBSET At(s)
  BY DEF At
<1>4. IsFiniteSet(At(s)') /\ Cardinality(At(s)') <= Cardinality(At(s))
  BY <1>1, <1>3, FS_Subset
<1>5. Cardinality(At(s)') \in Nat /\ Cardinality(At(s)) \in Nat
  BY <1>1, <1>4, FS_CardinalityType
<1>6. MaxOps \in Nat /\ k \in Nat /\ k * MaxOps \in Nat
  BY Couplings, ScheduleConstants DEF ScheduleConstants
<1>7. Cardinality(Same(p, c)) \in Nat
  BY SameFinite
<1>8. At(s) = {} => At(s)' = {}
  BY <1>3
<1> QED
  BY <1>1, <1>2, <1>4, <1>5, <1>6, <1>7, <1>8

\* A coupling joins the slot its colour has come to: the slot is not full.
LEMMA ChunkGrows ==
  ASSUME SafeInv, ChunkInv, NEW p \in uncoloured, Colour(p)
  PROVE  ChunkInv'
<1>1. PICK c \in 0..Cardinality(Pair) :
           /\ p \in Pair /\ colour[p] = -1
           /\ c = LeastColour(p)
           /\ colour'[p] = c
           /\ \A r \in Pair \ {p} : colour'[r] = colour[r]
           /\ colour' \in [Pair -> -1..Cardinality(Pair)]
           /\ left' = left \cup {<<p, Slot(p, c)>>}
           /\ uncoloured' = uncoloured \ {p}
           /\ phase = "colour" /\ phase' \in {"colour", "two"}
           /\ running = {} /\ UNCHANGED <<running, ran>> /\ UNCHANGED inputs
  BY ColourEffect
<1>2. PICK n \in Nat : n = Cardinality(Same(p, c))
  BY SameFinite
<1>3. PICK e \in 0..Cardinality(Pair) : e = n \div MaxOps
  BY <1>1, <1>2, SlotOf
<1>4. PICK t \in Nat : t = Slot(p, c)
  <2>1. Slot(p, c) = Band(p, c) * Width + e
    BY <1>1, <1>2, <1>3, SlotOf
  <2>2. Band(p, c) \in Nat /\ Width \in Nat /\ e \in Nat
    BY BandType, Couplings
  <2>3. Slot(p, c) \in Nat
    BY <2>1, <2>2
  <2> QED
    BY <2>3
<1>5. t = Band(p, c) * Width + e
  BY <1>1, <1>2, <1>3, <1>4, SlotOf
<1>6. MaxOps \in Nat \ {0}
  BY ScheduleConstants DEF ScheduleConstants
<1>7. n - e * MaxOps \in 0..(MaxOps - 1)
  BY <1>3, <1>6, Division
<1>8. \A s : At(s)' = IF s = t THEN At(s) \cup {<<p, t>>} ELSE At(s)
  BY <1>1, <1>4 DEF At
<1>9. \A s : <<p, t>> \notin At(s)
  BY <1>1 DEF At, SafeInv, PhaseInv, InSlot
<1> SUFFICES ASSUME NEW q \in Pair, NEW d \in 0..Cardinality(Pair),
                    NEW k \in 0..Cardinality(Pair), NEW s \in Nat,
                    s = Band(q, d) * Width + k
             PROVE  /\ IsFiniteSet(At(s)') /\ Cardinality(At(s)') <= MaxOps
                    /\ At(s)' = {} \/ Cardinality(At(s)') + k * MaxOps <= Cardinality(Same(q, d)')
  BY DEF ChunkInv, Band, Width, Intra
<1>10. /\ IsFiniteSet(At(s)) /\ Cardinality(At(s)) <= MaxOps
       /\ At(s) = {} \/ Cardinality(At(s)) + k * MaxOps <= Cardinality(Same(q, d))
  BY <1>1 DEF ChunkInv
<1>11. Cardinality(At(s)) \in Nat /\ k \in Nat /\ e \in Nat /\ k * MaxOps \in Nat
  BY <1>6, <1>10, Couplings, FS_CardinalityType
<1>12. IsFiniteSet(Same(q, d)) /\ Cardinality(Same(q, d)) \in Nat
  BY SameFinite
<1>13. CASE s # t
  <2>1. At(s)' = At(s)
    BY <1>8, <1>13
  <2>2. Same(q, d) \in SUBSET (Same(q, d)')
    <3>1. \A r \in Same(q, d) : r # p
      BY <1>1, Couplings DEF Same, Coloured
    <3> QED
      BY <1>1, <3>1 DEF Same, Coloured
  <2>3. IsFiniteSet(Same(q, d)')
    <3>1. Same(q, d)' \in SUBSET Pair
      BY DEF Same, Coloured
    <3> QED
      BY <3>1, Couplings, FS_Subset
  <2>4. Cardinality(Same(q, d)) <= Cardinality(Same(q, d)') /\ Cardinality(Same(q, d)') \in Nat
    BY <2>2, <2>3, FS_Subset, FS_CardinalityType
  <2> QED
    BY <1>10, <1>11, <1>12, <2>1, <2>4
<1>14. CASE s = t
  <2>1. c = d /\ e = k /\ (Intra(p) <=> Intra(q))
    BY <1>1, <1>5, <1>14, SlotColour
  <2>2. Same(q, d) = Same(p, c) /\ p \notin Same(q, d)
    BY <1>1, <2>1, Couplings DEF Same, Coloured
  <2>3. Same(q, d)' = Same(q, d) \cup {p}
    <3>1. c # -1
      BY Couplings
    <3>2. p \in Coloured(q)' /\ \A r \in Pair \ {p} : r \in Coloured(q)' <=> r \in Coloured(q)
      BY <1>1, <2>1, <3>1 DEF Coloured, Intra
    <3>3. Coloured(q)' \subseteq Pair /\ Coloured(q) \subseteq Pair
      BY DEF Coloured
    <3> QED
      BY <1>1, <2>1, <2>2, <3>2, <3>3 DEF Same
  <2>4. Cardinality(Same(q, d)') = n + 1
    BY <1>2, <1>12, <2>2, <2>3, FS_AddElement
  <2>5. At(s)' = At(s) \cup {<<p, t>>} /\ <<p, t>> \notin At(s)
    BY <1>8, <1>9, <1>14
  <2>6. IsFiniteSet(At(s)') /\ Cardinality(At(s)') = Cardinality(At(s)) + 1
    BY <1>10, <2>5, FS_AddElement
  <2>7. e * MaxOps <= n /\ n + 1 <= e * MaxOps + MaxOps /\ e * MaxOps \in Nat
    BY <1>6, <1>7, <1>11
  <2>8. Cardinality(At(s)) = 0 \/ Cardinality(At(s)) + e * MaxOps <= n
    <3>1. Cardinality({}) = 0
      BY FS_EmptySet
    <3> QED
      BY <1>2, <1>10, <2>1, <2>2, <3>1
  <2>9. Cardinality(At(s)) + 1 <= MaxOps /\ Cardinality(At(s)) + 1 + e * MaxOps <= n + 1
    BY <1>6, <1>11, <2>7, <2>8
  <2> QED
    BY <2>1, <2>4, <2>6, <2>9
<1> QED
  BY <1>13, <1>14

LEMMA ChunkInit == Init => ChunkInv
BY DEF Init, ChunkInv

LEMMA ChunkStep == SafeInv /\ ChunkInv /\ [Next]_vars => ChunkInv'
<1> SUFFICES ASSUME SafeInv, ChunkInv, [Next]_vars PROVE ChunkInv'
  OBVIOUS
<1>1. ASSUME NEW i \in left, Start(i) PROVE ChunkInv'
  BY <1>1, ChunkShrinks DEF Start
<1>2. ASSUME NEW i \in running, Finish(i) \/ WorkerDies(i) PROVE ChunkInv'
  BY <1>2, ChunkShrinks DEF Finish, WorkerDies
<1>3. ASSUME Generate PROVE ChunkInv'
  <2>1. left' = {} /\ running' = {}
    BY <1>3 DEF Generate
  <2>2. \A s : At(s)' = {}
    BY <2>1 DEF At
  <2>3. IsFiniteSet({}) /\ Cardinality({}) = 0 /\ MaxOps \in Nat
    BY FS_EmptySet, ScheduleConstants DEF ScheduleConstants
  <2>4. \A s : IsFiniteSet(At(s)') /\ Cardinality(At(s)') <= MaxOps /\ At(s)' = {}
    BY <2>2, <2>3
  <2> QED
    BY <2>4 DEF ChunkInv
<1>4. ASSUME End \/ UNCHANGED vars PROVE ChunkInv'
  BY <1>4, ChunkShrinks DEF End, vars
<1> QED
  BY <1>1, <1>2, <1>3, <1>4, ChunkGrows DEF Next, Done

\* Never more than MaxOps couplings at once.
LEMMA FewRunning ==
  ASSUME SafeInv, ChunkInv, phase = "two"
  PROVE  Cardinality(running) <= MaxOps
<1>1. CASE running = {}
  BY <1>1, FS_EmptySet, ScheduleConstants DEF ScheduleConstants
<1>2. ASSUME NEW i \in running PROVE Cardinality(running) <= MaxOps
  <2>1. InSlot(i)
    BY DEF SafeInv, PhaseInv
  <2>2. PICK p \in Pair : p = i[1] /\ colour[p] # -1
    BY <2>1 DEF InSlot
  <2>3. colour[p] \in 0..Cardinality(Pair)
    BY <2>2, ColourType DEF SafeInv
  <2>4. PICK k \in 0..Cardinality(Pair) : i[2] = Band(p, colour[p]) * Width + k
    BY <2>1, <2>2 DEF InSlot
  <2>5. i[2] \in Nat
    BY DEF SafeInv, TypeInv
  <2>6. IsFiniteSet(At(i[2])) /\ Cardinality(At(i[2])) <= MaxOps
    BY <2>3, <2>4, <2>5 DEF ChunkInv
  <2>7. running \in SUBSET At(i[2])
    BY DEF At, SafeInv, RunInv
  <2>8. Cardinality(running) <= Cardinality(At(i[2])) /\ IsFiniteSet(running)
    BY <2>6, <2>7, FS_Subset
  <2>9. Cardinality(running) \in Nat /\ Cardinality(At(i[2])) \in Nat /\ MaxOps \in Nat
    BY <2>6, <2>8, FS_CardinalityType, ScheduleConstants DEF ScheduleConstants
  <2> QED
    BY <2>6, <2>8, <2>9
<1> QED
  BY <1>1, <1>2

-----------------------------------------------------------------------------
(* Every item once *)

\* A qubit is in at most one stage, ...
LEMMA OneStage ==
  ASSUME Loaded, OneModuleB, NEW q \in qids, NEW s \in Stages(q), NEW t \in Stages(q)
  PROVE  s = t
<1>1. q \in Qubit
  BY ScheduleConstants DEF ScheduleConstants, Loaded
<1>2. CASE BoxType(q) # "MIXED"
  BY <1>1, <1>2, StageOfBox, BoxTypes
<1>3. CASE BoxType(q) = "MIXED"
  <2>1. Mapped(q) /\ s - 2 \in MixedGroups(MuxOf(q)) /\ t - 2 \in MixedGroups(MuxOf(q))
        /\ s \in Nat /\ t \in Nat
    BY <1>1, <1>3, StageOfBox
  <2>2. MuxOf(q) \in MixedMuxes
    BY <1>3, <2>1 DEF MixedMuxes
  <2>3. \A g, h \in MixedGroups(MuxOf(q)) : g = h
    <3>1. CASE wiring[MuxOf(q)].ctrl \cap BoxB = {}
      BY <3>1 DEF MixedGroups, Sharing
    <3>2. ASSUME NEW x \in wiring[MuxOf(q)].ctrl \cap BoxB
          PROVE  \A g, h \in MixedGroups(MuxOf(q)) : g = h
      <4>1. MixedGroups(MuxOf(q)) = {Cardinality({n \in Sharing(x) : n < MuxOf(q)})}
        BY <2>2, GroupOf
      <4> QED
        BY <4>1
    <3> QED
      BY <3>1, <3>2
  <2> QED
    BY <2>1, <2>3
<1> QED
  BY <1>2, <1>3

\* ... so an item is pending or over, and never comes back; a coupling without a
\* colour has not been calibrated.
OnceInv ==
  /\ \A i, j \in left \cup running : i[1] = j[1] => i = j
  /\ \A t \in Things : ran[t] \in {0, 1} /\ (ran[t] = 1 => \A i \in left \cup running : i[1] # t)
  /\ \A p \in Pair : colour[p] = -1 => ran[p] = 0

LEMMA OnceInit ==
  ASSUME OneModuleB, Init PROVE OnceInv
<1>1. Loaded
  BY DEF Init, Loaded
<1>2. ASSUME NEW i \in OneQubitItems, NEW j \in OneQubitItems, i[1] = j[1] PROVE i = j
  <2>a. PICK q \in qids : \E s \in Stages(q) : i = <<One(q), OneQubitSlot(q, s)>>
    BY OneQubitItem
  <2>1. PICK s \in Stages(q) : i = <<One(q), OneQubitSlot(q, s)>>
    BY <2>a
  <2>b. PICK r \in qids : \E t \in Stages(r) : j = <<One(r), OneQubitSlot(r, t)>>
    BY OneQubitItem
  <2>2. PICK t \in Stages(r) : j = <<One(r), OneQubitSlot(r, t)>>
    BY <2>b
  <2>3. One(q)[1] = q /\ One(r)[1] = r
    BY Couplings
  <2>4. q = r
    BY <1>2, <2>1, <2>2, <2>3
  <2>5. s = t
    BY <1>1, <2>4, OneStage
  <2> QED
    BY <2>1, <2>2, <2>4, <2>5
<1>3. \A t \in Things : ran[t] = 0
  BY DEF Init
<1>4. \A p \in Pair : p \in Things
  BY DEF Things
<1>5. left = OneQubitItems /\ running = {}
  BY DEF Init
<1> QED
  BY <1>2, <1>3, <1>4, <1>5 DEF OnceInv

\* Finishing an item counts it once.
LEMMA FinishEffect ==
  ASSUME SafeInv, OnceInv, NEW i \in running, Finish(i)
  PROVE  /\ i[1] \in Things /\ ran[i[1]] = 0 /\ ran'[i[1]] = 1
         /\ \A t \in Things : t # i[1] => ran'[t] = ran[t]
         /\ left' \cup running' = (left \cup running) \ {i}
         /\ UNCHANGED inputs /\ UNCHANGED <<phase, uncoloured, colour, left>>
<1>1. /\ i[1] \in Things /\ ran \in [Things -> Nat] /\ left \cap running = {}
      /\ running' = running \ {i} /\ ran' = [ran EXCEPT ![i[1]] = @ + 1]
      /\ UNCHANGED inputs /\ UNCHANGED <<phase, uncoloured, colour, left>>
  BY DEF Finish, SafeInv, TypeInv
<1>2. ran[i[1]] = 0
  BY <1>1 DEF OnceInv
<1> QED
  BY <1>1, <1>2

LEMMA OnceStep ==
  ASSUME SafeInv, OnceInv, [Next]_vars PROVE OnceInv'
<1>1. ASSUME NEW i \in left, Start(i) PROVE OnceInv'
  <2>1. left' \cup running' = left \cup running /\ UNCHANGED <<colour, ran>>
    BY <1>1 DEF Start
  <2> QED
    BY <2>1 DEF OnceInv
<1>2. ASSUME NEW i \in running, Finish(i) PROVE OnceInv'
  <2>1. /\ i[1] \in Things /\ ran[i[1]] = 0 /\ ran'[i[1]] = 1
        /\ \A t \in Things : t # i[1] => ran'[t] = ran[t]
        /\ left' \cup running' = (left \cup running) \ {i}
        /\ colour' = colour
    BY <1>2, FinishEffect
  <2>2. \A j \in left' \cup running' : j \in left \cup running /\ j[1] # i[1]
    BY <2>1 DEF OnceInv
  <2>3. ASSUME NEW p \in Pair, colour[p] = -1 PROVE p # i[1] /\ p \in Things
    <3>1. CASE InSlot(i)
      BY <2>3, <3>1 DEF InSlot, Things
    <3>2. CASE i \in OneQubitItems
      <4>1. PICK q : i[1] = One(q)
        BY <3>2, OneQubitItem
      <4> QED
        BY <4>1, Couplings DEF Things
    <3>3. InSlot(i) \/ i \in OneQubitItems
      BY DEF SafeInv, TypeInv, PhaseInv
    <3> QED
      BY <3>1, <3>2, <3>3 DEF Things
  <2>4. \A j, k \in left' \cup running' : j[1] = k[1] => j = k
    BY <2>2 DEF OnceInv
  <2>5. ASSUME NEW t \in Things
        PROVE  ran'[t] \in {0, 1} /\ (ran'[t] = 1 => \A j \in left' \cup running' : j[1] # t)
    BY <2>1, <2>2 DEF OnceInv
  <2>6. \A p \in Pair : colour'[p] = -1 => ran'[p] = 0
    BY <2>1, <2>3 DEF OnceInv
  <2> QED
    BY <2>4, <2>5, <2>6 DEF OnceInv
<1>3. ASSUME NEW i \in running, WorkerDies(i) PROVE OnceInv'
  <2>1. left' \cup running' \subseteq left \cup running /\ UNCHANGED <<colour, ran>>
    BY <1>3 DEF WorkerDies
  <2> QED
    BY <2>1 DEF OnceInv
<1>4. ASSUME Generate \/ End \/ UNCHANGED vars PROVE OnceInv'
  <2>1. UNCHANGED <<left, running, colour, ran>>
    BY <1>4 DEF Generate, End, vars
  <2> QED
    BY <2>1 DEF OnceInv
<1>5. ASSUME NEW p \in uncoloured, Colour(p) PROVE OnceInv'
  <2>1. PICK c \in 0..Cardinality(Pair) :
           /\ p \in Pair /\ colour[p] = -1
           /\ c = LeastColour(p)
           /\ colour'[p] = c
           /\ \A r \in Pair \ {p} : colour'[r] = colour[r]
           /\ colour' \in [Pair -> -1..Cardinality(Pair)]
           /\ left' = left \cup {<<p, Slot(p, c)>>}
           /\ uncoloured' = uncoloured \ {p}
           /\ phase = "colour" /\ phase' \in {"colour", "two"}
           /\ running = {} /\ UNCHANGED <<running, ran>> /\ UNCHANGED inputs
    BY <1>5, ColourEffect
  <2>2. PICK s : s = Slot(p, c)
    OBVIOUS
  <2>3. left' \cup running' = (left \cup running) \cup {<<p, s>>} /\ ran' = ran
    BY <2>1, <2>2
  <2>4. \A i \in left \cup running : i[1] # p
    BY <2>1 DEF SafeInv, PhaseInv, InSlot
  <2>5. ran[p] = 0
    BY <2>1 DEF OnceInv
  <2>6. \A r \in Pair : colour'[r] = -1 => ran'[r] = 0
    BY <2>1, <2>3, <2>5 DEF OnceInv
  <2>7. \A i, j \in left' \cup running' : i[1] = j[1] => i = j
    BY <2>3, <2>4 DEF OnceInv
  <2>8. \A t \in Things : ran'[t] \in {0, 1} /\ (ran'[t] = 1 => \A i \in left' \cup running' : i[1] # t)
    BY <2>3, <2>5 DEF OnceInv
  <2> QED
    BY <2>6, <2>7, <2>8 DEF OnceInv
<1> QED
  BY <1>1, <1>2, <1>3, <1>4, <1>5 DEF Next, Done

\* Type correctness: the flow never calibrates more than MaxOps couplings at once,
\* and nothing twice.
THEOREM TypeCorrect == ASSUME OneModuleB PROVE Spec => []TypeOK
<1> DEFINE Inv == SafeInv /\ ChunkInv /\ OnceInv
<1>1. Init => Inv
  BY SafeInit, ChunkInit, OnceInit
<1>2. Inv /\ [Next]_vars => Inv'
  BY SafeStep, ChunkStep, OnceStep
<1>3. Inv => TypeOK
  <2> SUFFICES ASSUME Inv PROVE TypeOK
    OBVIOUS
  <2>1. phase = "two" => Cardinality(running) <= MaxOps
    BY FewRunning
  <2>2. ran \in [Things -> 0..2]
    BY DEF OnceInv, SafeInv, TypeInv
  <2> QED
    BY <2>1, <2>2 DEF SafeInv, TypeInv, Loaded, TypeOK
<1> HIDE DEF Inv
<1> QED
  BY <1>1, <1>2, <1>3, PTL DEF Spec

-----------------------------------------------------------------------------
(* Every item at all *)

LEMMA SomeStage ==
  ASSUME Loaded, Wired, NEW q \in qids
  PROVE  \E s \in Stages(q) : TRUE
<1> DEFINE m == MuxOf(q)
<1>1. q \in Qubit
  BY ScheduleConstants DEF ScheduleConstants, Loaded
<1>2. /\ Mapped(q)
      /\ \/ wiring[m].ctrl \cap BoxB # {}
         \/ \E x \in Modules(wiring, m) :
              BoxOf[x] # "?" /\ \A y \in Modules(wiring, m) : BoxOf[y] \in {BoxOf[x], "?"}
  BY DEF Loaded, Wired, Mapped
<1>3. CASE BoxType(q) # "MIXED"
  BY <1>1, <1>3, BoxTypes DEF Stages
<1>4. CASE BoxType(q) = "MIXED"
  <2>1. m \in MixedMuxes
    BY <1>2, <1>4 DEF MixedMuxes
  <2>2. wiring[m].ctrl \cap BoxB # {}
    <3> SUFFICES ASSUME NEW x \in Modules(wiring, m), BoxOf[x] # "?",
                        \A y \in Modules(wiring, m) : BoxOf[y] \in {BoxOf[x], "?"}
                 PROVE  FALSE
      BY <1>2
    <3>1. m \in DOMAIN wiring
      BY <1>2 DEF Mapped
    <3>2. Boxes(m) = {BoxOf[y] : y \in Modules(wiring, m)} \ {"?"} /\ Boxes(m) \subseteq {"A", "B"}
      BY <3>1, BoxesOf
    <3>3. Boxes(m) = {BoxOf[x]} /\ BoxOf[x] \in {"A", "B"}
      BY <3>2
    <3>4. Cardinality(Boxes(m)) = 1
      BY <3>1, <3>3, BoxesOf
    <3> QED
      BY <1>2, <1>4, <3>3, <3>4 DEF BoxType
  <2>3. PICK x \in wiring[m].ctrl \cap BoxB : TRUE
    BY <2>2
  <2>4. x \in {y \in BoxB : m \in Sharing(y)}
    BY <2>1, <2>3 DEF Sharing
  <2>5. Cardinality({n \in Sharing(x) : n < m}) \in MixedGroups(m)
    BY <2>4 DEF MixedGroups
  <2>6. Stages(q) = {2 + g : g \in MixedGroups(m)}
    BY <1>2, <1>4 DEF Stages
  <2> QED
    BY <2>5, <2>6
<1> QED
  BY <1>3, <1>4

\* No coupling is selected in both directions.
LEMMA OneDirection ==
  ASSUME Neighbours, OneWay, NEW p \in Pair, NEW r \in Pair, p[1] = r[2], p[2] = r[1],
         NEW source \in {"topology", "design", "measured"}, NEW inverse \in BOOLEAN
  PROVE  ~ (Directed(p, source, inverse) /\ Directed(r, source, inverse))
<1>1. p = <<p[1], p[2]>> /\ r = <<p[2], p[1]>> /\ p[1] \in Qubit /\ p[2] \in Qubit
  BY Couplings
<1>2. CASE source = "topology"
  BY <1>1, <1>2 DEF Directed, OneWay
<1>3. CASE source = "design"
  <2>1. Parity(p[1]) \in Nat /\ Parity(p[2]) \in Nat
    BY <1>1, ScheduleConstants DEF ScheduleConstants, Parity, Row, Col, MuxRow, MuxOf
  <2>2. Parity(p[1]) # Parity(p[2])
    BY DEF Neighbours
  <2> QED
    BY <1>3, <2>1, <2>2 DEF Directed
<1>4. CASE source = "measured"
  <2>1. Frequency[p[1]] \in Nat /\ Frequency[p[2]] \in Nat
    BY <1>1, ScheduleConstants DEF ScheduleConstants
  <2> QED
    BY <1>4, <2>1 DEF Directed
<1> QED
  BY <1>2, <1>3, <1>4

\* As long as no worker dies, every target qubit and every selected coupling is
\* pending or over, and no coupling is selected in both directions.
Chosen(p) == p \in uncoloured \/ colour[p] # -1

DoneInv ==
  /\ phase = "one" =>
       \A q \in qids : ran[One(q)] = 1 \/ \E i \in left \cup running : i[1] = One(q)
  /\ phase \in {"colour", "two", "over"} =>
       /\ \A q \in qids : ran[One(q)] = 1
       /\ \A p \in Pair : colour[p] # -1 => ran[p] = 1 \/ \E i \in left \cup running : i[1] = p
  /\ \A p, r \in Pair : p[1] = r[2] /\ p[2] = r[1] => ~ (Chosen(p) /\ Chosen(r))
  /\ phase = "one" => uncoloured = {}

LEMMA DoneInit ==
  ASSUME Wired, Init PROVE DoneInv
<1>1. Loaded
  BY DEF Init, Loaded
<1>2. ASSUME NEW q \in qids PROVE \E i \in OneQubitItems : i[1] = One(q)
  <2>1. PICK s \in Stages(q) : TRUE
    BY <1>1, SomeStage
  <2>2. <<One(q), OneQubitSlot(q, s)>> \in OneQubitItems
    BY <2>1 DEF OneQubitItems
  <2> QED
    BY <2>2
<1>3. \A p \in Pair : ~Chosen(p)
  BY DEF Init, Chosen
<1>4. left = OneQubitItems /\ phase = "one" /\ uncoloured = {}
  BY DEF Init
<1> QED
  BY <1>2, <1>3, <1>4 DEF DoneInv

LEMMA DoneStep ==
  ASSUME Neighbours, OneWay, SafeInv, OnceInv, DoneInv, [Next]_vars PROVE DoneInv'
<1>1. ASSUME NEW i \in left, Start(i) PROVE DoneInv'
  <2>1. left' \cup running' = left \cup running
        /\ UNCHANGED inputs /\ UNCHANGED <<phase, uncoloured, colour, ran>>
    BY <1>1 DEF Start
  <2> QED
    BY <2>1 DEF DoneInv, Chosen, inputs
<1>2. ASSUME NEW i \in running, Finish(i) PROVE DoneInv'
  <2>1. /\ i[1] \in Things /\ ran'[i[1]] = 1
        /\ \A t \in Things : t # i[1] => ran'[t] = ran[t]
        /\ left' \cup running' = (left \cup running) \ {i}
        /\ UNCHANGED inputs /\ UNCHANGED <<phase, uncoloured, colour>>
    BY <1>2, FinishEffect
  <2>2. qids' = qids /\ qids \subseteq Qubit
    BY <2>1, ScheduleConstants DEF ScheduleConstants, SafeInv, TypeInv, Loaded, inputs
  <2>3. ASSUME NEW t \in Things, ran[t] = 1 \/ \E j \in left \cup running : j[1] = t
        PROVE  ran'[t] = 1 \/ \E j \in left' \cup running' : j[1] = t
    BY <2>1, <2>3
  <2>4. (\A q \in qids : One(q) \in Things) /\ \A p \in Pair : p \in Things
    BY <2>2 DEF Things
  <2>5. ASSUME NEW t \in Things, ran[t] = 1 PROVE ran'[t] = 1
    BY <2>1, <2>5
  <2>6. \A p \in Pair : Chosen(p)' <=> Chosen(p)
    BY <2>1 DEF Chosen
  <2> QED
    BY <2>1, <2>2, <2>3, <2>4, <2>5, <2>6 DEF DoneInv
<1>3. ASSUME NEW i \in running, WorkerDies(i) PROVE DoneInv'
  <2>1. phase' = "aborted" /\ UNCHANGED <<uncoloured, colour>>
    BY <1>3 DEF WorkerDies
  <2> QED
    BY <2>1 DEF DoneInv, Chosen
<1>4. ASSUME Generate PROVE DoneInv'
  <2>1. /\ phase = "one" /\ left = {} /\ running = {}
        /\ UNCHANGED inputs /\ UNCHANGED <<colour, left, running, ran>>
        /\ phase' \in {"colour", "over"}
    BY <1>4 DEF Generate
  <2>2. \A p \in Pair : colour[p] = -1
    BY <2>1 DEF SafeInv, PhaseInv
  <2>3. \A q \in qids' : ran'[One(q)] = 1
    BY <2>1 DEF DoneInv, inputs
  <2>4. ASSUME NEW p \in Pair, NEW r \in Pair, p[1] = r[2], p[2] = r[1], Chosen(p)', Chosen(r)'
        PROVE  FALSE
    <3>1. p \in uncoloured' /\ r \in uncoloured'
      BY <2>1, <2>2, <2>4 DEF Chosen
    <3>a. PICK source \in {"topology", "design", "measured"} :
            \E inverse \in BOOLEAN, candidates \in SUBSET qids :
              uncoloured' = Selected(candidates, source, inverse)
      BY <1>4 DEF Generate
    <3>b. PICK inverse \in BOOLEAN : \E candidates \in SUBSET qids :
              uncoloured' = Selected(candidates, source, inverse)
      BY <3>a
    <3>2. Directed(p, source, inverse) /\ Directed(r, source, inverse)
      BY <3>1, <3>b DEF Selected
    <3> QED
      BY <2>4, <3>2, OneDirection
  <2> QED
    BY <2>1, <2>2, <2>3, <2>4 DEF DoneInv
<1>5. ASSUME NEW p \in uncoloured, Colour(p) PROVE DoneInv'
  <2>1. PICK c \in 0..Cardinality(Pair) :
           /\ p \in Pair /\ colour[p] = -1
           /\ c = LeastColour(p)
           /\ colour'[p] = c
           /\ \A r \in Pair \ {p} : colour'[r] = colour[r]
           /\ colour' \in [Pair -> -1..Cardinality(Pair)]
           /\ left' = left \cup {<<p, Slot(p, c)>>}
           /\ uncoloured' = uncoloured \ {p}
           /\ phase = "colour" /\ phase' \in {"colour", "two"}
           /\ running = {} /\ UNCHANGED <<running, ran>> /\ UNCHANGED inputs
    BY <1>5, ColourEffect
  <2>2. ASSUME NEW r \in Pair, Chosen(r)' PROVE Chosen(r)
    BY <2>1, <2>2 DEF Chosen
  <2>3. PICK s : s = Slot(p, c)
    OBVIOUS
  <2>4. left' \cup running' = (left \cup running) \cup {<<p, s>>} /\ ran' = ran
    BY <2>1, <2>3
  <2>5. ASSUME NEW r \in Pair, colour'[r] # -1
        PROVE  ran'[r] = 1 \/ \E i \in left' \cup running' : i[1] = r
    <3>1. CASE r = p
      <4>1. <<p, s>> \in left' \cup running' /\ <<p, s>>[1] = p
        BY <2>4
      <4> QED
        BY <3>1, <4>1
    <3>2. CASE r # p
      BY <2>1, <2>4, <2>5, <3>2 DEF DoneInv
    <3> QED
      BY <3>1, <3>2
  <2>6. \A q \in qids' : ran'[One(q)] = 1
    BY <2>1 DEF DoneInv, inputs
  <2> QED
    BY <2>1, <2>2, <2>5, <2>6 DEF DoneInv
<1>6. ASSUME End PROVE DoneInv'
  <2>1. /\ phase = "two" /\ phase' = "over" /\ UNCHANGED inputs
        /\ UNCHANGED <<uncoloured, colour, left, running, ran>>
    BY <1>6 DEF End
  <2> QED
    BY <2>1 DEF DoneInv, Chosen, inputs
<1>7. ASSUME UNCHANGED vars PROVE DoneInv'
  BY <1>7 DEF DoneInv, Chosen, vars
<1> QED
  BY <1>1, <1>2, <1>3, <1>4, <1>5, <1>6, <1>7 DEF Next, Done

\* A flow that gets to its end has calibrated every qubit it was given and every
\* selected coupling exactly once, and no coupling in both directions: whatever
\* order the graph is coloured in and wherever the colours are cut.
THEOREM NoneLost ==
  ASSUME OneModuleB, Wired, Neighbours, OneWay
  PROVE  Spec => []EachOnce
<1> DEFINE Inv == SafeInv /\ OnceInv /\ DoneInv
<1>1. Init => Inv
  BY SafeInit, OnceInit, DoneInit
<1>2. Inv /\ [Next]_vars => Inv'
  BY SafeStep, OnceStep, DoneStep
<1>3. Inv => EachOnce
  <2> SUFFICES ASSUME Inv, phase = "over" PROVE EachOnce
    BY DEF EachOnce
  <2>1. left = {} /\ running = {}
    BY DEF SafeInv, PhaseInv
  <2>2. \A q \in qids : ran[One(q)] = 1
    BY DEF DoneInv
  <2>3. \A p \in Pair : ran[p] = IF colour[p] = -1 THEN 0 ELSE 1
    BY <2>1 DEF DoneInv, OnceInv
  <2>4. \A p, r \in Pair : p[1] = r[2] /\ p[2] = r[1] => ran[p] + ran[r] <= 1
    BY <2>3 DEF DoneInv, Chosen
  <2> QED
    BY <2>2, <2>3, <2>4 DEF EachOnce
<1> HIDE DEF Inv
<1> QED
  BY <1>1, <1>2, <1>3, PTL DEF Spec
=================================================================================
