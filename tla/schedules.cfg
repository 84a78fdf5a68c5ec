SPECIFICATION Spec
CONSTANTS
  a1 = a1  a2 = a2  b1 = b1  b2 = b2
  Qubit <- MCQubit
  Pair <- MCPair
  Module = {a1, a2, b1, b2}
  BoxOf <- MCBox
  Wirings <- MCWirings
  Targets <- MCTargets
  GridSize = 8
  Topology <- MCTopology
  Frequency <- MCFrequency
  MaxOps = 2
INVARIANTS TypeOK NoConflict EachOnce
