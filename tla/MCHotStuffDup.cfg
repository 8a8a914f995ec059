SPECIFICATION Spec
CONSTANTS
  r0 = r0
  r1 = r1
  r2 = r2
  r3 = r3
  c1 = c1
  c2 = c2
  c3 = c3
  Primary = r0
  Replicas = {r0, r1}
  NumFaulty = 0
  Live = {r0, r1}
  Clients = {c1, c2}
  MaxBatchSize = 1
  MaxRequestNum = 1
  MaxHeight = 9
  MaxDup = 1
SYMMETRY Symmetry
INVARIANT Agreement
PROPERTY Linearizable
CHECK_DEADLOCK FALSE
