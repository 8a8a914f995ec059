SPECIFICATION Spec
CONSTANTS
  r0 = r0
  r1 = r1
  r2 = r2
  r3 = r3
  c1 = c1
  c2 = c2
  c3 = c3
  Primary = r0
  Replicas = {r0, r1, r2, r3}
  NumFaulty = 1
  Live = {r0, r1, r2, r3}
  Clients = {c1}
  MaxBatchSize = 1
  MaxRequestNum = 1
  MaxHeight = 3
  MaxDup = 0
INVARIANT NoPanic
INVARIANT WaitsForMissing
SYMMETRY Symmetry
CHECK_DEADLOCK FALSE
