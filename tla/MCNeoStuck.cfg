SPECIFICATION Spec
CONSTANTS
  r0 = r0
  r1 = r1
  r2 = r2
  r3 = r3
  c1 = c1
  c2 = c2
  c3 = c3
  Sequencer = sequencer
  Index <- MCIndex
  Linked = {}
  Replicas = {r0, r1}
  NumFaulty = 0
  Live = {r0, r1}
  Clients = {c1, c2}
  Variants = {"neo-bn"}
  QueryThreshold = 1
  MaxRequestNum = 2
  MaxDup = 0
  MaxLoss = 0
SYMMETRY Symmetry
INVARIANT NotAllStuck
CHECK_DEADLOCK FALSE
