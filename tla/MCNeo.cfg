SPECIFICATION Spec
CONSTANTS
  r0 = r0
  r1 = r1
  r2 = r2
  r3 = r3
  c1 = c1
  c2 = c2
  c3 = c3
  Sequencer = sequencer
  Index <- MCIndex
  Linked = {2}
  Replicas = {r0, r1}
  NumFaulty = 0
  Live = {r0, r1}
  Clients = {c1, c2}
  Variants = {"neo-hm", "neo-pk", "neo-bn"}
  QueryThreshold = 1
  MaxRequestNum = 2
  MaxDup = 0
  MaxLoss = 1
SYMMETRY Symmetry
INVARIANT TypeOK
INVARIANT ExecutedAsSequenced
INVARIANT ExecutedIsOrdered
INVARIANT ConsumedIsExecuted
INVARIANT ParkedWaits
INVARIANT NoPanic
INVARIANT NothingForgotten
PROPERTY Linearizable
CHECK_DEADLOCK FALSE
