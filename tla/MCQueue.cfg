SPECIFICATION Spec
CONSTANTS
  NULL = NULL
  Nodes = {n1, n2, n3}
  Queues = {qa, qb}
INVARIANTS Repr ListingIsOrder
PROPERTY ImplementsFifo
CHECK_DEADLOCK FALSE
