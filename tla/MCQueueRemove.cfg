SPECIFICATION SpecAny
CONSTANTS
  NULL = NULL
  Nodes = {n1, n2, n3}
  Queues = {qa}
INVARIANT ListingIsOrder
CHECK_DEADLOCK FALSE
