\* Collections in collections, and a GET of exnodes, on a server with two connections to itself.
SPECIFICATION Spec
CONSTANTS
  Requests = {"t1", "d1", "w1", "n1", "t2", "g", "x1"}
  Clients = {"t1", "t2", "g"}
  Reads = {"g", "x1"}
  Body <- MCBody
  Slots = 2
INVARIANT HrefsAreStored
PROPERTY EveryRequestIsAnswered
CHECK_DEADLOCK FALSE
