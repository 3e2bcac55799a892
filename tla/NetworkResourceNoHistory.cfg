\* Three requests to a server that keeps one record for an id; clients may write the status DELETED.
SPECIFICATION Spec
CONSTANTS
  r1 = r1  r2 = r2  r3 = r3
  Reqs = {r1, r2, r3}
  Ids = {"a"}
  History = FALSE
  ClientStamps = FALSE
  FiltersRaise = FALSE
  Operations = {"POST", "PUT", "DELETE", "GET"}
  Marks = {"none", "DELETED"}
  MaxBatch = 1
  MaxClock = 1
  MaxCrashes = 1
INVARIANT AckedIsReadable
PROPERTY EveryRequestAnswered
\* The run ends when every request of the bound has been answered.
CHECK_DEADLOCK FALSE
