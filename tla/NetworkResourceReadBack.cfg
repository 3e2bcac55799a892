\* A PUT between the insert and the read back empties the answer of a POST.
SPECIFICATION Spec
CONSTANTS
  r1 = r1  r2 = r2  r3 = r3
  Reqs = {r1, r2}
  Ids = {"a"}
  History = TRUE
  ClientStamps = FALSE
  FiltersRaise = FALSE
  Operations = {"POST", "PUT"}
  Marks = {"none"}
  MaxBatch = 1
  MaxClock = 2
  MaxCrashes = 0
INVARIANT PostReturnsTheNode
\* The run ends when every request of the bound has been answered.
CHECK_DEADLOCK FALSE
