\* Three requests of any kind, client stamps and $status words, publishing that may raise, one crash.
SPECIFICATION Spec
CONSTANTS
  r1 = r1  r2 = r2  r3 = r3
  Reqs = {r1, r2, r3}
  Ids = {"a"}
  History = TRUE
  ClientStamps = TRUE
  FiltersRaise = TRUE
  Operations = {"POST", "PUT", "DELETE", "GET", "LIST"}
  Marks = {"none", "live"}
  MaxBatch = 2
  MaxClock = 2
  MaxCrashes = 1
INVARIANTS TypeOK VersionsDistinct ShardBeforeRecord FeedIsTrue SuccessIsComplete PostLeavesPrefix
  DeleteIsSeen AckedIsReadable
PROPERTY VersionsSurvive
SYMMETRY RequestSymmetry
\* The run ends when every request of the bound has been answered.
CHECK_DEADLOCK FALSE
