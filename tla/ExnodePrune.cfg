\* Both scripts over small trees, with two users who release an allocation, an upload and leases
\* that end.
SPECIFICATION Spec
CONSTANTS
  root = root
  u1 = u1
  u2 = u2
  Users = {u1, u2}
  NoParent = root
  Wanted = "x1"
  Allocs <- MCAllocs
  References <- MCReferences
  Trees <- MCTrees
  Uploads <- MCUploads
INVARIANTS KeptHasNoHole KeptStays ReleasedOnce
PROPERTIES RecordsOutliveFiles
SYMMETRY MCSymmetry
CHECK_DEADLOCK FALSE
