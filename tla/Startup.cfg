\* Two servers on one database, each started twice, that crash anywhere.
SPECIFICATION Spec
CONSTANTS
  s1 = s1
  s2 = s2
  Servers = {s1, s2}
  NoCollection = NoCollection
  NoUuid = NoUuid
  Given <- MCGiven
  Loads <- MCLoads
  Routes <- MCRoutes
  MaxStarts = 2
SYMMETRY MCSymmetry
INVARIANTS ServedIsIndexed IdentityIsKept LoadedIsCached FoundIsServing
CHECK_DEADLOCK FALSE
