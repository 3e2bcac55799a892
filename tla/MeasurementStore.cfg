\* Three requests on two metadata ids, capped collections of two points.
SPECIFICATION Spec
CONSTANTS
  r1 = r1  r2 = r2  r3 = r3
  Reqs = {r1, r2, r3}
  m1 = m1  m2 = m2  events_cache = events_cache
  Mids = {m1, m2, events_cache}
  Catalog = events_cache
  Capacity = 2
  MaxPoints = 2
INVARIANTS EventOwnsItsCollection StoredWasAnnounced DataLeavesPrefix NewestAreKept CreatedIsStored
SYMMETRY Symmetry
\* The run ends when every request of the bound has been answered.
CHECK_DEADLOCK FALSE
