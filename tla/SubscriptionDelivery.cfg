\* Two sockets, two collections and field filters: what each published batch sends to whom.
SPECIFICATION Spec
CONSTANTS
  c1 = c1  c2 = c2  c3 = c3
  qAll = qAll  qFull = qFull
  full = full  bare = bare  odd = odd
  AllFields = AllFields
  Sockets = {c1, c2}
  Queries = {qAll, qFull}
  Collections = {"nodes", "ports"}
  Resources = {full, bare, odd}
  Fields = {"id", "name"}
  FieldLists <- MCFilters
  Accepts <- MCAccepts
  Raises <- MCRaises
  Has <- MCHas
  MaxChannel = 3
  MaxAsks = 1
  MaxBatch = 2
PROPERTY ImplementsPubSub

