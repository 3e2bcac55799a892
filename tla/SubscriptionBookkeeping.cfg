\* Two sockets, two subscriptions each, share and leave channels; four channels are ever created.
SPECIFICATION Spec
CONSTANTS
  c1 = c1  c2 = c2  c3 = c3
  qAll = qAll  qFull = qFull
  full = full  bare = bare  odd = odd
  AllFields = AllFields
  Sockets = {c1, c2}
  Queries = {qAll, qFull}
  Collections = {"nodes"}
  Resources = {full, bare, odd}
  Fields = {"id", "name"}
  FieldLists <- MCNoFilter
  Accepts <- MCAccepts
  Raises <- MCRaises
  Has <- MCHas
  MaxChannel = 4
  MaxAsks = 2
  MaxBatch = 1
INVARIANTS TypeOK CounterIsClients RegisteredExactly RemovalNeverRaises OneSubscriptionPerQuery
PROPERTY LostIsForgotten

