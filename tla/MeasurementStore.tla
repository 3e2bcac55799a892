-------------------------- MODULE MeasurementStore --------------------------
(***************************************************************************)
(* The measurement store: POST /events (handlers/eventshandler.py) makes   *)
(* the capped collection that the measurements of one metadata id go to,   *)
(* POST /data (handlers/datahandler.py) fills such collections, and GETs   *)
(* of both read them.  The handlers and PeriscopeApplication.get_db_layer  *)
(* are coroutines on one event loop; each action is one database operation *)
(* or the code between two awaits.  The handlers keep nothing between      *)
(* requests, so a crash of the server is a request that takes no further   *)
(* step, at any point.                                                     *)
(***************************************************************************)
EXTENDS Integers, Sequences, FiniteSets, SequencesExt

CONSTANTS Reqs,      \* the requests ever made
          Mids,      \* metadata ids; each names a collection
          Catalog,   \* the one of the catalog itself, events_cache
          Capacity,  \* collection_size, in points
          MaxPoints  \* bound: points in a POST /data

Stray == "stray"  \* what has no address

ASSUME ConstantsAssumption ==
  /\ IsFiniteSet(Mids) /\ Catalog \in Mids /\ Stray \notin Mids
  /\ Capacity \in Nat \ {0}
  /\ MaxPoints \in Nat

VARIABLES kind,    \* how the collection of a mid was created
          points,  \* its points, oldest first
          events,  \* the events in events_cache
          req,     \* the state of each request
          stored,  \* history: the points the database has taken
          feed,    \* history: the points that were published
          shown    \* history: the points that a GET has returned

vars == <<kind, points, events, req, stored, feed, shown>>

\* A request before its first await, with everything in its batch still to be done.  Whether it
\* accepts BSON is looked at last.
NewRequest(op, pc, mid, url, batch, status) ==
  [op |-> op, pc |-> pc, mid |-> mid, url |-> url, accept |-> "json",
   batch |-> batch, todo |-> DOMAIN batch, status |-> status]

\* The indexes of the catalog were made when the server started.
Init == /\ kind = [m \in Mids |-> IF m = Catalog THEN "plain" ELSE "none"]
        /\ points = [m \in Mids |-> <<>>]
        /\ events = {}
        /\ req = [r \in Reqs |-> NewRequest("none", "idle", "none", "none", <<>>, 0)]
        /\ stored = {}
        /\ feed = {}
        /\ shown = {}

Goto(r, pc) == req' = [req EXCEPT ![r].pc = pc]
Answer(r, status) == req' = [req EXCEPT ![r].pc = "done", ![r].status = status]

-----------------------------------------------------------------------------
(* POST /events.  Only the first resource of the body is looked at.        *)

\* The metadata is fetched over HTTP first, which other requests may overtake.  Its id, the mid,
\* is in the answer; nothing says that it is the last part of the address it was fetched from.
PostEvent(r) == \E mid, url \in Mids :
  /\ req[r].pc = "idle"
  /\ req' = [req EXCEPT ![r] = NewRequest("EVENT", "fetch", mid, url, <<>>, 0)]
  /\ UNCHANGED <<kind, points, events, stored, feed, shown>>

\* An unknown metadata: fetch raises, post() answers 409.
FetchFails(r) ==
  /\ req[r].pc = "fetch"
  /\ Answer(r, 409)
  /\ UNCHANGED <<kind, points, events, stored, feed, shown>>

\* The metadata is there: list_collection_names, and ValueError when the name is listed.
ListCollections(r) ==
  /\ req[r].pc = "fetch"
  /\ IF kind[req[r].mid] = "none" THEN Goto(r, "create") ELSE Answer(r, 409)
  /\ UNCHANGED <<kind, points, events, stored, feed, shown>>

\* Mutant: a collection that exists by now is taken as it is.
CreateOrUse(r) ==
  /\ req[r].pc = "create"
  /\ kind' = [kind EXCEPT ![req[r].mid] = IF @ = "none" THEN "capped" ELSE @]
  /\ Goto(r, "catalog")
  /\ UNCHANGED <<points, events, stored, feed, shown>>

\* get_db_layer: create_collection raises when another request was faster.
CreateCapped(r) ==
  /\ req[r].pc = "create"
  /\ IF kind[req[r].mid] = "none"
     THEN kind' = [kind EXCEPT ![req[r].mid] = "capped"] /\ Goto(r, "catalog")
     ELSE UNCHANGED kind /\ Answer(r, 409)
  /\ UNCHANGED <<points, events, stored, feed, shown>>

\* dblayer.insert([resource], summarize = False); events are not published.
InsertEvent(r) ==
  /\ req[r].pc = "catalog"
  /\ events' = events \cup {[mid |-> req[r].mid, url |-> req[r].url, by |-> r]}
  /\ Goto(r, "readback")
  /\ UNCHANGED <<kind, points, stored, feed, shown>>

\* The database refuses the entry: the collection is there without an event.
InsertFails(r) ==
  /\ req[r].pc = "catalog"
  /\ Answer(r, 409)
  /\ UNCHANGED <<kind, points, events, stored, feed, shown>>

\* _post_return: the entry is read back into the answer; if that raises, nobody catches it.
ReadBack(r) == \E status \in {201, 500} :
  /\ req[r].pc = "readback"
  /\ Answer(r, status)
  /\ UNCHANGED <<kind, points, events, stored, feed, shown>>

-----------------------------------------------------------------------------
(* POST /data.  Point i of the body is for the collection batch[i].        *)

PostData(r) == \E n \in 1..MaxPoints : \E batch \in [1..n -> Mids] :
  /\ req[r].pc = "idle"
  /\ req' = [req EXCEPT ![r] = NewRequest("DATA", "publish", "none", "none", batch, 0)]
  /\ UNCHANGED <<kind, points, events, stored, feed, shown>>

\* The points are grouped by mid, the groups taken in the order in which their mids appear.
FirstOf(batch, i) == CHOOSE j \in DOMAIN batch :
  batch[j] = batch[i] /\ \A k \in 1..(j - 1) : batch[k] # batch[i]

\* Mutant: the points of a group are collected newest first.
NewestFirst(batch, i, j) == \/ FirstOf(batch, i) < FirstOf(batch, j)
                            \/ FirstOf(batch, i) = FirstOf(batch, j) /\ i > j

Sooner(batch, i, j) == \/ FirstOf(batch, i) < FirstOf(batch, j)
                       \/ FirstOf(batch, i) = FirstOf(batch, j) /\ i < j

NextPoint(r) == CHOOSE i \in req[r].todo : \A j \in req[r].todo \ {i} : Sooner(req[r].batch, i, j)
NextMid(r) == req[r].batch[NextPoint(r)]

\* Mutant: the group is published without its later points.
PublishFirst(r) ==
  /\ req[r].pc = "publish"
  /\ feed' = feed \cup {<<r, NextPoint(r)>>}
  /\ Goto(r, "store")
  /\ UNCHANGED <<kind, points, events, stored, shown>>

\* The subscribers of the group's mid are informed before the group is stored.
PublishGroup(r) ==
  /\ req[r].pc = "publish"
  /\ feed' = feed \cup {<<r, i>> : i \in {i \in DOMAIN req[r].batch : req[r].batch[i] = NextMid(r)}}
  /\ Goto(r, "store")
  /\ UNCHANGED <<kind, points, events, stored, shown>>

\* A capped collection makes room by dropping its oldest documents.
Put(m, point) ==
  LET longer == Append(points[m], point)
  IN IF kind[m] = "capped" /\ Len(longer) > Capacity THEN Tail(longer) ELSE longer

\* The next document of insert_many.  A collection that does not exist is created, uncapped.
StorePoint(r) == LET i == NextPoint(r)
                     m == NextMid(r)
                     rest == req[r].todo \ {i} IN
  /\ req[r].pc = "store"
  /\ kind' = [kind EXCEPT ![m] = IF @ = "none" THEN "plain" ELSE @]
  /\ points' = [points EXCEPT ![m] = Put(m, <<r, i>>)]
  /\ stored' = stored \cup {<<r, i>>}
  /\ req' = [req EXCEPT ![r].todo = rest,
       ![r].pc = IF rest = {} THEN "done"
                 ELSE IF \E j \in rest : req[r].batch[j] = m THEN "store" ELSE "publish",
       ![r].status = IF rest = {} THEN 201 ELSE 0]
  /\ UNCHANGED <<events, feed, shown>>

\* Mutants: the failed group is skipped; the failure is taken for success.
FailedGroupSkipped(r) ==
  LET rest == {j \in req[r].todo : req[r].batch[j] # NextMid(r)} IN
  /\ req[r].pc = "store"
  /\ req' = [req EXCEPT ![r].todo = rest, ![r].pc = IF rest = {} THEN "done" ELSE "publish",
                        ![r].status = IF rest = {} THEN 409 ELSE 0]
  /\ UNCHANGED <<kind, points, events, stored, feed, shown>>

FailureIgnored(r) ==
  /\ req[r].pc = "store"
  /\ Answer(r, 201)
  /\ UNCHANGED <<kind, points, events, stored, feed, shown>>

\* The database refuses a document; post() answers 409 and the other groups are left.
StoreFails(r) ==
  /\ req[r].pc = "store"
  /\ Answer(r, 409)
  /\ UNCHANGED <<kind, points, events, stored, feed, shown>>

-----------------------------------------------------------------------------
(* GET /events and GET /data.  The database answers commands and cursors.  *)

ReadOnly == UNCHANGED <<kind, points, events, stored, feed>>

\* The catalog, without a query; the cursor is read at once.  Each entry is asked for the last
\* part of its address.  Points that somebody posted to the catalog's own name have none.
Strays == IF points[Catalog] = <<>> THEN {} ELSE {[mid |-> Stray, url |-> Stray, by |-> Stray]}

GetEvents(r) == \E entries \in SetToSeqs(events \cup Strays) :
  /\ req[r].pc = "idle"
  /\ req' = [req EXCEPT ![r] = NewRequest("LIST", "stats", "none", "none",
                                        [i \in DOMAIN entries |-> entries[i].url], 0)]
  /\ ReadOnly /\ UNCHANGED shown

\* Any query but for an id or alternatives: the metadata ids that it names, none maybe, are taken
\* for collections.
GetMids(r) == \E mids \in SUBSET Mids : \E batch \in SetToSeqs(mids), op \in {"MIDS", "RANGE"} :
  /\ req[r].pc = "idle"
  /\ req' = [req EXCEPT ![r] = NewRequest(op, "stats", "none", "none", batch, 0)]
  /\ ReadOnly /\ UNCHANGED shown

\* The route of a single event has no collection.
GetEvent(r) ==
  /\ req[r].pc = "idle"
  /\ req' = [req EXCEPT ![r] = NewRequest("ONE", "done", "none", "none", <<>>, 404)]
  /\ ReadOnly /\ UNCHANGED shown

Encode(r, accept) ==
  req' = [req EXCEPT ![r].pc = "done", ![r].accept = accept,
                     ![r].status = IF accept = "bson" THEN 500 ELSE 200]

\* collStats of the next collection, which raises when there is none: 404.  A stray raises a
\* KeyError.  With a range of times the records in the range would be counted, and for BSON the
\* answer encoded, if the code did not ask for names that are not defined.
Stats(r) ==
  LET i == CHOOSE i \in req[r].todo : \A j \in req[r].todo : i <= j IN
  /\ req[r].pc = "stats"
  /\ IF req[r].todo = {} THEN \E accept \in {"json", "bson"} : Encode(r, accept)
     ELSE IF req[r].batch[i] = Stray THEN Answer(r, 500)
     ELSE IF kind[req[r].batch[i]] = "none" THEN Answer(r, 404)
     ELSE IF req[r].op = "RANGE" THEN Answer(r, 500)
     ELSE req' = [req EXCEPT ![r].todo = @ \ {i}]
  /\ ReadOnly /\ UNCHANGED shown

\* GET /data needs a metadata id.
GetData(r) ==
  /\ req[r].pc = "idle"
  /\ \/ req' = [req EXCEPT ![r] = NewRequest("READ", "done", "none", "none", <<>>, 403)]
     \/ \E m \in Mids : req' = [req EXCEPT ![r] = NewRequest("READ", "count", m, "none", <<>>, 0)]
  /\ ReadOnly /\ UNCHANGED shown

\* A collection that is empty, or not there, is answered with an empty list.
CountPoints(r) ==
  /\ req[r].pc = "count"
  /\ IF points[req[r].mid] = <<>> THEN Answer(r, 200) ELSE Goto(r, "read")
  /\ ReadOnly /\ UNCHANGED shown

\* The cursor sees what is there by now; limit, skip and sort were for the count only.
ReadPoints(r) ==
  /\ req[r].pc = "read"
  /\ shown' = shown \cup Range(points[req[r].mid])
  /\ Answer(r, 200)
  /\ ReadOnly

-----------------------------------------------------------------------------

Step(r) == \/ FetchFails(r) \/ ListCollections(r) \/ CreateCapped(r)
           \/ InsertEvent(r) \/ InsertFails(r) \/ ReadBack(r) \/ PublishGroup(r) \/ StorePoint(r) \/ StoreFails(r)
           \/ Stats(r) \/ CountPoints(r) \/ ReadPoints(r)

Next == \E r \in Reqs :
  PostEvent(r) \/ PostData(r) \/ GetEvents(r) \/ GetMids(r) \/ GetEvent(r) \/ GetData(r) \/ Step(r)

Spec == Init /\ [][Next]_vars

-----------------------------------------------------------------------------
(* Properties                                                              *)

Points == Reqs \X (Nat \ {0})

\* The collections, requests and histories are well formed.
TypeOK ==
  /\ kind \in [Mids -> {"none", "capped", "plain"}]
  /\ points \in [Mids -> Seq(Points)]
  /\ events \subseteq [mid: Mids, url: Mids, by: Reqs]
  /\ \A r \in Reqs : req[r].todo \subseteq DOMAIN req[r].batch
  /\ stored \subseteq Points /\ feed \subseteq Points /\ shown \subseteq Points

\* An event has one catalog entry and a capped collection of its own, although the check for the
\* name, the creation and the entry are three operations that two POSTs, or a POST of data, may
\* overlap.  So a GET of the whole catalog, which asks for the statistics of a collection for
\* every entry in it, finds each of them unless an entry's address does not end in its mid; what
\* else can go wrong with it is a point that was posted to the catalog's name, and BSON.
EventOwnsItsCollection ==
  /\ \A e, f \in events : e.mid = f.mid => e = f
  /\ \A e \in events : kind[e.mid] = "capped"
  /\ \A r \in Reqs : req[r].op = "LIST" =>
       /\ req[r].status = 404 => \E e \in events : e.url # e.mid
       /\ req[r].status = 500 => req[r].accept = "bson" \/ points[Catalog] # <<>>
       /\ req[r].status \in {0, 200, 404, 500}

\* What is stored, or returned by a GET, was announced to the subscribers before.
StoredWasAnnounced == stored \cup shown \subseteq feed

\* A POST of data that is refused or cut off by a crash stored the first points in the order
\* of their groups, and none that comes after the failure.
DataLeavesPrefix ==
  \A r \in Reqs : \A i, j \in DOMAIN req[r].batch :
    Sooner(req[r].batch, i, j) /\ <<r, j>> \in stored => <<r, i>> \in stored

\* The points of one POST stay in their order in the collection whatever other POSTs add in
\* between; the ones a capped collection has dropped are the oldest of them.
NewestAreKept ==
  \A m \in Mids : \A r \in Reqs : \A i, j \in DOMAIN req[r].batch :
    LET Has(k) == \E p \in DOMAIN points[m] : points[m][p] = <<r, k>>
        At(k) == CHOOSE p \in DOMAIN points[m] : points[m][p] = <<r, k>>
    IN i < j /\ req[r].batch[i] = m /\ req[r].batch[j] = m /\ Has(i) /\ <<r, j>> \in stored
       => Has(j) /\ At(i) < At(j)

\* 201 means stored: every point of the body, the catalog entry and collection of the event.
CreatedIsStored ==
  \A r \in Reqs : req[r].status = 201 =>
    /\ \A i \in DOMAIN req[r].batch : <<r, i>> \in stored
    /\ req[r].op = "EVENT" => [mid |-> req[r].mid, url |-> req[r].url, by |-> r] \in events
=============================================================================
