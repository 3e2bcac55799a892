--------------------------- MODULE NetworkResource --------------------------
(***************************************************************************)
(* The REST handlers of one collection (handlers/networkresourcehandler)   *)
(* over DBLayer (db.py) and MongoDB.  The server is one event loop: a      *)
(* handler runs without interruption from one await to the next, and       *)
(* handlers of other requests run while it waits, so every action below is *)
(* either one database operation or the code between two of them.  A bulk  *)
(* insert and a multi-document update are not atomic in MongoDB: other     *)
(* operations come between their documents.                                *)
(*                                                                         *)
(* The content of a document is the write that produced it: <<r, i>> is    *)
(* the i-th document of request r.                                         *)
(***************************************************************************)
EXTENDS Integers, Sequences, FiniteSets

CONSTANTS Reqs,         \* the requests ever made
          Ids,          \* resource ids
          History,      \* FALSE when the server runs with --nohistory
          ClientStamps, \* TRUE when clients put a `ts' of their own into documents
          FiltersRaise, \* TRUE when a subscriber's field filter may make publish raise
          Operations,   \* the operations clients use
          Marks,        \* what clients put into `$status': nothing, some word, or DELETED
          MaxBatch,     \* bound: documents in a POST
          MaxClock,     \* bound: time.time()
          MaxCrashes    \* bound: crashes of the server

ASSUME ConstantsAssumption ==
  /\ {History, ClientStamps, FiltersRaise} \subseteq BOOLEAN
  /\ Operations \subseteq {"POST", "PUT", "DELETE", "GET", "LIST"}
  /\ "none" \in Marks /\ Marks \subseteq {"none", "live", "DELETED"}
  /\ {MaxClock, MaxCrashes} \subseteq Nat
  /\ MaxBatch \in Nat \ {0}

VARIABLES store,   \* the collection
          shards,  \* the manifest shards written, by the write they summarize
          req,     \* the state of each request
          clock,   \* time.time()
          crashes, \* crashes so far
          written, \* history: the writes the database has applied
          feed     \* history: the events handed to the subscription manager

vars == <<store, shards, req, clock, crashes, written, feed>>

Writes == Reqs \X (1..MaxBatch)

\* A stored document.  `_id' is "id:ts" of the insert, or the id alone without history.  deleted
\* says that the stored key `\$status' is DELETED; revived is history: it was, and a PUT has
\* since given it another value.
Key(d) == IF History THEN <<d.id, d.ts>> ELSE <<d.id, 0>>
Keys == Ids \X Nat
Record == [key: Keys, id: Ids, ts: Nat, by: Writes, deleted: BOOLEAN, revived: BOOLEAN]

\* A client's own `$status' is escaped to the key that DELETE writes.
Doc == [id: Ids, ts: Nat, mark: Marks]

\* The state of a request: what was asked, where its handler is and what it has found.
NewRequest(op, pc, docs, acked, gone) ==
  [op |-> op, pc |-> pc, docs |-> docs, at |-> 1, todo |-> {}, hit |-> {}, count |-> 0, body |-> {},
   status |-> 0, acked |-> acked, gone |-> gone]

NoRequest == NewRequest("none", "idle", <<>>, {}, {})

Init == /\ store = {}
        /\ shards = {}
        /\ req = [r \in Reqs |-> NoRequest]
        /\ clock = 1
        /\ crashes = 0
        /\ written = {}
        /\ feed = {}

Stamps == IF ClientStamps THEN 1..clock ELSE {clock}

Of(id) == {rec \in store : rec.id = id}
Visible == {rec \in store : ~rec.deleted}
Latest(recs) == {rec \in recs : \A other \in recs : other.ts <= rec.ts}

\* What the clients have been told so far; GET requests carry it as history.
AckedIds == UNION {{req[p].docs[i].id : i \in DOMAIN req[p].docs} : p \in {p \in Reqs : req[p].status = 201}}
Hides(q, i) == q.op = "DELETE" \/ q.docs[i].mark = "DELETED"
HiddenIds ==
  UNION {{req[p].docs[i].id : i \in {i \in DOMAIN req[p].docs : Hides(req[p], i)}} : p \in Reqs}
GoneKeys == UNION {req[p].todo : p \in {p \in Reqs : req[p].op = "DELETE" /\ req[p].status = 204}}

Goto(r, pc) == req' = [req EXCEPT ![r].pc = pc]
Answer(r, status) == req' = [req EXCEPT ![r].pc = "done", ![r].status = status]

-----------------------------------------------------------------------------
(* The head of each handler, up to its first await                         *)

Begin(r, op, pc, docs) ==
  /\ op \in Operations
  /\ req[r].pc = "idle"
  /\ req' = [req EXCEPT ![r] = NewRequest(op, pc, docs, AckedIds, GoneKeys)]
  /\ UNCHANGED <<store, shards, clock, crashes, written, feed>>

\* ids and stamps the client leaves out are drawn by the server; a fresh id is one more id.
\* A new document with a $status other than DELETED is like one without.
Post(r) == \E n \in 1..MaxBatch : \E docs \in [1..n -> Ids \X Stamps \X (Marks \ {"live"})] :
  Begin(r, "POST", "shards",
        [i \in 1..n |-> [id |-> docs[i][1], ts |-> docs[i][2], mark |-> docs[i][3]]])

Put(r) == \E id \in Ids, ts \in Stamps, mark \in Marks :
  Begin(r, "PUT", "shards", <<[id |-> id, ts |-> ts, mark |-> mark]>>)

Delete(r) == \E id \in Ids : Begin(r, "DELETE", "scan", <<[id |-> id, ts |-> 0, mark |-> "none"]>>)

Get(r) == \E id \in Ids : Begin(r, "GET", "count", <<[id |-> id, ts |-> 0, mark |-> "none"]>>)

List(r) == Begin(r, "LIST", "count", <<>>)

-----------------------------------------------------------------------------
(* POST and PUT: DBLayer.insert and DBLayer.update                         *)

\* Mutants: only the first document is summarized; the insert is not awaited and gets lost.
WriteFirstShard(r) ==
  /\ req[r].pc = "shards"
  /\ shards' = shards \cup {<<r, 1>>}
  /\ Goto(r, IF req[r].op = "POST" THEN "insert" ELSE "update")
  /\ UNCHANGED <<store, clock, crashes, written, feed>>

WriteShardsOnly(r) ==
  /\ req[r].pc = "shards"
  /\ shards' = shards \cup {<<r, i>> : i \in DOMAIN req[r].docs}
  /\ Goto(r, IF req[r].op = "POST" THEN "publish" ELSE "update")
  /\ UNCHANGED <<store, clock, crashes, written, feed>>

\* Both write the manifest shard first and await that.
WriteShards(r) ==
  /\ req[r].pc = "shards"
  /\ shards' = shards \cup {<<r, i>> : i \in DOMAIN req[r].docs}
  /\ Goto(r, IF req[r].op = "POST" THEN "insert" ELSE "update")
  /\ UNCHANGED <<store, clock, crashes, written, feed>>

\* Mutant: the index on (id, ts) is not unique.
ConflictsOnIdOnly(recs, d) == \E rec \in recs : rec.key = Key(d)

\* `_id' is unique, and so is the index on (id, ts) that get_db_layer creates.
Conflicts(recs, d) == \E rec \in recs : rec.key = Key(d) \/ (rec.id = d.id /\ rec.ts = d.ts)

Inserted(r, i) ==
  LET d == req[r].docs[i]
  IN [key |-> Key(d), id |-> d.id, ts |-> d.ts, by |-> <<r, i>>,
      deleted |-> (d.mark = "DELETED"), revived |-> FALSE]

Stored(r, i) ==
  /\ written' = written \cup {<<r, i>>}
  /\ req' = [req EXCEPT ![r].at = i + 1,
                        ![r].pc = IF i = Len(req[r].docs) THEN "publish" ELSE "insert"]
  /\ UNCHANGED <<shards, clock, crashes, feed>>

\* The next document of insert_many; an ordered bulk insert stops at the first duplicate.
InsertNext(r) == LET i == req[r].at IN
  /\ req[r].pc = "insert" /\ History
  /\ ~Conflicts(store, req[r].docs[i])
  /\ store' = store \cup {Inserted(r, i)}
  /\ Stored(r, i)

\* Mutants: the error is swallowed; the bulk insert is unordered and skips the duplicate.
InsertErrorIgnored(r) ==
  /\ req[r].pc = "insert" /\ History
  /\ Conflicts(store, req[r].docs[req[r].at])
  /\ Goto(r, "publish")
  /\ UNCHANGED <<store, shards, clock, crashes, written, feed>>

InsertSkips(r) == LET i == req[r].at IN
  /\ req[r].pc = "insert" /\ History
  /\ Conflicts(store, req[r].docs[i])
  /\ IF i = Len(req[r].docs) THEN Answer(r, 409) ELSE req' = [req EXCEPT ![r].at = i + 1]
  /\ UNCHANGED <<store, shards, clock, crashes, written, feed>>

InsertFails(r) ==
  /\ req[r].pc = "insert" /\ History
  /\ Conflicts(store, req[r].docs[req[r].at])
  /\ Answer(r, 409)
  /\ UNCHANGED <<store, shards, clock, crashes, written, feed>>

\* Without history, replace_one({id: ...}, item, upsert=True) for one item after the other.
ReplaceNext(r) == LET i == req[r].at IN
  /\ req[r].pc = "insert" /\ ~History
  /\ Of(req[r].docs[i].id) # {}
  /\ store' = (store \ Of(req[r].docs[i].id)) \cup {Inserted(r, i)}
  /\ Stored(r, i)

\* An upsert that finds nothing inserts; another may have inserted the id in between.
ReplaceMisses(r) ==
  /\ req[r].pc = "insert" /\ ~History
  /\ Of(req[r].docs[req[r].at].id) = {}
  /\ Goto(r, "upsert")
  /\ UNCHANGED <<store, shards, clock, crashes, written, feed>>

Upsert(r) == LET i == req[r].at IN
  /\ req[r].pc = "upsert"
  /\ ~Conflicts(store, req[r].docs[i])
  /\ store' = store \cup {Inserted(r, i)}
  /\ Stored(r, i)

UpsertFails(r) ==
  /\ req[r].pc = "upsert"
  /\ Conflicts(store, req[r].docs[req[r].at])
  /\ Answer(r, 409)
  /\ UNCHANGED <<store, shards, clock, crashes, written, feed>>

\* Mutant: the update writes the whole document, status included.
UpdatedWhole(rec, r) ==
  [key |-> rec.key, id |-> rec.id, ts |-> req[r].docs[1].ts, by |-> <<r, 1>>,
   deleted |-> (req[r].docs[1].mark = "DELETED"), revived |-> FALSE]

\* $set: the stamp, the content and a $status that the body names change, _id does not.
Updated(rec, r) ==
  LET d == req[r].docs[1]
  IN [key |-> rec.key, id |-> rec.id, ts |-> d.ts, by |-> <<r, 1>>,
      deleted |-> IF d.mark = "none" THEN rec.deleted ELSE d.mark = "DELETED",
      revived |-> CASE d.mark = "none" -> rec.revived
                    [] d.mark = "live" -> rec.deleted \/ rec.revived
                    [] OTHER -> FALSE]

\* find_one_and_update with sort ts -1 changes the newest version, deleted or not, in place.
Update(r) == LET d == req[r].docs[1] IN
  /\ req[r].pc = "update" /\ req[r].op = "PUT"
  /\ \E rec \in Latest(Of(d.id)) :
       /\ \A other \in Of(d.id) \ {rec} : other.ts # d.ts
       /\ store' = (store \ {rec}) \cup {Updated(rec, r)}
  /\ written' = written \cup {<<r, 1>>}
  /\ Goto(r, "publish")
  /\ UNCHANGED <<shards, clock, crashes, feed>>

\* Mutant: a result that is None passes for success.
UpdateMissIgnored(r) ==
  /\ req[r].pc = "update" /\ req[r].op = "PUT"
  /\ Of(req[r].docs[1].id) = {}
  /\ Goto(r, "publish")
  /\ UNCHANGED <<store, shards, clock, crashes, written, feed>>

\* No such id: the result None is iterated.  The stamp is taken: duplicate key.  Both raise.
UpdateFails(r) == LET d == req[r].docs[1] IN
  /\ req[r].pc = "update" /\ req[r].op = "PUT"
  /\ \A rec \in Latest(Of(d.id)) : \E other \in Of(d.id) \ {rec} : other.ts = d.ts
  /\ Answer(r, 404)
  /\ UNCHANGED <<store, shards, clock, crashes, written, feed>>

-----------------------------------------------------------------------------
(* DELETE: update_many marks every version of the id, one after the other  *)

Scan(r) ==
  /\ req[r].pc = "scan"
  /\ req' = [req EXCEPT ![r].pc = "update",
                        ![r].todo = {rec.key : rec \in Of(req[r].docs[1].id)}]
  /\ UNCHANGED <<store, shards, clock, crashes, written, feed>>

\* The records that update_many has found and not yet been at.
Unmarked(r) == {rec \in store : rec.key \in req[r].todo \ req[r].hit}

MarkedRecord(rec) ==
  [key |-> rec.key, id |-> rec.id, ts |-> rec.ts, by |-> rec.by, deleted |-> TRUE, revived |-> FALSE]

Mark(r) ==
  /\ req[r].pc = "update" /\ req[r].op = "DELETE"
  /\ \E rec \in Unmarked(r) :
       /\ store' = (store \ {rec}) \cup {MarkedRecord(rec)}
       /\ req' = [req EXCEPT ![r].hit = @ \cup {rec.key}]
  /\ UNCHANGED <<shards, clock, crashes, written, feed>>

\* Mutant: the update is not awaited.
MarkedUnawaited(r) ==
  /\ req[r].pc = "update" /\ req[r].op = "DELETE"
  /\ Goto(r, "publish")
  /\ UNCHANGED <<store, shards, clock, crashes, written, feed>>

Marked(r) ==
  /\ req[r].pc = "update" /\ req[r].op = "DELETE"
  /\ Unmarked(r) = {}
  /\ Goto(r, "publish")
  /\ UNCHANGED <<store, shards, clock, crashes, written, feed>>

-----------------------------------------------------------------------------
(* Publishing, which every handler does after its database operations      *)

\* Mutant: documents are counted from zero.
EventsFromZero(r, n) == {[action |-> req[r].op, by |-> <<r, i>>] : i \in 0..(n - 1)}

Events(r, n) == {[action |-> req[r].op, by |-> <<r, i>>] : i \in 1..n}

Publish(r) ==
  /\ req[r].pc = "publish"
  /\ feed' = feed \cup Events(r, Len(req[r].docs))
  /\ CASE req[r].op = "POST" -> Goto(r, "readback")
       [] OTHER -> Answer(r, 204)
  /\ UNCHANGED <<store, shards, clock, crashes, written>>

\* publish raises at one of the documents, the events before it are out.
PublishFails(r) ==
  /\ req[r].pc = "publish" /\ FiltersRaise
  /\ \E n \in DOMAIN req[r].docs : feed' = feed \cup Events(r, n - 1)
  /\ Answer(r, CASE req[r].op = "POST" -> 409 [] req[r].op = "PUT" -> 404 [] OTHER -> 500)
  /\ UNCHANGED <<store, shards, clock, crashes, written>>

\* _post_return looks the new documents up again by id and ts.
ReadBack(r) ==
  /\ req[r].pc = "readback"
  /\ LET found == {rec \in store : \E i \in DOMAIN req[r].docs :
                      rec.id = req[r].docs[i].id /\ rec.ts = req[r].docs[i].ts}
     IN req' = [req EXCEPT ![r].pc = "done", ![r].status = 201, ![r].body = found]
  /\ UNCHANGED <<store, shards, clock, crashes, written, feed>>

-----------------------------------------------------------------------------
(* GET: the count is awaited first, the cursor is read afterwards          *)

Matching(r) == IF req[r].op = "LIST" THEN Visible
               ELSE {rec \in Visible : rec.id = req[r].docs[1].id}

\* Mutant: the handler returns without an answer when there is nothing to find.
CountUnanswered(r) ==
  LET all   == Cardinality(Matching(r))
      count == IF req[r].op = "GET" /\ all > 1 THEN 1 ELSE all
  IN /\ req[r].pc = "count" /\ count > 0
     /\ req' = [req EXCEPT ![r].count = count, ![r].pc = "find"]
     /\ UNCHANGED <<store, shards, clock, crashes, written, feed>>

\* A GET of one id has limit 1.  With nothing to find '[]' is written at once; otherwise a list
\* has brackets and the answer to a GET of one id has none.
Count(r) ==
  LET all   == Cardinality(Matching(r))
      count == IF req[r].op = "GET" /\ all > 1 THEN 1 ELSE all
  IN /\ req[r].pc = "count"
     /\ req' = [req EXCEPT ![r].count = count,
                           ![r].pc = IF count = 0 THEN "done" ELSE "find",
                           ![r].status = IF count = 0 THEN 200 ELSE 0]
     /\ UNCHANGED <<store, shards, clock, crashes, written, feed>>

\* Sorted by ts, newest first.  What is counted and what is read here may differ.
Find(r) ==
  /\ req[r].pc = "find"
  /\ \E body \in IF req[r].op = "GET" /\ Matching(r) # {}
                 THEN {{rec} : rec \in Latest(Matching(r))} ELSE {Matching(r)} :
       req' = [req EXCEPT ![r].pc = "done", ![r].status = 200, ![r].body = body]
  /\ UNCHANGED <<store, shards, clock, crashes, written, feed>>

-----------------------------------------------------------------------------

Active(r) == req[r].pc \notin {"idle", "done", "dead"}

\* The process dies and is started again; the database keeps what it has.
Crash ==
  /\ crashes < MaxCrashes
  /\ crashes' = crashes + 1
  /\ req' = [r \in Reqs |-> IF Active(r) THEN [req[r] EXCEPT !.pc = "dead"] ELSE req[r]]
  /\ UNCHANGED <<store, shards, clock, written, feed>>

Tick ==
  /\ clock < MaxClock
  /\ clock' = clock + 1
  /\ UNCHANGED <<store, shards, req, crashes, written, feed>>

Arrive(r) == Post(r) \/ Put(r) \/ Delete(r) \/ Get(r) \/ List(r)

Step(r) == \/ WriteShards(r) \/ InsertNext(r) \/ InsertFails(r) \/ ReplaceNext(r)
           \/ ReplaceMisses(r) \/ Upsert(r) \/ UpsertFails(r)
           \/ Update(r) \/ UpdateFails(r) \/ Scan(r) \/ Mark(r) \/ Marked(r)
           \/ Publish(r) \/ PublishFails(r) \/ ReadBack(r) \/ Count(r) \/ Find(r)

Next == \/ \E r \in Reqs : Arrive(r) \/ Step(r)
        \/ Crash
        \/ Tick

\* The database answers and the event loop resumes who waits for it.
Spec == Init /\ [][Next]_vars /\ \A r \in Reqs : WF_vars(Step(r))

-----------------------------------------------------------------------------
(* Properties                                                              *)

Positions == {"idle", "shards", "insert", "upsert", "update", "scan", "publish", "readback",
              "count", "find", "done", "dead"}
Statuses == {0, 200, 201, 204, 404, 409, 500}

Request == [op: Operations \cup {"none"}, pc: Positions, docs: Seq(Doc), at: Nat,
            todo: SUBSET Keys, hit: SUBSET Keys, count: Nat, body: SUBSET Record, status: Statuses,
            acked: SUBSET Ids, gone: SUBSET Keys]

\* The state of the database, of the requests and of the history is well formed.
TypeOK ==
  /\ store \subseteq Record
  /\ shards \subseteq Reqs \X (Nat \ {0})
  /\ req \in [Reqs -> Request]
  /\ clock \in Nat /\ crashes \in Nat
  /\ written \subseteq Reqs \X (Nat \ {0})
  /\ feed \subseteq [action: Operations, by: Reqs \X (Nat \ {0})]

\* Versions of a resource are told apart by their stamps: no (id, ts) and no _id occurs twice,
\* however inserts and updates interleave; --nohistory keeps one record for an id.
VersionsDistinct ==
  \A x, y \in store : x # y => /\ x.key # y.key
                              /\ (x.id # y.id \/ (History /\ x.ts # y.ts))

\* The manifest never misses a record: the shard of a write is in the manifest collection
\* before the write is in the store, also when the server dies between the two.
ShardBeforeRecord == \A rec \in store : rec.by \in shards

\* Subscribers are told of nothing that the database has not done.  A POST or PUT that is
\* announced is applied.  When a DELETE is announced every version it has found is deleted, and
\* stays so until a PUT names a $status for it; a DELETE that has found none is announced too.
FeedIsTrue ==
  \A e \in feed :
    /\ e.action \in {"POST", "PUT"} => e.by \in written
    /\ e.action = "DELETE" /\ History =>
         \A rec \in store : rec.key \in req[e.by[1]].todo => rec.deleted \/ rec.revived

\* A success answer means stored, summarized and announced, for each document of the request.
SuccessIsComplete ==
  \A r \in Reqs : req[r].status \in {201, 204} =>
    \A i \in DOMAIN req[r].docs :
      /\ [action |-> req[r].op, by |-> <<r, i>>] \in feed
      /\ req[r].op # "DELETE" => <<r, i>> \in written \cap shards

\* A POST that fails or is cut off by a crash leaves a prefix of its documents.
PostLeavesPrefix ==
  \A r \in Reqs : \A i, j \in DOMAIN req[r].docs :
    i < j /\ <<r, j>> \in written => <<r, i>> \in written

\* A version once stored is never lost: its _id stays in the store whatever PUT and DELETE do
\* to it, and what makes a deleted version visible again is a PUT that names a $status, no other.
VersionsSurvive ==
  [][History => \A rec \in store : \E new \in store' :
       /\ new.key = rec.key
       /\ rec.deleted /\ ~new.deleted =>
            \E r \in Reqs : req[r].op = "PUT" /\ req[r].docs[1].mark = "live" /\ new.by = <<r, 1>>]_vars

\* A GET sent after a DELETE was acknowledged shows no version the DELETE was there for, unless
\* a PUT has named a $status for that version after the DELETE was at it.
DeleteIsSeen ==
  \A r \in Reqs : History /\ req[r].op \in {"GET", "LIST"} =>
    \A rec \in req[r].body : rec.key \in req[r].gone => rec.revived

\* A GET of an id whose POST was acknowledged before finds it, unless somebody asks for the
\* deletion of the id or writes a document of it with the status DELETED.
AckedIsReadable ==
  \A r \in Reqs :
    /\ req[r].op = "GET" /\ req[r].pc = "done"
    /\ req[r].docs[1].id \in req[r].acked \ HiddenIds
    => req[r].body # {}

\* Every request is answered, unless the server dies under it.
EveryRequestAnswered ==
  \A r \in Reqs : Active(r) ~> req[r].pc \in {"done", "dead"}

\* "If one node submitted: The new node representation" is the answer to a POST.  False: a
\* PUT between the insert and the read back changes the ts that the read back looks for.
PostReturnsTheNode ==
  \A r \in Reqs : req[r].status = 201 /\ Len(req[r].docs) = 1 => Cardinality(req[r].body) = 1
=============================================================================
