# Formal models of UNIS

UNIS (periscope) is a REST server for network topology and measurement resources. One tornado
process keeps resources as JSON documents, keeps every version of them (unless `--nohistory` is
set), publishes changes to websocket clients, and summarizes what it has in *manifests* for a
parent server. This directory holds TLA+ models of its parts, the TLC configurations that check
them, and TLAPS proofs about them. Paths are relative to `src/`.

Run from this directory: `tlc -config X.cfg M` checks a module, `tlapm M.tla` its proofs.

## 1. Inventory

| part | source | state | operations | interacts with |
|---|---|---|---|---|
| Network resource handler | `periscope/handlers/networkresourcehandler.py` | none between requests | POST, PUT, DELETE, GET of an id, GET of a collection | DBLayer (awaited), subscription manager (called) |
| DBLayer | `periscope/db.py` | collections and the `manifests` collection in the database | insert, update, find, count, `_insert_id`, manifest shards | MongoDB or the in-memory engine |
| Query parsing, list options | `networkresourcehandler.py` 246-540 | none | GET arguments to a query, count, cursor, page | both engines |
| Subscription manager | `periscope/handlers/subscriptionmanager.py` | the list of subscriptions: conditions, fields, collection, count, client list | createChannel, removeChannel, publish | called by all handlers, calls websocket handlers |
| Websocket handler | `periscope/handlers/subscriptionhandler.py` | the channels of one connection | open, on_message, on_close, deliver | subscription manager |
| In-memory engine | `periscope/dblayers/none.py` | documents in memory, snapshot files | insert, update, find, replace, `_snap` thread, load at startup | DBLayer, file system |
| Measurement store | `periscope/handlers/eventshandler.py`, `datahandler.py` | one capped collection per metadata id, the event catalog | POST and GET of /events and /data | MongoDB, metadata over HTTP, subscription manager |
| Collections, exnodes, extents | `collectionhandler.py`, `exnodehandler.py`, `extenthandler.py` | a cache of links per request | POST creates members by HTTP, inline GET, PUT, folder listing | the server itself, over its own HTTP port |
| Application, startup | `periscope/app.py`, import of `periscope/models.py` | options, identity, routes, indexes, schema files | import, initialize, get_db_layer, registration of the measurement store | database, schema host, other servers |
| Configuration | `periscope/config.py`, `settings.py` | options | defaults, file, command line; tables of routes, resources and schemas | application |
| Exnode pruning | `scripts/deep_prune_exnodes.py`, `unis_prune_exnodes.py` | threads, verdicts | walk the tree, test extents, remove files and records | database, IBP depots |
| IBP client | `scripts/protocol/` | none | Probe, Manage, Release, Check, Allocate, Store, Load, Send, Copy | depots, over sockets that time out |
| Manifest aggregation | `app.py` 255-310 | the shards | `_aggregate_manifests`, `_report_to_root` | database, parent server |
| Lookup mode | `registerhandler.py`, `delegationhandler.py` | services and manifests of child servers | register, delegate a query | child servers |
| Models | `periscope/models.py` | schema cache | defaults, key escaping, validation | jsonschema |
| Simple handlers, SSE, ppi | `mainhandler.py`, `abouthandler.py`, `schemahandler.py`, `ssehandler.py`, `pp_interface.py` | none | GET | - |
| Auth, filters, tools, examples | `auth.py`, `filters/`, `gemini.py`, `misc/`, `example/` | outside or off by default | - | - |

What is hard here:

* **Interleaving at awaits.** Handlers are coroutines on one event loop. Between two awaits a
  handler is alone; at an await every other request may run. Bulk writes of MongoDB are not
  atomic either. POST is shard, insert (document by document), publish, read back; PUT and DELETE
  change versions in place meanwhile; a GET counts first and reads later.
* **Two threads.** The in-memory engine adds a thread that dumps collections to files, with a
  lock for each list, none for documents and none for the dictionary of collections.
* **Partial failure.** An ordered bulk insert stops in the middle, a field filter of one
  subscriber ends a publish call for all, the database refuses one group of a POST of data.
* **Crashes.** Between shard and document, between database and subscribers, in the middle of a
  snapshot, between the collection of an event and its catalog entry.
* **Bookkeeping.** Subscriptions are shared and reference counted, by statements that could drift.
* **Limits.** Capped collections drop their oldest points while POSTs are under way; a server that
  posts to itself takes the connections that its own members need.
* **Pages.** A client reads a collection page by page with skip and limit while it changes.
* **Several processes.** Servers share a database at startup, scripts clean it while clients upload
  and depots lose leases or do not answer.

Properties that make each part correct: the counters, client lists and remembered channels of the
subscription service agree, and sharing subscriptions shows to a client only in what it is sent of
a resource, which whoever stated the interest first has chosen; versions of a resource stay distinct
and are never lost, a deleted one stays hidden unless a PUT names a `$status`, answers tell the truth
about what was stored, announced and summarized; the engines accept no document that fails the
client's query, and who reads all pages misses nothing; a server that comes back from its snapshot serves everything a finished snapshot had; an
event owns its capped collection and a POST of data leaves a prefix; a collection is stored after
its members and every request ends; a server answers under one identity, on indexed collections;
a file that a script keeps has no hole in front of an extent, and what every call of a script has
found good stays.

## 2. Modules

| module | models | extended by |
|---|---|---|
| `PubSub` | the abstract publish/subscribe service | (instance in `SubscriptionManager`) |
| `SubscriptionManager` | manager and websocket handlers; implements `PubSub` | `SubscriptionManagerMC`, `SubscriptionManagerProofs` |
| `NetworkResource` | the REST handlers over DBLayer and MongoDB | `NetworkResourceMC`, `NetworkResourceProofs` |
| `Query` | GET arguments, the queries they make, both engines, pages | `QueryMC`, `QueryProofs` |
| `MemStore` | the in-memory engine, its snapshots, crash and restart | `MemStoreMC`, `MemStoreProofs` |
| `MeasurementStore` | POST and GET of events and data, capped collections | `MeasurementStoreMC`, `MeasurementStoreProofs` |
| `CollectionPost` | POST of nested collections and GET of exnodes over the server's own HTTP client | `CollectionPostMC`, `CollectionPostProofs` |
| `Settings` | the tables of `settings.py`, the layers of `config.py` | `Startup` |
| `Startup` | import, listening, initialize and registration of several servers | `StartupMC`, `StartupProofs` |
| `IBP` | commands to depots whose answers may be lost | `ExnodePrune` |
| `ExnodePrune` | the two pruning scripts, users and uploads; composes `IBP` | `ExnodePruneMC`, `ExnodePruneProofs` |

Operators named *mutant* in the comments are not used by the specifications. Each is a definition
as a plausible mistake would have written it; putting one in the place of the original makes the
property it was written for fail, which shows that the property depends on the code.

**SubscriptionManager.** No code of the manager awaits, so each callback and each publish call is
one action. `subs` is the `subscriptions` list, indexed by channel in order of creation;
`channels[c]` is the list of a handler; `socket[c]` says whether the peer is connected, gone
without `on_close` having run (`lost`), or closed. A client list, which holds a handler once for
each of its subscriptions, is a set of tickets `<<socket, k>>`; `list.remove` takes any of the
socket's tickets. Conditions are abstracted to the set of resources they accept (`Accepts`), since the manager only evaluates them, and the set of those on which evaluating them raises
(`Raises`: a dotted key into a number, say). `Publish` goes through a batch, stops at the first
resource on which the conditions of some subscription or `trim_published_resource` raise, and gives
the messages before it with what is sent of each resource (`data`). Message headers are left out.
`PubSub` says which filter an interest gets: that of who stated the same interest first, among those
who still hold it; the refinement mapping keeps filters and contents.

**NetworkResource.** `req[r].pc` is the await at which request `r` stands. Documents are
`[id, ts]`, their content is the write that made them (`by`). `store` is the collection, `shards`
the manifest shards, `feed` and `written` are history. A document carries the client's own `$status`
(`mark`), which is escaped to the key that DELETE writes: a POST with it may store a version that is
hidden from the start, and a PUT with it shows a deleted version again, or hides one. `revived`
remembers versions that a PUT has shown again. `InsertNext` is one document of an ordered
`insert_many`; `Mark` one document of `update_many`; `Update` is `find_one_and_update`, which takes
the newest version, deleted or not. `UpsertFails` is the duplicate key in which two upserts of one
new id may end. Validation failures (400) change no state and are left out, as
are projections, and the layout of the body; the options of lists are in `Query`. With
`FiltersRaise` publishing may raise, as
`SubscriptionManager` shows it can. The cursor of a find is read at once.

**MemStore.** The event loop and the `_snap` thread interleave. A lock is held only by `_snap`
across steps, so it is a predicate (`Locked`). An update is two steps, fetch (with the lock) and
apply (without); a dump is one step for each document's begin and end, since `json.dump` iterates
over the live dictionary. `disk` is the set of files: mode `w` makes one `partial` until it is
closed. `Restart` needs all files complete; otherwise `json.load` raises and the server stays
without a database. `replace_one`, queries and cursors are left out.

**MeasurementStore.** `kind` says how the collection of a metadata id came to be: `capped` by an
event, `plain` by data that came first. POST /events is fetch and list, create, catalog; POST
/data goes group by group, publishing a group before storing it point by point. `GetEvents` and
`GetMids` read the catalog and `Stats` asks for each collection in it; `GetEvent` is always 404,
because its route has no collection of its own. An entry has a `url`, the last part of its
metadata_URL, under which the catalog is read, while its collection has the name that the fetched
body gives (`mid`); points posted to the catalog's own name are `Strays`, which have no url; an
answer in BSON is a 500, as `bson_encode` is not imported (`Encode`). `GetData` opens one cursor per id, `CountPoints`
counts, `ReadPoints` reads. A crash needs no action: the handlers keep nothing, so it is a request
that stops, and every invariant holds wherever a request may stop.

**Query.** An argument is a list of alternatives of operators, types and values, as the parser
splits them; a value is a number, a boolean, a string, a list, `null` or unreadable. `Asked` is the query
that `Refuse` or `Parse` make of it, `Filter` adds the clause of the status as the handler does; the
in-memory engine takes that clause out again. `Count` and `Find` are the two awaits with MongoDB;
`MongoRefuses` is the query that ends the first in a 404. `MemoryGet` is a GET of the in-memory
engine, whose coroutines never suspend. `MongoMatches` and `EngineMatches` are the two evaluations,
of which only the second is code of the repository; it compares as Python does, to which `True` is
1, so `EngineFindsNoMore` compares it with MongoDB on documents whose booleans are numbers
(`Loosened`) and on the query without the status. Keys that can be sorted in memory are numbers
of all documents or strings of all. A page with `unique` may be short before the end, and the client of
`PagesMissNothing` would stop there, so that property is about pages without it.
`NextPage` is the client who raises `skip`; `Post`, `Put` and `Delete` are others.

**CollectionPost.** `call[p]` is what the sender of a request knows, `handler[p]` where its
handler stands, `item[p]` the resource of its body that is processed. `CreateChildren` queues the
members of one resource in any order, `Dispatch` hands out the connections of the
AsyncHTTPClient (a client request of outside needs none), `GiveUp` is its time limit, after which
the handler of the request still goes on. The answer to a read of extents is taken for the extents
whatever its status is (`AllCreated`). A request may be refused with some or all of its resources
stored (`InsertFails`), so `stored` is about resources. Hyperlinks that dangle, a tornado without `gen.Task`, a
database that fails and a crash end requests early. What a member is made of is left out: `Body`
gives for each request the members of each of its resources.

**Startup.** The record of a measurement store has the host's name for an id and the stamp of
the start that made it; `services` are the versions in the server's own database, `elsewhere` those
posted to another server. A schema's own id is taken to be the URI it is loaded from: the cache is
keyed by it, and the copies in the repository carry other ids. `pc[s]` is where the start of server `s` stands: import with the cache of schema
files (`Fetch` opens a file, `Write` fills it), `Listen`, one `MakeRoute` per route with its
index, `FindUuid` and `InsertUuid`, `AddHandlers`, registration. An exception in `initialize`
leaves the process listening (`stuck`); `CannotStart` is what happens with ssl and with lookup.
`Crash` may come anywhere. The database, the schema files and the identities shown survive.

**ExnodePrune and IBP.** A call of `search_children` is `[by, of]`, the call that made it and the
exnode it is for, and `task[c]` is how far it is: which extents its threads have tested and which
they have found alive. A file in a directory with two versions is so tested twice, maybe at the same
time. `FindAlive` needs an answer to the status and the probe; `FindDead` covers
dead leases, depots that are away, time-outs and unreadable records, which the script does not
tell apart. `Reach` is the loop of `clean_exnode`, `Keep` and `Discard` its verdict. For the
second script, `scan` goes over the lifetimes, of the extents embedded in a file or of all that
name its id (`Look`), and `phase` is the part of `main`. Releases take
one read reference at a time, and a time-out leaves open whether the depot has done so.

## 3. Runs

| run | bounds | what it shows |
|---|---|---|
| `subscription_bookkeeping` | 2 sockets, 2 subscriptions each | counters = lists = channels, `list.remove` never fails, one subscription for a query; lost sockets leave all lists |
| `subscription_delivery` | 2 sockets, 2 queries, 2 collections, batches of 2, filters, conditions that raise | the manager implements `PubSub`, contents included |
| `resource_history` | 3 requests of any kind, batches of 2, 2 stamps, `$status` words, raising filters, 1 crash (404,000 states) | nine properties of writes and reads |
| `resource_nohistory` | 3 requests, one document each, the status DELETED from clients, 1 crash (231,000 states) | acknowledged writes are readable, every request is answered |
| `resource_readback` | POST against PUT | **violated**: the answer to a POST is an empty list |
| `query` | 3 documents, 4 writes by others, about 45 kinds of GET, both engines (2.1 million states) | no wrong document is found, pages miss nothing, many documents have brackets |
| `memstore_snapshots` | 2 collections, 2 documents, 2 updates of each, 2 crashes | files are cuts, hold no more than one torn update per document, survive crashes; documents reach disk |
| `memstore_retained` | 1 crash | **violated**: a truncated file keeps the server from starting |
| `measurement_store` | 3 requests, 2 ids, batches of 3, capacity 2, odd addresses, points in the catalog (984,000 states) | events own their collections, data is stored in order, prefixes on failure, nothing unannounced is shown |
| `collection_post` | a chain of 3 members, a GET, a dangling link, 2 connections, any number of crashes (296,000 states) | members come first; every request is answered |
| `startup` | 2 servers, 2 starts each, 2 schemas, 5 routes, 6 configurations (807,000 states) | indexes before routes, one identity per server, schema files stay whole, who is found was complete and answers if it is of the present start |
| `exnode_prune` | a directory with 1 or 2 versions, 1 or 2 files of 1 or 2 extents, 1 upload, 2 users (919,000 states) | what is kept has no hole, what every call finds good stays, each reference is given back once, files go before records |

Why the bounds are enough: every race in these modules is between two requests, and a third sets
the stage (a version to change, an event to fill) or reads. Two documents in a batch are the least
for which "the rest of the batch" exists, two versions of an id the least for which "newest" means
something; capacity 2 overflows with one POST of three points. For the snapshots, one collection
exists from startup and one is created while a dump may run, and two crashes let a loaded file be
the base of the next one. With three documents and a limit of one there are pages before, at and
after a change. A chain of three members on two connections is the smallest in which those who
wait hold all connections. Two starts of two servers let the second start find what the first has
left half done, and two identities arise. `MCLoads` and `MCRoutes` take from the tables of
`Settings` what differs for the code: routes that share a collection, one without, the core schema
and one other. The trees of `exnode_prune` place two extents of sizes one and two before, at,
over and behind each other, and one has a directory in two versions, since the proof of
`KeptStays` showed that a version which was read before an upload takes the directory away from
the other; extents of size zero are left out (see below). Symmetry is used over requests,
metadata ids, servers and users in runs that check no liveness. `CHECK_DEADLOCK FALSE` stands
where the bound on requests, writes, starts or crashes makes the system stop, or where a script
or all requests come to their end.

Fairness: tornado calls `on_close` for every connection that is gone (weak fairness of `OnClose`
on lost sockets only); the database answers and the event loop resumes who waits (weak fairness of
a request's steps); the operating system schedules the snapshot thread (weak fairness of its
steps); in `CollectionPost` the event loop does not stop while there is anything to do (weak
fairness of `Loop`: handlers, free connections and timers together; no request takes more than a
few steps, so this is fair to each). Clients, crashes, restarts, and the updates of the event loop
in `MemStore` are not fair. `Query`, `MeasurementStore`, `Startup` and `ExnodePrune` state no fairness and
check safety only.

Violated runs, each against a sentence of the repository: see "findings" in `PROJECT.json`.
Disagreements that were seen on the way and have no run of their own:

* Subscriptions: conditions that cannot be evaluated on a resource, a dotted key into a number say,
  end a publish call for everybody (`subscriptionmanager.py:101`). Who joins one gets the fields of who created it (`subscriptionmanager.py:144`).
  In a batch the headers of all messages carry the id of the first match
  (`subscriptionmanager.py:124`). A field filter that names a missing key ends a publish call, and
  thereby turns a stored POST into a 409.
* Reads: a DELETE between the count and the cursor of a GET leaves 200 with an empty body
  (`networkresourcehandler.py:498`). GET of an unknown id answers 200 with `[]` and DELETE of one
  204, where the documentation says 404; the DELETE is announced as well
  (`networkresourcehandler.py:720`). A PUT whose body names `$status` makes a deleted version
  visible again, since the key is escaped like any other (`models.py:134`). Alternatives with `|`, which
  `docs/source/rest/query_ref.rst:46` describes, are answered 403
  (`networkresourcehandler.py:325`). The operator is removed from a value with `lstrip`, which
  takes leading letters of the value along (`networkresourcehandler.py:286`); the model takes values
  as they are after that. A PUT whose `ts`
  another version has is answered 404, documented as 409. With `unique` and `limit` duplicates are
  dropped after the cursor was cut, so a page that is not full is not the last one. Operators in a
  list of values are answered 404 by MongoDB, `reg=` and `exists=` before a list 403.
* Collections: a PUT is answered 204 and changes nothing, because the coroutine is not awaited
  (`collectionhandler.py:44`; `docs/source/rest/domain_ref.rst:27`). The folder listing calls
  `getRecParentNames` with an argument too few (`exnodehandler.py:33`). A GET of exnodes with
  inline takes the text of an error for the extents (`exnodehandler.py:49`). A POST that stored its
  collection and is refused afterwards makes the POST of the parent fail.
* Measurement store: a GET of the catalog is 404 when the last part of a metadata_URL is not the
  id in the body behind it (`eventshandler.py:41` and 72), and 500 when points were posted to the
  name `events_cache` or BSON is asked for (`eventshandler.py:97`). GET of one event is always 404 (`settings.py:405`); GET of data ignores
  limit, skip and sort for what it reads (`datahandler.py:111`); a range of `ts` on /events is
  answered 500. A crash between the creation of a collection and the catalog entry leaves a
  collection for which no event can be made.
* In-memory engine: it removes `$status` from the dictionary by which the GET handler afterwards
  decides about brackets (`dblayers/none.py:53`, `networkresourcehandler.py:460` and 481), shows
  deleted resources, takes `True` for 1, ignores the `sort` of updates, raises on a page that goes past the end
  (`none.py:182`), and its `replace_one` writes index 1. The snapshot thread ends when a
  collection or key is added at the wrong moment.
* Startup: with lookup or ssl `initialize` ends before there is a route; the record of a
  server's measurement store outlives the start that made it (`app.py:322`), so a server that was
  restarted is found while it answers 404; flags that are not on the
  command line overwrite the configuration file (`config.py:92`); the aggregation task ends with
  an exception in its first round, and `_report_to_root` is called but not awaited.
* Scripts: a file whose last extent is dead is kept (`deep_prune_exnodes.py:66` compares with `>`),
  though line 67 logs such files as incomplete, with the actual and the expected size. A file in a
  directory with two versions is tested once for each, and one call may remove what the other has
  found good. An extent of size zero makes the loop of `clean_exnode` endless
  (`deep_prune_exnodes.py:60`); what is condemned by the scan of the second script is removed
  even if it was renewed since; `Copy` uses names that do not exist (`factory.py:77`).

## 4. Proofs

`SubscriptionManagerProofs` proves, for any number of sockets, queries, channels and
subscriptions, that type correctness, `CounterIsClients`, `RegisteredExactly`,
`OneSubscriptionPerQuery` and `RemovalNeverRaises` are invariants. The assumption is the one that
the module states about its constants. None of them is inductive alone: the counter is right after
a removal only because the tickets of a handler in a list are as many as the channels it
remembers, and that is `RegisteredExactly`; a handler may be taken out because its tickets are
there, and no two subscriptions answer one query because channels are fresh. `IInv` is the
conjunction of the four with the type invariant; the proof has one lemma for each action, and
counts tickets with the theorems about finite sets.

`NetworkResourceProofs` proves, for any number of requests, ids, stamps and crashes, any batch
size, with and without history, all nine properties that `resource_history` checks. The
assumptions are the module's: the modes are Boolean, the bounds are numbers, a batch holds at
least one document. The invariants are built in layers; the last two extend the second:

* `WriteInv` (`TypeCorrect`, `ShardsComeFirst`, `SuccessStaysComplete`,
  `PrefixesAreLeft`): the type invariant; the collections are finite; and
  for each request what it has done by where it stands (`Progress`): at position `at` of an insert
  the documents before `at` are written and all shards are, at `publish` all documents are, at
  `readback` all events are out. `ShardBeforeRecord`, `FeedIsTrue`, `SuccessIsComplete` and
  `PostLeavesPrefix` say something about answered requests or about records; only `Progress` says
  why they hold when the answer is given.
* `VersionInv` (`VersionsStayDistinct`, `VersionsAreNeverLost`): adds the shape of keys. Without
  history the key is the id, so a replacement removes what it replaces. With history an `_id` and
  a stamp are checked separately, by the conflict test of inserts and of updates, because an
  update gives a record a stamp that its `_id` does not have.
* `DeleteInv` (`DeletesAreSeen`, and with `WriteInv` `FeedStaysTrue`): the keys a DELETE has found are in the store for good, and when
  its update is done each of them is marked; a GET carries the keys that were gone when it began,
  and a mark is taken back only where `revived` says so.
* `ReadInv` (`AcknowledgedIsReadable`): an id that a POST has written stays known, and is visible
  until a DELETE of it begins or a client writes the status DELETED, so a count cannot be zero.

Each layer has one lemma for each kind of step and one for the steps that leave its state alone.

`CollectionPostProofs` proves, for any number of requests, resources, members and connections,
any nesting, and any failures and crashes, that a collection is in the database after its members
only (`HrefsAreStored`). It assumes what the module says of its constants: members are
requests of handlers, and what a POST brings has no GET among its members. The property alone is not
inductive: that a member is stored is known to the handler from an answer only, and remembered by
how far it is in its body. `IInv` adds that a request that was answered well, or is complete, has
stored all its resources, and that the members of every resource that is behind are stored; then any
part of the body may be stored (`Storing`). Most steps store nothing and say nothing, which is one
lemma (`Quiet`).

`StartupProofs` proves the four properties of `startup` for any number of servers, starts, crashes,
schemas, routes and configurations; the assumption is that there is a route. An invariant for each
says what a start has achieved by the place it has got to: what the cache holds is in a whole
file, and a server that was started once finds everything there (`FileInv`); the routes before
`at` are indexed (`IndexInv`); who is about to insert an identity has none in the database, and
who is past that has one there (`IdInv`); what is registered was registered by a start that has
got to the end (`ServiceInv`), and whatever start that was, its schema files, indexes and identity
are still there (`CompleteInv`). None of the properties mentions the places between two steps,
where a crash or another server comes in, so none is inductive.

`SubscriptionManagerProofs` also proves that the manager implements the service of `PubSub`
(`ImplementsService`): the initial states map to the initial state of `PubSub`, and each callback
and each publish call to one of its steps or to none. Contents of messages are part of it. It uses
`IInv`: a client gets what its interests call for only because every ticket in a list is a channel
that its handler remembers, and the filter of an interest is settled by who holds it because no two
subscriptions answer one query.

`MeasurementStoreProofs` proves, for any number of requests and points, any capacity and any finite
set of metadata ids, type correctness and the five properties of `measurement_store`. Again there is
one invariant for each, about the places between two steps:

* `EventInv` (`EventsOwnCollections`): between the creation of a collection and its catalog entry
  no one else is there for the same id, and what a GET of the catalog still has to ask for is an
  entry, the last part of whose address may be another name, or a stray.
* `StoredInv` (`PrefixesStored`): what the database has taken is what is no longer left to do, and
  what is left is closed under "later in the same group".
* `CreatedInv` (`CreatedMeansStored`): 201 is the answer of a request with nothing left.
* `FeedInv` (`AnnouncedFirst`): while a group is stored all of it has been published.
* `OrderInv` (`NewestKept`): points of one request stand in the order of its body, and if one is
  in the collection so are the later ones that were stored.

`MemStoreProofs` proves type correctness and the three safety properties of `memstore_snapshots`
for any number of documents, updates and crashes and any finite set of collections. `FrontInv`
relates each file, finished or not, to what is in memory: the file holds the same documents
in the same order, and none is newer or torn by more than one update, because an update cannot
begin while the thread holds the lock of the list, though one that has begun may end. `SavedInv`
keeps what was once finished in the file or, while the file is rewritten, in memory.

`ExnodePruneProofs` proves the four safety properties of `exnode_prune`, for any trees, versions,
extents, uploads, leases and users. It assumes of the trees (`TreesAssumption`, `Extents`) that
extents of different files differ and none is without bytes, for which `clean_exnode` would
not end. `HoleInv` says that the verdict on a file that was kept is still supported by the extents
that were alive (`NoHoles`). `WalkInv` says what is gone and what is there by how far the walk has
come (`GoodStays`). `RecordsInv` says that while records are removed the file is gone
(`FilesGoFirst`). `ReleaseInv` says that a user who takes references has counted all that are left
(`OneReleases`). `KeptStays` was stated without other versions first; its proof did not go
through, and TLC found the counterexample as soon as a tree had a directory in two versions. It now
speaks of every call for a file, since two of them may come to different verdicts on one version.

`QueryProofs` proves the three properties of `query` for any documents, arguments, pages and writes
by others. It assumes of the constants that arguments have what the parser can split them into, and
every document has an id.
`NothingElseIsFound` rests on a lemma about every query that the parser makes (`AskedIsGood`) and
one about the engine on such queries (`EngineIsLoose`). `NothingSlipsBy` needs `AheadInv`: each
document that matched when the client began is on a page, or was changed, or is among those that
the next page has not skipped, which are counted (`Numbered`, `Ahead`). `ManyHaveBrackets` follows
from what `Respond` writes.

Every safety and action property of the passing runs is thereby stated by a theorem. Only
model-checked is liveness (`LostIsForgotten`, `EveryRequestAnswered`, `DocumentsReachDisk`,
`EveryRequestIsAnswered`), which needs fairness and ENABLED and is out of TLAPS's reach. No module
uses RECURSIVE operators.

## 5. Plan

1. `MongoKeys`: the escaping of keys (`models.py` 128-165) against a round trip.
2. Message headers of `SubscriptionManager`, `replace_one` of `MemStore`.

## 6. Not modelled

* Lookup mode, registration and delegation, authentication with ssl: `initialize` ends before
  their routes exist, so no request reaches them (`CannotStart` of `Startup`).
* Manifest aggregation and reports: the task ends with an exception in its first round whatever it
  finds. The shards it would read are part of `NetworkResource`.
* ABAC policies, filters and the `gemini` client: calls of an external library, off by default.
* JSON schemas and validation, classes made from schemas, BSON, content negotiation, projections
  (data and layout, no state), and `recfind`, which asks the database for parents of parents.
* The tailable GET and server-sent events: names that do not exist, and a condition that never holds.
* `Allocate`, `Store`, `Load`, `Send` and `Copy` of the IBP client: no script calls them.
* Other tools, examples and the documentation's configuration: outside the server.
