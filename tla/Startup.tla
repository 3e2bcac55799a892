------------------------------ MODULE Startup ------------------------------
(***************************************************************************)
(* A start of periscope/app.py, from the import of the models to the       *)
(* registration of the measurement store, on servers that share a database *)
(* and may crash at any step.  Each server has schema files of its own.    *)
(* The socket listens before initialize has run: until add_handlers every  *)
(* request is answered 404.                                                *)
(*                                                                         *)
(* What is registered with DBLayer.insert is taken for one step: its steps *)
(* are those of NetworkResource.  The id in a schema, which names its file *)
(* and its entry in the cache, is taken for the address it is fetched by.  *)
(***************************************************************************)
EXTENDS Settings, FiniteSets, SequencesExt

CONSTANTS Servers,
          Loads,      \* the schemas of an instance, of Schemas
          Routes,     \* the routes of an instance, of Resources
          Given,      \* configuration files and sets of flags on the command line
          NoUuid,     \* before an identity is known
          MaxStarts   \* bound: starts of each server

ASSUME ConstantsAssumption == Routes \in Seq(Range(Routes)) \ {<<>>}

VARIABLES
  indexed,   \* database: collections with the unique index on id and ts
  about,     \* database: identities, in the order of their insertion
  services,  \* database: versions of the records ms_<host>, <<server, start>>: their ts
  elsewhere, \* the same in the databases of other servers
  file,      \* schema files: absent, torn (opened, not yet written) or whole
  cached,    \* _CACHE: schemas that a server knows
  loaded,    \* servers that have got through the import once
  options,   \* what this start was given
  pc,        \* how far the start of a server is
  at,        \* the route that is made next
  uuid,      \* options['uuid']
  routes,    \* whether add_handlers has been called
  starts,    \* starts so far
  shown      \* identities that GET /about has answered

db == <<indexed, about, services, elsewhere>>
process == <<options, pc, at, uuid, routes, starts>>
vars == <<db, file, cached, loaded, process, shown>>

Names == Range(Loads)
Goto(s, label) == pc' = [pc EXCEPT ![s] = label]

Init ==
  /\ indexed = {} /\ about = <<>> /\ services = {} /\ elsewhere = {}
  /\ file = [s \in Servers |-> [n \in Names |-> "absent"]]
  /\ cached = [s \in Servers |-> {}]
  /\ loaded = {} /\ shown = {}
  /\ options = [s \in Servers |-> Template]
  /\ pc = [s \in Servers |-> "down"] /\ at = [s \in Servers |-> 1]
  /\ uuid = [s \in Servers |-> NoUuid] /\ routes = [s \in Servers |-> FALSE]
  /\ starts = [s \in Servers |-> 0]

Stop(s) ==
  /\ Goto(s, "down")
  /\ routes' = [routes EXCEPT ![s] = FALSE]
  /\ uuid' = [uuid EXCEPT ![s] = NoUuid]
  /\ at' = [at EXCEPT ![s] = 1]
  /\ cached' = [cached EXCEPT ![s] = {}]

Crash(s) == pc[s] # "down" /\ Stop(s) /\ UNCHANGED <<db, file, loaded, options, starts, shown>>

-----------------------------------------------------------------------------
(* The import of models.py                                                 *)

\* Files that cannot be read are skipped.
Launch(s) == \E given \in Given :
  /\ pc[s] = "down" /\ starts[s] < MaxStarts
  /\ starts' = [starts EXCEPT ![s] = @ + 1]
  /\ options' = [options EXCEPT ![s] = Options(given.file, given.flags)]
  /\ cached' = [cached EXCEPT ![s] = {n \in Names : file[s][n] = "whole"}]
  /\ Goto(s, "load")
  /\ UNCHANGED <<db, file, loaded, at, uuid, routes, shown>>

\* Schemas are loaded in their order; this is the first that is not known.
NextLoad(s, i) == Loads[i] \notin cached[s] /\ \A j \in DOMAIN Loads : j < i => Loads[j] \in cached[s]

Opens(s, n) == file' = [file EXCEPT ![s][n] = "torn"]

\* Mutant: schemas that the cache holds are written again.
FetchAgain(s) == \E i \in DOMAIN Loads :
  /\ pc[s] = "load" /\ NextLoad(s, i)
  /\ file' = [file EXCEPT ![s] = [n \in Names |-> IF n \in cached[s] \cup {Loads[i]} THEN "torn" ELSE @[n]]]
  /\ Goto(s, "write")
  /\ UNCHANGED <<db, cached, loaded, options, at, uuid, routes, starts, shown>>

\* A schema that is not known is fetched, then its file is opened, which empties it.
Fetch(s) == \E i \in DOMAIN Loads :
  /\ pc[s] = "load" /\ NextLoad(s, i)
  /\ Opens(s, Loads[i])
  /\ Goto(s, "write")
  /\ UNCHANGED <<db, cached, loaded, options, at, uuid, routes, starts, shown>>

\* The schema host does not answer: the import fails and with it the process.
FetchFails(s) ==
  /\ pc[s] = "load" /\ cached[s] # Names
  /\ Stop(s)
  /\ UNCHANGED <<db, file, loaded, options, starts, shown>>

Write(s) == \E i \in DOMAIN Loads :
  /\ pc[s] = "write" /\ NextLoad(s, i)
  /\ file' = [file EXCEPT ![s][Loads[i]] = "whole"]
  /\ cached' = [cached EXCEPT ![s] = @ \cup {Loads[i]}]
  /\ Goto(s, "load")
  /\ UNCHANGED <<db, loaded, options, at, uuid, routes, starts, shown>>

\* All classes are made; the application is made and listens.
Listen(s) ==
  /\ pc[s] = "load" /\ cached[s] = Names
  /\ loaded' = loaded \cup {s}
  /\ Goto(s, "routes")
  /\ UNCHANGED <<db, file, cached, options, at, uuid, routes, starts, shown>>

-----------------------------------------------------------------------------
(* initialize                                                              *)

\* initialize ends with an exception that nobody reads: the process goes on without routes.
Stuck(s) == Goto(s, "stuck") /\ UNCHANGED <<db, file, cached, loaded, options, at, uuid, routes, starts, shown>>

\* With ssl the result of a plain function is awaited; with lookup make_resource_handler lacks
\* arguments.
Broken(s) == options[s].ssl \/ options[s].lookup

CannotStart(s) == pc[s] = "routes" /\ Broken(s) /\ Stuck(s)

\* The database refuses, or does not answer.
DatabaseFails(s) == pc[s] \in {"routes", "uuid", "insert"} /\ ~Broken(s) /\ Stuck(s)

\* Mutant: one index is taken for a sign that an earlier start has made all of them.
IndexOnce(s) ==
  /\ pc[s] = "routes" /\ ~Broken(s)
  /\ IF indexed # {} /\ at[s] = 1
     THEN Goto(s, "uuid") /\ UNCHANGED <<indexed, at>>
     ELSE /\ indexed' = indexed \cup ({Routes[at[s]].collection} \ {NoCollection})
          /\ at' = [at EXCEPT ![s] = @ + 1]
          /\ IF at[s] = Len(Routes) THEN Goto(s, "uuid") ELSE UNCHANGED pc
  /\ UNCHANGED <<about, services, elsewhere, file, cached, loaded, options, uuid, routes, starts, shown>>

\* get_db_layer for one route; nothing is created for a route without a collection.
MakeRoute(s) ==
  LET coll == Routes[at[s]].collection IN
  /\ pc[s] = "routes" /\ ~Broken(s)
  /\ indexed' = IF coll = NoCollection THEN indexed ELSE indexed \cup {coll}
  /\ at' = [at EXCEPT ![s] = @ + 1]
  /\ IF at[s] = Len(Routes) THEN Goto(s, "uuid") ELSE UNCHANGED pc
  /\ UNCHANGED <<about, services, elsewhere, file, cached, loaded, options, uuid, routes, starts, shown>>

\* Mutant: the routes are added before the identity is stored.
AddBeforeInsert(s) ==
  /\ pc[s] = "uuid"
  /\ uuid' = [uuid EXCEPT ![s] = IF about = <<>> THEN <<s, starts[s]>> ELSE Last(about)]
  /\ routes' = [routes EXCEPT ![s] = TRUE]
  /\ Goto(s, IF about = <<>> THEN "insert" ELSE "add")
  /\ UNCHANGED <<db, file, cached, loaded, options, at, starts, shown>>

\* Of several records the last one counts; without one an identity is made up, then stored.
FindUuid(s) ==
  /\ pc[s] = "uuid"
  /\ uuid' = [uuid EXCEPT ![s] = IF about = <<>> THEN <<s, starts[s]>> ELSE Last(about)]
  /\ Goto(s, IF about = <<>> THEN "insert" ELSE "add")
  /\ UNCHANGED <<db, file, cached, loaded, options, at, routes, starts, shown>>

InsertUuid(s) ==
  /\ pc[s] = "insert"
  /\ about' = Append(about, uuid[s])
  /\ Goto(s, "add")
  /\ UNCHANGED <<indexed, services, elsewhere, file, cached, loaded, options, at, uuid, routes, starts, shown>>

\* Mutant: the measurement store is registered before the routes are added.
RegisterFirst(s) ==
  LET here == <<s, starts[s]>> IN
  /\ pc[s] = "add"
  /\ IF here \notin services /\ ~options[s].msDisable
     THEN services' = services \cup {here} /\ UNCHANGED <<routes, pc>>
     ELSE routes' = [routes EXCEPT ![s] = TRUE] /\ Goto(s, "ready") /\ UNCHANGED services
  /\ UNCHANGED <<indexed, about, elsewhere, file, cached, loaded, options, at, uuid, starts, shown>>

AddHandlers(s) ==
  /\ pc[s] = "add"
  /\ routes' = [routes EXCEPT ![s] = TRUE]
  /\ Goto(s, IF options[s].msDisable THEN "ready" ELSE "ms")
  /\ UNCHANGED <<db, file, cached, loaded, options, at, uuid, starts, shown>>

\* A store of its own is registered in the database, by a task of its own, another one with a
\* POST: one more version of the record, which says nothing of the start that wrote it but its ts.
RegisterLocal(s) ==
  /\ pc[s] = "ms" /\ options[s].msPath = "own"
  /\ services' = services \cup {<<s, starts[s]>>}
  /\ Goto(s, "ready")
  /\ UNCHANGED <<indexed, about, elsewhere, file, cached, loaded, options, at, uuid, routes, starts, shown>>

\* Whether the POST is answered or not; one that fails, like an insert, is not repeated.
RegisterRemote(s) ==
  /\ pc[s] = "ms"
  /\ \/ UNCHANGED elsewhere
     \/ options[s].msPath # "own" /\ elsewhere' = elsewhere \cup {<<s, starts[s]>>}
  /\ Goto(s, "ready")
  /\ UNCHANGED <<indexed, about, services, file, cached, loaded, options, at, uuid, routes, starts, shown>>

-----------------------------------------------------------------------------

About(s) ==
  /\ routes[s]
  /\ shown' = shown \cup {uuid[s]}
  /\ UNCHANGED <<db, file, cached, loaded, process>>

Next == \E s \in Servers :
  \/ Launch(s) \/ Fetch(s) \/ FetchFails(s) \/ Write(s) \/ Listen(s)
  \/ CannotStart(s) \/ DatabaseFails(s) \/ MakeRoute(s) \/ FindUuid(s) \/ InsertUuid(s)
  \/ AddHandlers(s) \/ RegisterLocal(s) \/ RegisterRemote(s)
  \/ About(s) \/ Crash(s)

Spec == Init /\ [][Next]_vars

-----------------------------------------------------------------------------
(* Properties                                                              *)

\* No crash of an earlier start, and no other server, makes a server answer requests on a
\* collection without the unique index that keeps two records from having one id and ts.
ServedIsIndexed ==
  \A s \in Servers : routes[s] =>
    \A i \in DOMAIN Routes : Routes[i].collection \in indexed \cup {NoCollection}

\* An identity is stored before it is shown, each server makes up at most one, whatever crashes
\* and restarts there are, and so no more are shown than there are servers.
IdentityIsKept ==
  /\ shown \cup {uuid[s] : s \in {t \in Servers : routes[t]}} \subseteq Range(about)
  /\ \A i, j \in DOMAIN about : about[i][1] = about[j][1] => i = j

\* A server that has been started once has every schema in a whole file: no later start, however
\* it ends, makes it depend on the schema host again.
LoadedIsCached == \A s \in loaded : \A n \in Names : file[s][n] = "whole"

\* Who finds the measurement store of a server in a database finds one that has answered: its
\* schemas are in files, all collections have their index, an identity is stored.  It still
\* answers if it runs and the version found is of its present start.  A version of an earlier
\* start stays, and is found while a restarted server answers 404.
FoundIsServing ==
  \A x \in services \cup elsewhere :
    /\ x[1] \in loaded /\ about # <<>>
    /\ \A i \in DOMAIN Routes : Routes[i].collection \in indexed \cup {NoCollection}
    /\ x[2] = starts[x[1]] /\ pc[x[1]] # "down" => routes[x[1]]
=============================================================================
