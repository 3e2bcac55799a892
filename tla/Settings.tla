------------------------------ MODULE Settings ------------------------------
(***************************************************************************)
(* The tables of periscope/settings.py, as far as other parts depend on    *)
(* them, and config.py, which lays the command line over the configuration *)
(* file over the defaults.                                                 *)
(***************************************************************************)
EXTENDS Naturals, Sequences, TLC

CONSTANT NoCollection  \* a route without a collection of its own

-----------------------------------------------------------------------------
(* Routes, in the order in which they are made                             *)

Route(name, coll, handler) == [name |-> name, collection |-> coll, handler |-> handler]

\* A resource has a route for the list and a route for one item.
Both(list, item, handler) == <<Route(list, list, handler), Route(item, list, handler)>>

ElementRoutes ==
  Both("links", "link", "NetworkResource") \o Both("ports", "port", "NetworkResource") \o
  Both("nodes", "node", "NetworkResource") \o Both("services", "service", "NetworkResource") \o
  Both("paths", "path", "NetworkResource")

CollectionRoutes ==
  Both("networks", "network", "Collection") \o Both("domains", "domain", "Collection") \o
  Both("topologies", "topology", "Collection")

MeasurementRoutes ==
  <<Route("metadatas", "metadata", "NetworkResource"), Route("metadata", "metadata", "NetworkResource"),
    Route("events", "events_cache", "Events"), Route("event", NoCollection, "Events"),
    Route("data", "data", "Data"), Route("datas", "data", "Data")>> \o
  Both("measurements", "measurement", "NetworkResource")

ExnodeRoutes == Both("exnodes", "exnode", "Exnode") \o Both("extents", "extent", "NetworkResource")

Resources == ElementRoutes \o CollectionRoutes \o MeasurementRoutes \o ExnodeRoutes

\* What a collection holds: the names are also those of the routes that children are posted to.
Children ==
  [h \in {"Collection", "Exnode"} |->
     IF h = "Exnode" THEN {"extents"}
     ELSE {"links", "ports", "nodes", "services", "paths", "networks", "domains", "topologies",
           "measurements"}]

\* The resources that GET / lists.
MainResources ==
  {"links", "ports", "nodes", "services", "paths", "networks", "domains", "topologies", "events",
   "datas", "metadatas", "measurements", "exnodes", "extents"}

\* Every name that the main page or a collection resolves is the name of a route.
ASSUME NamesResolve ==
  MainResources \cup UNION {Children[h] : h \in DOMAIN Children}
    \subseteq {Resources[i].name : i \in DOMAIN Resources}

\* The schemas that models.py asks for while it is imported.
Schemas ==
  <<"schema", "hyper-schema", "links", "networkresource", "metadata", "manifest", "node", "link",
    "port", "path", "service", "network", "domain", "topology", "datum", "data", "measurement",
    "exnode", "extent">>

-----------------------------------------------------------------------------
(* Options                                                                 *)

Template == [lookup |-> FALSE, ssl |-> FALSE, msDisable |-> TRUE, msPath |-> "own"]
Flags == {"lookup", "ssl", "msDisable"}

\* argparse gives a flag that is not there the value FALSE, not None: whatever the file says of a
\* flag is overwritten.
Parsed(flags) == [f \in Flags |-> f \in flags]

Options(file, flags) == Parsed(flags) @@ file @@ Template
=============================================================================
