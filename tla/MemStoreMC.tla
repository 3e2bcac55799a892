----------------------------- MODULE MemStoreMC -----------------------------
(* Instances of MemStore for TLC: nodes is created at startup, manifests by the first POST. *)
EXTENDS MemStore

MCCols == {"nodes", "manifests"}
MCStartup == {"nodes"}
=============================================================================
