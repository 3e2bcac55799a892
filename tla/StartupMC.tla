----------------------------- MODULE StartupMC -----------------------------
(* Instances of Startup for TLC. *)
EXTENDS Startup

CONSTANTS s1, s2

MCGiven == {[file |-> <<>>, flags |-> f] : f \in {{}, {"msDisable"}, {"lookup"}, {"ssl"}}} \cup
           {[file |-> f, flags |-> {}] : f \in {[msPath |-> "other"], [msDisable |-> TRUE]}}

\* Two of the schemas; routes that share a collection, and one without a collection.
MCLoads == SelectSeq(Schemas, LAMBDA n : n \in {"schema", "node"})
MCRoutes == SelectSeq(Resources, LAMBDA r : r.name \in {"nodes", "node", "events", "event", "services"})
MCSymmetry == {[s \in {s1, s2} |-> s], [s \in {s1, s2} |-> IF s = s1 THEN s2 ELSE s1]}
=============================================================================
