-------------------------- MODULE CollectionPostMC --------------------------
(* Instances of CollectionPost for TLC. *)
EXTENDS CollectionPost

Of(members) == [members |-> members, dangling |-> FALSE]
Leaf == <<Of({})>>

\* t1 brings a domain with two networks, one of them with a node; g reads a directory, then a file; the
\* hyperlink that t2 brings dangles.
MCBody == [t1 |-> <<Of({"d1"})>>, d1 |-> <<Of({"w1"})>>, w1 |-> <<Of({"n1"}), Of({})>>, n1 |-> Leaf,
           g |-> <<Of({}), Of({"x1"})>>, x1 |-> Leaf,
           t2 |-> <<[members |-> {}, dangling |-> TRUE]>>]
=============================================================================
