----------------------- MODULE SubscriptionManagerMC ------------------------
(* Instances of SubscriptionManager for TLC. *)
EXTENDS SubscriptionManager, TLC

CONSTANTS c1, c2, c3, qAll, qFull, full, bare, odd

\* full is a whole record, bare the {id: ...} that DELETE publishes; qAll has no conditions,
\* qFull asks for a property only the whole record has.  odd has a number where qFull's dotted
\* key goes on.
MCAccepts == (qAll :> {full, bare, odd}) @@ (qFull :> {full})
MCRaises == (qAll :> {}) @@ (qFull :> {odd})
MCHas == (full :> {"id", "name"}) @@ (bare :> {"id"}) @@ (odd :> {"id", "name"})
MCNoFilter == {AllFields}
MCFilters == {AllFields, {"name"}}
SocketSymmetry == Permutations(Sockets)
=============================================================================
