------------------------------- MODULE PubSub -------------------------------
(***************************************************************************)
(* What the publish/subscribe service of UNIS gives a websocket client,    *)
(* without the bookkeeping of subscriptionmanager.py: a client states      *)
(* interests, and while it is connected every published resource that one  *)
(* of its interests accepts is sent to it once for that interest.  What is *)
(* sent of the resource is the choice of whoever stated the same interest  *)
(* first, among those that still hold it.                                  *)
(* SubscriptionManager implements this module.                             *)
(***************************************************************************)
EXTENDS Naturals, FiniteSets

CONSTANTS Sockets,      \* websocket connections
          Queries,      \* the condition dictionaries clients send
          Collections,  \* resource types
          Resources,    \* what can be published
          FieldLists,   \* what a client may ask to be sent of a resource
          AllFields,    \* the whole of it
          Accepts,      \* Accepts[q] is the set of resources q's conditions hold of
          Raises,       \* Raises[q] is the set of resources q's conditions fail on
          Has,          \* Has[r] is the set of keys of r
          MaxBatch      \* bound: resources in one publish call

VARIABLES asks,     \* asks[c]: the interests of socket c, numbered in the order stated
          unreachable, \* sockets whose peer is gone, which the server may not know yet
          mail,     \* what the publish call just made has sent
          cut       \* the publish call just made was ended by an exception

vars == <<asks, unreachable, mail, cut>>

Batches == UNION {[1..n -> Resources] : n \in 1..MaxBatch}

\* The filters with which an interest is already held, by anyone.
Held(query, coll) ==
  {a.fields : a \in {a \in UNION {asks[c] : c \in Sockets} : a.query = query /\ a.collection = coll}}

Offered(query, coll) == IF Held(query, coll) = {} THEN FieldLists ELSE Held(query, coll)

\* A publisher that brings its own trimming (custom) replaces the clients' filters.
Content(a, r, custom) == IF custom \/ a.fields = AllFields THEN Has[r] ELSE a.fields

Fails(a, r, custom) ==
  \/ r \in Raises[a.query]
  \/ r \in Accepts[a.query] /\ ~custom /\ a.fields # AllFields /\ ~(a.fields \subseteq Has[r])

Broken(batch, coll, custom) ==
  {i \in DOMAIN batch : \E c \in Sockets : \E a \in asks[c] :
     a.collection = coll /\ Fails(a, batch[i], custom)}

OwedTo(c, batch, coll, custom) ==
  LET due == {p \in asks[c] \X (DOMAIN batch) :
                /\ p[1].collection = coll /\ batch[p[2]] \in Accepts[p[1].query]
                /\ ~Fails(p[1], batch[p[2]], custom)}
  IN {[to |-> c, ask |-> p[1].n, index |-> p[2],
       data |-> Content(p[1], batch[p[2]], custom)] : p \in due}

Owed(batch, coll, custom) == UNION {OwedTo(c, batch, coll, custom) : c \in Sockets \ unreachable}

Init == /\ asks = [c \in Sockets |-> {}]
        /\ unreachable = {}
        /\ mail = {}
        /\ cut = FALSE

Ask(c) == \E q \in Queries, coll \in Collections : \E given \in Offered(q, coll) :
  /\ c \notin unreachable
  /\ asks' = [asks EXCEPT ![c] =
                @ \cup {[n |-> Cardinality(@) + 1, query |-> q, collection |-> coll,
                         fields |-> given]}]
  /\ mail' = {} /\ cut' = FALSE
  /\ UNCHANGED unreachable

\* A connection that ends takes all its interests with it and no one else's.
Leave(c) ==
  /\ asks' = [asks EXCEPT ![c] = {}]
  /\ unreachable' = unreachable \ {c}
  /\ mail' = {} /\ cut' = FALSE

Fade(c) ==
  /\ unreachable' = unreachable \cup {c}
  /\ mail' = {} /\ cut' = FALSE
  /\ UNCHANGED asks

\* Nothing but what is owed is sent.  An interest that fails on a resource of the batch, whoever
\* holds it, cuts the call there: what is owed for the resources in front of the first such
\* resource has been sent, and for those behind it nothing is.
Publish == \E batch \in Batches, coll \in Collections, custom \in BOOLEAN :
  /\ mail' \subseteq Owed(batch, coll, custom)
  /\ cut' = (Broken(batch, coll, custom) # {})
  /\ \A i \in Broken(batch, coll, custom) : \A m \in mail' : m.index <= i
  /\ \A m \in Owed(batch, coll, custom) \ mail' :
       \E i \in Broken(batch, coll, custom) : i <= m.index
  /\ UNCHANGED <<asks, unreachable>>

Next == \/ \E c \in Sockets : Ask(c) \/ Leave(c) \/ Fade(c)
        \/ Publish

Spec == Init /\ [][Next]_vars
=============================================================================
