------------------------ MODULE SubscriptionManager -------------------------
(***************************************************************************)
(* The subscription manager (handlers/subscriptionmanager.py) together     *)
(* with the websocket handlers that use it (handlers/subscriptionhandler). *)
(* All of it runs on the event loop without an await, so each handler      *)
(* callback and each publish call is one atomic step.                      *)
(*                                                                         *)
(* The `subscriptions' list is the function subs, indexed by channel: a    *)
(* channel is a fresh uuid, numbered here in the order of creation, so the *)
(* order of the list is the order of the numbers.  A `clients' list holds  *)
(* a handler object once for each of its subscriptions; an entry here is   *)
(* <<socket, k>>, k the position of the channel in the socket's own        *)
(* `channels', which makes the list a set of tickets.                      *)
(***************************************************************************)
EXTENDS Integers, Sequences, FiniteSets

CONSTANTS Sockets, Queries, Collections, Resources,
          Fields,     \* top level keys of resources
          FieldLists, \* what a client may pass as `fields'
          AllFields,  \* fields = None: no filter
          Accepts,    \* Accepts[q]: the resources that q's conditions hold of
          Raises,     \* Raises[q]: the resources that evaluating q's conditions fails on
          Has,        \* Has[r]: the keys of r
          MaxChannel, \* bound: channels ever created
          MaxAsks,    \* bound: subscriptions of one socket
          MaxBatch    \* bound: resources in one publish call

ASSUME ConstantsAssumption ==
  /\ Accepts \in [Queries -> SUBSET Resources]
  /\ Raises \in [Queries -> SUBSET Resources]
  /\ \A q \in Queries : Accepts[q] \cap Raises[q] = {}
  /\ Has \in [Resources -> SUBSET Fields]
  /\ FieldLists \subseteq (SUBSET Fields) \cup {AllFields}
  /\ MaxChannel \in Nat /\ MaxAsks \in Nat /\ MaxBatch \in Nat

VARIABLES subs,        \* SubscriptionManager.subscriptions
          nextChannel, \* the next fresh channel
          socket,      \* state of each websocket handler
          channels,    \* SubscriptionHandler.channels
          mail,        \* messages the publish call just made has handed to sockets
          raised       \* the publish call just made ended with an exception

vars == <<subs, nextChannel, socket, channels, mail, raised>>

Live == {c \in Sockets : socket[c] \in {"open", "lost"}}

Tickets == Sockets \X Nat

Subscription == [conditions: Queries, fields: FieldLists, collection: Collections,
                 subscribers: Int, clients: SUBSET Tickets]

Init == /\ subs = <<>>
        /\ nextChannel = 1
        /\ socket = [c \in Sockets |-> "closed"]
        /\ channels = [c \in Sockets |-> <<>>]
        /\ mail = {}
        /\ raised = FALSE

Quiet == mail' = {} /\ raised' = FALSE

-----------------------------------------------------------------------------
(* createChannel                                                           *)

\* Mutant: existing subscriptions are not looked for.
SharedIgnored(query, coll) == {}

\* The subscriptions a request may share: the code compares conditions and collection.
Shared(query, coll) ==
  {ch \in DOMAIN subs : subs[ch].conditions = query /\ subs[ch].collection = coll}

\* Mutants: the joiner is counted but not listed; listed but not counted.
JoinUnlisted(ch, ticket) ==
  /\ subs' = [subs EXCEPT ![ch].subscribers = @ + 1]
  /\ UNCHANGED nextChannel

JoinUncounted(ch, ticket) ==
  /\ subs' = [subs EXCEPT ![ch].clients = @ \cup {ticket}]
  /\ UNCHANGED nextChannel

JoinChannel(ch, ticket) ==
  /\ subs' = [subs EXCEPT ![ch].subscribers = @ + 1, ![ch].clients = @ \cup {ticket}]
  /\ UNCHANGED nextChannel

\* Mutant: the channel is not a fresh one.
NewChannelReused(query, coll, fields, ticket) ==
  /\ nextChannel <= MaxChannel
  /\ subs' = [ch \in DOMAIN subs \cup {nextChannel} |->
                IF ch = nextChannel
                THEN [conditions |-> query, fields |-> fields, collection |-> coll,
                      subscribers |-> 1, clients |-> {ticket}]
                ELSE subs[ch]]
  /\ UNCHANGED nextChannel

NewChannel(query, coll, fields, ticket) ==
  /\ nextChannel <= MaxChannel
  /\ subs' = [ch \in DOMAIN subs \cup {nextChannel} |->
                IF ch = nextChannel
                THEN [conditions |-> query, fields |-> fields, collection |-> coll,
                      subscribers |-> 1, clients |-> {ticket}]
                ELSE subs[ch]]
  /\ nextChannel' = nextChannel + 1

\* SubscriptionHandler._addSubscription: createChannel, then remember the channel.
AddSubscription(c) == \E query \in Queries, coll \in Collections, fields \in FieldLists :
  LET ticket == <<c, Len(channels[c]) + 1>> IN
  /\ Len(channels[c]) < MaxAsks
  /\ \/ \E ch \in Shared(query, coll) :
          /\ \A other \in Shared(query, coll) : ch <= other
          /\ JoinChannel(ch, ticket)
          /\ channels' = [channels EXCEPT ![c] = Append(@, ch)]
     \/ /\ Shared(query, coll) = {}
        /\ NewChannel(query, coll, fields, ticket)
        /\ channels' = [channels EXCEPT ![c] = Append(@, nextChannel)]

-----------------------------------------------------------------------------
(* The handler's callbacks.  A closed handler is discarded; a later        *)
(* connection under the same name is a new handler object.                 *)

\* open() without a resource type, or with a query that does not parse.
OpenBare(c) ==
  /\ socket[c] = "closed"
  /\ socket' = [socket EXCEPT ![c] = "open"]
  /\ UNCHANGED <<subs, nextChannel, channels>>
  /\ Quiet

\* open() on a resource type subscribes at once.
OpenOn(c) ==
  /\ socket[c] = "closed"
  /\ socket' = [socket EXCEPT ![c] = "open"]
  /\ AddSubscription(c)
  /\ Quiet

OnMessage(c) ==
  /\ socket[c] = "open"
  /\ AddSubscription(c)
  /\ UNCHANGED socket
  /\ Quiet

\* The peer goes away: write_message raises from now on, on_close has not run yet.
Lose(c) ==
  /\ socket[c] = "open"
  /\ socket' = [socket EXCEPT ![c] = "lost"]
  /\ UNCHANGED <<subs, nextChannel, channels>>
  /\ Quiet

\* How often on_close calls removeChannel(ch, self), and c's entries in the list of ch.
Calls(c, ch) == {k \in DOMAIN channels[c] : channels[c][k] = ch}
Entries(c, ch) == {t \in subs[ch].clients : t[1] = c}

Left(c, ch) == subs[ch].subscribers - Cardinality(Calls(c, ch))

\* Mutant: the counter goes down, the list is left as it is.
ReleasedKeepsClient(c, ch, taken) == [subs[ch] EXCEPT !.subscribers = Left(c, ch)]

Released(c, ch, taken) == [subs[ch] EXCEPT !.subscribers = Left(c, ch), !.clients = @ \ taken]

\* removeChannel for every element of self.channels.  list.remove takes an entry equal to
\* self, whichever, and raises when there is none; RemovalNeverRaises says there is one.
OnClose(c) ==
  LET mine == {ch \in DOMAIN subs : Calls(c, ch) # {}}
  IN /\ socket[c] \in {"open", "lost"}
     /\ \E taken \in SUBSET UNION {Entries(c, ch) : ch \in mine} :
          /\ \A ch \in mine : Cardinality(taken \cap Entries(c, ch)) = Cardinality(Calls(c, ch))
          /\ subs' = [ch \in {ch \in DOMAIN subs : ch \in mine => Left(c, ch) > 0} |->
                        Released(c, ch, taken)]
     /\ socket' = [socket EXCEPT ![c] = "closed"]
     /\ channels' = [channels EXCEPT ![c] = <<>>]
     /\ UNCHANGED nextChannel
     /\ Quiet

-----------------------------------------------------------------------------
(* publish                                                                 *)

Batches == UNION {[1..n -> Resources] : n \in 1..MaxBatch}

\* The pairs (resource of the batch, subscription) that match, and their order in the loops.
Hits(batch, coll) ==
  {p \in (DOMAIN batch) \X (DOMAIN subs) :
     subs[p[2]].collection = coll /\ batch[p[1]] \in Accepts[subs[p[2]].conditions]}

Before(p, q) == p[1] < q[1] \/ (p[1] = q[1] /\ p[2] < q[2])

\* A dotted key is looked up with `in', which raises TypeError once the path has led to a
\* number; _compare's try does not cover it.
CannotTell(batch, coll) ==
  {p \in (DOMAIN batch) \X (DOMAIN subs) :
     subs[p[2]].collection = coll /\ batch[p[1]] \in Raises[subs[p[2]].conditions]}

\* trim_published_resource: resource[field] raises KeyError for an absent field.
TrimRaises(r, ch) == subs[ch].fields # AllFields /\ ~(subs[ch].fields \subseteq Has[r])
\* Mutant: the filter is checked but the whole resource is sent.
TrimmedInName(r, ch) == Has[r]

Trimmed(r, ch) == IF subs[ch].fields = AllFields THEN Has[r] ELSE subs[ch].fields

\* deliver raises for a lost socket; publish logs that and goes on.
Messages(batch, reached, custom) ==
  UNION {{[to |-> t[1], ask |-> t[2], index |-> p[1],
           data |-> IF custom THEN Has[batch[p[1]]] ELSE Trimmed(batch[p[1]], p[2])] :
            t \in {t \in subs[p[2]].clients : socket[t[1]] = "open"}} : p \in reached}

\* custom: the caller passes its own trim function (the data handler does), which never
\* raises.  The first condition or trimming that raises ends the whole call.
Publish == \E batch \in Batches, coll \in Collections, custom \in BOOLEAN :
  LET hits    == Hits(batch, coll)
      failing == CannotTell(batch, coll)
                   \cup {p \in hits : ~custom /\ TrimRaises(batch[p[1]], p[2])}
      reached == {p \in hits : \A q \in failing : Before(p, q)}
  IN /\ mail' = Messages(batch, reached, custom)
     /\ raised' = (failing # {})
     /\ UNCHANGED <<subs, nextChannel, socket, channels>>

Next == \/ \E c \in Sockets : \/ OpenBare(c) \/ OpenOn(c) \/ OnMessage(c)
                              \/ Lose(c) \/ OnClose(c)
        \/ Publish

\* tornado calls on_close for every connection that has gone away.
Spec == Init /\ [][Next]_vars /\ \A c \in Sockets : WF_vars(socket[c] = "lost" /\ OnClose(c))

-----------------------------------------------------------------------------
(* Properties                                                              *)

\* The state of the manager and of the handlers is well formed.
TypeOK ==
  /\ nextChannel \in 1..(MaxChannel + 1)
  /\ DOMAIN subs \subseteq 1..(nextChannel - 1)
  /\ \A ch \in DOMAIN subs : subs[ch] \in Subscription
  /\ socket \in [Sockets -> {"closed", "open", "lost"}]
  /\ channels \in [Sockets -> Seq(1..(nextChannel - 1))]
  /\ raised \in BOOLEAN

\* The counter that decides when removeChannel drops a subscription and the list of clients
\* it stands for are kept by separate statements; they never disagree, and no subscription
\* without a client is left behind.
CounterIsClients ==
  \A ch \in DOMAIN subs : /\ IsFiniteSet(subs[ch].clients)
                          /\ subs[ch].subscribers = Cardinality(subs[ch].clients)
                          /\ subs[ch].subscribers > 0

\* A handler is in the client list of a channel exactly as often as it remembers the channel:
\* closed sockets are never sent to, and every channel a connected handler remembers exists.
RegisteredExactly ==
  /\ \A ch \in DOMAIN subs :
       subs[ch].clients = UNION {{<<c, k>> : k \in Calls(c, ch)} : c \in Sockets}
  /\ \A c \in Sockets : \A k \in DOMAIN channels[c] : channels[c][k] \in DOMAIN subs
  /\ \A c \in Sockets \ Live : channels[c] = <<>>

\* list.remove in removeChannel always finds the handler it is asked to take out, so the
\* ValueError that its KeyError clause would let through never ends on_close half way.
RemovalNeverRaises ==
  \A c \in Live : \A ch \in DOMAIN subs : Cardinality(Entries(c, ch)) >= Cardinality(Calls(c, ch))

\* createChannel never leaves two subscriptions with the same conditions and collection: a
\* client could be on either of them, and removal and publishing would see only half.
OneSubscriptionPerQuery ==
  \A ch1, ch2 \in DOMAIN subs :
    /\ subs[ch1].conditions = subs[ch2].conditions
    /\ subs[ch1].collection = subs[ch2].collection
    => ch1 = ch2

\* on_close follows the loss of a connection, and with it the handler leaves every client list.
LostIsForgotten ==
  \A c \in Sockets : socket[c] = "lost" ~> \A ch \in DOMAIN subs : Entries(c, ch) = {}

AsksOf(c) ==
  {[n |-> k, query |-> subs[channels[c][k]].conditions,
    collection |-> subs[channels[c][k]].collection,
    fields |-> subs[channels[c][k]].fields] : k \in DOMAIN channels[c]}

PS == INSTANCE PubSub WITH
  asks <- [c \in Sockets |-> AsksOf(c)],
  unreachable <- {c \in Sockets : socket[c] = "lost"},
  cut <- raised

\* Shared subscriptions, reference counts and the removal of closed handlers show to a client
\* in one way only: what it is sent of a resource is settled, once and for as long as anyone
\* holds the interest, by who stated it first.  Otherwise each connected client is sent, with
\* that content, what its own interests call for, whoever else joins, leaves or is lost; and a
\* call that an exception ends, as the filter or the conditions of any one client make it, is
\* cut at that resource of the batch.
ImplementsPubSub == PS!Spec
=============================================================================
