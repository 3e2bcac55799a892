--------------------------- MODULE CollectionPost ---------------------------
(***************************************************************************)
(* POST of topologies, domains, networks and exnodes                       *)
(* (handlers/collectionhandler.py).  A collection is inserted after its    *)
(* members: the handler posts them to its own server, one request for each *)
(* kind of member, all at the same time, and a member may be a collection  *)
(* itself.  All these requests share the few connections of one            *)
(* AsyncHTTPClient: a request that waits for its members keeps its own.    *)
(* So does the GET of exnodes with inline (handlers/exnodehandler.py),     *)
(* which fetches the extents of one exnode after the other.                *)
(*                                                                         *)
(* tornado.gen.Task, which the handler calls, is gone from tornado 6.  The *)
(* repository asks for no version, so an instance may have it or not.      *)
(***************************************************************************)
EXTENDS Naturals, Sequences, FiniteSets, SequencesExt

CONSTANTS Requests,  \* POST and GET requests, of clients and of handlers
          Clients,   \* those of them that clients send
          Reads,     \* the GETs among them
          Body,      \* for each the resources it brings, or finds: [members |-> requests for its
                     \* members, dangling |-> whether a self hyperlink leads to a member without
                     \* selfRef]
          Slots      \* requests that AsyncHTTPClient has under way at most

ASSUME BodyAssumption ==
  /\ Clients \cup Reads \subseteq Requests /\ Slots \in Nat \ {0}
  /\ Body \in [Requests -> Seq([members: SUBSET (Requests \ Clients), dangling: BOOLEAN])]
  /\ \A p \in Requests : \A i \in DOMAIN Body[p] : Body[p][i].members \cap Reads # {} => p \in Reads

VARIABLES hasTask,  \* whether tornado has gen.Task
          call,     \* what the sender of a request knows: none, queued, sent, ok, error (that is
                    \* the answer) or failed (there is no answer)
          queue,    \* requests that wait for a connection
          handler,  \* none, process, gather, complete, refused or done
          item,     \* the resource that the handler processes
          stored    \* <<request, i>>: the i-th resource of a request is in the database

vars == <<hasTask, call, queue, handler, item, stored>>

Init ==
  /\ hasTask \in BOOLEAN
  /\ call = [p \in Requests |-> "none"] /\ queue = <<>>
  /\ handler = [p \in Requests |-> "none"]
  /\ item = [p \in Requests |-> 1]
  /\ stored = {}

Current(p) == Body[p][item[p]]

\* The first n resources of a request; all of them are there.
UpTo(p, n) == {<<p, i>> : i \in 1..n}
IsStored(p) == UpTo(p, Len(Body[p])) \subseteq stored

Become(p, state) == handler' = [handler EXCEPT ![p] = state]
DatabaseIsUnchanged == UNCHANGED <<hasTask, stored>>

-----------------------------------------------------------------------------
(* AsyncHTTPClient                                                         *)

Send(p) ==
  /\ p \in Clients /\ call[p] = "none"
  /\ call' = [call EXCEPT ![p] = "sent"]
  /\ Become(p, "process")
  /\ UNCHANGED <<queue, item>> /\ DatabaseIsUnchanged

UnderWay == {p \in Requests \ Clients : call[p] = "sent"}

\* The next request of the queue gets a connection.
Dispatch ==
  /\ queue # <<>> /\ Cardinality(UnderWay) < Slots
  /\ call' = [call EXCEPT ![Head(queue)] = "sent"]
  /\ Become(Head(queue), "process")
  /\ queue' = Tail(queue)
  /\ UNCHANGED item /\ DatabaseIsUnchanged

\* Mutant: requests have no time limit.
WaitsForever(p) == FALSE

\* A request waits for a connection as long as for a connect, and for its answer 180 seconds.
TimedOut(p) == p \notin Clients /\ call[p] \in {"queued", "sent"}

\* The sender gives up; a handler that is at it goes on.
GiveUp(p) ==
  /\ TimedOut(p)
  /\ call' = [call EXCEPT ![p] = "failed"]
  /\ queue' = SelectSeq(queue, LAMBDA q : q # p)
  /\ UNCHANGED <<handler, item>> /\ DatabaseIsUnchanged

-----------------------------------------------------------------------------
(* The handlers: post, _process_resource and _create_child, and get,       *)
(* _post_get and _get_extents                                              *)

\* A hyperlink to a member without selfRef: its class is in no index, set_self_ref answers 400.
RefuseLinks(p) ==
  /\ handler[p] = "process" /\ item[p] <= Len(Body[p]) /\ Current(p).dangling
  /\ Become(p, "refused")
  /\ UNCHANGED <<call, queue, item>> /\ DatabaseIsUnchanged

\* There is no gen.Task: the first member, or the first exnode that is a file, ends the request.
NoTask(p) ==
  /\ handler[p] = "process" /\ item[p] <= Len(Body[p]) /\ Current(p).members # {} /\ ~hasTask
  /\ Become(p, "refused")
  /\ UNCHANGED <<call, queue, item>> /\ DatabaseIsUnchanged

\* All members of a resource are sent off, or the GET of the extents of an exnode.
CreateChildren(p) ==
  /\ handler[p] = "process" /\ item[p] <= Len(Body[p]) /\ ~Current(p).dangling
  /\ Current(p).members # {} => hasTask
  /\ \E order \in SetToSeqs(Current(p).members) : queue' = queue \o order
  /\ call' = [q \in Requests |-> IF q \in Current(p).members THEN "queued" ELSE call[q]]
  /\ Become(p, "gather")
  /\ UNCHANGED item /\ DatabaseIsUnchanged

\* Mutant: an answer counts, whatever it says.
AnyAnswer(p) == \A q \in Current(p).members : call[q] \in {"ok", "error", "failed"}

\* Nobody looks at the status of an answer to a GET of extents: what an error says, if it can be
\* read, is taken for the extents.
AllCreated(p) ==
  \A q \in Current(p).members : call[q] = "ok" \/ (q \in Reads /\ call[q] = "error")

\* The hyperlinks of the members take the place of the members, the extents of an exnode become
\* part of it, then comes the next resource.
Gathered(p) ==
  /\ handler[p] = "gather" /\ AllCreated(p)
  /\ Become(p, "process")
  /\ item' = [item EXCEPT ![p] = @ + 1]
  /\ UNCHANGED <<call, queue>> /\ DatabaseIsUnchanged

\* The first member that fails ends the request; the others go on.
GatherFails(p) ==
  /\ handler[p] = "gather" /\ \E q \in Current(p).members : call[q] \in {"error", "failed"}
  /\ Become(p, "refused")
  /\ UNCHANGED <<call, queue, item>> /\ DatabaseIsUnchanged

Insert(p) ==
  /\ handler[p] = "process" /\ item[p] > Len(Body[p]) /\ p \notin Reads
  /\ stored' = stored \cup UpTo(p, Len(Body[p]))
  /\ Become(p, "complete")
  /\ UNCHANGED <<hasTask, call, queue, item>>

\* The database stops somewhere, publishing raises or the read back fails: the request is refused,
\* and some or all of its resources are there.
InsertFails(p) ==
  /\ handler[p] = "process" /\ item[p] > Len(Body[p]) /\ p \notin Reads
  /\ \E n \in 0..Len(Body[p]) : stored' = stored \cup UpTo(p, n)
  /\ Become(p, "refused")
  /\ UNCHANGED <<hasTask, call, queue, item>>

\* All exnodes have been written to the body.
FinishRead(p) ==
  /\ handler[p] = "process" /\ item[p] > Len(Body[p]) /\ p \in Reads
  /\ Become(p, "complete")
  /\ UNCHANGED <<call, queue, item>> /\ DatabaseIsUnchanged

\* The database refuses a GET, or does not answer it.
ReadFails(p) ==
  /\ handler[p] = "process" /\ item[p] > Len(Body[p]) /\ p \in Reads
  /\ Become(p, "refused")
  /\ UNCHANGED <<call, queue, item>> /\ DatabaseIsUnchanged

\* 200 or 201, or an error; nobody may be there to hear it.
Answer(p) ==
  /\ handler[p] \in {"complete", "refused"}
  /\ call' = [call EXCEPT ![p] = IF @ # "sent" THEN @
                                 ELSE IF handler[p] = "complete" THEN "ok" ELSE "error"]
  /\ Become(p, "done")
  /\ UNCHANGED <<queue, item>> /\ DatabaseIsUnchanged

\* The server goes down with everything but the database.
Crash ==
  /\ call' = [p \in Requests |-> IF call[p] \in {"queued", "sent"} THEN "failed" ELSE call[p]]
  /\ queue' = <<>>
  /\ handler' = [p \in Requests |-> IF handler[p] = "none" THEN "none" ELSE "done"]
  /\ UNCHANGED item /\ DatabaseIsUnchanged

Step(p) == RefuseLinks(p) \/ NoTask(p) \/ CreateChildren(p) \/ Gathered(p) \/ GatherFails(p)
           \/ Insert(p) \/ InsertFails(p) \/ FinishRead(p) \/ ReadFails(p) \/ Answer(p)

\* What the event loop does of itself: handlers go on, connections are handed out, timers expire.
Loop == Dispatch \/ \E p \in Requests : GiveUp(p) \/ Step(p)

Next == Loop \/ Crash \/ \E p \in Requests : Send(p)

\* The event loop does not stop while there is anything to do.  No request takes more than a few
\* steps, so this is fair to each of them.
Spec == Init /\ [][Next]_vars /\ WF_vars(Loop)

-----------------------------------------------------------------------------
(* Properties                                                              *)

\* At no moment, and so after no crash, is there a collection in the database one of whose
\* members is not: failed and late requests leave members without a collection only, and of a
\* body of which a part was stored no collection comes before its members.
HrefsAreStored ==
  \A p \in Requests : \A i \in DOMAIN Body[p] :
    <<p, i>> \in stored => \A q \in Body[p][i].members : IsStored(q)

\* However requests that wait for their members take the connections that the members need, there
\* is again and again a time when every request has been answered and all connections are free.
EveryRequestIsAnswered ==
  []<>(queue = <<>> /\ \A p \in Requests : call[p] \notin {"queued", "sent"})
=============================================================================
