------------------------ MODULE CollectionPostProofs ------------------------
(***************************************************************************)
(* A collection is in the database after its members only, for any number  *)
(* of requests, resources, members, connections, failures and crashes.     *)
(***************************************************************************)
EXTENDS CollectionPost, SequenceTheorems, TLAPS

\* What the answers that a handler has had say about the database: a request that ended well has
\* stored its resources, and so have those for the members of every resource that is behind.
Behind(p) ==
  \A i \in DOMAIN Body[p] : i < item[p] => \A q \in Body[p][i].members : q \in Reads \/ IsStored(q)

\* What a sender knows, and where a handler may be.
Calls == {"none", "queued", "sent", "ok", "error", "failed"}
Places == {"none", "process", "gather", "complete", "refused", "done"}

\* The inductive invariant: HrefsAreStored with the reason why it stays.
IInv ==
  /\ call \in [Requests -> Calls] /\ handler \in [Requests -> Places] /\ item \in [Requests -> Nat]
  /\ \A p \in Requests : call[p] = "ok" => p \in Reads \/ IsStored(p)
  /\ \A p \in Requests : handler[p] = "complete" => p \in Reads \/ IsStored(p)
  /\ \A p \in Requests : Behind(p)
  /\ HrefsAreStored

\* Steps that neither answer well, nor complete, nor move on, nor store.
LEMMA Quiet ==
  ASSUME IInv, stored' = stored, item' = item,
         call' \in [Requests -> Calls], handler' \in [Requests -> Places],
         \A p \in Requests : call'[p] = "ok" => call[p] = "ok",
         \A p \in Requests : handler'[p] = "complete" => handler[p] = "complete"
  PROVE  IInv'
BY DEF IInv, Behind, HrefsAreStored, IsStored, Calls, Places

\* A handler that gets to another place than the end has completed nothing.
LEMMA BecomeQuiet ==
  ASSUME IInv, NEW p \in Requests, NEW state \in Places, state # "complete", Become(p, state)
  PROVE  /\ handler' \in [Requests -> Places]
         /\ \A q \in Requests : handler'[q] = "complete" => handler[q] = "complete"
BY DEF IInv, Become, Calls, Places

\* Resources are counted, and their members are requests.
LEMMA BodyTyped ==
  ASSUME NEW p \in Requests
  PROVE  /\ Len(Body[p]) \in Nat /\ DOMAIN Body[p] = 1..Len(Body[p])
         /\ \A i \in DOMAIN Body[p] : Body[p][i].members \subseteq Requests
<1>1. Body[p] \in Seq([members: SUBSET (Requests \ Clients), dangling: BOOLEAN])
  BY BodyAssumption
<1>2. Len(Body[p]) \in Nat /\ DOMAIN Body[p] = 1..Len(Body[p])
  BY <1>1, LenProperties
<1>3. \A i \in DOMAIN Body[p] : Body[p][i] \in [members: SUBSET (Requests \ Clients), dangling: BOOLEAN]
  BY <1>1, <1>2, ElementOfSeq
<1> QED BY <1>2, <1>3

\* Refusals, time limits and the sending of members are such steps.
LEMMA LoopQuiet ==
  ASSUME IInv, NEW p \in Requests,
         GiveUp(p) \/ RefuseLinks(p) \/ NoTask(p) \/ CreateChildren(p) \/ GatherFails(p) \/ ReadFails(p)
  PROVE  IInv'
<1>1. CASE GiveUp(p)
  <2>1. call' \in [Requests -> Calls] /\ \A q \in Requests : call'[q] = "ok" => call[q] = "ok"
    BY <1>1 DEF IInv, GiveUp, Calls, Places
  <2> QED BY <1>1, <2>1, Quiet DEF GiveUp, IInv, DatabaseIsUnchanged, Calls, Places
<1>2. CASE RefuseLinks(p)
  <2>1. Become(p, "refused") /\ UNCHANGED <<call, item, stored>>
    BY <1>2 DEF RefuseLinks, DatabaseIsUnchanged
  <2> QED BY <2>1, BecomeQuiet, Quiet DEF IInv, Places
<1>3. CASE NoTask(p)
  <2>1. Become(p, "refused") /\ UNCHANGED <<call, item, stored>>
    BY <1>3 DEF NoTask, DatabaseIsUnchanged
  <2> QED BY <2>1, BecomeQuiet, Quiet DEF IInv, Places
<1>4. CASE CreateChildren(p)
  <2>1. Become(p, "gather") /\ UNCHANGED <<item, stored>>
    BY <1>4 DEF CreateChildren, DatabaseIsUnchanged
  <2>2. call' \in [Requests -> Calls] /\ \A q \in Requests : call'[q] = "ok" => call[q] = "ok"
    BY <1>4 DEF IInv, CreateChildren, Calls, Places
  <2> QED BY <2>1, <2>2, BecomeQuiet, Quiet DEF Places
<1>5. CASE GatherFails(p)
  <2>1. Become(p, "refused") /\ UNCHANGED <<call, item, stored>>
    BY <1>5 DEF GatherFails, DatabaseIsUnchanged
  <2> QED BY <2>1, BecomeQuiet, Quiet DEF IInv, Places
<1>6. CASE ReadFails(p)
  <2>1. Become(p, "refused") /\ UNCHANGED <<call, item, stored>>
    BY <1>6 DEF ReadFails, DatabaseIsUnchanged
  <2> QED BY <2>1, BecomeQuiet, Quiet DEF IInv, Places
<1> QED BY <1>1, <1>2, <1>3, <1>4, <1>5, <1>6

\* The members of the current resource have all been answered well, so they are stored.
LEMMA GatheredStep ==
  ASSUME IInv, NEW p \in Requests, Gathered(p)
  PROVE  IInv'
<1>1. item' = [item EXCEPT ![p] = @ + 1] /\ UNCHANGED <<call, stored>> /\ Become(p, "process")
  BY DEF Gathered, DatabaseIsUnchanged
<1>2. /\ handler' \in [Requests -> Places]
      /\ \A q \in Requests : handler'[q] = "complete" => handler[q] = "complete"
  BY <1>1, BecomeQuiet DEF Places
<1>3. ASSUME NEW i \in DOMAIN Body[p], i < item[p] + 1
      PROVE  \A q \in Body[p][i].members : q \in Reads \/ IsStored(q)
  <2>1. CASE i < item[p]
    BY <2>1 DEF IInv, Behind, IsStored, Calls, Places
  <2>2. CASE i = item[p]
    <3>1. \A q \in Body[p][i].members : call[q] = "ok" \/ q \in Reads
      BY <2>2 DEF Gathered, AllCreated, Current
    <3> QED BY <3>1, BodyTyped DEF IInv, Calls, Places
  <2>3. i \in Nat /\ item[p] \in Nat
    BY BodyTyped DEF IInv, Calls, Places
  <2> QED BY <1>3, <2>1, <2>2, <2>3
<1>4. ASSUME NEW q \in Requests, NEW i \in DOMAIN Body[q], i < item'[q]
      PROVE  \A r \in Body[q][i].members : r \in Reads \/ IsStored(r)'
  <2>1. CASE q = p
    BY <1>1, <1>3, <1>4, <2>1 DEF IInv, IsStored, Calls, Places
  <2>2. CASE q # p
    BY <1>1, <1>4, <2>2 DEF IInv, Behind, IsStored, Calls, Places
  <2> QED BY <2>1, <2>2
<1>5. item' \in [Requests -> Nat]
  BY <1>1 DEF IInv, Calls, Places
<1> QED BY <1>1, <1>2, <1>4, <1>5 DEF IInv, Behind, HrefsAreStored, IsStored, Calls, Places

\* All resources are behind, so all members are stored, and none of them is a read: however many of
\* the resources are stored now, their members are there.
LEMMA Storing ==
  ASSUME IInv, NEW p \in Requests, p \notin Reads, item[p] > Len(Body[p]),
         NEW n \in 0..Len(Body[p]), stored' = stored \cup UpTo(p, n)
  PROVE  /\ HrefsAreStored'
         /\ \A q \in Requests : IsStored(q) => IsStored(q)'
<1>1. \A q : IsStored(q) => IsStored(q)'
  BY DEF IsStored
<1>2. ASSUME NEW i \in DOMAIN Body[p], NEW q \in Body[p][i].members PROVE IsStored(q)
  <2>1. i < item[p]
    BY BodyTyped DEF IInv, Calls, Places
  <2>2. q \in Reads \/ IsStored(q)
    BY <2>1 DEF IInv, Behind
  <2>3. q \notin Reads
    BY BodyAssumption
  <2> QED BY <2>2, <2>3
<1>3. ASSUME NEW r \in Requests, NEW i \in DOMAIN Body[r], <<r, i>> \in stored',
             NEW q \in Body[r][i].members
      PROVE  IsStored(q)'
  <2>1. <<r, i>> \in stored \/ r = p
    BY <1>3 DEF UpTo
  <2>2. CASE <<r, i>> \in stored
    BY <1>1, <2>2 DEF IInv, HrefsAreStored
  <2>3. CASE r = p
    BY <1>1, <1>2, <2>3
  <2> QED BY <2>1, <2>2, <2>3
<1> QED BY <1>1, <1>3 DEF HrefsAreStored

\* What was stored stays, so what is known of it stays true.
LEMMA InsertStep ==
  ASSUME IInv, NEW p \in Requests, Insert(p)
  PROVE  IInv'
<1>1. /\ stored' = stored \cup UpTo(p, Len(Body[p])) /\ UNCHANGED <<call, item>> /\ p \notin Reads
      /\ handler' = [handler EXCEPT ![p] = "complete"] /\ item[p] > Len(Body[p])
  BY DEF Insert, Become
<1>2. Len(Body[p]) \in 0..Len(Body[p])
  BY BodyTyped
<1>3. HrefsAreStored' /\ \A q \in Requests : IsStored(q) => IsStored(q)'
  BY <1>1, <1>2, Storing
<1>4. IsStored(p)'
  BY <1>1 DEF IsStored
<1>5. handler' \in [Requests -> Places]
  BY <1>1 DEF IInv, Calls, Places
<1>6. \A q \in Requests : handler'[q] = "complete" => q \in Reads \/ IsStored(q)'
  BY <1>1, <1>3, <1>4 DEF IInv, Calls, Places
<1>7. \A q \in Requests : Behind(q)'
  BY <1>1, <1>3, BodyTyped DEF IInv, Behind
<1>8. \A q \in Requests : call'[q] = "ok" => q \in Reads \/ IsStored(q)'
  BY <1>1, <1>3 DEF IInv
<1> QED BY <1>1, <1>3, <1>5, <1>6, <1>7, <1>8 DEF IInv

\* A request that is refused has stored some of its resources, perhaps, and completed nothing.
LEMMA InsertFailsStep ==
  ASSUME IInv, NEW p \in Requests, InsertFails(p)
  PROVE  IInv'
<1>1. /\ UNCHANGED <<call, item>> /\ p \notin Reads /\ item[p] > Len(Body[p]) /\ Become(p, "refused")
  BY DEF InsertFails
<1>2. PICK n \in 0..Len(Body[p]) : stored' = stored \cup UpTo(p, n)
  BY DEF InsertFails
<1>3. HrefsAreStored' /\ \A q \in Requests : IsStored(q) => IsStored(q)'
  BY <1>1, <1>2, Storing
<1>4. /\ handler' \in [Requests -> Places]
      /\ \A q \in Requests : handler'[q] = "complete" => handler[q] = "complete"
  BY <1>1, BecomeQuiet DEF Places
<1>5. \A q \in Requests : handler'[q] = "complete" => q \in Reads \/ IsStored(q)'
  BY <1>3, <1>4 DEF IInv
<1>6. \A q \in Requests : Behind(q)'
  BY <1>1, <1>3, BodyTyped DEF IInv, Behind
<1>7. \A q \in Requests : call'[q] = "ok" => q \in Reads \/ IsStored(q)'
  BY <1>1, <1>3 DEF IInv
<1> QED BY <1>1, <1>3, <1>4, <1>5, <1>6, <1>7 DEF IInv

\* A GET completes without anything stored.
LEMMA FinishReadStep ==
  ASSUME IInv, NEW p \in Requests, FinishRead(p)
  PROVE  IInv'
<1>1. /\ UNCHANGED <<stored, call, item>> /\ p \in Reads
      /\ handler' = [handler EXCEPT ![p] = "complete"]
  BY DEF FinishRead, Become, DatabaseIsUnchanged
<1>2. handler' \in [Requests -> Places] /\ \A q \in Requests : handler'[q] = "complete" => q \in Reads \/ IsStored(q)'
  BY <1>1 DEF IInv, IsStored, Calls, Places
<1> QED BY <1>1, <1>2 DEF IInv, Behind, HrefsAreStored, IsStored, Calls, Places

\* Only a request that is complete is answered well.
LEMMA AnswerStep ==
  ASSUME IInv, NEW p \in Requests, Answer(p)
  PROVE  IInv'
<1>1. /\ UNCHANGED <<stored, item>> /\ Become(p, "done")
      /\ call' = [call EXCEPT ![p] = IF @ # "sent" THEN @
                                     ELSE IF handler[p] = "complete" THEN "ok" ELSE "error"]
  BY DEF Answer, DatabaseIsUnchanged
<1>2. call' \in [Requests -> Calls] /\ \A q \in Requests : call'[q] = "ok" => q \in Reads \/ IsStored(q)'
  BY <1>1 DEF IInv, IsStored, Calls, Places
<1>3. /\ handler' \in [Requests -> Places]
      /\ \A q \in Requests : handler'[q] = "complete" => handler[q] = "complete"
  BY <1>1, BecomeQuiet DEF Places
<1> QED BY <1>1, <1>2, <1>3 DEF IInv, Behind, HrefsAreStored, IsStored, Calls, Places

\* Every step keeps the invariant; a crash and a new connection are quiet, too.
LEMMA NextIInv ==
  ASSUME IInv, [Next]_vars
  PROVE  IInv'
<1>1. ASSUME NEW p \in Requests, Send(p) PROVE IInv'
  <2>1. call' = [call EXCEPT ![p] = "sent"] /\ Become(p, "process") /\ UNCHANGED <<item, stored>>
    BY <1>1 DEF Send, DatabaseIsUnchanged
  <2>2. call' \in [Requests -> Calls] /\ \A q \in Requests : call'[q] = "ok" => call[q] = "ok"
    BY <2>1 DEF IInv, Calls, Places
  <2> QED BY <2>1, <2>2, BecomeQuiet, Quiet DEF Places
<1>2. CASE Dispatch
  <2>1. PICK p : call' = [call EXCEPT ![p] = "sent"] /\ handler' = [handler EXCEPT ![p] = "process"]
    BY <1>2 DEF Dispatch, Become
  <2>2. UNCHANGED <<item, stored>>
    BY <1>2 DEF Dispatch, DatabaseIsUnchanged
  <2>3. /\ call' \in [Requests -> Calls] /\ \A q \in Requests : call'[q] = "ok" => call[q] = "ok"
        /\ handler' \in [Requests -> Places]
        /\ \A q \in Requests : handler'[q] = "complete" => handler[q] = "complete"
    BY <2>1 DEF IInv, Calls, Places
  <2> QED BY <2>2, <2>3, Quiet
<1>3. CASE Crash
  <2>1. /\ call' \in [Requests -> Calls] /\ \A q \in Requests : call'[q] = "ok" => call[q] = "ok"
        /\ handler' \in [Requests -> Places] /\ \A q \in Requests : handler'[q] # "complete"
    BY <1>3 DEF Crash, IInv, Calls, Places
  <2>2. UNCHANGED <<item, stored>>
    BY <1>3 DEF Crash, DatabaseIsUnchanged
  <2> QED BY <2>1, <2>2, Quiet
<1>4. CASE UNCHANGED vars
  BY <1>4 DEF vars, IInv, Behind, HrefsAreStored, IsStored, Calls, Places
<1>5. ASSUME NEW p \in Requests, GiveUp(p) \/ Step(p) PROVE IInv'
  BY <1>5, LoopQuiet, GatheredStep, InsertStep, InsertFailsStep, FinishReadStep, AnswerStep DEF Step
<1> QED BY <1>1, <1>2, <1>3, <1>4, <1>5 DEF Next, Loop

\* Before the first resource none is behind.
LEMMA InitIInv == Init => IInv
<1> SUFFICES ASSUME Init PROVE IInv
  OBVIOUS
<1>1. ASSUME NEW p \in Requests, NEW i \in DOMAIN Body[p] PROVE ~(i < item[p])
  BY BodyTyped DEF Init
<1> QED BY <1>1 DEF Init, IInv, Behind, HrefsAreStored, Calls, Places

\* There is never a collection in the database one of whose members is not, whatever fails, is
\* late or crashes, and however deep collections are nested.
THEOREM MembersComeFirst == Spec => []HrefsAreStored
<1>1. IInv => HrefsAreStored
  BY DEF IInv, Calls, Places
<1>2. Init /\ [][Next]_vars => []IInv
  BY InitIInv, NextIInv, PTL
<1> QED BY <1>1, <1>2, PTL DEF Spec
=============================================================================
