----------------------- MODULE MeasurementStoreProofs -----------------------
(***************************************************************************)
(* The five properties of the measurement store, for any number of         *)
(* requests and metadata ids, any capacity and any number of points in a   *)
(* request.  Each has an invariant of its own.                             *)
(***************************************************************************)
EXTENDS MeasurementStore, FiniteSetTheorems, SequenceTheorems, WellFoundedInduction, TLAPS

Ops == {"none", "EVENT", "DATA", "LIST", "MIDS", "RANGE", "ONE", "READ"}
Places == {"idle", "fetch", "create", "catalog", "readback", "publish", "store", "stats", "count", "read",
           "done"}
Names == Mids \cup {Stray}

Statuses == {0, 200, 201, 403, 404, 409, 500}

Request == [op: Ops, pc: Places, mid: Mids \cup {"none"}, url: Mids \cup {"none"},
            accept: {"json", "bson"}, batch: Seq(Names), todo: SUBSET Nat, status: Statuses]

\* What the place that a request has got to says of it.
Fits(q) ==
  /\ q.todo \subseteq DOMAIN q.batch
  /\ q.status # 0 => q.pc = "done"
  /\ q.op = "none" <=> q.pc = "idle"
  /\ q.pc \in {"fetch", "create", "catalog", "readback"} => q.op = "EVENT" /\ q.mid \in Mids /\ q.url \in Mids
  /\ q.pc \in {"publish", "store"} => q.op = "DATA" /\ q.todo # {}
  /\ q.pc \in {"count", "read"} => q.op = "READ" /\ q.mid \in Mids
  /\ q.pc = "stats" => q.op \in {"LIST", "MIDS", "RANGE"}
  /\ q.op = "EVENT" => q.batch = <<>>
  /\ q.op = "DATA" => \A k \in DOMAIN q.batch : q.batch[k] \in Mids

Typed ==
  /\ kind \in [Mids -> {"none", "capped", "plain"}]
  /\ points \in [Mids -> Seq(Points)]
  /\ events \subseteq [mid: Mids, url: Mids, by: Reqs] /\ IsFiniteSet(events)
  /\ req \in [Reqs -> Request]
  /\ \A r \in Reqs : Fits(req[r])
  /\ stored \subseteq Points /\ feed \subseteq Points /\ shown \subseteq Points

-----------------------------------------------------------------------------
(* The order in which the points of a request are stored                   *)

\* A set of naturals that is not empty has a least element.
LEMMA LeastOf ==
  ASSUME NEW S \in SUBSET Nat, S # {}
  PROVE  \E i \in S : \A j \in S : i <= j
<1>1. PICK i \in S : \A j \in S : ~ (<<j, i>> \in OpToRel(<, Nat))
  BY NatLessThanWellFounded, WFMin
<1>2. \A j \in S : ~ (j < i)
  BY <1>1 DEF OpToRel
<1> QED BY <1>2

LEMMA FirstIs ==
  ASSUME NEW batch \in Seq(Names), NEW i \in DOMAIN batch
  PROVE  /\ FirstOf(batch, i) \in DOMAIN batch /\ FirstOf(batch, i) \in Nat
         /\ batch[FirstOf(batch, i)] = batch[i]
         /\ \A k \in DOMAIN batch : batch[k] = batch[i] => FirstOf(batch, i) <= k
<1>1. Len(batch) \in Nat /\ DOMAIN batch = 1..Len(batch)
  BY LenProperties
<1>2. {j \in DOMAIN batch : batch[j] = batch[i]} \in SUBSET Nat
      /\ {j \in DOMAIN batch : batch[j] = batch[i]} # {}
  BY <1>1
<1>3. PICK f \in {j \in DOMAIN batch : batch[j] = batch[i]} :
        \A j \in {j \in DOMAIN batch : batch[j] = batch[i]} : f <= j
  BY <1>2, LeastOf
<1>4. f \in DOMAIN batch /\ batch[f] = batch[i] /\ \A k \in 1..(f - 1) : batch[k] # batch[i]
  BY <1>1, <1>3
<1>5. /\ FirstOf(batch, i) \in DOMAIN batch
      /\ batch[FirstOf(batch, i)] = batch[i]
      /\ \A k \in 1..(FirstOf(batch, i) - 1) : batch[k] # batch[i]
  BY <1>4 DEF FirstOf
<1> QED BY <1>1, <1>5

\* The points of a group have one first point, and groups do not share theirs.
LEMMA FirstOfGroup ==
  ASSUME NEW batch \in Seq(Names), NEW i \in DOMAIN batch, NEW j \in DOMAIN batch
  PROVE  FirstOf(batch, i) = FirstOf(batch, j) <=> batch[i] = batch[j]
BY FirstIs

\* Sooner is a strict order of the points of a request.
LEMMA SoonerOrders ==
  ASSUME NEW batch \in Seq(Names), NEW i \in DOMAIN batch, NEW j \in DOMAIN batch
  PROVE  /\ Sooner(batch, i, j) => ~Sooner(batch, j, i)
         /\ ~Sooner(batch, i, i)
         /\ i # j => Sooner(batch, i, j) \/ Sooner(batch, j, i)
         /\ batch[i] = batch[j] /\ i < j => Sooner(batch, i, j)
<1>1. DOMAIN batch \subseteq Nat
  BY LenProperties
<1> QED BY <1>1, FirstIs, FirstOfGroup DEF Sooner

\* Of the points that are left, one is stored next.
LEMMA NextIs ==
  ASSUME Typed, NEW r \in Reqs, req[r].todo # {}
  PROVE  /\ NextPoint(r) \in req[r].todo
         /\ \A j \in req[r].todo \ {NextPoint(r)} : Sooner(req[r].batch, NextPoint(r), j)
<1>1. PICK batch \in Seq(Names) : batch = req[r].batch
  BY DEF Typed, Request
<1>2. PICK todo \in SUBSET DOMAIN batch : todo = req[r].todo
  BY <1>1 DEF Typed, Fits
<1>3. DOMAIN batch \subseteq Nat
  BY LenProperties
<1>4. PICK f \in {FirstOf(batch, i) : i \in todo} : \A g \in {FirstOf(batch, i) : i \in todo} : f <= g
  <2>1. {FirstOf(batch, i) : i \in todo} \in SUBSET Nat
    BY FirstIs
  <2>2. {FirstOf(batch, i) : i \in todo} # {}
    BY <1>2
  <2> QED BY <2>1, <2>2, LeastOf
<1>5. PICK i \in {k \in todo : FirstOf(batch, k) = f} : \A j \in {k \in todo : FirstOf(batch, k) = f} : i <= j
  <2>1. {i \in todo : FirstOf(batch, i) = f} \in SUBSET Nat
    BY <1>3
  <2>2. {i \in todo : FirstOf(batch, i) = f} # {}
    BY <1>4
  <2> QED BY <2>1, <2>2, LeastOf
<1>6. \A j \in todo \ {i} : Sooner(batch, i, j)
  <2> SUFFICES ASSUME NEW j \in todo, j # i PROVE Sooner(batch, i, j)
    OBVIOUS
  <2>1. FirstOf(batch, i) = f /\ f <= FirstOf(batch, j) /\ f \in Nat /\ FirstOf(batch, j) \in Nat
    BY <1>4, <1>5, FirstIs
  <2>2. i \in Nat /\ j \in Nat
    BY <1>3
  <2>3. FirstOf(batch, j) = f => i <= j
    BY <1>5
  <2> QED BY <2>1, <2>2, <2>3 DEF Sooner
<1>7. i \in todo
  BY <1>5
<1> QED BY <1>1, <1>2, <1>6, <1>7 DEF NextPoint

-----------------------------------------------------------------------------
(* Types                                                                   *)

LEMMA InitTyped == Init => Typed
<1>1. <<>> \in Seq(Names) /\ <<>> \in Seq(Points) /\ DOMAIN <<>> = {}
  BY EmptySeq
<1>2. PICK q : q = NewRequest("none", "idle", "none", "none", <<>>, 0)
  OBVIOUS
<1>3. q \in Request /\ Fits(q)
  BY <1>1, <1>2 DEF NewRequest, Request, Fits, Ops, Places, Statuses
<1>4. IsFiniteSet({}) /\ <<>> \in Seq(Points)
  BY <1>1, FS_EmptySet
<1> QED BY <1>1, <1>2, <1>3, <1>4 DEF Init, Typed

\* The record of a request stays well formed when one field is assigned.
LEMMA SetPc ==
  ASSUME NEW q \in Request, NEW pc \in Places
  PROVE  [q EXCEPT !.pc = pc] \in Request
BY DEF Request

LEMMA SetStatus ==
  ASSUME NEW q \in Request, NEW status \in Statuses
  PROVE  [q EXCEPT !.status = status] \in Request
BY DEF Request

LEMMA SetTodo ==
  ASSUME NEW q \in Request, NEW todo \in SUBSET Nat
  PROVE  [q EXCEPT !.todo = todo] \in Request
BY DEF Request

\* Only the request that moves changes.
OnlyOf(r) == req' \in [Reqs -> Request] /\ \A p \in Reqs \ {r} : req'[p] = req[p]

\* What it asks for stays, and so does what is left to do.
Frame(r) == /\ OnlyOf(r)
            /\ req'[r].op = req[r].op /\ req'[r].mid = req[r].mid /\ req'[r].url = req[r].url
            /\ req'[r].accept = req[r].accept
            /\ req'[r].batch = req[r].batch /\ req'[r].todo = req[r].todo

LEMMA GotoFrame ==
  ASSUME Typed, NEW r \in Reqs, NEW pc \in Places, Goto(r, pc)
  PROVE  Frame(r) /\ req'[r].pc = pc /\ req'[r].status = req[r].status
<1>1. [req[r] EXCEPT !.pc = pc] \in Request /\ req[r] \in Request
  BY SetPc DEF Typed
<1>2. req' = [req EXCEPT ![r] = [req[r] EXCEPT !.pc = pc]]
  BY DEF Goto
<1>3. req'[r] = [req[r] EXCEPT !.pc = pc] /\ req' \in [Reqs -> Request]
  BY <1>1, <1>2 DEF Typed
<1>4. \A p \in Reqs \ {r} : req'[p] = req[p]
  BY <1>2 DEF Typed
<1> QED BY <1>1, <1>3, <1>4 DEF Request, Frame, OnlyOf

LEMMA AnswerFrame ==
  ASSUME Typed, NEW r \in Reqs, NEW status \in Statuses, Answer(r, status)
  PROVE  Frame(r) /\ req'[r].pc = "done" /\ req'[r].status = status
<1>0. req[r] \in Request /\ "done" \in Places
  BY DEF Typed, Places
<1>1. req' = [req EXCEPT ![r] = [req[r] EXCEPT !.pc = "done", !.status = status]]
  BY DEF Typed, Answer
<1>2. [req[r] EXCEPT !.pc = "done", !.status = status] \in Request
  BY <1>0, SetPc, SetStatus
<1>3. req'[r] = [req[r] EXCEPT !.pc = "done", !.status = status] /\ req' \in [Reqs -> Request]
  BY <1>1, <1>2 DEF Typed
<1>4. \A p \in Reqs \ {r} : req'[p] = req[p]
  BY <1>1 DEF Typed
<1> QED BY <1>0, <1>2, <1>3, <1>4 DEF Request, Frame, OnlyOf

\* A new request.
LEMMA NewFrame ==
  ASSUME Typed, NEW r \in Reqs, NEW q \in Request, req' = [req EXCEPT ![r] = q]
  PROVE  OnlyOf(r) /\ req'[r] = q
BY DEF Typed, OnlyOf

LEMMA DomainOfBatch ==
  ASSUME NEW batch \in Seq(Names)
  PROVE  DOMAIN batch \in SUBSET Nat
BY LenProperties

\* A list of the elements of a finite set.
LEMMA ListOfSet ==
  ASSUME NEW S, IsFiniteSet(S), NEW list \in SetToSeqs(S)
  PROVE  \E n \in Nat : DOMAIN list = 1..n /\ list \in [1..n -> S]
<1>1. Cardinality(S) \in Nat
  BY FS_CardinalityType
<1>2. list \in [1..Cardinality(S) -> S]
  BY DEF SetToSeqs
<1> QED BY <1>1, <1>2

\* What a new request looks like; the list of the catalog has the names that its entries give.
Came(r) ==
  /\ OnlyOf(r) /\ req[r].pc = "idle" /\ req'[r].todo = DOMAIN req'[r].batch
  /\ \/ req'[r].op = "EVENT" /\ req'[r].pc = "fetch" /\ req'[r].mid \in Mids
        /\ req'[r].url \in Mids /\ req'[r].batch = <<>> /\ req'[r].status = 0
     \/ /\ req'[r].op = "DATA" /\ req'[r].pc = "publish" /\ req'[r].todo # {} /\ req'[r].status = 0
        /\ \A k \in DOMAIN req'[r].batch : req'[r].batch[k] \in Mids
     \/ /\ req'[r].op \in {"LIST", "MIDS", "RANGE"} /\ req'[r].pc = "stats" /\ req'[r].status = 0
        /\ req'[r].op = "LIST" =>
             \A k \in DOMAIN req'[r].batch :
               \/ req'[r].batch[k] = Stray /\ points[Catalog] # <<>>
               \/ \E e \in events : e.url = req'[r].batch[k]
     \/ req'[r].op = "ONE" /\ req'[r].pc = "done" /\ req'[r].status = 404
     \/ req'[r].op = "READ" /\ req'[r].pc = "count" /\ req'[r].mid \in Mids /\ req'[r].status = 0
     \/ req'[r].op = "READ" /\ req'[r].pc = "done" /\ req'[r].status = 403
  /\ UNCHANGED <<kind, points, events, stored, feed, shown>>

LEMMA NewRequestComes ==
  ASSUME Typed, NEW r \in Reqs,
         PostEvent(r) \/ PostData(r) \/ GetEvents(r) \/ GetMids(r) \/ GetEvent(r) \/ GetData(r)
  PROVE  Came(r)
<1>0. <<>> \in Seq(Names) /\ DOMAIN <<>> = {}
  BY EmptySeq
<1>s. /\ "EVENT" \in Ops /\ "DATA" \in Ops /\ "LIST" \in Ops /\ "MIDS" \in Ops /\ "RANGE" \in Ops
      /\ "ONE" \in Ops /\ "READ" \in Ops
      /\ "fetch" \in Places /\ "publish" \in Places /\ "stats" \in Places /\ "done" \in Places
      /\ "count" \in Places
      /\ 0 \in Statuses /\ 404 \in Statuses /\ 403 \in Statuses /\ "none" \in Mids \cup {"none"}
      /\ \A m \in Mids : m \in Mids \cup {"none"} /\ m \in Names
  BY DEF Ops, Places, Statuses, Names
<1> DEFINE Fields(op, pc, mid, url, batch, status) ==
             /\ OnlyOf(r) /\ req'[r].op = op /\ req'[r].pc = pc /\ req'[r].mid = mid /\ req'[r].url = url
             /\ req'[r].batch = batch /\ req'[r].todo = DOMAIN req'[r].batch /\ req'[r].status = status
<1>1. CASE PostEvent(r)
  <2>1. PICK mid \in Mids, url \in Mids : req' = [req EXCEPT ![r] = NewRequest("EVENT", "fetch", mid, url, <<>>, 0)]
    BY <1>1 DEF PostEvent
  <2>2. Fields("EVENT", "fetch", mid, url, <<>>, 0)
    <3>1. PICK q : q = NewRequest("EVENT", "fetch", mid, url, <<>>, 0) /\ req' = [req EXCEPT ![r] = q]
      BY <2>1
    <3>2. q \in Request
      BY <1>0, <1>s, <2>1, <3>1, DomainOfBatch DEF NewRequest, Request
    <3> QED BY <3>1, <3>2, NewFrame DEF NewRequest, OnlyOf
  <2> QED BY <1>1, <2>2 DEF PostEvent, Came
<1>2. CASE PostData(r)
  <2>1. PICK n \in 1..MaxPoints : \E batch \in [1..n -> Mids] :
          req' = [req EXCEPT ![r] = NewRequest("DATA", "publish", "none", "none", batch, 0)]
    BY <1>2 DEF PostData
  <2>2. PICK batch \in [1..n -> Mids] :
          req' = [req EXCEPT ![r] = NewRequest("DATA", "publish", "none", "none", batch, 0)]
    BY <2>1
  <2>3. batch \in Seq(Names) /\ 1 \in DOMAIN batch /\ \A k \in DOMAIN batch : batch[k] \in Mids
    <3>1. n \in Nat /\ n >= 1 /\ DOMAIN batch = 1..n
      BY ConstantsAssumption
    <3>2. batch \in [1..n -> Names]
      BY <3>1 DEF Names
    <3>3. batch \in Seq(Names)
      BY <3>1, <3>2
    <3> QED BY <3>1, <3>3
  <2>4. Fields("DATA", "publish", "none", "none", batch, 0)
    <3>1. PICK q : q = NewRequest("DATA", "publish", "none", "none", batch, 0) /\ req' = [req EXCEPT ![r] = q]
      BY <2>2, <2>3
    <3>2. q \in Request
      BY <1>0, <1>s, <2>2, <2>3, <3>1, DomainOfBatch DEF NewRequest, Request
    <3> QED BY <3>1, <3>2, NewFrame DEF NewRequest, OnlyOf
  <2>5. \A k \in DOMAIN req'[r].batch : req'[r].batch[k] \in Mids
    BY <2>3, <2>4
  <2>6. req'[r].todo # {}
    BY <2>3, <2>4
  <2> QED BY <1>2, <2>4, <2>5, <2>6 DEF PostData, Came
<1>3. CASE GetEvents(r)
  <2>1. PICK entries \in SetToSeqs(events \cup Strays) :
          req' = [req EXCEPT ![r] = NewRequest("LIST", "stats", "none", "none",
                                               [i \in DOMAIN entries |-> entries[i].url], 0)]
    BY <1>3 DEF GetEvents
  <2>2. IsFiniteSet(events \cup Strays)
    <3>1. IsFiniteSet({}) /\ IsFiniteSet({[mid |-> Stray, url |-> Stray, by |-> Stray]})
      BY FS_EmptySet, FS_Singleton
    <3>2. IsFiniteSet(Strays)
      BY <3>1 DEF Strays
    <3> QED BY <3>2, FS_Union DEF Typed
  <2>3. PICK n \in Nat : DOMAIN entries = 1..n /\ entries \in [1..n -> events \cup Strays]
    BY <2>1, <2>2, ListOfSet
  <2>4. PICK batch : batch = [i \in DOMAIN entries |-> entries[i].url]
    OBVIOUS
  <2>5. \A e \in events \cup Strays : \/ (e.url = Stray /\ points[Catalog] # <<>>)
                                     \/ (e \in events /\ e.url \in Mids)
    BY DEF Strays, Typed
  <2>6. DOMAIN batch = 1..n /\ \A k \in 1..n : entries[k] \in events \cup Strays /\ batch[k] = entries[k].url
    BY <2>3, <2>4
  <2>7. batch \in [1..n -> Names]
    <3>1. \A k \in 1..n : batch[k] \in Names
      BY <2>5, <2>6 DEF Names
    <3> QED BY <2>3, <2>4, <3>1
  <2>8. batch \in Seq(Names)
    BY <2>7
  <2>9. Fields("LIST", "stats", "none", "none", batch, 0)
    <3>1. PICK q : q = NewRequest("LIST", "stats", "none", "none", batch, 0) /\ req' = [req EXCEPT ![r] = q]
      BY <2>1, <2>4, <2>8
    <3>2. q \in Request
      BY <1>0, <1>s, <2>1, <2>4, <2>8, <3>1, DomainOfBatch DEF NewRequest, Request
    <3> QED BY <3>1, <3>2, NewFrame DEF NewRequest, OnlyOf
  <2>10. \A k \in DOMAIN batch : \/ (batch[k] = Stray /\ points[Catalog] # <<>>)
                                \/ \E e \in events : e.url = batch[k]
    BY <2>5, <2>6
  <2>11. \A k \in DOMAIN req'[r].batch : \/ (req'[r].batch[k] = Stray /\ points[Catalog] # <<>>)
                                       \/ \E e \in events : e.url = req'[r].batch[k]
    BY <2>9, <2>10
  <2> QED BY <1>3, <2>9, <2>11 DEF GetEvents, ReadOnly, Came
<1>4. CASE GetMids(r)
  <2>1. PICK mids \in SUBSET Mids : \E batch \in SetToSeqs(mids), op \in {"MIDS", "RANGE"} :
          req' = [req EXCEPT ![r] = NewRequest(op, "stats", "none", "none", batch, 0)]
    BY <1>4 DEF GetMids
  <2>2. PICK batch \in SetToSeqs(mids), op \in {"MIDS", "RANGE"} :
          req' = [req EXCEPT ![r] = NewRequest(op, "stats", "none", "none", batch, 0)]
    BY <2>1
  <2>3. batch \in Seq(Names)
    <3>1. IsFiniteSet(mids)
      BY ConstantsAssumption, FS_Subset
    <3>2. PICK n \in Nat : DOMAIN batch = 1..n /\ batch \in [1..n -> mids]
      BY <2>2, <3>1, ListOfSet
    <3>3. batch \in [1..n -> Names]
      BY <3>2 DEF Names
    <3> QED BY <3>3
  <2>4. Fields(op, "stats", "none", "none", batch, 0)
    <3>1. PICK q : q = NewRequest(op, "stats", "none", "none", batch, 0) /\ req' = [req EXCEPT ![r] = q]
      BY <2>2, <2>3
    <3>2. q \in Request
      BY <1>0, <1>s, <2>2, <2>3, <3>1, DomainOfBatch DEF NewRequest, Request
    <3> QED BY <3>1, <3>2, NewFrame DEF NewRequest, OnlyOf
  <2> QED BY <1>4, <2>2, <2>4 DEF GetMids, ReadOnly, Came
<1>5. CASE GetEvent(r)
  <2>1. Fields("ONE", "done", "none", "none", <<>>, 404)
    <3>1. PICK q : q = NewRequest("ONE", "done", "none", "none", <<>>, 404) /\ req' = [req EXCEPT ![r] = q]
      BY <1>5 DEF GetEvent
    <3>2. q \in Request
      BY <1>0, <1>s, <3>1, DomainOfBatch DEF NewRequest, Request
    <3>3. OnlyOf(r) /\ req'[r] = q
      BY <3>1, <3>2 DEF Typed, OnlyOf
    <3>4. /\ q.op = "ONE" /\ q.pc = "done" /\ q.mid = "none" /\ q.url = "none" /\ q.batch = <<>>
          /\ q.todo = DOMAIN q.batch /\ q.status = 404
      BY <3>1 DEF NewRequest
    <3> QED BY <3>3, <3>4
  <2> QED BY <1>5, <2>1 DEF GetEvent, ReadOnly, Came
<1>6. CASE GetData(r)
  <2>1. CASE req' = [req EXCEPT ![r] = NewRequest("READ", "done", "none", "none", <<>>, 403)]
    <3>1. Fields("READ", "done", "none", "none", <<>>, 403)
      <4>1. PICK q : q = NewRequest("READ", "done", "none", "none", <<>>, 403) /\ req' = [req EXCEPT ![r] = q]
        BY <2>1
      <4>2. q \in Request
        BY <1>0, <1>s, <2>1, <4>1, DomainOfBatch DEF NewRequest, Request
      <4>3. OnlyOf(r) /\ req'[r] = q
        BY <4>1, <4>2 DEF Typed, OnlyOf
      <4>4. /\ q.op = "READ" /\ q.pc = "done" /\ q.mid = "none" /\ q.url = "none" /\ q.batch = <<>>
            /\ q.todo = DOMAIN q.batch /\ q.status = 403
        BY <4>1 DEF NewRequest
      <4> QED BY <4>3, <4>4
    <3> QED BY <1>6, <3>1 DEF GetData, ReadOnly, Came
  <2>2. ASSUME NEW m \in Mids, req' = [req EXCEPT ![r] = NewRequest("READ", "count", m, "none", <<>>, 0)]
        PROVE  Came(r)
    <3>1. Fields("READ", "count", m, "none", <<>>, 0)
      <4>1. PICK q : q = NewRequest("READ", "count", m, "none", <<>>, 0) /\ req' = [req EXCEPT ![r] = q]
        BY <2>2
      <4>2. q \in Request
        BY <1>0, <1>s, <2>2, <4>1, DomainOfBatch DEF NewRequest, Request
      <4> QED BY <4>1, <4>2, NewFrame DEF NewRequest, OnlyOf
    <3> QED BY <1>6, <2>2, <3>1 DEF GetData, ReadOnly, Came
  <2> QED BY <1>6, <2>1, <2>2 DEF GetData
<1> QED BY <1>1, <1>2, <1>3, <1>4, <1>5, <1>6

\* A step of a request that has come, other than the storing of a point.
Works(r) ==
  /\ OnlyOf(r)
  /\ req'[r].op = req[r].op /\ req'[r].mid = req[r].mid /\ req'[r].url = req[r].url
  /\ req'[r].batch = req[r].batch
  /\ req'[r].todo \subseteq req[r].todo
  /\ req[r].op \in {"DATA", "EVENT", "READ"} => req'[r].todo = req[r].todo
  /\ \/ req'[r].pc = "done" /\ req'[r].status # 0 /\ (req'[r].status = 201 => req[r].pc = "readback")
     \/ /\ req'[r].status = req[r].status /\ req[r].status = 0
        /\ <<req[r].pc, req'[r].pc>> \in {<<"fetch", "create">>, <<"create", "catalog">>, <<"catalog", "readback">>,
                                         <<"publish", "store">>, <<"stats", "stats">>, <<"count", "read">>}
  /\ req[r].pc \notin {"idle", "done"}
  /\ UNCHANGED <<points, stored>>

LEMMA AnswerWorks ==
  ASSUME Typed, NEW r \in Reqs, NEW status \in Statuses \ {0}, Answer(r, status),
         status = 201 => req[r].pc = "readback", req[r].pc \notin {"idle", "done"}, UNCHANGED <<points, stored>>
  PROVE  Works(r)
BY AnswerFrame DEF Works, Frame, OnlyOf

LEMMA GotoWorks ==
  ASSUME Typed, NEW r \in Reqs, NEW pc \in Places, Goto(r, pc),
         <<req[r].pc, pc>> \in {<<"fetch", "create">>, <<"create", "catalog">>, <<"catalog", "readback">>,
                                <<"publish", "store">>, <<"count", "read">>},
         UNCHANGED <<points, stored>>
  PROVE  Works(r)
<1>1. req[r].status = 0 /\ req[r].pc \notin {"idle", "done"}
  BY DEF Typed, Fits
<1> QED BY <1>1, GotoFrame DEF Works, Frame, OnlyOf

\* The statistics of one collection have been read.
LEMMA StatsFrame ==
  ASSUME Typed, NEW r \in Reqs, NEW todo, req' = [req EXCEPT ![r].todo = todo], todo \subseteq req[r].todo
  PROVE  /\ OnlyOf(r) /\ req'[r].op = req[r].op /\ req'[r].mid = req[r].mid /\ req'[r].url = req[r].url
         /\ req'[r].batch = req[r].batch
         /\ req'[r].pc = req[r].pc /\ req'[r].status = req[r].status /\ req'[r].todo = todo
<1>1. req[r] \in Request /\ todo \in SUBSET Nat
  BY DEF Typed, Request
<1>2. [req[r] EXCEPT !.todo = todo] \in Request
  BY <1>1, SetTodo
<1>3. req' = [req EXCEPT ![r] = [req[r] EXCEPT !.todo = todo]]
  OBVIOUS
<1>4. req'[r] = [req[r] EXCEPT !.todo = todo] /\ req' \in [Reqs -> Request]
  BY <1>2, <1>3 DEF Typed
<1>5. \A p \in Reqs \ {r} : req'[p] = req[p]
  BY <1>3 DEF Typed
<1> QED BY <1>1, <1>4, <1>5 DEF Request, OnlyOf

\* The answer is written.
LEMMA EncodeFrame ==
  ASSUME Typed, NEW r \in Reqs, NEW accept \in {"json", "bson"}, Encode(r, accept)
  PROVE  /\ OnlyOf(r) /\ req'[r].op = req[r].op /\ req'[r].mid = req[r].mid /\ req'[r].url = req[r].url
         /\ req'[r].batch = req[r].batch /\ req'[r].todo = req[r].todo /\ req'[r].pc = "done"
         /\ req'[r].accept = accept /\ req'[r].status = IF accept = "bson" THEN 500 ELSE 200
<1>1. PICK status \in Statuses : status = IF accept = "bson" THEN 500 ELSE 200
  BY DEF Statuses
<1>2. req[r] \in Request /\ "done" \in Places
  BY DEF Typed, Places
<1>2b. req' = [req EXCEPT ![r].pc = "done", ![r].accept = accept, ![r].status = status]
  BY <1>1 DEF Encode
<1>2a. req' = [req EXCEPT ![r] = [req[r] EXCEPT !.pc = "done", !.accept = accept, !.status = status]]
  BY <1>2b DEF Typed
<1>3. PICK q : q = [req[r] EXCEPT !.pc = "done", !.accept = accept, !.status = status]
  OBVIOUS
<1>4. /\ q \in Request /\ q.op = req[r].op /\ q.mid = req[r].mid /\ q.url = req[r].url /\ q.batch = req[r].batch
      /\ q.todo = req[r].todo /\ q.pc = "done" /\ q.accept = accept /\ q.status = status
  BY <1>2, <1>3 DEF Request
<1>5. req' = [req EXCEPT ![r] = q]
  BY <1>1, <1>2a, <1>3
<1>6. OnlyOf(r) /\ req'[r] = q
  BY <1>4, <1>5, NewFrame DEF OnlyOf
<1> QED BY <1>1, <1>4, <1>6 DEF OnlyOf

LEMMA StepWorks ==
  ASSUME Typed, NEW r \in Reqs, Step(r), ~StorePoint(r)
  PROVE  Works(r)
<1> USE DEF Places, Statuses
<1>1. CASE FetchFails(r)
  BY <1>1, AnswerWorks DEF FetchFails
<1>2. CASE ListCollections(r)
  BY <1>2, AnswerWorks, GotoWorks DEF ListCollections
<1>3. CASE CreateCapped(r)
  BY <1>3, AnswerWorks, GotoWorks DEF CreateCapped
<1>4. CASE InsertEvent(r)
  BY <1>4, GotoWorks DEF InsertEvent
<1>4a. CASE InsertFails(r)
  BY <1>4a, AnswerWorks DEF InsertFails
<1>4b. CASE ReadBack(r)
  BY <1>4b, AnswerWorks DEF ReadBack
<1>5. CASE PublishGroup(r)
  BY <1>5, GotoWorks DEF PublishGroup
<1>6. CASE StoreFails(r)
  BY <1>6, AnswerWorks DEF StoreFails
<1>7. CASE Stats(r)
  <2>1. CASE \E status \in {200, 404, 500} : Answer(r, status)
    BY <1>7, <2>1, AnswerWorks DEF Stats, ReadOnly
  <2>1a. CASE \E accept \in {"json", "bson"} : Encode(r, accept)
    <3>1. PICK accept \in {"json", "bson"} : Encode(r, accept)
      BY <2>1a
    <3> QED BY <1>7, <3>1, EncodeFrame DEF Stats, ReadOnly, Works, OnlyOf
  <2>2. CASE /\ ~ \E status \in {200, 404, 500} : Answer(r, status)
             /\ ~ \E accept \in {"json", "bson"} : Encode(r, accept)
    <3>0. PICK i : i = CHOOSE k \in req[r].todo : \A j \in req[r].todo : k <= j
      OBVIOUS
    <3>a. ~Answer(r, 404) /\ ~Answer(r, 500)
      BY <2>2
    <3>b. req[r].todo # {}
      BY <1>7, <2>2, Zenon DEF Stats
    <3>0a. req' = [req EXCEPT ![r].todo = @ \ {i}]
      BY <1>7, <3>0, <3>a, <3>b DEF Stats
    <3>0b. req' = [req EXCEPT ![r].todo = req[r].todo \ {i}]
      BY <3>0a DEF Typed
    <3>1. PICK todo : req' = [req EXCEPT ![r].todo = todo] /\ todo \subseteq req[r].todo
      BY <3>0b
    <3>2. req[r].status = 0 /\ req[r].op \notin {"DATA", "EVENT", "READ"} /\ req[r].pc = "stats"
          /\ UNCHANGED <<points, stored>>
      BY <1>7 DEF Typed, Fits, Stats, ReadOnly
    <3>3. OnlyOf(r)
      BY <3>1, StatsFrame DEF OnlyOf
    <3>4. /\ req'[r].op = req[r].op /\ req'[r].mid = req[r].mid /\ req'[r].url = req[r].url
          /\ req'[r].batch = req[r].batch /\ req'[r].pc = req[r].pc /\ req'[r].status = req[r].status /\ req'[r].todo = todo
      BY <3>1, StatsFrame DEF OnlyOf
    <3> QED BY <3>1, <3>2, <3>3, <3>4 DEF Works
  <2> QED BY <2>1, <2>1a, <2>2
<1>8. CASE CountPoints(r)
  BY <1>8, AnswerWorks, GotoWorks DEF CountPoints, ReadOnly
<1>9. CASE ReadPoints(r)
  BY <1>9, AnswerWorks DEF ReadPoints, ReadOnly
<1> QED BY <1>1, <1>2, <1>3, <1>4, <1>4a, <1>4b, <1>5, <1>6, <1>7, <1>8, <1>9 DEF Step

\* A point is stored: the next one, and the request goes on with its group, the next group or ends.
Stores(r) ==
  /\ OnlyOf(r)
  /\ req'[r].op = req[r].op /\ req'[r].mid = req[r].mid /\ req'[r].url = req[r].url
  /\ req'[r].batch = req[r].batch
  /\ req[r].pc = "store" /\ req'[r].todo = req[r].todo \ {NextPoint(r)}
  /\ \/ req'[r].todo = {} /\ req'[r].pc = "done" /\ req'[r].status = 201
     \/ /\ req'[r].todo # {} /\ req'[r].status = 0 /\ req'[r].pc = "store"
        /\ \E j \in req'[r].todo : req[r].batch[j] = NextMid(r)
     \/ req'[r].todo # {} /\ req'[r].status = 0 /\ req'[r].pc = "publish"
  /\ stored' = stored \cup {<<r, NextPoint(r)>>}
  /\ points' = [points EXCEPT ![NextMid(r)] = Put(NextMid(r), <<r, NextPoint(r)>>)]
  /\ UNCHANGED <<events, feed, shown>>

LEMMA StorePointStores ==
  ASSUME Typed, NEW r \in Reqs, StorePoint(r)
  PROVE  Stores(r)
<1>1. PICK i, m : i = NextPoint(r) /\ m = NextMid(r)
  OBVIOUS
<1>2. PICK rest : rest = req[r].todo \ {i}
  OBVIOUS
<1>3. PICK pc, status :
        /\ pc = IF rest = {} THEN "done"
                ELSE IF \E j \in rest : req[r].batch[j] = m THEN "store" ELSE "publish"
        /\ status = IF rest = {} THEN 201 ELSE 0
  OBVIOUS
<1>4. req' = [req EXCEPT ![r].todo = rest, ![r].pc = pc, ![r].status = status]
  BY <1>1, <1>2, <1>3, Zenon DEF StorePoint
<1>5. pc \in Places /\ status \in Statuses /\ rest \in SUBSET Nat /\ req[r] \in Request
  BY <1>2, <1>3 DEF Typed, Request, Places, Statuses
<1>6. req' = [req EXCEPT ![r] = [req[r] EXCEPT !.todo = rest, !.pc = pc, !.status = status]]
  BY <1>4 DEF Typed
<1>7. PICK q : q = [req[r] EXCEPT !.todo = rest, !.pc = pc, !.status = status]
  OBVIOUS
<1>8. q \in Request
  <2>1. [req[r] EXCEPT !.todo = rest] \in Request
    BY <1>5, SetTodo
  <2>2. [req[r] EXCEPT !.todo = rest, !.pc = pc] \in Request
    BY <1>5, <2>1, SetPc
  <2> QED BY <1>5, <1>7, <2>2, SetStatus
<1>9. /\ q.op = req[r].op /\ q.mid = req[r].mid /\ q.url = req[r].url /\ q.batch = req[r].batch
      /\ q.todo = rest /\ q.pc = pc /\ q.status = status
  BY <1>5, <1>7 DEF Request
<1>10. OnlyOf(r) /\ req'[r] = q
  BY <1>6, <1>7, <1>8 DEF Typed, OnlyOf
<1>11. /\ req[r].pc = "store" /\ stored' = stored \cup {<<r, NextPoint(r)>>}
       /\ points' = [points EXCEPT ![NextMid(r)] = Put(NextMid(r), <<r, NextPoint(r)>>)]
       /\ UNCHANGED <<events, feed, shown>>
  BY DEF StorePoint
<1> QED BY <1>1, <1>2, <1>3, <1>9, <1>10, <1>11 DEF Stores

\* A step is a request that comes, works or stores.
LEMMA NextIsOne ==
  ASSUME Typed, Next
  PROVE  \E r \in Reqs : Came(r) \/ (Step(r) /\ Works(r)) \/ (StorePoint(r) /\ Stores(r))
<1>1. PICK r \in Reqs :
        PostEvent(r) \/ PostData(r) \/ GetEvents(r) \/ GetMids(r) \/ GetEvent(r) \/ GetData(r) \/ Step(r)
  BY DEF Next
<1>2. CASE Step(r)
  BY <1>2, StepWorks, StorePointStores
<1>3. CASE ~Step(r)
  BY <1>1, <1>3, NewRequestComes
<1> QED BY <1>2, <1>3

\* A point more at the end, and perhaps the first one gone.
LEMMA PutIs ==
  ASSUME Typed, NEW m \in Mids, NEW point \in Points
  PROVE  /\ Put(m, point) \in Seq(Points)
         /\ \E d \in {0, 1} :
              /\ d <= Len(points[m]) /\ Len(Put(m, point)) = Len(points[m]) + 1 - d
              /\ \A p \in DOMAIN Put(m, point) :
                   Put(m, point)[p] = IF p = Len(Put(m, point)) THEN point ELSE points[m][p + d]
<1>1. PICK s \in Seq(Points) : s = points[m]
  BY DEF Typed
<1>2. PICK longer \in Seq(Points) : longer = Append(s, point)
  BY AppendProperties
<1>3. /\ Len(s) \in Nat /\ Len(longer) = Len(s) + 1 /\ DOMAIN longer = 1..(Len(s) + 1)
      /\ \A p \in 1..Len(s) : longer[p] = s[p]
      /\ longer[Len(s) + 1] = point
  BY <1>2, AppendProperties, LenProperties
<1>4. CASE kind[m] = "capped" /\ Len(longer) > Capacity
  <2>1. Put(m, point) = Tail(longer)
    BY <1>1, <1>2, <1>4 DEF Put
  <2>2. Len(s) >= 1 /\ longer # <<>>
    BY <1>3, <1>4, ConstantsAssumption
  <2>3. /\ Tail(longer) \in Seq(Points) /\ Len(Tail(longer)) = Len(s)
        /\ \A p \in 1..Len(s) : Tail(longer)[p] = longer[p + 1]
    BY <1>2, <1>3, <2>2, HeadTailProperties
  <2>4. DOMAIN Tail(longer) = 1..Len(s)
    BY <2>3, LenProperties
  <2>5. \A p \in 1..Len(s) : Tail(longer)[p] = IF p = Len(s) THEN point ELSE s[p + 1]
    BY <1>3, <2>3
  <2> QED BY <1>1, <1>3, <2>1, <2>2, <2>3, <2>4, <2>5
<1>5. CASE ~(kind[m] = "capped" /\ Len(longer) > Capacity)
  <2>1. Put(m, point) = longer
    BY <1>1, <1>2, <1>5 DEF Put
  <2>2. \A p \in 1..(Len(s) + 1) : longer[p] = IF p = Len(s) + 1 THEN point ELSE s[p + 0]
    BY <1>3
  <2> QED BY <1>1, <1>2, <1>3, <2>1, <2>2
<1> QED BY <1>4, <1>5

\* The point that is stored next is one of the body, for a collection that has a name.
LEMMA NextTyping ==
  ASSUME Typed, NEW r \in Reqs, req[r].pc = "store" \/ req[r].pc = "publish"
  PROVE  /\ NextPoint(r) \in req[r].todo /\ NextPoint(r) \in DOMAIN req[r].batch
         /\ NextMid(r) \in Mids /\ <<r, NextPoint(r)>> \in Points
<1>1. /\ req[r].todo # {} /\ req[r].todo \subseteq DOMAIN req[r].batch /\ req[r].batch \in Seq(Names)
      /\ \A k \in DOMAIN req[r].batch : req[r].batch[k] \in Mids
  BY DEF Typed, Fits, Request
<1>2. NextPoint(r) \in req[r].todo
  BY <1>1, NextIs
<1>3. NextPoint(r) \in DOMAIN req[r].batch /\ req[r].batch[NextPoint(r)] \in Mids /\ NextPoint(r) \in Nat \ {0}
  BY <1>1, <1>2, LenProperties
<1> QED BY <1>2, <1>3 DEF NextMid, Points

LEMMA NextTyped ==
  ASSUME Typed, [Next]_vars
  PROVE  Typed'
<1>1. ASSUME NEW r \in Reqs, OnlyOf(r), NEW q, q = req'[r], Fits(q)
      PROVE  req' \in [Reqs -> Request] /\ \A x \in Reqs : Fits(req[x])'
  <2>1. ASSUME NEW x \in Reqs PROVE Fits(req[x])'
    <3>1. CASE x = r
      BY <1>1, <3>1 DEF Fits
    <3>2. CASE x # r
      <4>1. req'[x] = req[x] /\ Fits(req[x])
        BY <1>1, <3>2 DEF Typed, OnlyOf
      <4> QED BY <4>1 DEF Fits
    <3> QED BY <3>1, <3>2
  <2> QED BY <1>1, <2>1 DEF OnlyOf
<1>2. ASSUME NEW r \in Reqs, Came(r) PROVE Typed'
  <2>1. PICK q : q = req'[r]
    OBVIOUS
  <2>2. q \in Request
    BY <1>2, <2>1 DEF Came, OnlyOf
  <2>3. Fits(q)
    BY <1>2, <2>1, <2>2 DEF Came, Fits, Request
  <2>4. OnlyOf(r) /\ UNCHANGED <<kind, points, events, stored, feed, shown>>
    BY <1>2 DEF Came
  <2> QED BY <1>1, <2>1, <2>3, <2>4 DEF Typed
<1>3. ASSUME NEW r \in Reqs, Step(r), Works(r) PROVE Typed'
  <2>1. PICK q : q = req'[r]
    OBVIOUS
  <2>2. Fits(req[r]) /\ req[r] \in Request
    BY DEF Typed
  <2>3. Fits(q)
    BY <1>3, <2>1, <2>2 DEF Works, Fits, Request
  <2>4. OnlyOf(r) /\ UNCHANGED <<points, stored>>
    BY <1>3 DEF Works
  <2>5. /\ kind' \in [Mids -> {"none", "capped", "plain"}] /\ events' \subseteq [mid: Mids, url: Mids, by: Reqs] /\ IsFiniteSet(events')
        /\ feed' \subseteq Points /\ shown' \subseteq Points
    <3> USE DEF Typed
    <3>1. CASE CreateCapped(r)
      BY <3>1, <2>2 DEF CreateCapped, Fits
    <3>2. CASE InsertEvent(r)
      <4>1. PICK e \in [mid: Mids, url: Mids, by: Reqs] : events' = events \cup {e}
        BY <3>2, <2>2 DEF InsertEvent, Fits
      <4>2. IsFiniteSet(events')
        BY <4>1, FS_AddElement
      <4> QED BY <3>2, <4>1, <4>2 DEF InsertEvent
    <3>3. CASE PublishGroup(r)
      <4>1. req[r].batch \in Seq(Names) /\ DOMAIN req[r].batch \subseteq Nat \ {0}
        BY <2>2, LenProperties DEF Request
      <4> QED BY <3>3, <4>1 DEF PublishGroup, Points
    <3>4. CASE ReadPoints(r)
      <4>1. points[req[r].mid] \in Seq(Points)
        BY <3>4, <2>2 DEF ReadPoints, Fits
      <4>2. Range(points[req[r].mid]) \subseteq Points
        BY <4>1, ElementOfSeq, LenProperties DEF Range
      <4> QED BY <3>4, <4>2 DEF ReadPoints, ReadOnly
    <3>5. CASE \/ FetchFails(r) \/ ListCollections(r) \/ InsertFails(r) \/ ReadBack(r) \/ StoreFails(r)
               \/ Stats(r) \/ CountPoints(r)
      BY <3>5 DEF FetchFails, ListCollections, InsertFails, ReadBack, StoreFails, Stats, CountPoints, ReadOnly
    <3>6. CASE StorePoint(r)
      BY <1>3, <3>6, StorePointStores DEF Works, Stores
    <3> QED BY <1>3, <3>1, <3>2, <3>3, <3>4, <3>5, <3>6 DEF Step
  <2> QED BY <1>1, <2>1, <2>3, <2>4, <2>5 DEF Typed
<1>4. ASSUME NEW r \in Reqs, StorePoint(r), Stores(r) PROVE Typed'
  <2>1. PICK q : q = req'[r]
    OBVIOUS
  <2>2. Fits(req[r]) /\ req[r] \in Request
    BY DEF Typed
  <2>3. Fits(q)
    BY <1>4, <2>1, <2>2 DEF Stores, Fits, Request
  <2>4. /\ NextMid(r) \in Mids /\ <<r, NextPoint(r)>> \in Points
    BY <1>4, NextTyping DEF Stores
  <2>5. Put(NextMid(r), <<r, NextPoint(r)>>) \in Seq(Points)
    BY <2>4, PutIs
  <2>6. points' \in [Mids -> Seq(Points)] /\ stored' \subseteq Points
    BY <1>4, <2>4, <2>5 DEF Stores, Typed
  <2>7. kind' \in [Mids -> {"none", "capped", "plain"}]
    BY <1>4, <2>4 DEF StorePoint, Typed
  <2>8. OnlyOf(r) /\ UNCHANGED <<events, feed, shown>>
    BY <1>4 DEF Stores
  <2> QED BY <1>1, <2>1, <2>3, <2>6, <2>7, <2>8 DEF Typed
<1>5. CASE UNCHANGED vars
  BY <1>5 DEF Typed, Fits, vars
<1> QED BY <1>2, <1>3, <1>4, <1>5, NextIsOne

LEMMA SpecTyped == Spec => []Typed
BY InitTyped, NextTyped, PTL DEF Spec

\* Requests, collections and the catalog are in states that the handlers can bring about: what is
\* still to do of a request is in its body.
THEOREM TypeCorrect == Spec => []TypeOK
<1>1. Typed => TypeOK
  BY DEF Typed, Fits, TypeOK
<1> QED BY <1>1, SpecTyped, PTL

-----------------------------------------------------------------------------
(* Events and their collections                                            *)

\* What a list of the catalog can meet: a stray, a capped collection, or a name that no collection
\* need have, because it is the end of an address and not a mid.
Mismatch == \E e \in events : e.url # e.mid
Readable(name) == \/ name = Stray /\ points[Catalog] # <<>>
                  \/ name \in Mids /\ (kind[name] = "capped" \/ Mismatch)

ListGood(q) == q.op = "LIST" =>
  /\ q.status \in {0, 200, 404, 500}
  /\ q.status = 404 => Mismatch
  /\ q.status = 500 => q.accept = "bson" \/ points[Catalog] # <<>>
  /\ \A k \in DOMAIN q.batch : Readable(q.batch[k])

\* Between the creation of a collection and the catalog entry, no one else is at that point for the
\* same metadata id and the catalog does not have it.
EventInv ==
  /\ \A e, f \in events : e.mid = f.mid => e = f
  /\ \A e \in events : kind[e.mid] = "capped"
  /\ \A r \in Reqs : req[r].pc = "catalog" =>
       /\ kind[req[r].mid] = "capped"
       /\ \A e \in events : e.mid # req[r].mid
       /\ \A s \in Reqs \ {r} : ~(req[s].pc = "catalog" /\ req[s].mid = req[r].mid)
  /\ \A r \in Reqs : \A q : q = req[r] => ListGood(q)

\* A collection keeps its kind; a request that is not at the catalog does not get there but by
\* creating a collection.
LEMMA KindStays ==
  ASSUME Typed, [Next]_vars, NEW m \in Mids, kind[m] # "none"
  PROVE  kind'[m] = kind[m]
<1>1. ASSUME NEW r \in Reqs, Came(r) PROVE kind'[m] = kind[m]
  BY <1>1 DEF Came
<1>2. ASSUME NEW r \in Reqs, Step(r) PROVE kind'[m] = kind[m]
  BY <1>2 DEF Typed, Step, FetchFails, ListCollections, CreateCapped, InsertEvent, InsertFails, ReadBack, PublishGroup, StorePoint,
     StoreFails, Stats, CountPoints, ReadPoints, ReadOnly
<1>3. CASE UNCHANGED vars
  BY <1>3 DEF vars
<1> QED BY <1>1, <1>2, <1>3, NextIsOne DEF Step

\* The least index that is left.
LEMMA LeastLeft ==
  ASSUME Typed, NEW r \in Reqs, req[r].todo # {}
  PROVE  (CHOOSE i \in req[r].todo : \A j \in req[r].todo : i <= j) \in req[r].todo
<1>1. req[r].todo \in SUBSET Nat
  BY DEF Typed, Request
<1>2. \E i \in req[r].todo : \A j \in req[r].todo : i <= j
  BY <1>1, LeastOf
<1> QED BY <1>2

\* The catalog only grows, and the points posted to its name do not go away altogether.
LEMMA CatalogGrows ==
  ASSUME Typed, [Next]_vars
  PROVE  events \subseteq events' /\ (points[Catalog] # <<>> => points'[Catalog] # <<>>)
<1>1. ASSUME NEW r \in Reqs, StorePoint(r), Stores(r)
      PROVE  events \subseteq events' /\ (points[Catalog] # <<>> => points'[Catalog] # <<>>)
  <2>1. NextMid(r) \in Mids /\ <<r, NextPoint(r)>> \in Points
    BY <1>1, NextTyping DEF Stores
  <2>2. PICK m \in Mids, point \in Points : m = NextMid(r) /\ point = <<r, NextPoint(r)>>
    BY <2>1
  <2>6. PICK list : list = Put(m, point)
    OBVIOUS
  <2>3. list # <<>>
    <3>1. /\ list \in Seq(Points)
          /\ \E d \in {0, 1} : d <= Len(points[m]) /\ Len(list) = Len(points[m]) + 1 - d
      BY <2>6, PutIs
    <3>2. Len(points[m]) \in Nat
      BY LenProperties DEF Typed
    <3>3. Len(list) # 0
      BY <3>1, <3>2
    <3> QED BY <3>1, <3>3, EmptySeq
  <2>4. points' = [points EXCEPT ![m] = list] /\ events' = events
    BY <1>1, <2>2, <2>6 DEF Stores
  <2>5. points' = [x \in Mids |-> IF x = m THEN list ELSE points[x]]
    BY <2>4 DEF Typed
  <2> QED BY <2>3, <2>4, <2>5, ConstantsAssumption
<1>2. ASSUME NEW r \in Reqs, Step(r), Works(r) PROVE events \subseteq events' /\ points' = points
  <2>1. points' = points
    BY <1>2 DEF Works
  <2>2. events \subseteq events'
    BY <1>2 DEF Step, FetchFails, ListCollections, CreateCapped, InsertEvent, InsertFails, ReadBack, PublishGroup,
       StorePoint, StoreFails, Stats, CountPoints, ReadPoints, ReadOnly
  <2> QED BY <2>1, <2>2
<1>3. ASSUME NEW r \in Reqs, Came(r) PROVE events' = events /\ points' = points
  BY <1>3 DEF Came
<1>4. CASE UNCHANGED vars
  BY <1>4 DEF vars
<1> QED BY <1>1, <1>2, <1>3, <1>4, NextIsOne

\* So an answer that was explained stays explained.
LEMMA ListStays ==
  ASSUME Typed, [Next]_vars, NEW q, ListGood(q)
  PROVE  ListGood(q)'
<1>1. Mismatch => Mismatch'
  BY CatalogGrows DEF Mismatch
<1>2. points[Catalog] # <<>> => points'[Catalog] # <<>>
  BY CatalogGrows
<1>3. ASSUME NEW name, Readable(name) PROVE Readable(name)'
  <2>1. CASE name = Stray /\ points[Catalog] # <<>>
    BY <1>2, <2>1 DEF Readable
  <2>2. CASE name \in Mids /\ Mismatch
    BY <1>1, <2>2 DEF Readable
  <2>3. CASE name \in Mids /\ kind[name] = "capped"
    <3>1. kind'[name] = "capped"
      BY <2>3, KindStays
    <3> QED BY <2>3, <3>1 DEF Readable
  <2> QED BY <1>3, <2>1, <2>2, <2>3 DEF Readable
<1> QED BY <1>1, <1>2, <1>3 DEF ListGood

\* The catalog is refused for no other reason.
LEMMA ListAnswered ==
  ASSUME Typed, EventInv, NEW r \in Reqs, Step(r), Works(r), req[r].op = "LIST", NEW q, q = req'[r]
  PROVE  ListGood(q)
<1>1. req[r].pc = "stats"
  <2>1. req[r] \in Request /\ Fits(req[r]) /\ req[r].pc \notin {"idle", "done"}
    BY DEF Works, Typed
  <2> QED BY <2>1 DEF Fits, Request, Places
<1>2. Stats(r)
  BY <1>1 DEF Step, FetchFails, ListCollections, CreateCapped, InsertEvent, InsertFails, ReadBack,
     PublishGroup, StorePoint, StoreFails, Stats, CountPoints, ReadPoints
<1>3. PICK i : i = CHOOSE k \in req[r].todo : \A j \in req[r].todo : k <= j
  OBVIOUS
<1>4. q.op = "LIST" /\ q.batch = req[r].batch
  BY DEF Works
<1>5. \A k \in DOMAIN req[r].batch : Readable(req[r].batch[k])
  BY DEF EventInv, ListGood
<1>6. CASE \E accept \in {"json", "bson"} : Encode(r, accept)
  <2>1. PICK accept \in {"json", "bson"} : Encode(r, accept)
    BY <1>6
  <2>2. q.accept = accept /\ q.status = IF accept = "bson" THEN 500 ELSE 200
    BY <2>1, EncodeFrame
  <2> QED BY <1>4, <1>5, <2>2 DEF ListGood
<1>7. CASE req[r].todo # {}
  <2>1. i \in req[r].todo /\ req[r].todo \subseteq DOMAIN req[r].batch
    BY <1>3, <1>7, LeastLeft DEF Typed, Fits
  <2>2. Readable(req[r].batch[i])
    BY <1>5, <2>1
  <2>3. CASE req[r].batch[i] = Stray
    <3>1. Answer(r, 500)
      BY <1>2, <1>3, <1>7, <2>3 DEF Stats
    <3>2. points[Catalog] # <<>>
      BY <2>2, <2>3, ConstantsAssumption DEF Readable
    <3>3. q.status = 500
      BY <3>1, AnswerFrame DEF Statuses
    <3> QED BY <1>4, <1>5, <3>2, <3>3 DEF ListGood
  <2>4. CASE req[r].batch[i] # Stray /\ kind[req[r].batch[i]] = "none"
    <3>1. Answer(r, 404)
      BY <1>2, <1>3, <1>7, <2>4 DEF Stats
    <3>2. Mismatch
      BY <2>2, <2>4 DEF Readable
    <3>3. q.status = 404
      BY <3>1, AnswerFrame DEF Statuses
    <3> QED BY <1>4, <1>5, <3>2, <3>3 DEF ListGood
  <2>5. CASE req[r].batch[i] # Stray /\ kind[req[r].batch[i]] # "none"
    <3>1. req' = [req EXCEPT ![r].todo = @ \ {i}]
      BY <1>2, <1>3, <1>7, <2>5 DEF Stats
    <3>2. req' = [req EXCEPT ![r].todo = req[r].todo \ {i}]
      BY <3>1 DEF Typed
    <3>3. q.status = req[r].status
      BY <3>2, StatsFrame DEF OnlyOf
    <3>4. req[r].status = 0
      BY <1>1 DEF Typed, Fits
    <3> QED BY <1>4, <1>5, <3>3, <3>4 DEF ListGood
  <2> QED BY <2>3, <2>4, <2>5
<1>8. CASE req[r].todo = {}
  <2>1. \E accept \in {"json", "bson"} : Encode(r, accept)
    BY <1>2, <1>8, Zenon DEF Stats
  <2> QED BY <1>6, <2>1
<1> QED BY <1>7, <1>8

\* A step changes one request; the lists of the others stay explained.
LEMMA ListsStay ==
  ASSUME Typed, EventInv, [Next]_vars, NEW r \in Reqs, OnlyOf(r), \A q : q = req'[r] => ListGood(q)
  PROVE  \A s \in Reqs : \A q : q = req'[s] => ListGood(q)'
<1> SUFFICES ASSUME NEW s \in Reqs, NEW q, q = req'[s] PROVE ListGood(q)'
  OBVIOUS
<1>1. CASE s = r
  BY <1>1, ListStays
<1>2. CASE s # r
  <2>1. q = req[s]
    BY <1>2 DEF OnlyOf
  <2>2. ListGood(q)
    BY <2>1 DEF EventInv
  <2> QED BY <2>2, ListStays
<1> QED BY <1>1, <1>2

LEMMA NextEvents ==
  ASSUME Typed, EventInv, [Next]_vars
  PROVE  EventInv'
<1>1. ASSUME NEW r \in Reqs, OnlyOf(r), req'[r].pc # "catalog", UNCHANGED events,
             \A q : q = req'[r] => ListGood(q)
      PROVE  EventInv'
  <2>1. \A e \in events : e.mid \in Mids /\ kind'[e.mid] = "capped"
    <3> SUFFICES ASSUME NEW e \in events PROVE e.mid \in Mids /\ kind'[e.mid] = "capped"
      OBVIOUS
    <3>1. e.mid \in Mids /\ kind[e.mid] = "capped"
      BY DEF Typed, EventInv
    <3> QED BY <3>1, KindStays
  <2>2. ASSUME NEW s \in Reqs, req'[s].pc = "catalog"
        PROVE  /\ kind'[req'[s].mid] = "capped"
               /\ \A e \in events' : e.mid # req'[s].mid
               /\ \A t \in Reqs \ {s} : ~(req'[t].pc = "catalog" /\ req'[t].mid = req'[s].mid)
    <3>1. s # r /\ req'[s] = req[s]
      BY <1>1, <2>2 DEF OnlyOf
    <3>2. req[s].mid \in Mids /\ kind[req[s].mid] = "capped"
      BY <2>2, <3>1 DEF Typed, Fits, EventInv
    <3>3. kind'[req[s].mid] = "capped"
      BY <3>2, KindStays
    <3>4. \A t \in Reqs \ {s} : req'[t].pc = "catalog" => req'[t] = req[t]
      BY <1>1 DEF OnlyOf
    <3> QED BY <1>1, <2>2, <3>1, <3>3, <3>4 DEF EventInv
  <2>3. \A s \in Reqs : \A q : q = req'[s] => ListGood(q)'
    BY <1>1, ListsStay, Zenon
  <2>4. \A e, f \in events' : e.mid = f.mid => e = f
    BY <1>1 DEF EventInv
  <2>5. events' = events
    BY <1>1
  <2> QED BY <2>1, <2>2, <2>3, <2>4, <2>5 DEF EventInv
<1>2. ASSUME NEW r \in Reqs, Came(r) PROVE EventInv'
  <2>1. ASSUME NEW q, q = req'[r] PROVE ListGood(q)
    <3> SUFFICES ASSUME q.op = "LIST" PROVE ListGood(q)
      BY DEF ListGood
    <3>1. q.status = 0
      BY <1>2, <2>1 DEF Came
    <3>2. \A k \in DOMAIN q.batch : \/ (q.batch[k] = Stray /\ points[Catalog] # <<>>)
                                    \/ \E e \in events : e.url = q.batch[k]
      BY <1>2, <2>1 DEF Came
    <3>3. \A e \in events : e.url \in Mids /\ (e.url # e.mid => Mismatch) /\ kind[e.mid] = "capped"
      BY DEF Typed, EventInv, Mismatch
    <3>4. \A k \in DOMAIN q.batch : Readable(q.batch[k])
      BY <3>2, <3>3 DEF Readable
    <3> QED BY <3>1, <3>4 DEF ListGood
  <2>2. OnlyOf(r) /\ req'[r].pc # "catalog" /\ UNCHANGED events
    BY <1>2 DEF Came
  <2> QED BY <1>1, <2>1, <2>2
<1>3. ASSUME NEW r \in Reqs, StorePoint(r), Stores(r) PROVE EventInv'
  <2>1. req[r].op = "DATA"
    BY <1>3 DEF Stores, Typed, Fits
  <2>2. OnlyOf(r) /\ req'[r].pc # "catalog" /\ UNCHANGED events /\ req'[r].op # "LIST"
    BY <1>3, <2>1 DEF Stores
  <2>3. \A q : q = req'[r] => ListGood(q)
    BY <2>2 DEF ListGood
  <2> QED BY <1>1, <2>2, <2>3
<1>4. ASSUME NEW r \in Reqs, Step(r), Works(r), ~CreateCapped(r), ~InsertEvent(r) PROVE EventInv'
  <2>1. ASSUME NEW q, q = req'[r] PROVE ListGood(q)
    <3>1. CASE req[r].op = "LIST"
      BY <1>4, <2>1, <3>1, ListAnswered, Zenon
    <3>2. CASE req[r].op # "LIST"
      <4>1. q.op # "LIST"
        BY <1>4, <2>1, <3>2 DEF Works
      <4> QED BY <4>1 DEF ListGood
    <3> QED BY <3>1, <3>2
  <2>2. OnlyOf(r)
    BY <1>4 DEF Works
  <2>3. UNCHANGED events /\ req[r].pc # "create"
    BY <1>4 DEF Works, Step, FetchFails, ListCollections, InsertFails, ReadBack, PublishGroup, StorePoint, StoreFails,
       Stats, CountPoints, ReadPoints, ReadOnly
  <2>4. req'[r].pc # "catalog"
    BY <1>4, <2>3 DEF Works
  <2> QED BY <1>1, <2>1, <2>2, <2>3, <2>4
<1>5. ASSUME NEW r \in Reqs, CreateCapped(r), Works(r) PROVE EventInv'
  <2>1. CASE kind[req[r].mid] = "none"
    <3>1. req[r].mid \in Mids /\ req[r].op = "EVENT"
      BY <1>5 DEF CreateCapped, Typed, Fits
    <3>2. kind' = [kind EXCEPT ![req[r].mid] = "capped"] /\ UNCHANGED events
      BY <1>5, <2>1 DEF CreateCapped
    <3>3. kind'[req[r].mid] = "capped" /\ \A m \in Mids : kind[m] = "capped" => kind'[m] = "capped"
      BY <3>1, <3>2 DEF Typed
    <3>4. \A e \in events : e.mid \in Mids /\ e.mid # req[r].mid /\ kind'[e.mid] = "capped"
      BY <2>1, <3>3 DEF EventInv, Typed
    <3>5. OnlyOf(r) /\ req'[r].mid = req[r].mid /\ req'[r].op = req[r].op
      BY <1>5 DEF Works
    <3>6. ASSUME NEW s \in Reqs \ {r}, req[s].pc = "catalog"
          PROVE  req[s].mid \in Mids /\ kind[req[s].mid] = "capped" /\ req[s].mid # req[r].mid
      BY <2>1, <3>6 DEF EventInv, Typed, Fits
    <3>7. ASSUME NEW s \in Reqs, req'[s].pc = "catalog"
          PROVE  /\ kind'[req'[s].mid] = "capped"
                 /\ \A e \in events' : e.mid # req'[s].mid
                 /\ \A t \in Reqs \ {s} : ~(req'[t].pc = "catalog" /\ req'[t].mid = req'[s].mid)
      <4>1. CASE s = r
        BY <3>2, <3>3, <3>4, <3>5, <3>6, <4>1 DEF OnlyOf
      <4>2. CASE s # r
        BY <3>2, <3>3, <3>5, <3>6, <3>7, <4>2 DEF OnlyOf, EventInv
      <4> QED BY <4>1, <4>2
    <3>8. \A s \in Reqs : \A q : q = req'[s] => ListGood(q)'
      <4>1. \A q : q = req'[r] => ListGood(q)
        BY <3>1, <3>5 DEF ListGood
      <4> QED BY <3>5, <4>1, ListsStay, Zenon
    <3>9. \A e, f \in events' : e.mid = f.mid => e = f
      BY <3>2 DEF EventInv
    <3> QED BY <3>2, <3>4, <3>7, <3>8, <3>9 DEF EventInv
  <2>2. CASE kind[req[r].mid] # "none"
    <3>1. Answer(r, 409) /\ UNCHANGED <<kind, events>> /\ req[r].op = "EVENT"
      BY <1>5, <2>2 DEF CreateCapped, Typed, Fits
    <3>2. req'[r].pc = "done" /\ OnlyOf(r) /\ req'[r].op = "EVENT"
      BY <3>1, AnswerFrame DEF Statuses, Frame, OnlyOf
    <3>3. \A q : q = req'[r] => ListGood(q)
      BY <3>2 DEF ListGood
    <3> QED BY <1>1, <3>1, <3>2, <3>3
  <2> QED BY <2>1, <2>2
<1>6. ASSUME NEW r \in Reqs, InsertEvent(r), Works(r) PROVE EventInv'
  <2>1. /\ events' = events \cup {[mid |-> req[r].mid, url |-> req[r].url, by |-> r]} /\ Goto(r, "readback")
        /\ UNCHANGED kind /\ req[r].pc = "catalog" /\ req[r].op = "EVENT"
    BY <1>6 DEF InsertEvent, Typed, Fits
  <2>2. req'[r].pc = "readback" /\ OnlyOf(r) /\ req'[r].op = "EVENT"
    BY <2>1, GotoFrame DEF Places, Frame, OnlyOf
  <2>3. kind[req[r].mid] = "capped" /\ \A e \in events : e.mid # req[r].mid
    BY <2>1 DEF EventInv
  <2>4. ASSUME NEW s \in Reqs, req'[s].pc = "catalog"
        PROVE  /\ kind'[req'[s].mid] = "capped"
               /\ \A e \in events' : e.mid # req'[s].mid
               /\ \A t \in Reqs \ {s} : ~(req'[t].pc = "catalog" /\ req'[t].mid = req'[s].mid)
    <3>1. s # r /\ req'[s] = req[s]
      BY <2>2, <2>4 DEF OnlyOf
    <3>2. \A t \in Reqs : req'[t].pc = "catalog" => req'[t] = req[t]
      BY <2>2 DEF OnlyOf
    <3>3. req[s].mid # req[r].mid
      BY <2>1, <2>4, <3>1 DEF EventInv
    <3> QED BY <2>1, <2>4, <3>1, <3>2, <3>3 DEF EventInv
  <2>5. \A s \in Reqs : \A q : q = req'[s] => ListGood(q)'
    <3>1. \A q : q = req'[r] => ListGood(q)
      BY <2>2 DEF ListGood
    <3> QED BY <2>2, <3>1, ListsStay, Zenon
  <2>6. \A e, f \in events' : e.mid = f.mid => e = f
    BY <2>1, <2>3 DEF EventInv
  <2>7. \A e \in events' : kind'[e.mid] = "capped"
    BY <2>1, <2>3 DEF EventInv
  <2> QED BY <2>1, <2>4, <2>5, <2>6, <2>7 DEF EventInv
<1>7. CASE UNCHANGED vars
  BY <1>7 DEF EventInv, ListGood, Readable, Mismatch, vars
<1> QED BY <1>2, <1>3, <1>4, <1>5, <1>6, <1>7, NextIsOne

\* Every event has one catalog entry and a capped collection, and the whole catalog can be read
\* but for the entries whose address does not end in their mid, strays and BSON.
THEOREM EventsOwnCollections == Spec => []EventOwnsItsCollection
<1>1. Init => EventInv
  BY DEF Init, EventInv, ListGood, NewRequest
<1>2. EventInv => EventOwnsItsCollection
  BY DEF EventInv, ListGood, Mismatch, EventOwnsItsCollection
<1> QED BY <1>1, <1>2, SpecTyped, NextEvents, PTL DEF Spec

-----------------------------------------------------------------------------
(* What a POST of data has stored                                          *)

\* What comes after a point that is left is left, too.
Closed(q) == q.op = "DATA" =>
  \A i \in q.todo : \A j \in DOMAIN q.batch : Sooner(q.batch, i, j) => j \in q.todo

\* The database has taken what is no longer left of the bodies, and nothing else.
StoredInv == \A r \in Reqs :
  /\ \A k : <<r, k>> \in stored <=> req[r].op = "DATA" /\ k \in DOMAIN req[r].batch \ req[r].todo
  /\ \A q : q = req[r] => Closed(q)

LEMMA NextStored ==
  ASSUME Typed, StoredInv, [Next]_vars
  PROVE  StoredInv'
<1>1. ASSUME NEW r \in Reqs, OnlyOf(r),
             \A s \in Reqs \ {r} : \A k : <<s, k>> \in stored' <=> <<s, k>> \in stored,
             \A k : <<r, k>> \in stored' <=> req'[r].op = "DATA" /\ k \in DOMAIN req'[r].batch \ req'[r].todo,
             \A q : q = req'[r] => Closed(q)
      PROVE  StoredInv'
  <2>1. ASSUME NEW s \in Reqs
        PROVE  /\ \A k : <<s, k>> \in stored' <=> req'[s].op = "DATA" /\ k \in DOMAIN req'[s].batch \ req'[s].todo
               /\ \A q : q = req'[s] => Closed(q)
    <3>1. CASE s = r
      BY <1>1, <3>1
    <3>2. CASE s # r
      BY <1>1, <3>2 DEF OnlyOf, StoredInv
    <3> QED BY <3>1, <3>2
  <2> QED BY <2>1 DEF StoredInv
<1>2. ASSUME NEW r \in Reqs, Came(r) PROVE StoredInv'
  <2>1. req[r].op # "DATA"
    BY <1>2 DEF Came, Typed, Fits
  <2>2. \A q : q = req'[r] => Closed(q)
    BY <1>2 DEF Came, Closed
  <2>3. OnlyOf(r) /\ stored' = stored /\ req'[r].todo = DOMAIN req'[r].batch
    BY <1>2 DEF Came
  <2>4. \A k : ~(<<r, k>> \in stored)
    BY <2>1 DEF StoredInv
  <2> QED BY <1>1, <2>2, <2>3, <2>4
<1>3. ASSUME NEW r \in Reqs, Works(r) PROVE StoredInv'
  <2>1. OnlyOf(r) /\ stored' = stored /\ req'[r].op = req[r].op /\ req'[r].batch = req[r].batch
        /\ (req[r].op = "DATA" => req'[r].todo = req[r].todo)
    BY <1>3 DEF Works
  <2>2. \A q : q = req'[r] => Closed(q)
    <3>1. PICK q : q = req[r]
      OBVIOUS
    <3>2. Closed(q)
      BY <3>1 DEF StoredInv
    <3> QED BY <2>1, <3>1, <3>2 DEF Closed
  <2>3. \A k : <<r, k>> \in stored' <=> req'[r].op = "DATA" /\ k \in DOMAIN req'[r].batch \ req'[r].todo
    BY <2>1 DEF StoredInv
  <2> QED BY <1>1, <2>1, <2>2, <2>3
<1>4. ASSUME NEW r \in Reqs, Stores(r) PROVE StoredInv'
  <2>1. PICK n : n = NextPoint(r)
    OBVIOUS
  <2>2. /\ OnlyOf(r) /\ stored' = stored \cup {<<r, n>>} /\ req'[r].op = req[r].op
        /\ req'[r].batch = req[r].batch /\ req'[r].todo = req[r].todo \ {n} /\ req[r].op = "DATA"
    BY <1>4, <2>1 DEF Stores, Typed, Fits
  <2>3. /\ n \in req[r].todo /\ n \in DOMAIN req[r].batch
        /\ \A j \in req[r].todo \ {n} : Sooner(req[r].batch, n, j)
        /\ req[r].todo \subseteq DOMAIN req[r].batch
    BY <1>4, <2>1, NextTyping, NextIs DEF Stores, Typed, Fits
  <2>4. PICK batch \in Seq(Names) : batch = req[r].batch
    BY DEF Typed, Request
  <2>5. \A q : q = req[r] => Closed(q)
    BY DEF StoredInv
  <2>6. \A i \in req[r].todo : \A j \in DOMAIN batch : Sooner(batch, i, j) => j \in req[r].todo
    BY <2>2, <2>4, <2>5 DEF Closed
  <2>7. \A i \in req[r].todo \ {n} : \A j \in DOMAIN batch : Sooner(batch, i, j) => j \in req[r].todo \ {n}
    <3> SUFFICES ASSUME NEW i \in req[r].todo \ {n}, NEW j \in DOMAIN batch, Sooner(batch, i, j)
                 PROVE  j \in req[r].todo \ {n}
      OBVIOUS
    <3>1. j \in req[r].todo
      BY <2>6
    <3>2. Sooner(batch, n, i) /\ i \in DOMAIN batch /\ n \in DOMAIN batch
      BY <2>3, <2>4
    <3>3. j # n
      BY <3>2, SoonerOrders
    <3> QED BY <3>1, <3>3
  <2>8. \A q : q = req'[r] => Closed(q)
    BY <2>2, <2>4, <2>7 DEF Closed
  <2>9. \A k : <<r, k>> \in stored' <=> req'[r].op = "DATA" /\ k \in DOMAIN req'[r].batch \ req'[r].todo
    BY <2>2, <2>3 DEF StoredInv
  <2>10. \A s \in Reqs \ {r} : \A k : <<s, k>> \in stored' <=> <<s, k>> \in stored
    BY <2>2
  <2> QED BY <1>1, <2>2, <2>8, <2>9, <2>10
<1>5. CASE UNCHANGED vars
  BY <1>5 DEF vars, StoredInv
<1> QED BY <1>2, <1>3, <1>4, <1>5, NextIsOne

LEMMA SpecStored == Spec => []StoredInv
<1>1. Init => StoredInv
  <2>1. DOMAIN <<>> = {}
    BY EmptySeq
  <2> QED BY <2>1 DEF Init, StoredInv, Closed, NewRequest
<1> QED BY <1>1, SpecTyped, NextStored, PTL DEF Spec

\* A refused POST of data, or one that a crash ends, has stored the first points of its groups.
THEOREM PrefixesStored == Spec => []DataLeavesPrefix
<1>1. ASSUME Typed, StoredInv PROVE DataLeavesPrefix
  <2> SUFFICES ASSUME NEW r \in Reqs, NEW i \in DOMAIN req[r].batch, NEW j \in DOMAIN req[r].batch,
                      Sooner(req[r].batch, i, j), <<r, j>> \in stored
               PROVE  <<r, i>> \in stored
    BY DEF DataLeavesPrefix
  <2>1. PICK q : q = req[r]
    OBVIOUS
  <2>2. Closed(q) /\ q.op = "DATA" /\ j \in DOMAIN q.batch \ q.todo
    BY <1>1, <2>1 DEF StoredInv
  <2>3. i \notin q.todo
    BY <2>1, <2>2 DEF Closed
  <2> QED BY <1>1, <2>1, <2>2, <2>3 DEF StoredInv
<1> QED BY <1>1, SpecTyped, SpecStored, PTL

\* 201 is the answer of a request with nothing left to do; an entry is read back when it is there.
EntryOf(r) == [mid |-> req[r].mid, url |-> req[r].url, by |-> r]

CreatedInv == \A r \in Reqs :
  /\ req[r].pc = "readback" => EntryOf(r) \in events
  /\ req[r].status = 201 =>
       /\ req[r].op \in {"DATA", "EVENT"} /\ req[r].pc = "done"
       /\ req[r].op = "DATA" => req[r].todo = {}
       /\ req[r].op = "EVENT" => EntryOf(r) \in events

LEMMA NextCreated ==
  ASSUME Typed, CreatedInv, [Next]_vars
  PROVE  CreatedInv'
<1>1. ASSUME NEW r \in Reqs, OnlyOf(r), events \subseteq events',
             req'[r].pc = "readback" => EntryOf(r)' \in events',
             req'[r].status = 201 =>
               /\ req'[r].op \in {"DATA", "EVENT"} /\ req'[r].pc = "done"
               /\ req'[r].op = "DATA" => req'[r].todo = {}
               /\ req'[r].op = "EVENT" => EntryOf(r)' \in events'
      PROVE  CreatedInv'
  <2>1. ASSUME NEW s \in Reqs, s # r
        PROVE  /\ req'[s].pc = "readback" => EntryOf(s)' \in events'
               /\ req'[s].status = 201 =>
                    /\ req'[s].op \in {"DATA", "EVENT"} /\ req'[s].pc = "done"
                    /\ req'[s].op = "DATA" => req'[s].todo = {}
                    /\ req'[s].op = "EVENT" => EntryOf(s)' \in events'
    <3>1. req'[s] = req[s] /\ EntryOf(s)' = EntryOf(s)
      BY <1>1, <2>1 DEF OnlyOf, EntryOf
    <3> QED BY <1>1, <2>1, <3>1 DEF CreatedInv
  <2> QED BY <1>1, <2>1 DEF CreatedInv
<1>2. ASSUME NEW r \in Reqs, Came(r) PROVE CreatedInv'
  <2>1. OnlyOf(r) /\ UNCHANGED events /\ req'[r].status # 201 /\ req'[r].pc # "readback"
    BY <1>2 DEF Came
  <2> QED BY <1>1, <2>1
<1>3. ASSUME NEW r \in Reqs, Step(r), Works(r) PROVE CreatedInv'
  <2>1. OnlyOf(r) /\ EntryOf(r)' = EntryOf(r) /\ req'[r].op = req[r].op
    BY <1>3 DEF Works, EntryOf
  <2>2. CASE InsertEvent(r)
    <3>1. events' = events \cup {EntryOf(r)} /\ Goto(r, "readback")
      BY <2>2 DEF InsertEvent, EntryOf
    <3>2. req'[r].status # 201
      <4>1. req[r].pc = "catalog" /\ req[r].status = 0
        BY <2>2 DEF InsertEvent, Typed, Fits
      <4>2. req'[r].status = req[r].status
        BY <3>1, GotoFrame DEF Places
      <4> QED BY <4>1, <4>2
    <3> QED BY <1>1, <2>1, <3>1, <3>2
  <2>3. CASE ~InsertEvent(r)
    <3>2. UNCHANGED events
      BY <1>3, <2>3, Zenon DEF Step, FetchFails, ListCollections, CreateCapped, InsertFails, ReadBack, PublishGroup,
         StorePoint, StoreFails, Stats, CountPoints, ReadPoints, ReadOnly
    <3>3. req'[r].pc # "readback"
      <4>1. CASE InsertFails(r)
        <5>1. Answer(r, 409)
          BY <4>1 DEF InsertFails
        <5> QED BY <5>1, AnswerFrame DEF Statuses
      <4>2. CASE ~InsertFails(r)
        <5>1. req[r].pc # "catalog"
          BY <1>3, <2>3, <4>2 DEF Step, FetchFails, ListCollections, CreateCapped, ReadBack, PublishGroup,
             StorePoint, StoreFails, Stats, CountPoints, ReadPoints
        <5> QED BY <1>3, <5>1 DEF Works
      <4> QED BY <4>1, <4>2
    <3>4. CASE req'[r].status = 201
      <4>1. req[r].pc = "readback" /\ req'[r].pc = "done"
        BY <1>3, <3>4 DEF Works, Typed, Fits
      <4>2. req[r].op = "EVENT" /\ EntryOf(r) \in events
        BY <4>1 DEF Typed, Fits, CreatedInv
      <4> QED BY <1>1, <2>1, <3>2, <3>3, <4>1, <4>2
    <3>5. CASE req'[r].status # 201
      BY <1>1, <2>1, <3>2, <3>3, <3>5
    <3> QED BY <3>4, <3>5
  <2> QED BY <2>2, <2>3
<1>4. ASSUME NEW r \in Reqs, Stores(r) PROVE CreatedInv'
  <2>1. req[r].op = "DATA"
    BY <1>4 DEF Stores, Typed, Fits
  <2>2. OnlyOf(r) /\ UNCHANGED events /\ req'[r].op = "DATA" /\ req'[r].pc # "readback"
        /\ (req'[r].status = 201 => req'[r].todo = {} /\ req'[r].pc = "done")
    BY <1>4, <2>1 DEF Stores
  <2> QED BY <1>1, <2>2
<1>5. CASE UNCHANGED vars
  BY <1>5 DEF vars, CreatedInv, EntryOf
<1> QED BY <1>2, <1>3, <1>4, <1>5, NextIsOne

\* 201 means stored: every point of the body, and the catalog entry of the event.
THEOREM CreatedMeansStored == Spec => []CreatedIsStored
<1>1. Init => CreatedInv
  BY DEF Init, CreatedInv, NewRequest
<1>2. ASSUME Typed, StoredInv, CreatedInv PROVE CreatedIsStored
  <2>1. ASSUME NEW r \in Reqs, req[r].status = 201, NEW i \in DOMAIN req[r].batch PROVE <<r, i>> \in stored
    <3>1. req[r].op # "EVENT"
      <4>1. req[r].op = "EVENT" => req[r].batch = <<>>
        BY <1>2 DEF Typed, Fits
      <4>2. DOMAIN <<>> = {}
        BY EmptySeq
      <4> QED BY <2>1, <4>1, <4>2
    <3> QED BY <1>2, <2>1, <3>1 DEF StoredInv, CreatedInv
  <2> QED BY <1>2, <2>1 DEF CreatedInv, EntryOf, CreatedIsStored
<1> QED BY <1>1, <1>2, SpecTyped, SpecStored, NextCreated, PTL DEF Spec

-----------------------------------------------------------------------------
(* Subscribers are informed first                                          *)

\* The point of a request that is stored next.
Leads(q, i) == i \in q.todo /\ \A j \in q.todo \ {i} : Sooner(q.batch, i, j)

\* While a group is stored all of it has been published.
FeedInv ==
  /\ stored \subseteq feed /\ shown \subseteq feed
  /\ \A m \in Mids : \A p \in DOMAIN points[m] : points[m][p] \in stored
  /\ \A r \in Reqs : \A q : q = req[r] /\ q.pc = "store" =>
       \A i : Leads(q, i) => \A k \in DOMAIN q.batch : q.batch[k] = q.batch[i] => <<r, k>> \in feed

LEMMA LeadIsNext ==
  ASSUME Typed, NEW r \in Reqs, NEW q, q = req[r], NEW i, Leads(q, i)
  PROVE  i = NextPoint(r)
<1>1. q.batch \in Seq(Names) /\ q.todo \subseteq DOMAIN q.batch
  BY DEF Typed, Fits, Request
<1>2. PICK n : n = NextPoint(r)
  OBVIOUS
<1>3. n \in q.todo /\ \A j \in q.todo \ {n} : Sooner(q.batch, n, j)
  BY <1>2, NextIs DEF Leads
<1>4. i \in DOMAIN q.batch /\ n \in DOMAIN q.batch
  BY <1>1, <1>3 DEF Leads
<1> QED BY <1>1, <1>2, <1>3, <1>4, SoonerOrders DEF Leads

\* The next point of a group is the next point of the request.
LEMMA GroupGoesOn ==
  ASSUME NEW batch \in Seq(Names), NEW n \in DOMAIN batch, NEW i \in DOMAIN batch, NEW j \in DOMAIN batch,
         Sooner(batch, n, i), i = j \/ Sooner(batch, i, j), batch[j] = batch[n]
  PROVE  batch[i] = batch[n]
<1>1. /\ FirstOf(batch, n) \in Nat /\ FirstOf(batch, i) \in Nat /\ FirstOf(batch, j) \in Nat
      /\ FirstOf(batch, j) = FirstOf(batch, n)
  BY FirstIs, FirstOfGroup
<1>2. FirstOf(batch, n) <= FirstOf(batch, i) /\ FirstOf(batch, i) <= FirstOf(batch, j)
  BY <1>1 DEF Sooner
<1>3. FirstOf(batch, i) = FirstOf(batch, n)
  BY <1>1, <1>2
<1> QED BY <1>3, FirstOfGroup

LEMMA NextFeed ==
  ASSUME Typed, FeedInv, [Next]_vars
  PROVE  FeedInv'
<1>1. ASSUME NEW r \in Reqs, OnlyOf(r), feed \subseteq feed', stored' \subseteq feed', shown' \subseteq feed',
             \A m \in Mids : \A p \in DOMAIN points'[m] : points'[m][p] \in stored',
             \A q : q = req'[r] /\ q.pc = "store" =>
               \A i : Leads(q, i) => \A k \in DOMAIN q.batch : q.batch[k] = q.batch[i] => <<r, k>> \in feed'
      PROVE  FeedInv'
  <2>1. ASSUME NEW s \in Reqs, NEW q, q = req'[s], q.pc = "store"
        PROVE  \A i : Leads(q, i) => \A k \in DOMAIN q.batch : q.batch[k] = q.batch[i] => <<s, k>> \in feed'
    <3>1. CASE s = r
      BY <1>1, <2>1, <3>1
    <3>2. CASE s # r
      <4>1. q = req[s]
        BY <1>1, <2>1, <3>2 DEF OnlyOf
      <4> QED BY <1>1, <2>1, <4>1 DEF FeedInv
    <3> QED BY <3>1, <3>2
  <2> QED BY <1>1, <2>1 DEF FeedInv
<1>2. ASSUME NEW r \in Reqs, Came(r) PROVE FeedInv'
  <2>1. OnlyOf(r) /\ UNCHANGED <<points, stored, feed, shown>> /\ req'[r].pc # "store"
    BY <1>2 DEF Came
  <2> QED BY <1>1, <2>1 DEF FeedInv
<1>3. ASSUME NEW r \in Reqs, Step(r), Works(r), ~PublishGroup(r), ~ReadPoints(r) PROVE FeedInv'
  <2>1. OnlyOf(r) /\ UNCHANGED <<points, stored>>
    BY <1>3 DEF Works
  <2>2. UNCHANGED <<feed, shown>> /\ req[r].pc # "publish"
    BY <1>3 DEF Works, Step, FetchFails, ListCollections, CreateCapped, InsertEvent, InsertFails, ReadBack, StorePoint, StoreFails, Stats,
       CountPoints, ReadOnly
  <2>3. req'[r].pc # "store"
    BY <1>3, <2>2 DEF Works
  <2> QED BY <1>1, <2>1, <2>2, <2>3 DEF FeedInv
<1>4. ASSUME NEW r \in Reqs, ReadPoints(r), Works(r) PROVE FeedInv'
  <2>1. /\ req[r].mid \in Mids /\ shown' = shown \cup Range(points[req[r].mid]) /\ UNCHANGED <<points, stored, feed>>
        /\ Answer(r, 200)
    BY <1>4 DEF ReadPoints, ReadOnly, Typed, Fits
  <2>2. Range(points[req[r].mid]) \subseteq stored
    BY <2>1 DEF Range, FeedInv
  <2>3. OnlyOf(r) /\ req'[r].pc = "done"
    BY <2>1, AnswerFrame DEF Frame, OnlyOf, Statuses
  <2>4. shown' \subseteq feed
    BY <2>1, <2>2 DEF FeedInv
  <2> QED BY <1>1, <2>1, <2>3, <2>4 DEF FeedInv
<1>5. ASSUME NEW r \in Reqs, PublishGroup(r), Works(r) PROVE FeedInv'
  <2>1. PICK q : q = req[r]
    OBVIOUS
  <2>2. /\ feed' = feed \cup {<<r, i>> : i \in {i \in DOMAIN q.batch : q.batch[i] = NextMid(r)}}
        /\ UNCHANGED <<points, stored, shown>> /\ q.op = "DATA"
    BY <1>5, <2>1 DEF PublishGroup, Typed, Fits
  <2>3. OnlyOf(r) /\ req'[r].batch = q.batch /\ req'[r].todo = q.todo
    BY <1>5, <2>1, <2>2 DEF Works
  <2>4. ASSUME NEW p, p = req'[r], NEW i, Leads(p, i), NEW k \in DOMAIN p.batch, p.batch[k] = p.batch[i]
        PROVE  <<r, k>> \in feed'
    <3>1. Leads(q, i)
      BY <2>3, <2>4 DEF Leads
    <3>2. i = NextPoint(r)
      BY <2>1, <3>1, LeadIsNext
    <3>3. k \in DOMAIN q.batch /\ q.batch[k] = NextMid(r)
      BY <2>1, <2>3, <2>4, <3>2 DEF NextMid
    <3> QED BY <2>2, <3>3
  <2> QED BY <1>1, <2>2, <2>3, <2>4 DEF FeedInv
<1>6. ASSUME NEW r \in Reqs, Stores(r) PROVE FeedInv'
  <2>1. PICK n : n = NextPoint(r)
    OBVIOUS
  <2>2. PICK q : q = req[r]
    OBVIOUS
  <2>3. /\ q.pc = "store" /\ OnlyOf(r) /\ stored' = stored \cup {<<r, n>>} /\ UNCHANGED <<feed, shown>>
        /\ req'[r].batch = q.batch /\ req'[r].todo = q.todo \ {n}
        /\ points' = [points EXCEPT ![NextMid(r)] = Put(NextMid(r), <<r, n>>)]
        /\ req'[r].pc = "store" => \E j \in q.todo \ {n} : q.batch[j] = NextMid(r)
    BY <1>6, <2>1, <2>2 DEF Stores
  <2>4. /\ Leads(q, n) /\ q.batch \in Seq(Names) /\ q.todo \subseteq DOMAIN q.batch
        /\ NextMid(r) \in Mids /\ <<r, n>> \in Points /\ NextMid(r) = q.batch[n]
    <3>1. q.todo # {} /\ q.batch \in Seq(Names) /\ q.todo \subseteq DOMAIN q.batch
      BY <2>2, <2>3 DEF Typed, Fits, Request
    <3> QED BY <2>1, <2>2, <2>3, <3>1, NextIs, NextTyping DEF Leads, NextMid
  <2>5. \A k \in DOMAIN q.batch : q.batch[k] = q.batch[n] => <<r, k>> \in feed
    BY <2>2, <2>3, <2>4 DEF FeedInv
  <2>6. <<r, n>> \in feed
    BY <2>4, <2>5 DEF Leads
  <2>7. ASSUME NEW p, p = req'[r], p.pc = "store", NEW i, Leads(p, i), NEW k \in DOMAIN p.batch, p.batch[k] = p.batch[i]
        PROVE  <<r, k>> \in feed'
    <3>1. PICK j \in q.todo \ {n} : q.batch[j] = q.batch[n]
      BY <2>3, <2>4, <2>7
    <3>2. i \in q.todo \ {n} /\ (i = j \/ Sooner(q.batch, i, j))
      BY <2>3, <2>7 DEF Leads
    <3>3. Sooner(q.batch, n, i) /\ n \in DOMAIN q.batch /\ i \in DOMAIN q.batch /\ j \in DOMAIN q.batch
      BY <2>4, <3>2 DEF Leads
    <3>4. q.batch[i] = q.batch[n]
      BY <2>4, <3>1, <3>2, <3>3, GroupGoesOn
    <3> QED BY <2>3, <2>5, <2>7, <3>4
  <2>8. \A m \in Mids : \A p \in DOMAIN points'[m] : points'[m][p] \in stored'
    <3> SUFFICES ASSUME NEW m \in Mids, NEW p \in DOMAIN points'[m] PROVE points'[m][p] \in stored'
      OBVIOUS
    <3>1. CASE m # NextMid(r)
      <4>1. points'[m] = points[m]
        BY <2>3, <2>4, <3>1 DEF Typed
      <4> QED BY <2>3, <4>1 DEF FeedInv
    <3>2. CASE m = NextMid(r)
      <4>1. points'[m] = Put(m, <<r, n>>)
        BY <2>3, <2>4, <3>2 DEF Typed
      <4>0. PICK point \in Points : point = <<r, n>>
        BY <2>4
      <4>a. PICK d \in {0, 1} :
              /\ d <= Len(points[m]) /\ Len(Put(m, point)) = Len(points[m]) + 1 - d
              /\ \A x \in DOMAIN Put(m, point) :
                   Put(m, point)[x] = IF x = Len(Put(m, point)) THEN point ELSE points[m][x + d]
        BY PutIs
      <4>2. /\ d <= Len(points[m]) /\ Len(points'[m]) = Len(points[m]) + 1 - d
            /\ points'[m][p] = IF p = Len(points'[m]) THEN <<r, n>> ELSE points[m][p + d]
        BY <4>0, <4>1, <4>a
      <4>3. points'[m] \in Seq(Points) /\ points[m] \in Seq(Points)
        BY <2>4, <4>1, PutIs DEF Typed
      <4>4. p \in 1..Len(points'[m]) /\ DOMAIN points[m] = 1..Len(points[m]) /\ Len(points[m]) \in Nat
        BY <4>3, LenProperties
      <4>5. p # Len(points'[m]) => p + d \in DOMAIN points[m]
        BY <4>2, <4>4
      <4> QED BY <2>3, <4>2, <4>5 DEF FeedInv
    <3> QED BY <3>1, <3>2
  <2>9. stored' \subseteq feed' /\ shown' \subseteq feed' /\ feed \subseteq feed'
    BY <2>3, <2>6 DEF FeedInv
  <2> QED BY <1>1, <2>3, <2>7, <2>8, <2>9
<1>7. CASE UNCHANGED vars
  BY <1>7 DEF vars, FeedInv
<1> QED BY <1>2, <1>3, <1>4, <1>5, <1>6, <1>7, NextIsOne

\* What the database has taken, or a GET returned, was published before.
THEOREM AnnouncedFirst == Spec => []StoredWasAnnounced
<1>1. Init => FeedInv
  BY DEF Init, FeedInv, NewRequest
<1>2. FeedInv => StoredWasAnnounced
  BY DEF FeedInv, StoredWasAnnounced
<1> QED BY <1>1, <1>2, SpecTyped, NextFeed, PTL DEF Spec

-----------------------------------------------------------------------------
(* The order of the points in a collection                                 *)

\* The points of one request stand in the collection in their order.
Ordered(s) == \A p, q \in DOMAIN s : \A r \in Reqs : \A i, j \in Nat :
  p < q /\ s[p] = <<r, i>> /\ s[q] = <<r, j>> => i < j

\* A point in the collection is one that its request has stored there, and the later ones that it has
\* stored there are still in it.
OrderInv == \A m \in Mids :
  /\ \A s : s = points[m] => Ordered(s)
  /\ \A p \in DOMAIN points[m] : \A r \in Reqs : \A i \in Nat :
       points[m][p] = <<r, i>> => <<r, i>> \in stored /\ req[r].batch[i] = m
  /\ \A r \in Reqs : \A i, j \in Nat :
       /\ i < j /\ req[r].batch[j] = m /\ <<r, j>> \in stored
       /\ \E p \in DOMAIN points[m] : points[m][p] = <<r, i>>
       => \E p \in DOMAIN points[m] : points[m][p] = <<r, j>>

\* What Put does to the places of the points.
LEMMA PutMoves ==
  ASSUME Typed, NEW m \in Mids, NEW point \in Points, NEW s, s = points[m], NEW t, t = Put(m, point)
  PROVE  /\ DOMAIN s \subseteq Nat /\ DOMAIN t \subseteq Nat
         /\ \E d \in {0, 1}, last \in DOMAIN t :
              /\ t[last] = point
              /\ \A p \in DOMAIN t : p <= last
              /\ \A p \in DOMAIN t \ {last} : p + d \in DOMAIN s /\ t[p] = s[p + d]
              /\ \A p \in DOMAIN s : p > d => p - d \in DOMAIN t \ {last} /\ t[p - d] = s[p]
<1>1. t \in Seq(Points) /\ s \in Seq(Points)
  BY PutIs DEF Typed
<1>0. PICK d \in {0, 1} :
              /\ d <= Len(points[m]) /\ Len(Put(m, point)) = Len(points[m]) + 1 - d
              /\ \A p \in DOMAIN Put(m, point) :
                   Put(m, point)[p] = IF p = Len(Put(m, point)) THEN point ELSE points[m][p + d]
  BY PutIs
<1>2. /\ d <= Len(s) /\ Len(t) = Len(s) + 1 - d
      /\ \A p \in DOMAIN t : t[p] = IF p = Len(t) THEN point ELSE s[p + d]
  BY <1>0
<1>3. Len(s) \in Nat /\ DOMAIN s = 1..Len(s) /\ Len(t) \in Nat /\ DOMAIN t = 1..Len(t)
  BY <1>1, LenProperties
<1>4. Len(t) \in DOMAIN t /\ t[Len(t)] = point
  BY <1>2, <1>3
<1>5. \A p \in DOMAIN t \ {Len(t)} : p + d \in DOMAIN s /\ t[p] = s[p + d]
  BY <1>2, <1>3
<1>6. \A p \in DOMAIN s : p > d => p - d \in DOMAIN t \ {Len(t)} /\ t[p - d] = s[p]
  BY <1>2, <1>3
<1>7. PICK last \in DOMAIN t : last = Len(t)
  BY <1>4
<1>8. \A p \in DOMAIN t : p <= last
  BY <1>3, <1>7
<1>9. /\ t[last] = point
      /\ \A p \in DOMAIN t \ {last} : p + d \in DOMAIN s /\ t[p] = s[p + d]
      /\ \A p \in DOMAIN s : p > d => p - d \in DOMAIN t \ {last} /\ t[p - d] = s[p]
  BY <1>4, <1>5, <1>6, <1>7
<1>10. DOMAIN s \subseteq Nat /\ DOMAIN t \subseteq Nat
  BY <1>3
<1> QED BY <1>8, <1>9, <1>10

LEMMA StoreKeepsOrder ==
  ASSUME Typed, StoredInv, OrderInv, NEW r \in Reqs, Stores(r)
  PROVE  OrderInv'
<1>1. PICK n \in Nat : n = NextPoint(r) /\ <<r, n>> \in Points
  BY NextTyping DEF Stores, Points
<1>2. PICK at \in Mids : at = NextMid(r)
  BY NextTyping DEF Stores
<1>3. PICK batch \in Seq(Names) : batch = req[r].batch
  BY DEF Typed, Request
<1>4. /\ OnlyOf(r) /\ req'[r].batch = batch /\ stored' = stored \cup {<<r, n>>}
      /\ points' = [points EXCEPT ![at] = Put(at, <<r, n>>)] /\ req[r].op = "DATA"
  BY <1>1, <1>2, <1>3 DEF Stores, Typed, Fits
<1>5. /\ n \in req[r].todo /\ n \in DOMAIN batch /\ at = batch[n] /\ req[r].todo \subseteq DOMAIN batch
      /\ DOMAIN batch \subseteq Nat
  BY <1>1, <1>2, <1>3, NextTyping, LenProperties DEF Stores, NextMid, Typed, Fits
<1>6. \A x \in Reqs : req'[x].batch = req[x].batch
  BY <1>3, <1>4 DEF OnlyOf
\* Of the group, what has been stored comes before.
<1>7. ASSUME NEW i \in Nat, <<r, i>> \in stored, batch[i] = at PROVE i < n
  <2>1. i \in DOMAIN batch \ req[r].todo
    BY <1>3, <1>7 DEF StoredInv
  <2>2. \A q : q = req[r] => Closed(q)
    BY DEF StoredInv
  <2>3. \A k \in req[r].todo : \A j \in DOMAIN batch : Sooner(batch, k, j) => j \in req[r].todo
    BY <1>3, <1>4, <2>2 DEF Closed
  <2>4. ~Sooner(batch, n, i)
    BY <1>5, <2>1, <2>3
  <2>5. ~(n < i)
    BY <1>5, <1>7, <2>1, <2>4, SoonerOrders
  <2> QED BY <1>1, <1>5, <2>1, <2>5
<1>8. ASSUME NEW m \in Mids, m # at
      PROVE  /\ \A s : s = points'[m] => Ordered(s)
             /\ \A p \in DOMAIN points'[m] : \A x \in Reqs : \A i \in Nat :
                  points'[m][p] = <<x, i>> => <<x, i>> \in stored' /\ req'[x].batch[i] = m
             /\ \A x \in Reqs : \A i, j \in Nat :
                  /\ i < j /\ req'[x].batch[j] = m /\ <<x, j>> \in stored'
                  /\ \E p \in DOMAIN points'[m] : points'[m][p] = <<x, i>>
                  => \E p \in DOMAIN points'[m] : points'[m][p] = <<x, j>>
  <2>1. points'[m] = points[m]
    BY <1>4, <1>8 DEF Typed
  <2>2. \A x \in Reqs : \A j \in Nat : req[x].batch[j] = m /\ <<x, j>> \in stored' => <<x, j>> \in stored
    BY <1>3, <1>4, <1>5, <1>8
  <2>3. \A x \in Reqs : \A i, j \in Nat :
          /\ i < j /\ req'[x].batch[j] = m /\ <<x, j>> \in stored'
          /\ \E p \in DOMAIN points'[m] : points'[m][p] = <<x, i>>
          => \E p \in DOMAIN points'[m] : points'[m][p] = <<x, j>>
    <3>1. \A x \in Reqs : \A i, j \in Nat :
            /\ i < j /\ req[x].batch[j] = m /\ <<x, j>> \in stored
            /\ \E p \in DOMAIN points[m] : points[m][p] = <<x, i>>
            => \E p \in DOMAIN points[m] : points[m][p] = <<x, j>>
      BY DEF OrderInv
    <3> SUFFICES ASSUME NEW x \in Reqs, NEW i \in Nat, NEW j \in Nat, i < j, req'[x].batch[j] = m, <<x, j>> \in stored',
                        \E p \in DOMAIN points'[m] : points'[m][p] = <<x, i>>
                 PROVE  \E p \in DOMAIN points'[m] : points'[m][p] = <<x, j>>
      OBVIOUS
    <3>2. req[x].batch[j] = m
      BY <1>6
    <3>3. <<x, j>> \in stored
      BY <2>2, <3>2
    <3>4. \E p \in DOMAIN points[m] : points[m][p] = <<x, i>>
      BY <2>1
    <3>5. \E p \in DOMAIN points[m] : points[m][p] = <<x, j>>
      BY <3>1, <3>2, <3>3, <3>4
    <3> QED BY <2>1, <3>5
  <2>4. \A s : s = points'[m] => Ordered(s)
    BY <2>1 DEF OrderInv
  <2>5. \A p \in DOMAIN points'[m] : \A x \in Reqs : \A i \in Nat :
          points'[m][p] = <<x, i>> => <<x, i>> \in stored' /\ req'[x].batch[i] = m
    <3>1. \A p \in DOMAIN points[m] : \A x \in Reqs : \A i \in Nat :
            points[m][p] = <<x, i>> => <<x, i>> \in stored /\ req[x].batch[i] = m
      BY DEF OrderInv
    <3> SUFFICES ASSUME NEW p \in DOMAIN points[m], NEW x \in Reqs, NEW i \in Nat, points[m][p] = <<x, i>>
                 PROVE  <<x, i>> \in stored' /\ req'[x].batch[i] = m
      BY <2>1
    <3>2. <<x, i>> \in stored /\ req[x].batch[i] = m
      BY <3>1
    <3> QED BY <1>4, <1>6, <3>2
  <2> QED BY <2>3, <2>4, <2>5
<1>9. PICK s : s = points[at]
  OBVIOUS
<1>10. PICK t : t = Put(at, <<r, n>>)
  OBVIOUS
<1>a. PICK point \in Points : point = <<r, n>>
  BY <1>1
<1>b. t = Put(at, point)
  BY <1>10, <1>a
<1>c. /\ DOMAIN s \subseteq Nat /\ DOMAIN t \subseteq Nat
      /\ \E d \in {0, 1}, last \in DOMAIN t :
              /\ t[last] = point
              /\ \A p \in DOMAIN t : p <= last
              /\ \A p \in DOMAIN t \ {last} : p + d \in DOMAIN s /\ t[p] = s[p + d]
              /\ \A p \in DOMAIN s : p > d => p - d \in DOMAIN t \ {last} /\ t[p - d] = s[p]
  BY <1>9, <1>b, PutMoves
<1>11. PICK d \in {0, 1}, last \in DOMAIN t :
              /\ t[last] = <<r, n>>
              /\ \A p \in DOMAIN t : p <= last
              /\ \A p \in DOMAIN t \ {last} : p + d \in DOMAIN s /\ t[p] = s[p + d]
              /\ \A p \in DOMAIN s : p > d => p - d \in DOMAIN t \ {last} /\ t[p - d] = s[p]
  BY <1>a, <1>c
<1>12. DOMAIN s \subseteq Nat /\ DOMAIN t \subseteq Nat /\ points'[at] = t
  BY <1>4, <1>10, <1>c DEF Typed
<1>13. Ordered(s)
  BY <1>9 DEF OrderInv
<1>14. \A p \in DOMAIN s : \A x \in Reqs : \A i \in Nat : s[p] = <<x, i>> => <<x, i>> \in stored /\ req[x].batch[i] = at
  BY <1>9 DEF OrderInv
<1>15. Ordered(t)
  <2> SUFFICES ASSUME NEW p \in DOMAIN t, NEW q \in DOMAIN t, NEW x \in Reqs, NEW i \in Nat, NEW j \in Nat,
                      p < q, t[p] = <<x, i>>, t[q] = <<x, j>>
               PROVE  i < j
    BY DEF Ordered
  <2>1. p # last /\ p + d \in DOMAIN s /\ s[p + d] = <<x, i>>
    BY <1>11, <1>12
  <2>2. CASE q # last
    <3>1. q + d \in DOMAIN s /\ s[q + d] = <<x, j>> /\ p + d < q + d
      BY <1>11, <1>12, <2>2
    <3> QED BY <1>13, <2>1, <3>1 DEF Ordered
  <2>3. CASE q = last
    <3>1. x = r /\ j = n
      BY <1>11, <2>3
    <3>2. <<r, i>> \in stored /\ batch[i] = at
      BY <1>3, <1>14, <2>1, <3>1
    <3> QED BY <1>7, <3>1, <3>2
  <2> QED BY <2>2, <2>3
<1>16. ASSUME NEW p \in DOMAIN t, NEW x \in Reqs, NEW i \in Nat, t[p] = <<x, i>>
       PROVE  <<x, i>> \in stored' /\ req'[x].batch[i] = at
  <2>1. CASE p = last
    <3>1. x = r /\ i = n
      BY <1>11, <1>16, <2>1
    <3> QED BY <1>4, <1>5, <3>1
  <2>2. CASE p # last
    <3>1. p + d \in DOMAIN s /\ s[p + d] = <<x, i>>
      BY <1>11, <1>16, <2>2
    <3> QED BY <1>4, <1>6, <1>14, <3>1
  <2> QED BY <2>1, <2>2
<1>17. ASSUME NEW x \in Reqs, NEW i \in Nat, NEW j \in Nat, i < j, req'[x].batch[j] = at, <<x, j>> \in stored',
              NEW p \in DOMAIN t, t[p] = <<x, i>>
       PROVE  \E q \in DOMAIN t : t[q] = <<x, j>>
  <2>1. CASE x = r /\ j = n
    BY <1>11, <2>1
  <2>2. CASE ~(x = r /\ j = n)
    <3>1. <<x, j>> \in stored /\ req[x].batch[j] = at
      BY <1>4, <1>6, <1>17, <2>2
    <3>2. p # last
      <4> SUFFICES ASSUME p = last PROVE FALSE
        OBVIOUS
      <4>1. x = r /\ i = n
        BY <1>11, <1>17
      <4>2. j < n
        BY <1>3, <1>7, <3>1, <4>1
      <4> QED BY <1>17, <4>1, <4>2
    <3>3. p + d \in DOMAIN s /\ s[p + d] = <<x, i>>
      BY <1>11, <1>17, <3>2
    <3>4. PICK q \in DOMAIN s : s[q] = <<x, j>>
      <4>1. \E y \in DOMAIN points[at] : points[at][y] = <<x, i>>
        BY <1>9, <3>3
      <4>2. \E y \in DOMAIN points[at] : points[at][y] = <<x, j>>
        <5>1. \A y \in Reqs : \A k, l \in Nat :
                /\ k < l /\ req[y].batch[l] = at /\ <<y, l>> \in stored
                /\ \E z \in DOMAIN points[at] : points[at][z] = <<y, k>>
                => \E z \in DOMAIN points[at] : points[at][z] = <<y, l>>
          BY DEF OrderInv
        <5> QED BY <1>17, <3>1, <4>1, <5>1
      <4> QED BY <1>9, <4>2
    <3>5. q \in Nat /\ p \in Nat /\ p + d \in Nat /\ ~(q < p + d) /\ q # p + d
      <4>1. q \in Nat /\ p \in Nat /\ p + d \in Nat
        BY <1>12, <3>3, <3>4
      <4>2. ~(q < p + d)
        BY <1>13, <1>17, <3>3, <3>4, <4>1 DEF Ordered
      <4>3. q # p + d
        BY <1>17, <3>3, <3>4
      <4> QED BY <4>1, <4>2, <4>3
    <3>6. q > d
      BY <3>5
    <3>7. q - d \in DOMAIN t /\ t[q - d] = <<x, j>>
      BY <1>11, <3>4, <3>6
    <3> QED BY <3>7
  <2> QED BY <2>1, <2>2
<1>18. ASSUME NEW m \in Mids
       PROVE  /\ \A u : u = points'[m] => Ordered(u)
              /\ \A p \in DOMAIN points'[m] : \A x \in Reqs : \A i \in Nat :
                   points'[m][p] = <<x, i>> => <<x, i>> \in stored' /\ req'[x].batch[i] = m
              /\ \A x \in Reqs : \A i, j \in Nat :
                   /\ i < j /\ req'[x].batch[j] = m /\ <<x, j>> \in stored'
                   /\ \E p \in DOMAIN points'[m] : points'[m][p] = <<x, i>>
                   => \E p \in DOMAIN points'[m] : points'[m][p] = <<x, j>>
  <2>1. CASE m # at
    BY <1>8, <2>1
  <2>2. CASE m = at
    <3>1. \A u : u = points'[m] => Ordered(u)
      BY <1>12, <1>15, <2>2
    <3>2. points'[m] = t
      BY <1>12, <2>2
    <3> QED BY <1>16, <1>17, <2>2, <3>1, <3>2
  <2> QED BY <2>1, <2>2
<1> QED BY <1>18 DEF OrderInv

LEMMA NextOrder ==
  ASSUME Typed, StoredInv, OrderInv, [Next]_vars
  PROVE  OrderInv'
<1>1. ASSUME NEW r \in Reqs, OnlyOf(r), UNCHANGED <<points, stored>>,
             req'[r].batch = req[r].batch \/ \A i \in Nat : <<r, i>> \notin stored
      PROVE  OrderInv'
  <2>1. \A x \in Reqs : \A i \in Nat : <<x, i>> \in stored => req'[x].batch = req[x].batch
    BY <1>1 DEF OnlyOf
  <2> QED BY <1>1, <2>1 DEF OrderInv
<1>2. ASSUME NEW r \in Reqs, Came(r) PROVE OrderInv'
  <2>1. req[r].op # "DATA"
    BY <1>2 DEF Came, Typed, Fits
  <2>2. \A i \in Nat : <<r, i>> \notin stored
    BY <2>1 DEF StoredInv
  <2>3. OnlyOf(r) /\ UNCHANGED <<points, stored>>
    BY <1>2 DEF Came
  <2> QED BY <1>1, <2>2, <2>3
<1>3. ASSUME NEW r \in Reqs, Works(r) PROVE OrderInv'
  <2>1. OnlyOf(r) /\ UNCHANGED <<points, stored>> /\ req'[r].batch = req[r].batch
    BY <1>3 DEF Works
  <2> QED BY <1>1, <2>1
<1>4. ASSUME NEW r \in Reqs, Stores(r) PROVE OrderInv'
  BY <1>4, StoreKeepsOrder, Zenon
<1>5. CASE UNCHANGED vars
  BY <1>5 DEF vars, OrderInv
<1> QED BY <1>2, <1>3, <1>4, <1>5, NextIsOne

\* Whatever other requests add, the points of one POST keep their order and lose the oldest first.
THEOREM NewestKept == Spec => []NewestAreKept
<1>1. Init => OrderInv
  <2>1. DOMAIN <<>> = {}
    BY EmptySeq
  <2> QED BY <2>1 DEF Init, OrderInv, Ordered
<1>2. ASSUME Typed, OrderInv PROVE NewestAreKept
  <2> SUFFICES ASSUME NEW m \in Mids, NEW r \in Reqs, NEW i \in DOMAIN req[r].batch, NEW j \in DOMAIN req[r].batch
               PROVE  i < j /\ req[r].batch[i] = m /\ req[r].batch[j] = m
                      /\ (\E p \in DOMAIN points[m] : points[m][p] = <<r, i>>) /\ <<r, j>> \in stored
                      => /\ \E p \in DOMAIN points[m] : points[m][p] = <<r, j>>
                         /\ (CHOOSE p \in DOMAIN points[m] : points[m][p] = <<r, i>>)
                            < (CHOOSE p \in DOMAIN points[m] : points[m][p] = <<r, j>>)
    BY Zenon DEF NewestAreKept
  <2> SUFFICES ASSUME i < j, req[r].batch[i] = m, req[r].batch[j] = m,
                      \E p \in DOMAIN points[m] : points[m][p] = <<r, i>>, <<r, j>> \in stored
               PROVE  /\ \E p \in DOMAIN points[m] : points[m][p] = <<r, j>>
                      /\ (CHOOSE p \in DOMAIN points[m] : points[m][p] = <<r, i>>)
                         < (CHOOSE p \in DOMAIN points[m] : points[m][p] = <<r, j>>)
    OBVIOUS
  <2>1. i \in Nat /\ j \in Nat /\ DOMAIN points[m] \subseteq Nat
    <3>1. req[r].batch \in Seq(Names) /\ points[m] \in Seq(Points)
      BY <1>2 DEF Typed, Request
    <3> QED BY <3>1, LenProperties
  <2>2. \E p \in DOMAIN points[m] : points[m][p] = <<r, j>>
    <3>1. \A x \in Reqs : \A k, l \in Nat :
            /\ k < l /\ req[x].batch[l] = m /\ <<x, l>> \in stored
            /\ \E p \in DOMAIN points[m] : points[m][p] = <<x, k>>
            => \E p \in DOMAIN points[m] : points[m][p] = <<x, l>>
      BY <1>2 DEF OrderInv
    <3> QED BY <2>1, <3>1
  <2>3. PICK p : p = CHOOSE k \in DOMAIN points[m] : points[m][k] = <<r, i>>
    OBVIOUS
  <2>4. PICK q : q = CHOOSE k \in DOMAIN points[m] : points[m][k] = <<r, j>>
    OBVIOUS
  <2>5. p \in DOMAIN points[m] /\ points[m][p] = <<r, i>>
    BY <2>3
  <2>6. q \in DOMAIN points[m] /\ points[m][q] = <<r, j>>
    BY <2>2, <2>4
  <2>7. p < q
    <3>1. PICK s : s = points[m]
      OBVIOUS
    <3>2. Ordered(s)
      BY <1>2, <3>1 DEF OrderInv
    <3>3. ~(q < p)
      BY <2>1, <2>5, <2>6, <3>1, <3>2 DEF Ordered
    <3>4. p # q
      BY <2>1, <2>5, <2>6
    <3> QED BY <2>1, <2>5, <2>6, <3>3, <3>4
  <2> QED BY <2>2, <2>3, <2>4, <2>7
<1> QED BY <1>1, <1>2, SpecTyped, SpecStored, NextOrder, PTL DEF Spec
=============================================================================
