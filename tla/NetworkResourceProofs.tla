------------------------ MODULE NetworkResourceProofs -----------------------
(***************************************************************************)
(* The safety of the REST handlers, for any number of requests, ids,       *)
(* documents in a POST and crashes, with and without history.              *)
(***************************************************************************)
EXTENDS NetworkResource, FiniteSetTheorems, SequenceTheorems, TLAPS

\* What the position of a request says about the database: how far its writes have come, what
\* is summarized and what is announced.
Progress(r) ==
  /\ req[r].op = "PUT" => Len(req[r].docs) = 1
  /\ req[r].pc = "idle" <=> req[r].op = "none"
  /\ req[r].pc \in {"idle", "shards", "scan", "count", "find"} => \A i \in Nat : <<r, i>> \notin written
  /\ req[r].pc = "shards" =>
       /\ req[r].op \in {"POST", "PUT"}
       /\ req[r].op = "POST" => req[r].at = 1 /\ Len(req[r].docs) >= 1
  /\ req[r].pc = "scan" => req[r].op = "DELETE"
  /\ req[r].pc \in {"count", "find"} => req[r].op \in {"GET", "LIST"}
  /\ req[r].pc \in {"insert", "upsert"} =>
       /\ req[r].op = "POST"
       /\ req[r].at \in 1..Len(req[r].docs)
       /\ \A i \in DOMAIN req[r].docs : <<r, i>> \in shards /\ (i < req[r].at => <<r, i>> \in written)
  /\ req[r].pc = "update" =>
       /\ req[r].op \in {"PUT", "DELETE"}
       /\ req[r].op = "PUT" => <<r, 1>> \in shards
  /\ req[r].pc = "publish" =>
       /\ req[r].op \in {"POST", "PUT", "DELETE"}
       /\ req[r].op # "DELETE" => \A i \in DOMAIN req[r].docs : <<r, i>> \in written \cap shards
  /\ req[r].pc = "readback" =>
       /\ req[r].op = "POST"
       /\ \A i \in DOMAIN req[r].docs : /\ <<r, i>> \in written \cap shards
                                        /\ [action |-> "POST", by |-> <<r, i>>] \in feed
  /\ req[r].status # 0 => req[r].pc = "done"
  /\ req[r].status = 201 => req[r].op = "POST"

Bounded == IsFiniteSet(store) /\ \A r \in Reqs : Len(req[r].docs) <= MaxBatch

Complete(r) == req[r].status \in {201, 204} =>
  \A i \in DOMAIN req[r].docs :
      /\ [action |-> req[r].op, by |-> <<r, i>>] \in feed
      /\ req[r].op # "DELETE" => <<r, i>> \in written \cap shards

\* The first half of FeedIsTrue: POSTs and PUTs that are announced are applied.
WritesTold == \A e \in feed : e.action \in {"POST", "PUT"} => e.by \in written

\* The inductive invariant behind the first theorems.
WriteInv == /\ TypeOK
            /\ Bounded
            /\ \A r \in Reqs : Progress(r)
            /\ ShardBeforeRecord
            /\ WritesTold
            /\ SuccessIsComplete
            /\ PostLeavesPrefix

-----------------------------------------------------------------------------
(* Lemmas about the operators the actions are built from                   *)

\* The first step of every handler.
LEMMA ArriveIsBegin ==
  ASSUME TypeOK, NEW r \in Reqs, Arrive(r)
  PROVE  \E op \in Operations, pc \in {"shards", "scan", "count"}, docs \in Seq(Doc) :
           /\ Begin(r, op, pc, docs)
           /\ Len(docs) <= MaxBatch
           /\ \/ op = "POST" /\ pc = "shards" /\ Len(docs) >= 1
              \/ op = "PUT" /\ pc = "shards" /\ Len(docs) = 1
              \/ op = "DELETE" /\ pc = "scan" /\ Len(docs) = 1
              \/ op = "GET" /\ pc = "count" /\ Len(docs) = 1
              \/ op = "LIST" /\ pc = "count"
<1>1. MaxBatch \in Nat \ {0}
  BY ConstantsAssumption
<1>2. Stamps \subseteq Nat
  BY DEF Stamps, TypeOK
<1>3. CASE Post(r)
  <2>0. PICK n \in 1..MaxBatch : \E docs \in [1..n -> Ids \X Stamps \X (Marks \ {"live"})] :
          Begin(r, "POST", "shards",
                [i \in 1..n |-> [id |-> docs[i][1], ts |-> docs[i][2], mark |-> docs[i][3]]])
    BY <1>3 DEF Post
  <2>1. PICK docs \in [1..n -> Ids \X Stamps \X (Marks \ {"live"})] :
          Begin(r, "POST", "shards",
                [i \in 1..n |-> [id |-> docs[i][1], ts |-> docs[i][2], mark |-> docs[i][3]]])
    BY <2>0
  <2> DEFINE new == [i \in 1..n |-> [id |-> docs[i][1], ts |-> docs[i][2], mark |-> docs[i][3]]]
  <2>2. n \in Nat /\ n >= 1 /\ n <= MaxBatch
    BY <1>1
  <2>3. new \in [1..n -> Doc]
    <3>1. \A i \in 1..n : docs[i][1] \in Ids /\ docs[i][2] \in Nat /\ docs[i][3] \in Marks
      BY <1>2
    <3> QED BY <3>1 DEF Doc
  <2>4. new \in Seq(Doc)
    BY <2>2, <2>3, SeqDef
  <2>5. Len(new) = n
    BY <2>2, <2>3, <2>4, LenProperties
  <2>6. "POST" \in Operations
    BY <2>1 DEF Begin
  <2> HIDE DEF new
  <2>7. Begin(r, "POST", "shards", new)
    BY <2>1 DEF new
  <2>8. Len(new) <= MaxBatch /\ Len(new) >= 1 /\ "shards" \in {"shards", "scan", "count"}
    BY <2>2, <2>5
  <2> QED BY <2>4, <2>6, <2>7, <2>8, Zenon
<1>4. ASSUME NEW id \in Ids, NEW ts \in Nat, NEW mark \in Marks
      PROVE  /\ <<[id |-> id, ts |-> ts, mark |-> mark]>> \in Seq(Doc)
             /\ Len(<<[id |-> id, ts |-> ts, mark |-> mark]>>) = 1
  BY DEF Doc
<1>5. CASE Put(r)
  <2>1. PICK id \in Ids, ts \in Stamps, mark \in Marks :
          Begin(r, "PUT", "shards", <<[id |-> id, ts |-> ts, mark |-> mark]>>)
    BY <1>5 DEF Put
  <2>2. "PUT" \in Operations
    BY <2>1 DEF Begin
  <2>3. PICK docs : docs = <<[id |-> id, ts |-> ts, mark |-> mark]>>
    OBVIOUS
  <2>4. docs \in Seq(Doc) /\ Len(docs) = 1 /\ Len(docs) <= MaxBatch
    BY <1>1, <1>2, <1>4, <2>3
  <2> QED BY <2>1, <2>2, <2>3, <2>4, Zenon
<1>6. CASE Delete(r)
  <2>1. PICK id \in Ids : Begin(r, "DELETE", "scan", <<[id |-> id, ts |-> 0, mark |-> "none"]>>)
    BY <1>6 DEF Delete
  <2>2. "DELETE" \in Operations
    BY <2>1 DEF Begin
  <2>3. PICK docs : docs = <<[id |-> id, ts |-> 0, mark |-> "none"]>>
    OBVIOUS
  <2>4. docs \in Seq(Doc) /\ Len(docs) = 1 /\ Len(docs) <= MaxBatch
    BY <1>1, <1>4, <2>3, ConstantsAssumption
  <2> QED BY <2>1, <2>2, <2>3, <2>4, Zenon
<1>7. CASE Get(r)
  <2>1. PICK id \in Ids : Begin(r, "GET", "count", <<[id |-> id, ts |-> 0, mark |-> "none"]>>)
    BY <1>7 DEF Get
  <2>2. "GET" \in Operations
    BY <2>1 DEF Begin
  <2>3. PICK docs : docs = <<[id |-> id, ts |-> 0, mark |-> "none"]>>
    OBVIOUS
  <2>4. docs \in Seq(Doc) /\ Len(docs) = 1 /\ Len(docs) <= MaxBatch
    BY <1>1, <1>4, <2>3, ConstantsAssumption
  <2> QED BY <2>1, <2>2, <2>3, <2>4, Zenon
<1>8. CASE List(r)
  <2>1. Begin(r, "LIST", "count", <<>>) /\ "LIST" \in Operations
    BY <1>8 DEF List, Begin
  <2>2. <<>> \in Seq(Doc) /\ Len(<<>>) = 0
    BY EmptySeq
  <2>3. Len(<<>>) <= MaxBatch
    BY <1>1, <2>2
  <2> QED BY <2>1, <2>2, <2>3, Zenon
<1> QED BY <1>3, <1>5, <1>6, <1>7, <1>8 DEF Arrive

-----------------------------------------------------------------------------
(* Types                                                                   *)

\* The status of documents, stamps and requests after the head of a handler.
LEMMA BeginRequest ==
  ASSUME TypeOK, NEW r \in Reqs, NEW op \in Operations, NEW pc \in {"shards", "scan", "count"},
         NEW docs \in Seq(Doc), Begin(r, op, pc, docs)
  PROVE  /\ req' \in [Reqs -> Request]
         /\ \A p \in Reqs \ {r} : req'[p] = req[p]
         /\ req[r].pc = "idle"
         /\ req'[r] = NewRequest(op, pc, docs, AckedIds, GoneKeys)
         /\ UNCHANGED <<store, shards, clock, crashes, written, feed>>
<1>1. /\ req[r].pc = "idle"
      /\ req' = [req EXCEPT ![r] = NewRequest(op, pc, docs, AckedIds, GoneKeys)]
      /\ UNCHANGED <<store, shards, clock, crashes, written, feed>>
  BY DEF Begin
<1>2. req \in [Reqs -> Request]
  BY DEF TypeOK
<1>3. AckedIds \in SUBSET Ids
  <2>1. ASSUME NEW p \in Reqs, NEW i \in DOMAIN req[p].docs PROVE req[p].docs[i].id \in Ids
    <3>1. req[p].docs \in Seq(Doc)
      BY <1>2 DEF Request
    <3>2. req[p].docs[i] \in Doc
      BY <3>1
    <3> QED BY <3>2 DEF Doc
  <2> QED BY <2>1 DEF AckedIds
<1>4. GoneKeys \in SUBSET Keys
  <2>1. ASSUME NEW p \in Reqs PROVE req[p].todo \in SUBSET Keys
    BY <1>2 DEF Request
  <2> QED BY <2>1 DEF GoneKeys
<1>5. NewRequest(op, pc, docs, AckedIds, GoneKeys) \in Request
  <2>1. pc \in Positions /\ 0 \in Statuses
    BY DEF Positions, Statuses
  <2> QED BY <1>3, <1>4, <2>1 DEF Request, NewRequest
<1> QED BY <1>1, <1>2, <1>5

\* The record of a request stays well formed when one field is assigned.
LEMMA SetPc ==
  ASSUME NEW q \in Request, NEW pc \in Positions
  PROVE  [q EXCEPT !.pc = pc] \in Request
BY DEF Request

LEMMA SetStatus ==
  ASSUME NEW q \in Request, NEW status \in Statuses
  PROVE  [q EXCEPT !.status = status] \in Request
BY DEF Request

LEMMA SetAt ==
  ASSUME NEW q \in Request, NEW at \in Nat
  PROVE  [q EXCEPT !.at = at] \in Request
BY DEF Request

LEMMA SetTodo ==
  ASSUME NEW q \in Request, NEW todo \in SUBSET Keys
  PROVE  [q EXCEPT !.todo = todo] \in Request
BY DEF Request

LEMMA SetBody ==
  ASSUME NEW q \in Request, NEW body \in SUBSET Record
  PROVE  [q EXCEPT !.body = body] \in Request
BY DEF Request

LEMMA SetCount ==
  ASSUME NEW q \in Request, NEW count \in Nat
  PROVE  [q EXCEPT !.count = count] \in Request
BY DEF Request

-----------------------------------------------------------------------------
(* What a step leaves alone                                                *)

\* Only the request that moves changes.
OnlyOf(r) == req' \in [Reqs -> Request] /\ \A p \in Reqs \ {r} : req'[p] = req[p]

\* Its question stays what it was.
Frame(r) == /\ OnlyOf(r)
            /\ req'[r].op = req[r].op /\ req'[r].docs = req[r].docs
            /\ req'[r].acked = req[r].acked /\ req'[r].gone = req[r].gone

LEMMA GotoFrame ==
  ASSUME TypeOK, NEW r \in Reqs, NEW pc \in Positions, Goto(r, pc)
  PROVE  /\ Frame(r) /\ req'[r].pc = pc
         /\ req'[r].at = req[r].at /\ req'[r].todo = req[r].todo /\ req'[r].hit = req[r].hit
         /\ req'[r].body = req[r].body /\ req'[r].status = req[r].status
<1>1. [req[r] EXCEPT !.pc = pc] \in Request /\ req[r] \in Request
  BY SetPc DEF TypeOK
<1>2. req' = [req EXCEPT ![r] = [req[r] EXCEPT !.pc = pc]]
  BY DEF Goto
<1>3. req'[r] = [req[r] EXCEPT !.pc = pc] /\ req' \in [Reqs -> Request]
  BY <1>1, <1>2 DEF TypeOK
<1>4. \A p \in Reqs \ {r} : req'[p] = req[p]
  BY <1>2 DEF TypeOK
<1> QED BY <1>1, <1>3, <1>4 DEF Request, Frame, OnlyOf

LEMMA AnswerFrame ==
  ASSUME TypeOK, NEW r \in Reqs, NEW status \in Statuses, Answer(r, status)
  PROVE  /\ Frame(r) /\ req'[r].pc = "done" /\ req'[r].status = status
         /\ req'[r].todo = req[r].todo /\ req'[r].hit = req[r].hit /\ req'[r].body = req[r].body
<1>1. /\ req[r] \in Request /\ "done" \in Positions
      /\ req' = [req EXCEPT ![r] = [req[r] EXCEPT !.pc = "done", !.status = status]]
  BY DEF TypeOK, Positions, Answer
<1>2. [req[r] EXCEPT !.pc = "done", !.status = status] \in Request
  BY <1>1 DEF Request
<1>3. req'[r] = [req[r] EXCEPT !.pc = "done", !.status = status] /\ req' \in [Reqs -> Request]
  BY <1>1, <1>2 DEF TypeOK
<1>4. \A p \in Reqs \ {r} : req'[p] = req[p]
  BY <1>1 DEF TypeOK
<1> QED BY <1>1, <1>3, <1>4 DEF Request, Frame, OnlyOf

LEMMA StoredFrame ==
  ASSUME TypeOK, NEW r \in Reqs, NEW i \in Nat, Stored(r, i)
  PROVE  /\ Frame(r) /\ req'[r].at = i + 1
         /\ req'[r].pc = IF i = Len(req[r].docs) THEN "publish" ELSE "insert"
         /\ req'[r].todo = req[r].todo /\ req'[r].hit = req[r].hit /\ req'[r].body = req[r].body
         /\ req'[r].status = req[r].status
<1> DEFINE pc == IF i = Len(req[r].docs) THEN "publish" ELSE "insert"
<1> PICK next \in Nat : next = i + 1
  OBVIOUS
<1>1. /\ req[r] \in Request /\ pc \in Positions
      /\ req' = [req EXCEPT ![r] = [req[r] EXCEPT !.at = next, !.pc = pc]]
  BY DEF TypeOK, Positions, Stored
<1> HIDE DEF pc
<1>2. [req[r] EXCEPT !.at = next, !.pc = pc] \in Request
  BY <1>1 DEF Request
<1>3. req'[r] = [req[r] EXCEPT !.at = next, !.pc = pc] /\ req' \in [Reqs -> Request]
  BY <1>1, <1>2 DEF TypeOK
<1>4. \A p \in Reqs \ {r} : req'[p] = req[p]
  BY <1>1 DEF TypeOK
<1>5. req'[r].pc = pc
  BY <1>1, <1>3 DEF Request
<1> QED BY <1>1, <1>3, <1>4, <1>5 DEF Request, Frame, OnlyOf, pc

LEMMA ScanFrame ==
  ASSUME TypeOK, NEW r \in Reqs, Scan(r)
  PROVE  /\ Frame(r) /\ req'[r].pc = "update" /\ req'[r].status = req[r].status
         /\ req'[r].body = req[r].body /\ req'[r].hit = req[r].hit
         /\ req'[r].todo = {rec.key : rec \in Of(req[r].docs[1].id)}
<1> DEFINE todo == {rec.key : rec \in Of(req[r].docs[1].id)}
<1>1. /\ req[r] \in Request /\ "update" \in Positions
      /\ req' = [req EXCEPT ![r] = [req[r] EXCEPT !.pc = "update", !.todo = todo]]
  BY DEF TypeOK, Positions, Scan
<1>2. todo \in SUBSET Keys
  BY DEF TypeOK, Of, Record
<1> HIDE DEF todo
<1>3. [req[r] EXCEPT !.pc = "update", !.todo = todo] \in Request
  BY <1>1, <1>2 DEF Request
<1>4. req'[r] = [req[r] EXCEPT !.pc = "update", !.todo = todo] /\ req' \in [Reqs -> Request]
  BY <1>1, <1>3 DEF TypeOK
<1>5. \A p \in Reqs \ {r} : req'[p] = req[p]
  BY <1>1 DEF TypeOK
<1>6. req'[r].todo = todo
  BY <1>1, <1>4 DEF Request
<1> QED BY <1>1, <1>4, <1>5, <1>6 DEF Request, Frame, OnlyOf, todo

LEMMA MarkFrame ==
  ASSUME TypeOK, NEW r \in Reqs, NEW rec \in store, req' = [req EXCEPT ![r].hit = @ \cup {rec.key}]
  PROVE  /\ Frame(r) /\ req'[r].hit = req[r].hit \cup {rec.key}
         /\ req'[r].pc = req[r].pc /\ req'[r].at = req[r].at /\ req'[r].todo = req[r].todo
         /\ req'[r].body = req[r].body /\ req'[r].status = req[r].status
<1> PICK hit : hit = req[r].hit \cup {rec.key}
  OBVIOUS
<1>1. req[r] \in Request /\ hit \in SUBSET Keys
  BY DEF TypeOK, Record, Request
<1>2. req' = [req EXCEPT ![r] = [req[r] EXCEPT !.hit = hit]]
  BY DEF TypeOK
<1> DEFINE new == [req[r] EXCEPT !.hit = hit]
<1>3. new \in Request
  BY <1>1 DEF Request
<1>4. /\ new.op = req[r].op /\ new.docs = req[r].docs /\ new.acked = req[r].acked /\ new.gone = req[r].gone
      /\ new.pc = req[r].pc /\ new.at = req[r].at /\ new.todo = req[r].todo /\ new.body = req[r].body
      /\ new.status = req[r].status /\ new.hit = hit
  BY <1>1 DEF Request
<1> HIDE DEF new
<1>5. req'[r] = new /\ req' \in [Reqs -> Request] /\ \A p \in Reqs \ {r} : req'[p] = req[p]
  BY <1>2, <1>3 DEF TypeOK, new
<1> QED BY <1>4, <1>5 DEF Frame, OnlyOf

LEMMA ReadBackFrame ==
  ASSUME TypeOK, Bounded, NEW r \in Reqs, ReadBack(r)
  PROVE  /\ Frame(r) /\ req'[r].pc = "done" /\ req'[r].status = 201
         /\ req'[r].todo = req[r].todo /\ req'[r].hit = req[r].hit
<1> DEFINE found == {rec \in store : \E i \in DOMAIN req[r].docs :
                        rec.id = req[r].docs[i].id /\ rec.ts = req[r].docs[i].ts}
<1>0. req' = [req EXCEPT ![r].pc = "done", ![r].status = 201, ![r].body = found]
  BY Zenon DEF ReadBack
<1>2. req[r] \in Request /\ "done" \in Positions /\ 201 \in Statuses /\ found \in SUBSET Record
  BY DEF TypeOK, Positions, Statuses
<1> HIDE DEF found
<1>1. req' = [req EXCEPT ![r] = [req[r] EXCEPT !.pc = "done", !.status = 201, !.body = found]]
  <2>1. req \in [Reqs -> Request]
    BY DEF TypeOK
  <2> QED BY <1>0, <2>1
<1> DEFINE new == [req[r] EXCEPT !.pc = "done", !.status = 201, !.body = found]
<1>4. new \in Request
  <2>1. [req[r] EXCEPT !.pc = "done"] \in Request
    BY <1>2, SetPc
  <2>2. [req[r] EXCEPT !.pc = "done", !.status = 201] \in Request
    BY <1>2, <2>1, SetStatus
  <2> QED BY <1>2, <2>2, SetBody
<1>5. req' = [req EXCEPT ![r] = new]
  BY <1>1
<1>6. /\ new.op = req[r].op /\ new.docs = req[r].docs /\ new.acked = req[r].acked /\ new.gone = req[r].gone
      /\ new.pc = "done" /\ new.status = 201 /\ new.todo = req[r].todo /\ new.hit = req[r].hit
  BY <1>2 DEF Request
<1> HIDE DEF new
<1>7. req'[r] = new /\ req' \in [Reqs -> Request] /\ \A p \in Reqs \ {r} : req'[p] = req[p]
  BY <1>4, <1>5 DEF TypeOK
<1> QED BY <1>6, <1>7 DEF Frame, OnlyOf

LEMMA MatchingFinite ==
  ASSUME TypeOK, Bounded, NEW r
  PROVE  /\ IsFiniteSet(Matching(r)) /\ Matching(r) \in SUBSET Visible
         /\ Visible \in SUBSET Record
         /\ Cardinality(Matching(r)) \in Nat
         /\ Cardinality(Matching(r)) = 0 <=> Matching(r) = {}
<1>1. Matching(r) \in SUBSET Visible /\ Visible \in SUBSET store
  BY DEF Matching, Visible
<1>2. IsFiniteSet(Matching(r))
  BY <1>1, FS_Subset DEF Bounded
<1> QED BY <1>1, <1>2, FS_CardinalityType, FS_EmptySet DEF TypeOK

LEMMA CountFrame ==
  ASSUME TypeOK, Bounded, NEW r \in Reqs, Count(r)
  PROVE  /\ Frame(r) /\ req'[r].todo = req[r].todo /\ req'[r].hit = req[r].hit
         /\ req'[r].body = req[r].body
         /\ \/ req'[r].pc = "done" /\ req'[r].status = 200 /\ Matching(r) = {}
            \/ req'[r].pc = "find" /\ req'[r].status = 0
<1> DEFINE all == Cardinality(Matching(r))
           count == IF req[r].op = "GET" /\ all > 1 THEN 1 ELSE all
<1>1. count \in Nat /\ (count = 0 => Matching(r) = {})
  BY MatchingFinite
<1>2. req' = [req EXCEPT ![r].count = count,
                         ![r].pc = IF count = 0 THEN "done" ELSE "find",
                         ![r].status = IF count = 0 THEN 200 ELSE 0]
  BY Zenon DEF Count
<1> HIDE DEF count
<1>3. PICK n \in Nat, pc \in Positions, status \in Statuses :
        /\ req' = [req EXCEPT ![r].count = n, ![r].pc = pc, ![r].status = status]
        /\ \/ pc = "done" /\ status = 200 /\ Matching(r) = {}
           \/ pc = "find" /\ status = 0
  <2>1. {"done", "find"} \subseteq Positions /\ {0, 200} \subseteq Statuses
    BY DEF Positions, Statuses
  <2>3. CASE count = 0
    <3>1. req' = [req EXCEPT ![r].count = count, ![r].pc = "done", ![r].status = 200]
      BY <1>2, <2>3
    <3> QED BY <1>1, <2>1, <2>3, <3>1
  <2>4. CASE count # 0
    <3>1. req' = [req EXCEPT ![r].count = count, ![r].pc = "find", ![r].status = 0]
      BY <1>2, <2>4
    <3> QED BY <1>1, <2>1, <3>1
  <2> QED BY <2>3, <2>4
<1> DEFINE new == [req[r] EXCEPT !.count = n, !.pc = pc, !.status = status]
<1>4. req[r] \in Request
  BY DEF TypeOK
<1>5. new \in Request
  BY <1>4 DEF Request
<1>6. /\ new.op = req[r].op /\ new.docs = req[r].docs /\ new.acked = req[r].acked /\ new.gone = req[r].gone
      /\ new.pc = pc /\ new.status = status /\ new.todo = req[r].todo /\ new.hit = req[r].hit
      /\ new.body = req[r].body
  BY <1>4 DEF Request
<1>7. req' = [req EXCEPT ![r] = new]
  BY <1>3 DEF TypeOK
<1> HIDE DEF new
<1>8. req'[r] = new /\ req' \in [Reqs -> Request] /\ \A p \in Reqs \ {r} : req'[p] = req[p]
  BY <1>5, <1>7 DEF TypeOK
<1> QED BY <1>3, <1>6, <1>8 DEF Frame, OnlyOf

LEMMA FindFrame ==
  ASSUME TypeOK, Bounded, NEW r \in Reqs, Find(r)
  PROVE  /\ Frame(r) /\ req'[r].todo = req[r].todo /\ req'[r].hit = req[r].hit
         /\ req'[r].pc = "done" /\ req'[r].status = 200
         /\ req'[r].body \in SUBSET Matching(r)
         /\ req[r].op = "GET" /\ Matching(r) # {} => req'[r].body # {}
<1>1. PICK body \in IF req[r].op = "GET" /\ Matching(r) # {}
                    THEN {{rec} : rec \in Latest(Matching(r))} ELSE {Matching(r)} :
        req' = [req EXCEPT ![r].pc = "done", ![r].status = 200, ![r].body = body]
  BY DEF Find
<1>2. body \in SUBSET Matching(r) /\ (req[r].op = "GET" /\ Matching(r) # {} => body # {})
  BY DEF Latest
<1>3. req[r] \in Request /\ "done" \in Positions /\ 200 \in Statuses /\ body \in SUBSET Record
  BY <1>2, MatchingFinite DEF TypeOK, Positions, Statuses
<1> DEFINE new == [req[r] EXCEPT !.pc = "done", !.status = 200, !.body = body]
<1>4. new \in Request
  <2>1. [req[r] EXCEPT !.pc = "done"] \in Request
    BY <1>3, SetPc
  <2>2. [req[r] EXCEPT !.pc = "done", !.status = 200] \in Request
    BY <1>3, <2>1, SetStatus
  <2> QED BY <1>3, <2>2, SetBody
<1>5. /\ new.op = req[r].op /\ new.docs = req[r].docs /\ new.acked = req[r].acked /\ new.gone = req[r].gone
      /\ new.pc = "done" /\ new.status = 200 /\ new.todo = req[r].todo /\ new.hit = req[r].hit /\ new.body = body
  BY <1>3 DEF Request
<1>6. req' = [req EXCEPT ![r] = new]
  BY <1>1 DEF TypeOK
<1> HIDE DEF new
<1>7. req'[r] = new /\ req' \in [Reqs -> Request] /\ \A p \in Reqs \ {r} : req'[p] = req[p]
  BY <1>4, <1>6 DEF TypeOK
<1> QED BY <1>2, <1>5, <1>7 DEF Frame, OnlyOf

LEMMA CrashFrame ==
  ASSUME TypeOK, Crash
  PROVE  /\ req' \in [Reqs -> Request]
         /\ \A r \in Reqs :
              /\ req'[r].op = req[r].op /\ req'[r].docs = req[r].docs /\ req'[r].at = req[r].at
              /\ req'[r].acked = req[r].acked /\ req'[r].gone = req[r].gone
              /\ req'[r].todo = req[r].todo /\ req'[r].hit = req[r].hit
              /\ req'[r].body = req[r].body /\ req'[r].status = req[r].status
              /\ req'[r].pc = IF Active(r) THEN "dead" ELSE req[r].pc
<1>1. ASSUME NEW r \in Reqs
      PROVE  /\ req[r] \in Request
             /\ [req[r] EXCEPT !.pc = "dead"] \in Request
  BY SetPc DEF TypeOK, Positions
<1>2. req' = [r \in Reqs |-> IF Active(r) THEN [req[r] EXCEPT !.pc = "dead"] ELSE req[r]]
  BY DEF Crash
<1>3. req' \in [Reqs -> Request]
  BY <1>1, <1>2
<1>4. ASSUME NEW r \in Reqs
      PROVE  /\ req'[r].op = req[r].op /\ req'[r].docs = req[r].docs /\ req'[r].at = req[r].at
              /\ req'[r].acked = req[r].acked /\ req'[r].gone = req[r].gone
              /\ req'[r].todo = req[r].todo /\ req'[r].hit = req[r].hit
              /\ req'[r].body = req[r].body /\ req'[r].status = req[r].status
              /\ req'[r].pc = IF Active(r) THEN "dead" ELSE req[r].pc
  <2>1. req'[r] = IF Active(r) THEN [req[r] EXCEPT !.pc = "dead"] ELSE req[r]
    BY <1>2
  <2> QED BY <1>1, <2>1 DEF Request
<1> QED BY <1>3, <1>4

-----------------------------------------------------------------------------
(* The write invariant                                                     *)

\* Nothing that was written, summarized or announced is taken back, and all that is new is the
\* work of one request.
Grows(r) == /\ shards \subseteq shards' /\ shards' \subseteq Reqs \X (Nat \ {0})
            /\ feed \subseteq feed' /\ feed' \subseteq [action: Operations, by: Reqs \X (Nat \ {0})]
            /\ written \subseteq written' /\ written' \subseteq Reqs \X (Nat \ {0})
            /\ \A p \in Reqs \ {r} : \A i \in Nat : <<p, i>> \in written' => <<p, i>> \in written

StoreStep == store' \subseteq Record /\ IsFiniteSet(store') /\ \A rec \in store' : rec.by \in shards'

LEMMA OthersProgress ==
  ASSUME WriteInv, NEW r \in Reqs, OnlyOf(r), Grows(r), NEW p \in Reqs \ {r}
  PROVE  Progress(p)' /\ Complete(p)'
<1>1. Progress(p) /\ Complete(p) /\ req'[p] = req[p] /\ req[p] \in Request
  BY DEF WriteInv, SuccessIsComplete, Complete, OnlyOf, TypeOK
<1>2. DOMAIN req[p].docs \subseteq Nat
  BY <1>1, LenProperties DEF Request
<1>3. Progress(p)'
  BY <1>1, <1>2 DEF Progress, Grows
<1>4. Complete(p)'
  BY <1>1 DEF Complete, Grows
<1> QED BY <1>3, <1>4

\* What has to be shown of a step of request r.
LEMMA Assemble ==
  ASSUME WriteInv, NEW r \in Reqs, OnlyOf(r), Grows(r), StoreStep,
         clock' \in Nat, crashes' \in Nat,
         Len(req'[r].docs) <= MaxBatch, Progress(r)', Complete(r)',
         \A e \in feed' : e.action \in {"POST", "PUT"} => e.by \in written',
         \A i, j \in DOMAIN req'[r].docs : i < j /\ <<r, j>> \in written' => <<r, i>> \in written'
  PROVE  WriteInv'
<1>1. TypeOK'
  BY DEF TypeOK, OnlyOf, Grows, StoreStep
<1>2. Bounded'
  BY DEF WriteInv, Bounded, OnlyOf, StoreStep
<1>3. (\A p \in Reqs : Progress(p))' /\ \A p \in Reqs : Complete(p)'
  BY OthersProgress
<1>4. ShardBeforeRecord' /\ WritesTold'
  BY DEF ShardBeforeRecord, WritesTold, StoreStep
<1>5. SuccessIsComplete'
  BY <1>3 DEF SuccessIsComplete, Complete
<1>6. PostLeavesPrefix'
  <2>1. ASSUME NEW p \in Reqs \ {r}, NEW i \in DOMAIN req'[p].docs, NEW j \in DOMAIN req'[p].docs,
               i < j, <<p, j>> \in written'
        PROVE  <<p, i>> \in written'
    <3>1. req'[p] = req[p] /\ req[p].docs \in Seq(Doc)
      BY DEF OnlyOf, WriteInv, TypeOK, Request
    <3>2. j \in Nat
      BY <3>1, LenProperties
    <3>3. <<p, j>> \in written
      BY <2>1, <3>2 DEF Grows
    <3>4. <<p, i>> \in written
      BY <2>1, <3>1, <3>3 DEF WriteInv, PostLeavesPrefix
    <3> QED BY <3>4 DEF Grows
  <2> QED BY <2>1 DEF PostLeavesPrefix
<1> QED BY <1>1, <1>2, <1>3, <1>4, <1>5, <1>6 DEF WriteInv

LEMMA Own ==
  ASSUME WriteInv, NEW r \in Reqs
  PROVE  /\ req[r] \in Request /\ req[r].docs \in Seq(Doc)
         /\ Len(req[r].docs) \in Nat /\ Len(req[r].docs) <= MaxBatch /\ MaxBatch \in Nat
         /\ DOMAIN req[r].docs = 1..Len(req[r].docs)
         /\ Progress(r) /\ Complete(r) /\ Bounded /\ TypeOK
<1>1. req[r] \in Request /\ req[r].docs \in Seq(Doc) /\ Len(req[r].docs) <= MaxBatch
  BY DEF WriteInv, TypeOK, Request, Bounded
<1>2. Len(req[r].docs) \in Nat /\ DOMAIN req[r].docs = 1..Len(req[r].docs)
  BY <1>1, LenProperties
<1>3. MaxBatch \in Nat
  BY ConstantsAssumption
<1> QED BY <1>1, <1>2, <1>3 DEF WriteInv, SuccessIsComplete, Complete

\* A step that touches nothing but the request's own state.
LEMMA OnlyState ==
  ASSUME WriteInv, NEW r \in Reqs, Frame(r), UNCHANGED <<store, shards, clock, crashes, written, feed>>,
         Progress(r)', Complete(r)'
  PROVE  WriteInv'
<1>1. Grows(r) /\ StoreStep /\ clock' \in Nat /\ crashes' \in Nat
  BY DEF Grows, StoreStep, WriteInv, TypeOK, Bounded, ShardBeforeRecord
<1>2. /\ Len(req'[r].docs) <= MaxBatch
      /\ \A e \in feed' : e.action \in {"POST", "PUT"} => e.by \in written'
      /\ \A i, j \in DOMAIN req'[r].docs : i < j /\ <<r, j>> \in written' => <<r, i>> \in written'
  BY DEF WriteInv, Bounded, WritesTold, PostLeavesPrefix, Frame
<1> QED BY <1>1, <1>2, Assemble DEF Frame

LEMMA BeginStep ==
  ASSUME WriteInv, NEW r \in Reqs, Arrive(r)
  PROVE  WriteInv'
<1>1. PICK op \in Operations, pc \in {"shards", "scan", "count"}, docs \in Seq(Doc) :
         /\ Begin(r, op, pc, docs)
         /\ Len(docs) <= MaxBatch
         /\ \/ op = "POST" /\ pc = "shards" /\ Len(docs) >= 1
            \/ op = "PUT" /\ pc = "shards" /\ Len(docs) = 1
            \/ op = "DELETE" /\ pc = "scan" /\ Len(docs) = 1
            \/ op = "GET" /\ pc = "count" /\ Len(docs) = 1
            \/ op = "LIST" /\ pc = "count"
  BY ArriveIsBegin DEF WriteInv
<1>2. /\ req' \in [Reqs -> Request] /\ \A p \in Reqs \ {r} : req'[p] = req[p]
      /\ req[r].pc = "idle"
      /\ req'[r] = NewRequest(op, pc, docs, AckedIds, GoneKeys)
      /\ UNCHANGED <<store, shards, clock, crashes, written, feed>>
  BY <1>1, BeginRequest DEF WriteInv
<1>3. /\ req'[r].op = op /\ req'[r].pc = pc /\ req'[r].docs = docs /\ req'[r].at = 1 /\ req'[r].status = 0
  BY <1>2 DEF NewRequest
<1>4. \A i \in Nat : <<r, i>> \notin written
  BY <1>2, Own DEF Progress
<1>5. OnlyOf(r) /\ Grows(r) /\ StoreStep /\ clock' \in Nat /\ crashes' \in Nat
  BY <1>2 DEF OnlyOf, Grows, StoreStep, WriteInv, TypeOK, Bounded, ShardBeforeRecord
<1>6. Progress(r)' /\ Complete(r)'
  BY <1>1, <1>2, <1>3, <1>4 DEF Progress, Complete
<1>7. \A i, j \in DOMAIN req'[r].docs : i < j /\ <<r, j>> \in written' => <<r, i>> \in written'
  <2>1. DOMAIN docs \subseteq Nat
    BY LenProperties
  <2> QED BY <1>2, <1>3, <1>4, <2>1
<1>8. Len(req'[r].docs) <= MaxBatch /\ \A e \in feed' : e.action \in {"POST", "PUT"} => e.by \in written'
  BY <1>1, <1>2, <1>3 DEF WriteInv, WritesTold
<1> QED BY <1>5, <1>6, <1>7, <1>8, Assemble

LEMMA WriteShardsStep ==
  ASSUME WriteInv, NEW r \in Reqs, WriteShards(r)
  PROVE  WriteInv'
<1>1. /\ req[r].pc = "shards" /\ shards' = shards \cup {<<r, i>> : i \in DOMAIN req[r].docs}
      /\ UNCHANGED <<store, clock, crashes, written, feed>>
      /\ Goto(r, IF req[r].op = "POST" THEN "insert" ELSE "update")
  BY DEF WriteShards
<1>2. PICK pc \in Positions : Goto(r, pc) /\ pc = IF req[r].op = "POST" THEN "insert" ELSE "update"
  BY <1>1 DEF Positions
<1>3. /\ Frame(r) /\ req'[r].pc = pc /\ req'[r].at = req[r].at /\ req'[r].status = req[r].status
  BY <1>2, Own, GotoFrame
<1>4. \A i \in DOMAIN req[r].docs : <<r, i>> \in shards' /\ i \in Nat \ {0}
  BY <1>1, Own
<1>5. OnlyOf(r) /\ Grows(r) /\ StoreStep /\ clock' \in Nat /\ crashes' \in Nat
  BY <1>1, <1>3, <1>4 DEF Frame, Grows, StoreStep, WriteInv, TypeOK, Bounded, ShardBeforeRecord
<1>6. Progress(r)' /\ Complete(r)'
  <2>1. req[r].op \in {"POST", "PUT"} /\ (req[r].op = "POST" => req[r].at = 1 /\ Len(req[r].docs) >= 1)
        /\ req[r].status = 0 /\ (req[r].op = "PUT" => Len(req[r].docs) = 1)
    BY <1>1, Own DEF Progress
  <2>2. 1 \in DOMAIN req[r].docs
    BY <2>1, Own
  <2>3. \A i \in DOMAIN req[r].docs : i >= 1
    BY Own
  <2>4. Complete(r)'
    BY <1>3, <2>1 DEF Complete
  <2>5. /\ req'[r].op = req[r].op /\ req'[r].docs = req[r].docs
    BY <1>3 DEF Frame
  <2>6. CASE req[r].op = "POST"
    BY <1>2, <1>3, <1>4, <2>1, <2>2, <2>3, <2>4, <2>5, <2>6, Own DEF Progress
  <2>7. CASE req[r].op = "PUT"
    BY <1>2, <1>3, <1>4, <2>1, <2>2, <2>3, <2>4, <2>5, <2>7 DEF Progress
  <2> QED BY <2>1, <2>6, <2>7
<1>7. /\ Len(req'[r].docs) <= MaxBatch
      /\ \A e \in feed' : e.action \in {"POST", "PUT"} => e.by \in written'
      /\ \A i, j \in DOMAIN req'[r].docs : i < j /\ <<r, j>> \in written' => <<r, i>> \in written'
  BY <1>1, <1>3 DEF WriteInv, Bounded, WritesTold, PostLeavesPrefix, Frame
<1> QED BY <1>5, <1>6, <1>7, Assemble

\* A document goes into the store, in either mode.
LEMMA StoredStep ==
  ASSUME WriteInv, NEW r \in Reqs, req[r].pc \in {"insert", "upsert"}, Stored(r, req[r].at),
         NEW old \in SUBSET store, store' = old \cup {Inserted(r, req[r].at)}
  PROVE  WriteInv'
<1> PICK i : i = req[r].at
  OBVIOUS
<1>1. /\ i \in 1..Len(req[r].docs) /\ i \in Nat \ {0} /\ req[r].op = "POST" /\ req[r].status = 0
      /\ \A k \in DOMAIN req[r].docs : <<r, k>> \in shards /\ (k < i => <<r, k>> \in written)
  <2>1. Progress(r) /\ Len(req[r].docs) \in Nat
    BY Own
  <2>2. i \in 1..Len(req[r].docs) /\ req[r].op = "POST" /\ req[r].status = 0
    BY <2>1 DEF Progress
  <2>3. \A k \in DOMAIN req[r].docs : <<r, k>> \in shards /\ (k < i => <<r, k>> \in written)
    BY <2>1 DEF Progress
  <2> QED BY <2>1, <2>2, <2>3
<1>2. /\ Frame(r) /\ req'[r].at = i + 1 /\ req'[r].status = 0
      /\ req'[r].pc = IF i = Len(req[r].docs) THEN "publish" ELSE "insert"
  BY <1>1, Own, StoredFrame
<1>3. written' = written \cup {<<r, i>>} /\ UNCHANGED <<shards, clock, crashes, feed>>
  BY DEF Stored
<1>4. Inserted(r, i) \in Record /\ Inserted(r, i).by = <<r, i>> /\ Inserted(r, i).by \in shards
  <2>1. req[r].docs[i] \in Doc /\ <<r, i>> \in Writes
    BY <1>1, Own DEF Writes
  <2>2. PICK d \in Doc : d = req[r].docs[i]
    BY <2>1
  <2>3. Key(d) \in Keys /\ d.id \in Ids /\ d.ts \in Nat
    BY <2>2 DEF Key, Keys, Doc
  <2>4. Inserted(r, i) = [key |-> Key(d), id |-> d.id, ts |-> d.ts, by |-> <<r, i>>,
                          deleted |-> (d.mark = "DELETED"), revived |-> FALSE]
    BY <2>2 DEF Inserted
  <2>5. <<r, i>> \in shards
    BY <1>1, Own
  <2> QED BY <2>1, <2>3, <2>4, <2>5 DEF Record
<1>5. StoreStep
  <2>1. IsFiniteSet(old)
    BY FS_Subset DEF WriteInv, Bounded
  <2>2. IsFiniteSet(store')
    BY <2>1, FS_AddElement
  <2> QED BY <1>3, <1>4, <2>2 DEF StoreStep, WriteInv, TypeOK, ShardBeforeRecord
<1>6. OnlyOf(r) /\ Grows(r) /\ clock' \in Nat /\ crashes' \in Nat
  BY <1>1, <1>2, <1>3 DEF Frame, Grows, WriteInv, TypeOK
<1>7. \A k \in DOMAIN req[r].docs : k <= i => <<r, k>> \in written'
  BY <1>1, <1>3, Own
<1>8. Progress(r)' /\ Complete(r)'
  <2>1. Complete(r)'
    BY <1>2 DEF Complete
  <2>2. req'[r].op = "POST" /\ req'[r].docs = req[r].docs
    BY <1>1, <1>2 DEF Frame
  <2>3. CASE i = Len(req[r].docs)
    <3>1. \A k \in DOMAIN req[r].docs : <<r, k>> \in written' \cap shards'
      BY <1>1, <1>3, <1>7, <2>3, Own
    <3>2. req'[r].pc = "publish" /\ req'[r].status = 0
      BY <1>2, <2>3
    <3>3. Progress(r)'
      BY <2>2, <3>1, <3>2 DEF Progress
    <3> QED BY <2>1, <3>3
  <2>4. CASE i # Len(req[r].docs)
    <3>1. i + 1 \in 1..Len(req[r].docs)
      BY <1>1, <2>4, Own
    <3>2. \A k \in DOMAIN req[r].docs : k < i + 1 => k <= i
      BY <1>1, Own
    <3>3. \A k \in DOMAIN req[r].docs : <<r, k>> \in shards' /\ (k < i + 1 => <<r, k>> \in written')
      BY <1>1, <1>3, <1>7, <3>2
    <3>4. req'[r].pc = "insert" /\ req'[r].status = 0 /\ req'[r].at = i + 1
      BY <1>2, <2>4
    <3>5. Progress(r)'
      BY <2>2, <3>1, <3>3, <3>4 DEF Progress
    <3> QED BY <2>1, <3>5
  <2> QED BY <2>1, <2>3, <2>4
<1>9. \A k, j \in DOMAIN req'[r].docs : k < j /\ <<r, j>> \in written' => <<r, k>> \in written'
  <2>1. req'[r].docs = req[r].docs /\ DOMAIN req[r].docs \subseteq Nat
    BY <1>2, Own DEF Frame
  <2>2. ASSUME NEW k \in DOMAIN req[r].docs, NEW j \in DOMAIN req[r].docs, k < j, <<r, j>> \in written'
        PROVE  <<r, k>> \in written'
    <3>1. CASE j = i
      BY <1>1, <1>7, <2>1, <2>2, <3>1
    <3>2. CASE j # i
      BY <1>3, <2>2, <3>2 DEF WriteInv, PostLeavesPrefix
    <3> QED BY <3>1, <3>2
  <2> QED BY <2>1, <2>2
<1>10. /\ Len(req'[r].docs) <= MaxBatch
       /\ \A e \in feed' : e.action \in {"POST", "PUT"} => e.by \in written'
  BY <1>2, <1>3, Own DEF WriteInv, WritesTold, Frame
<1> QED BY <1>5, <1>6, <1>8, <1>9, <1>10, Assemble

\* A failure answer, from any position.
LEMMA FailureStep ==
  ASSUME WriteInv, NEW r \in Reqs, req[r].pc # "idle", NEW status \in {404, 409, 500}, Answer(r, status),
         UNCHANGED <<store, shards, clock, crashes, written, feed>>
  PROVE  WriteInv'
<1>1. Frame(r) /\ req'[r].pc = "done" /\ req'[r].status = status
  BY Own, AnswerFrame DEF Statuses
<1>2. /\ req[r].op = "PUT" => Len(req[r].docs) = 1
      /\ req[r].op # "none"
  <2>1. Progress(r)
    BY Own
  <2> QED BY <2>1 DEF Progress
<1>3. Progress(r)' /\ Complete(r)'
  BY <1>1, <1>2 DEF Progress, Complete, Frame
<1> QED BY <1>1, <1>3, OnlyState

\* The replacement of a document finds none.
LEMMA ReplaceMissesStep ==
  ASSUME WriteInv, NEW r \in Reqs, ReplaceMisses(r)
  PROVE  WriteInv'
<1>1. /\ req[r].pc = "insert" /\ Goto(r, "upsert")
      /\ UNCHANGED <<store, shards, clock, crashes, written, feed>>
  BY DEF ReplaceMisses
<1>2. /\ Frame(r) /\ req'[r].pc = "upsert" /\ req'[r].at = req[r].at /\ req'[r].status = req[r].status
  BY <1>1, Own, GotoFrame DEF Positions
<1>3. Progress(r)' /\ Complete(r)'
  <2>1. /\ req[r].op = "POST" /\ req[r].status = 0 /\ req[r].at \in 1..Len(req[r].docs)
        /\ \A i \in DOMAIN req[r].docs : <<r, i>> \in shards /\ (i < req[r].at => <<r, i>> \in written)
    BY <1>1, Own DEF Progress
  <2>2. req'[r].op = req[r].op /\ req'[r].docs = req[r].docs
    BY <1>2 DEF Frame
  <2> QED BY <1>1, <1>2, <2>1, <2>2 DEF Progress, Complete
<1> QED BY <1>1, <1>2, <1>3, OnlyState

LEMMA UpdateStep ==
  ASSUME WriteInv, NEW r \in Reqs, Update(r)
  PROVE  WriteInv'
<1>1. /\ req[r].pc = "update" /\ req[r].op = "PUT"
      /\ written' = written \cup {<<r, 1>>} /\ Goto(r, "publish")
      /\ UNCHANGED <<shards, clock, crashes, feed>>
  BY DEF Update
<1>2. PICK rec \in store : store' = (store \ {rec}) \cup {Updated(rec, r)}
  BY DEF Update, Latest, Of
<1>3. /\ Frame(r) /\ req'[r].pc = "publish" /\ req'[r].status = req[r].status
  BY <1>1, Own, GotoFrame DEF Positions
<1>4. /\ Len(req[r].docs) = 1 /\ <<r, 1>> \in shards /\ req[r].status = 0
      /\ DOMAIN req[r].docs = {1}
  BY <1>1, Own DEF Progress
<1>5. Updated(rec, r) \in Record /\ Updated(rec, r).by = <<r, 1>>
  <2>1. rec \in Record /\ req[r].docs[1] \in Doc /\ <<r, 1>> \in Writes
    BY <1>4, Own DEF TypeOK, Writes
  <2>2. req[r].docs[1].ts \in Nat
    BY <2>1 DEF Doc
  <2>3. /\ Updated(rec, r).key = rec.key /\ Updated(rec, r).id = rec.id
        /\ Updated(rec, r).deleted \in BOOLEAN /\ Updated(rec, r).revived \in BOOLEAN
    BY <2>1 DEF Updated, Record
  <2>4. rec.key \in Keys /\ rec.id \in Ids
    BY <2>1 DEF Record
  <2> QED BY <2>1, <2>2, <2>3, <2>4 DEF Record, Updated
<1>6. StoreStep
  <2>1. IsFiniteSet(store \ {rec})
    BY FS_RemoveElement DEF WriteInv, Bounded
  <2>2. IsFiniteSet(store')
    BY <1>2, <2>1, FS_AddElement
  <2> QED BY <1>1, <1>2, <1>4, <1>5, <2>2 DEF StoreStep, WriteInv, TypeOK, ShardBeforeRecord
<1>7. OnlyOf(r) /\ Grows(r) /\ clock' \in Nat /\ crashes' \in Nat
  BY <1>1, <1>3 DEF Frame, Grows, WriteInv, TypeOK
<1>8. Progress(r)' /\ Complete(r)'
  BY <1>1, <1>3, <1>4 DEF Progress, Complete, Frame
<1>9. /\ Len(req'[r].docs) <= MaxBatch
      /\ \A e \in feed' : e.action \in {"POST", "PUT"} => e.by \in written'
      /\ \A i, j \in DOMAIN req'[r].docs : i < j /\ <<r, j>> \in written' => <<r, i>> \in written'
  <2>1. req'[r].docs = req[r].docs
    BY <1>3 DEF Frame
  <2> QED BY <1>1, <1>4, <2>1, Own DEF WriteInv, WritesTold
<1> QED BY <1>6, <1>7, <1>8, <1>9, Assemble

LEMMA ScanStep ==
  ASSUME WriteInv, NEW r \in Reqs, Scan(r)
  PROVE  WriteInv'
<1>1. req[r].pc = "scan" /\ UNCHANGED <<store, shards, clock, crashes, written, feed>>
  BY DEF Scan
<1>2. Frame(r) /\ req'[r].pc = "update" /\ req'[r].status = req[r].status
  BY Own, ScanFrame
<1>3. req[r].op = "DELETE" /\ req[r].status = 0
  BY <1>1, Own DEF Progress
<1>4. Progress(r)' /\ Complete(r)'
  BY <1>2, <1>3 DEF Progress, Complete, Frame
<1> QED BY <1>1, <1>2, <1>4, OnlyState

LEMMA MarkStep ==
  ASSUME WriteInv, NEW r \in Reqs, Mark(r)
  PROVE  WriteInv'
<1>1. UNCHANGED <<shards, clock, crashes, written, feed>>
  BY DEF Mark
<1>2. PICK rec \in store : /\ store' = (store \ {rec}) \cup {MarkedRecord(rec)}
                           /\ req' = [req EXCEPT ![r].hit = @ \cup {rec.key}]
  BY DEF Mark, Unmarked
<1>3. MarkedRecord(rec) \in Record /\ MarkedRecord(rec).by = rec.by
  <2>1. rec \in Record
    BY Own DEF TypeOK
  <2> QED BY <2>1 DEF Record, MarkedRecord
<1>0. /\ Frame(r) /\ req'[r].pc = req[r].pc /\ req'[r].at = req[r].at /\ req'[r].status = req[r].status
  BY <1>2, Own, MarkFrame
<1>4. StoreStep
  <2>1. IsFiniteSet(store \ {rec})
    BY FS_RemoveElement DEF WriteInv, Bounded
  <2>2. IsFiniteSet(store')
    BY <1>2, <2>1, FS_AddElement
  <2> QED BY <1>1, <1>2, <1>3, <2>2 DEF StoreStep, WriteInv, TypeOK, ShardBeforeRecord
<1>5. OnlyOf(r) /\ Grows(r) /\ clock' \in Nat /\ crashes' \in Nat
  BY <1>0, <1>1, Own DEF Frame, Grows, TypeOK
<1>6. Progress(r)' /\ Complete(r)'
  <2>1. Progress(r) /\ Complete(r)
    BY Own
  <2>2. /\ req'[r].op = req[r].op /\ req'[r].docs = req[r].docs /\ req'[r].pc = req[r].pc
        /\ req'[r].at = req[r].at /\ req'[r].status = req[r].status
    BY <1>0 DEF Frame
  <2>3. Progress(r)'
    BY <1>1, <2>1, <2>2 DEF Progress
  <2>4. Complete(r)'
    BY <1>1, <2>1, <2>2 DEF Complete
  <2> QED BY <2>3, <2>4
<1>7. /\ Len(req'[r].docs) <= MaxBatch
      /\ \A e \in feed' : e.action \in {"POST", "PUT"} => e.by \in written'
      /\ \A i, j \in DOMAIN req'[r].docs : i < j /\ <<r, j>> \in written' => <<r, i>> \in written'
  <2>1. req'[r].docs = req[r].docs
    BY <1>0 DEF Frame
  <2> QED BY <1>1, <2>1, Own DEF WriteInv, WritesTold, PostLeavesPrefix
<1> QED BY <1>4, <1>5, <1>6, <1>7, Assemble

LEMMA MarkedStep ==
  ASSUME WriteInv, NEW r \in Reqs, Marked(r)
  PROVE  WriteInv'
<1>1. /\ req[r].pc = "update" /\ req[r].op = "DELETE" /\ Goto(r, "publish")
      /\ UNCHANGED <<store, shards, clock, crashes, written, feed>>
  BY DEF Marked
<1>2. Frame(r) /\ req'[r].pc = "publish" /\ req'[r].status = req[r].status
  BY <1>1, Own, GotoFrame DEF Positions
<1>3. req[r].status = 0
  BY <1>1, Own DEF Progress
<1>4. Progress(r)' /\ Complete(r)'
  BY <1>1, <1>2, <1>3 DEF Progress, Complete, Frame
<1> QED BY <1>1, <1>2, <1>4, OnlyState

\* The events of a request whose documents are written.
LEMMA EventsTrue ==
  ASSUME WriteInv, NEW r \in Reqs, req[r].pc = "publish", NEW n \in Nat, n <= Len(req[r].docs),
         feed' = feed \cup Events(r, n), UNCHANGED <<shards, written>>
  PROVE  /\ Grows(r)
         /\ \A e \in feed' : e.action \in {"POST", "PUT"} => e.by \in written'
<1>1. /\ req[r].op \in {"POST", "PUT", "DELETE"} /\ req[r].op \in Operations
      /\ req[r].op # "DELETE" => \A i \in 1..Len(req[r].docs) : <<r, i>> \in written
  <2>1. Progress(r) /\ DOMAIN req[r].docs = 1..Len(req[r].docs)
    BY Own
  <2>2. req[r].op \in Operations \cup {"none"}
    BY Own DEF Request
  <2>3. req[r].op \in {"POST", "PUT", "DELETE"}
    BY <2>1 DEF Progress
  <2>4. req[r].op # "DELETE" => \A i \in DOMAIN req[r].docs : <<r, i>> \in written
    BY <2>1 DEF Progress
  <2> QED BY <2>1, <2>2, <2>3, <2>4
<1>2. \A e \in Events(r, n) : /\ e \in [action: Operations, by: Reqs \X (Nat \ {0})]
                              /\ e.action = req[r].op
                              /\ \E i \in 1..n : e.by = <<r, i>>
  BY <1>1 DEF Events
<1>3. \A i \in 1..n : i \in 1..Len(req[r].docs)
  BY Own
<1> QED BY <1>1, <1>2, <1>3 DEF Grows, WriteInv, TypeOK, WritesTold

LEMMA PublishStep ==
  ASSUME WriteInv, NEW r \in Reqs, Publish(r)
  PROVE  WriteInv'
<1>1. /\ req[r].pc = "publish" /\ feed' = feed \cup Events(r, Len(req[r].docs))
      /\ UNCHANGED <<store, shards, clock, crashes, written>>
  BY DEF Publish
<1>2. \/ req[r].op = "POST" /\ Goto(r, "readback")
      \/ req[r].op # "POST" /\ Answer(r, 204)
  BY DEF Publish
<1>3. /\ Frame(r)
      /\ \/ req[r].op = "POST" /\ req'[r].pc = "readback" /\ req'[r].status = req[r].status
         \/ req[r].op # "POST" /\ req'[r].pc = "done" /\ req'[r].status = 204
  BY <1>2, Own, GotoFrame, AnswerFrame DEF Positions, Statuses
<1>4. /\ Grows(r)
      /\ \A e \in feed' : e.action \in {"POST", "PUT"} => e.by \in written'
  BY <1>1, Own, EventsTrue
<1>5. /\ req[r].op \in {"POST", "PUT", "DELETE"} /\ req[r].status = 0
      /\ req[r].op # "DELETE" => \A i \in DOMAIN req[r].docs : <<r, i>> \in written' \cap shards'
      /\ req[r].op = "PUT" => Len(req[r].docs) = 1
  BY <1>1, Own DEF Progress
<1>6. \A i \in DOMAIN req[r].docs : [action |-> req[r].op, by |-> <<r, i>>] \in feed'
  BY <1>1, Own DEF Events
<1>7. Progress(r)' /\ Complete(r)'
  <2>1. req'[r].op = req[r].op /\ req'[r].docs = req[r].docs
    BY <1>3 DEF Frame
  <2>2. CASE req[r].op = "POST"
    BY <1>3, <1>5, <1>6, <2>1, <2>2 DEF Progress, Complete
  <2>3. CASE req[r].op # "POST"
    BY <1>3, <1>5, <1>6, <2>1, <2>3 DEF Progress, Complete
  <2> QED BY <2>2, <2>3
<1>8. StoreStep /\ OnlyOf(r) /\ clock' \in Nat /\ crashes' \in Nat
  BY <1>1, <1>3, Own DEF Frame, StoreStep, WriteInv, TypeOK, Bounded, ShardBeforeRecord
<1>9. /\ Len(req'[r].docs) <= MaxBatch
      /\ \A i, j \in DOMAIN req'[r].docs : i < j /\ <<r, j>> \in written' => <<r, i>> \in written'
  BY <1>1, <1>3, Own DEF WriteInv, PostLeavesPrefix, Frame
<1> QED BY <1>4, <1>7, <1>8, <1>9, Assemble

LEMMA PublishFailsStep ==
  ASSUME WriteInv, NEW r \in Reqs, PublishFails(r)
  PROVE  WriteInv'
<1>1. /\ req[r].pc = "publish"
      /\ UNCHANGED <<store, shards, clock, crashes, written>>
  BY DEF PublishFails
<1>2. PICK n \in DOMAIN req[r].docs : feed' = feed \cup Events(r, n - 1)
  BY DEF PublishFails
<1>3. PICK status \in {404, 409, 500} : Answer(r, status)
  <2>1. CASE req[r].op = "POST"
    BY <2>1 DEF PublishFails
  <2>2. CASE req[r].op = "PUT"
    BY <2>2 DEF PublishFails
  <2>3. CASE req[r].op \notin {"POST", "PUT"}
    BY <2>3 DEF PublishFails
  <2> QED BY <2>1, <2>2, <2>3
<1>4. Frame(r) /\ req'[r].pc = "done" /\ req'[r].status = status
  BY <1>3, Own, AnswerFrame DEF Statuses
<1>5. n - 1 \in Nat /\ n - 1 <= Len(req[r].docs)
  BY Own
<1>6. /\ Grows(r)
      /\ \A e \in feed' : e.action \in {"POST", "PUT"} => e.by \in written'
  BY <1>1, <1>2, <1>5, EventsTrue
<1>7. Progress(r)' /\ Complete(r)'
  <2>1. req[r].op # "none" /\ (req[r].op = "PUT" => Len(req[r].docs) = 1)
    <3>1. Progress(r)
      BY Own
    <3> QED BY <1>1, <3>1 DEF Progress
  <2> QED BY <1>4, <2>1 DEF Progress, Complete, Frame
<1>8. StoreStep /\ OnlyOf(r) /\ clock' \in Nat /\ crashes' \in Nat
  BY <1>1, <1>4, Own DEF Frame, StoreStep, WriteInv, TypeOK, Bounded, ShardBeforeRecord
<1>9. /\ Len(req'[r].docs) <= MaxBatch
      /\ \A i, j \in DOMAIN req'[r].docs : i < j /\ <<r, j>> \in written' => <<r, i>> \in written'
  BY <1>1, <1>4, Own DEF WriteInv, PostLeavesPrefix, Frame
<1> QED BY <1>6, <1>7, <1>8, <1>9, Assemble

LEMMA ReadBackStep ==
  ASSUME WriteInv, NEW r \in Reqs, ReadBack(r)
  PROVE  WriteInv'
<1>1. req[r].pc = "readback" /\ UNCHANGED <<store, shards, clock, crashes, written, feed>>
  BY DEF ReadBack
<1>2. Frame(r) /\ req'[r].pc = "done" /\ req'[r].status = 201
  BY Own, ReadBackFrame
<1>3. /\ req[r].op = "POST"
      /\ \A i \in DOMAIN req[r].docs : /\ <<r, i>> \in written \cap shards
                                       /\ [action |-> "POST", by |-> <<r, i>>] \in feed
  BY <1>1, Own DEF Progress
<1>4. Progress(r)' /\ Complete(r)'
  BY <1>1, <1>2, <1>3 DEF Progress, Complete, Frame
<1> QED BY <1>1, <1>2, <1>4, OnlyState

LEMMA GetStep ==
  ASSUME WriteInv, NEW r \in Reqs, Count(r) \/ Find(r)
  PROVE  WriteInv'
<1>1. req[r].pc \in {"count", "find"} /\ UNCHANGED <<store, shards, clock, crashes, written, feed>>
  BY DEF Count, Find
<1>2. /\ Frame(r)
      /\ \/ req'[r].pc = "done" /\ req'[r].status = 200
         \/ req'[r].pc = "find" /\ req'[r].status = 0
  BY Own, CountFrame, FindFrame
<1>3. req[r].op \in {"GET", "LIST"} /\ \A i \in Nat : <<r, i>> \notin written
  BY <1>1, Own DEF Progress
<1>4. Progress(r)' /\ Complete(r)'
  BY <1>1, <1>2, <1>3 DEF Progress, Complete, Frame
<1> QED BY <1>1, <1>2, <1>4, OnlyState

LEMMA CrashStep ==
  ASSUME WriteInv, Crash
  PROVE  WriteInv'
<1>1. UNCHANGED <<store, shards, clock, written, feed>> /\ crashes' = crashes + 1
  BY DEF Crash
<1>2. req' \in [Reqs -> Request]
  BY CrashFrame DEF WriteInv
<1>3. ASSUME NEW r \in Reqs
      PROVE  /\ req'[r].op = req[r].op /\ req'[r].docs = req[r].docs /\ req'[r].at = req[r].at
             /\ req'[r].status = req[r].status
             /\ req'[r].pc = req[r].pc \/ (req'[r].pc = "dead" /\ Active(r))
  BY CrashFrame DEF WriteInv
<1>4. TypeOK'
  BY <1>1, <1>2 DEF WriteInv, TypeOK
<1>5. ASSUME NEW r \in Reqs PROVE Progress(r)'
  <2>1. CASE req'[r].pc = req[r].pc
    <3>1. Progress(r)
      BY Own
    <3>2. /\ req'[r].op = req[r].op /\ req'[r].docs = req[r].docs /\ req'[r].at = req[r].at
          /\ req'[r].status = req[r].status
      BY <1>3
    <3> QED BY <1>1, <2>1, <3>1, <3>2 DEF Progress
  <2>2. CASE req'[r].pc = "dead" /\ Active(r)
    <3>1. req[r].status = 0 /\ req[r].op # "none" /\ (req[r].op = "PUT" => Len(req[r].docs) = 1)
      BY <2>2, Own DEF Progress, Active
    <3> QED BY <1>3, <2>2, <3>1 DEF Progress
  <2> QED BY <1>3, <2>1, <2>2
<1>6. Bounded' /\ ShardBeforeRecord' /\ WritesTold' /\ SuccessIsComplete' /\ PostLeavesPrefix'
  BY <1>1, <1>3 DEF WriteInv, Bounded, ShardBeforeRecord, WritesTold, SuccessIsComplete, PostLeavesPrefix
<1> QED BY <1>4, <1>5, <1>6 DEF WriteInv

LEMMA TickStep ==
  ASSUME WriteInv, Tick \/ UNCHANGED vars
  PROVE  WriteInv'
<1>1. UNCHANGED <<store, shards, req, crashes, written, feed>> /\ clock' \in Nat
  BY DEF Tick, vars, WriteInv, TypeOK
<1>2. TypeOK'
  BY <1>1 DEF WriteInv, TypeOK
<1>3. ASSUME NEW r \in Reqs PROVE Progress(r)'
  <2>1. Progress(r)
    BY Own
  <2> QED BY <1>1, <2>1 DEF Progress
<1>4. Bounded' /\ ShardBeforeRecord' /\ WritesTold' /\ SuccessIsComplete' /\ PostLeavesPrefix'
  BY <1>1 DEF WriteInv, Bounded, ShardBeforeRecord, WritesTold, SuccessIsComplete, PostLeavesPrefix
<1> QED BY <1>2, <1>3, <1>4 DEF WriteInv

-----------------------------------------------------------------------------

LEMMA InitWriteInv == Init => WriteInv
<1> SUFFICES ASSUME Init PROVE WriteInv
  OBVIOUS
<1>1. NoRequest \in Request
  <2>1. <<>> \in Seq(Doc) /\ "idle" \in Positions /\ 0 \in Statuses
    BY EmptySeq DEF Positions, Statuses
  <2> QED BY <2>1 DEF NoRequest, NewRequest, Request
<1>2. \A r \in Reqs : /\ req[r] = NoRequest /\ req[r].op = "none" /\ req[r].pc = "idle"
                      /\ req[r].docs = <<>> /\ req[r].status = 0
  BY DEF Init, NoRequest, NewRequest
<1>3. TypeOK
  BY <1>1 DEF Init, TypeOK
<1>4. Bounded
  <2>1. IsFiniteSet(store)
    BY FS_EmptySet DEF Init
  <2>2. Len(<<>>) <= MaxBatch
    BY EmptySeq, ConstantsAssumption
  <2> QED BY <1>2, <2>1, <2>2 DEF Bounded
<1>5. \A r \in Reqs : Progress(r)
  BY <1>2 DEF Init, Progress
<1>6. ShardBeforeRecord /\ WritesTold /\ SuccessIsComplete /\ PostLeavesPrefix
  BY <1>2 DEF Init, ShardBeforeRecord, WritesTold, SuccessIsComplete, PostLeavesPrefix
<1> QED BY <1>3, <1>4, <1>5, <1>6 DEF WriteInv

LEMMA NextWriteInv == WriteInv /\ [Next]_vars => WriteInv'
<1> SUFFICES ASSUME WriteInv, [Next]_vars PROVE WriteInv'
  OBVIOUS
<1>1. ASSUME NEW r \in Reqs, Arrive(r) PROVE WriteInv'
  BY <1>1, BeginStep
<1>2. ASSUME NEW r \in Reqs, Step(r) PROVE WriteInv'
  <2>1. CASE WriteShards(r)
    BY <2>1, WriteShardsStep
  <2>2. CASE InsertNext(r)
    BY <2>2, StoredStep DEF InsertNext
  <2>3. CASE InsertFails(r)
    BY <2>3, FailureStep DEF InsertFails
  <2>4. CASE ReplaceNext(r)
    <3>1. store \ Of(req[r].docs[req[r].at].id) \in SUBSET store
      OBVIOUS
    <3> QED BY <2>4, <3>1, StoredStep DEF ReplaceNext
  <2>14. CASE ReplaceMisses(r)
    BY <2>14, ReplaceMissesStep
  <2>15. CASE Upsert(r)
    BY <2>15, StoredStep DEF Upsert
  <2>16. CASE UpsertFails(r)
    BY <2>16, FailureStep DEF UpsertFails
  <2>5. CASE Update(r)
    BY <2>5, UpdateStep
  <2>6. CASE UpdateFails(r)
    BY <2>6, FailureStep DEF UpdateFails
  <2>7. CASE Scan(r)
    BY <2>7, ScanStep
  <2>8. CASE Mark(r)
    BY <2>8, MarkStep
  <2>9. CASE Marked(r)
    BY <2>9, MarkedStep
  <2>10. CASE Publish(r)
    BY <2>10, PublishStep
  <2>11. CASE PublishFails(r)
    BY <2>11, PublishFailsStep
  <2>12. CASE ReadBack(r)
    BY <2>12, ReadBackStep
  <2>13. CASE Count(r) \/ Find(r)
    BY <2>13, GetStep
  <2> QED BY <1>2, <2>1, <2>2, <2>3, <2>4, <2>5, <2>6, <2>7, <2>8, <2>9, <2>10, <2>11, <2>12, <2>13,
            <2>14, <2>15, <2>16 DEF Step
<1>3. CASE Crash
  BY <1>3, CrashStep
<1>4. CASE Tick \/ UNCHANGED vars
  BY <1>4, TickStep
<1> QED BY <1>1, <1>2, <1>3, <1>4 DEF Next

LEMMA WritesAreComplete == Spec => []WriteInv
BY InitWriteInv, NextWriteInv, PTL DEF Spec

\* Requests, records, shards and events stay well formed: for any number of requests, ids and
\* documents.
THEOREM TypeCorrect == Spec => []TypeOK
<1>1. WriteInv => TypeOK
  BY DEF WriteInv
<1> QED BY <1>1, WritesAreComplete, PTL

\* The manifest misses no record, wherever the server dies in a POST.
THEOREM ShardsComeFirst == Spec => []ShardBeforeRecord
<1>1. WriteInv => ShardBeforeRecord
  BY DEF WriteInv
<1> QED BY <1>1, WritesAreComplete, PTL

\* A success answer means stored, summarized and announced.
THEOREM SuccessStaysComplete == Spec => []SuccessIsComplete
<1>1. WriteInv => SuccessIsComplete
  BY DEF WriteInv
<1> QED BY <1>1, WritesAreComplete, PTL

\* A POST that fails or is cut off leaves a prefix of its documents.
THEOREM PrefixesAreLeft == Spec => []PostLeavesPrefix
<1>1. WriteInv => PostLeavesPrefix
  BY DEF WriteInv
<1> QED BY <1>1, WritesAreComplete, PTL

-----------------------------------------------------------------------------
(* Versions                                                                *)

\* `_id' names the id, and is nothing but the id without history.
KeyShape == \A rec \in store : rec.key[1] = rec.id /\ (~History => rec.key = <<rec.id, 0>>)

VersionInv == WriteInv /\ KeyShape /\ VersionsDistinct

\* The steps that change the collection.
LEMMA StoreChanges ==
  ASSUME [Next]_vars
  PROVE  \/ UNCHANGED store
         \/ \E r \in Reqs : InsertNext(r) \/ ReplaceNext(r) \/ Upsert(r) \/ Update(r) \/ Mark(r)
<1>1. ASSUME NEW r \in Reqs, Arrive(r) PROVE UNCHANGED store
  BY <1>1 DEF Arrive, Post, Put, Delete, Get, List, Begin
<1>2. ASSUME NEW r \in Reqs, Step(r)
      PROVE  UNCHANGED store \/ InsertNext(r) \/ ReplaceNext(r) \/ Upsert(r) \/ Update(r) \/ Mark(r)
  BY <1>2 DEF Step, WriteShards, InsertFails, ReplaceMisses, UpsertFails, UpdateFails, Scan, Marked, Publish, PublishFails,
              ReadBack, Count, Find
<1>3. CASE Crash \/ Tick \/ UNCHANGED vars
  BY <1>3 DEF Crash, Tick, vars
<1> QED BY <1>1, <1>2, <1>3 DEF Next

\* The record that goes in, and what it carries.
LEMMA InsertedFields ==
  ASSUME WriteInv, NEW r \in Reqs, req[r].pc \in {"insert", "upsert"}
  PROVE  LET d == req[r].docs[req[r].at]
             new == Inserted(r, req[r].at)
         IN /\ d \in Doc /\ new.key = Key(d) /\ new.id = d.id /\ new.ts = d.ts
            /\ new.deleted = (d.mark = "DELETED")
            /\ new.key[1] = new.id
            /\ ~History => new.key = <<new.id, 0>>
            /\ History => new.key = <<new.id, new.ts>>
<1>1. req[r].docs[req[r].at] \in Doc
  <2>1. req[r].at \in 1..Len(req[r].docs)
    BY Own DEF Progress
  <2> QED BY <2>1, Own
<1>2. Inserted(r, req[r].at).key = Key(req[r].docs[req[r].at])
  BY DEF Inserted
<1> QED BY <1>1, <1>2 DEF Inserted, Key

\* Update changes the stamp and content of a record, and its status when the body names one.
LEMMA UpdatedFields ==
  ASSUME WriteInv, NEW r \in Reqs, NEW rec \in store, Update(r)
  PROVE  /\ Updated(rec, r).key = rec.key /\ Updated(rec, r).id = rec.id
         /\ Updated(rec, r).ts = req[r].docs[1].ts /\ Updated(rec, r).by = <<r, 1>>
         /\ rec.deleted \/ rec.revived => Updated(rec, r).deleted \/ Updated(rec, r).revived
         /\ rec.deleted /\ ~Updated(rec, r).deleted => req[r].docs[1].mark = "live"
         /\ Updated(rec, r).deleted => rec.deleted \/ req[r].docs[1].mark = "DELETED"
<1>1. req[r].docs[1].mark \in {"none", "live", "DELETED"}
  <2>1. req[r].pc = "update" /\ req[r].op = "PUT"
    BY DEF Update
  <2>2. Len(req[r].docs) = 1
    BY <2>1, Own DEF Progress
  <2>3. req[r].docs[1] \in Doc
    BY <2>2, Own
  <2> QED BY <2>3, ConstantsAssumption DEF Doc
<1>2. PICK mark : mark = req[r].docs[1].mark
  OBVIOUS
<1>3. PICK ts : ts = req[r].docs[1].ts
  OBVIOUS
<1>4. Updated(rec, r) =
        [key |-> rec.key, id |-> rec.id, ts |-> ts, by |-> <<r, 1>>,
         deleted |-> IF mark = "none" THEN rec.deleted ELSE mark = "DELETED",
         revived |-> CASE mark = "none" -> rec.revived
                       [] mark = "live" -> rec.deleted \/ rec.revived
                       [] OTHER -> FALSE]
  BY <1>2, <1>3 DEF Updated
<1>8. rec.deleted \in BOOLEAN /\ rec.revived \in BOOLEAN
  BY DEF WriteInv, TypeOK, Record
<1>5. CASE mark = "none"
  <2>1. Updated(rec, r) = [key |-> rec.key, id |-> rec.id, ts |-> ts, by |-> <<r, 1>>,
                           deleted |-> rec.deleted, revived |-> rec.revived]
    BY <1>4, <1>5
  <2>2. Updated(rec, r).deleted <=> rec.deleted
    BY <2>1
  <2>3. Updated(rec, r).revived <=> rec.revived
    BY <2>1
  <2>4. /\ Updated(rec, r).key = rec.key /\ Updated(rec, r).id = rec.id
        /\ Updated(rec, r).ts = req[r].docs[1].ts /\ Updated(rec, r).by = <<r, 1>>
    BY <1>3, <2>1
  <2> QED BY <2>2, <2>3, <2>4, Zenon
<1>6. CASE mark = "live"
  <2>1. PICK gone \in BOOLEAN : gone <=> (rec.deleted \/ rec.revived)
    BY Zenon
  <2>2. Updated(rec, r) = [key |-> rec.key, id |-> rec.id, ts |-> ts, by |-> <<r, 1>>,
                           deleted |-> FALSE, revived |-> gone]
    BY <1>4, <1>6, <2>1
  <2>5. Updated(rec, r).revived <=> gone
    BY <2>2
  <2>3. ~Updated(rec, r).deleted
    BY <2>2
  <2>4. /\ Updated(rec, r).key = rec.key /\ Updated(rec, r).id = rec.id
        /\ Updated(rec, r).ts = req[r].docs[1].ts /\ Updated(rec, r).by = <<r, 1>>
    BY <1>3, <2>2
  <2> QED BY <1>2, <1>6, <2>1, <2>3, <2>4, <2>5, Zenon
<1>7. CASE mark = "DELETED"
  <2>1. Updated(rec, r) = [key |-> rec.key, id |-> rec.id, ts |-> ts, by |-> <<r, 1>>,
                           deleted |-> TRUE, revived |-> FALSE]
    BY <1>4, <1>7
  <2> QED BY <1>2, <1>3, <1>7, <2>1
<1> QED BY <1>1, <1>2, <1>5, <1>6, <1>7

\* A record may be replaced by another with the same `_id' and id when its stamp stays apart.
LEMMA ReplacedDistinct ==
  ASSUME VersionInv, NEW rec \in store, NEW new, new.key = rec.key, new.id = rec.id,
         \A other \in store \ {rec} : other.id = rec.id => other.ts # new.ts,
         store' = (store \ {rec}) \cup {new}
  PROVE  KeyShape' /\ VersionsDistinct'
<1>1. KeyShape'
  BY DEF VersionInv, KeyShape
<1>2. \A x \in store \ {rec} : x.key # new.key /\ (x.id # new.id \/ (History /\ x.ts # new.ts))
  BY DEF VersionInv, VersionsDistinct
<1>3. \A x, y \in store \ {rec} : x # y => x.key # y.key /\ (x.id # y.id \/ (History /\ x.ts # y.ts))
  BY DEF VersionInv, VersionsDistinct
<1> QED BY <1>1, <1>2, <1>3 DEF VersionsDistinct

LEMMA NextVersionInv == VersionInv /\ [Next]_vars => VersionInv'
<1> SUFFICES ASSUME VersionInv, [Next]_vars PROVE KeyShape' /\ VersionsDistinct'
  BY NextWriteInv DEF VersionInv
<1>1. CASE UNCHANGED store
  BY <1>1 DEF VersionInv, KeyShape, VersionsDistinct
<1>2. ASSUME NEW r \in Reqs, InsertNext(r) PROVE KeyShape' /\ VersionsDistinct'
  <2>1. PICK new : new = Inserted(r, req[r].at)
    OBVIOUS
  <2>2. /\ req[r].pc = "insert" /\ History /\ store' = store \cup {new}
        /\ ~Conflicts(store, req[r].docs[req[r].at])
    BY <1>2, <2>1 DEF InsertNext
  <2>3. new.key[1] = new.id
    BY <2>1, <2>2, InsertedFields DEF VersionInv
  <2>4. \A rec \in store : rec.key # new.key /\ ~(rec.id = new.id /\ rec.ts = new.ts)
    BY <2>1, <2>2, InsertedFields DEF Conflicts, VersionInv
  <2>5. KeyShape'
    BY <2>2, <2>3 DEF VersionInv, KeyShape
  <2>6. VersionsDistinct'
    BY <2>2, <2>4 DEF VersionInv, VersionsDistinct
  <2> QED BY <2>5, <2>6
<1>3. ASSUME NEW r \in Reqs, ReplaceNext(r) PROVE KeyShape' /\ VersionsDistinct'
  <2>1. PICK new : new = Inserted(r, req[r].at)
    OBVIOUS
  <2>2. /\ req[r].pc = "insert" /\ ~History
        /\ store' = (store \ Of(req[r].docs[req[r].at].id)) \cup {new}
    BY <1>3, <2>1 DEF ReplaceNext
  <2>3. /\ new.key = <<new.id, 0>> /\ new.key[1] = new.id
        /\ new.id = req[r].docs[req[r].at].id
    BY <2>1, <2>2, InsertedFields DEF VersionInv
  <2>4. \A rec \in store' \ {new} : rec \in store /\ rec.id # new.id
    BY <2>2, <2>3 DEF Of
  <2>5. \A rec \in store : rec.key = <<rec.id, 0>> /\ rec.key[1] = rec.id
    BY <2>2 DEF VersionInv, KeyShape
  <2>6. KeyShape'
    BY <2>2, <2>3, <2>5 DEF KeyShape
  <2>7. VersionsDistinct'
    <3>1. \A x \in store' \ {new} : x.id # new.id /\ x.key # new.key
      BY <2>3, <2>4, <2>5
    <3>2. \A x, y \in store' \ {new} : x # y => x.key # y.key /\ x.id # y.id
      BY <2>2, <2>4 DEF VersionInv, VersionsDistinct
    <3> QED BY <3>1, <3>2 DEF VersionsDistinct
  <2> QED BY <2>6, <2>7
<1>6. ASSUME NEW r \in Reqs, Upsert(r) PROVE KeyShape' /\ VersionsDistinct'
  <2>1. PICK new : new = Inserted(r, req[r].at)
    OBVIOUS
  <2>2. /\ req[r].pc = "upsert" /\ store' = store \cup {new}
        /\ ~Conflicts(store, req[r].docs[req[r].at])
    BY <1>6, <2>1 DEF Upsert
  <2>3. new.key[1] = new.id /\ (~History => new.key = <<new.id, 0>>)
    BY <2>1, <2>2, InsertedFields DEF VersionInv
  <2>4. \A rec \in store : rec.key # new.key /\ ~(rec.id = new.id /\ rec.ts = new.ts)
    BY <2>1, <2>2, InsertedFields DEF Conflicts, VersionInv
  <2>5. \A rec \in store : ~History => rec.id # new.id
    BY <2>3, <2>4 DEF VersionInv, KeyShape
  <2>6. KeyShape'
    BY <2>2, <2>3 DEF VersionInv, KeyShape
  <2>7. VersionsDistinct'
    BY <2>2, <2>4, <2>5 DEF VersionInv, VersionsDistinct
  <2> QED BY <2>6, <2>7
<1>4. ASSUME NEW r \in Reqs, Update(r) PROVE KeyShape' /\ VersionsDistinct'
  <2>1. PICK rec \in Latest(Of(req[r].docs[1].id)) :
          /\ \A other \in Of(req[r].docs[1].id) \ {rec} : other.ts # req[r].docs[1].ts
          /\ store' = (store \ {rec}) \cup {Updated(rec, r)}
    BY <1>4 DEF Update
  <2>2. rec \in store /\ rec.id = req[r].docs[1].id
    BY DEF Latest, Of
  <2>3. PICK new : new = Updated(rec, r)
    OBVIOUS
  <2>4. new.key = rec.key /\ new.id = rec.id /\ new.ts = req[r].docs[1].ts
    BY <1>4, <2>2, <2>3, UpdatedFields DEF VersionInv
  <2>5. \A other \in store \ {rec} : other.id = rec.id => other.ts # new.ts
    BY <2>1, <2>2, <2>4 DEF Of
  <2> QED BY <2>1, <2>2, <2>3, <2>4, <2>5, ReplacedDistinct
<1>5. ASSUME NEW r \in Reqs, Mark(r) PROVE KeyShape' /\ VersionsDistinct'
  <2>1. PICK rec \in store : store' = (store \ {rec}) \cup {MarkedRecord(rec)}
    BY <1>5 DEF Mark, Unmarked
  <2>2. PICK new : new = MarkedRecord(rec)
    OBVIOUS
  <2>3. new.key = rec.key /\ new.id = rec.id /\ new.ts = rec.ts
    BY <2>2 DEF MarkedRecord
  <2>4. store' = (store \ {rec}) \cup {new}
    BY <2>1, <2>2
  <2>5. \A other \in store \ {rec} : other.id = rec.id => other.ts # new.ts
    BY <2>3 DEF VersionInv, VersionsDistinct
  <2> QED BY <2>3, <2>4, <2>5, ReplacedDistinct
<1> QED BY <1>1, <1>2, <1>3, <1>4, <1>5, <1>6, StoreChanges

LEMMA InitVersionInv == Init => VersionInv
BY InitWriteInv DEF Init, VersionInv, KeyShape, VersionsDistinct

\* No two records of the collection have the same `_id' or the same id and stamp, and without
\* history no id has two records, however inserts, replacements and updates interleave.
THEOREM VersionsStayDistinct == Spec => []VersionsDistinct
<1>1. VersionInv => VersionsDistinct
  BY DEF VersionInv
<1> QED BY <1>1, InitVersionInv, NextVersionInv, PTL DEF Spec

\* The versions a DELETE has been at: they are deleted, or a PUT has named a $status since.
Gone(rec) == rec.deleted \/ rec.revived

\* The steps that bring a deleted version back.
Revived(new) ==
  \E r \in Reqs : req[r].op = "PUT" /\ req[r].docs[1].mark = "live" /\ new.by = <<r, 1>>

\* What a step keeps of a record.
LEMMA RecordSurvives ==
  ASSUME VersionInv, [Next]_vars, History, NEW rec \in store
  PROVE  \E new \in store' : /\ new.key = rec.key
                             /\ Gone(rec) => Gone(new)
                             /\ rec.deleted /\ ~new.deleted => Revived(new)
<1> DEFINE Kept(x, new) == /\ new.key = x.key
                           /\ Gone(x) => Gone(new)
                           /\ x.deleted /\ ~new.deleted => Revived(new)
<1>1. CASE UNCHANGED store
  BY <1>1
<1>2. ASSUME NEW r \in Reqs, InsertNext(r) \/ Upsert(r) PROVE rec \in store'
  BY <1>2 DEF InsertNext, Upsert
<1>3. ASSUME NEW r \in Reqs, ReplaceNext(r) PROVE FALSE
  BY <1>3 DEF ReplaceNext
<1>4. ASSUME NEW old \in store, NEW new, store' = (store \ {old}) \cup {new}, Kept(old, new)
      PROVE  \E x \in store' : Kept(rec, x)
  <2>1. CASE rec = old
    BY <1>4, <2>1
  <2>2. CASE rec # old
    BY <1>4, <2>2
  <2> QED BY <2>1, <2>2
<1>5. ASSUME NEW r \in Reqs, Update(r) PROVE \E x \in store' : Kept(rec, x)
  <2>1. PICK old \in store : store' = (store \ {old}) \cup {Updated(old, r)}
    BY <1>5 DEF Update, Latest, Of
  <2>2. req[r].op = "PUT"
    BY <1>5 DEF Update
  <2>3. PICK new : new = Updated(old, r)
    OBVIOUS
  <2>4. /\ new.key = old.key /\ new.by = <<r, 1>> /\ (Gone(old) => Gone(new))
        /\ old.deleted /\ ~new.deleted => req[r].docs[1].mark = "live"
    BY <1>5, <2>3, UpdatedFields DEF VersionInv, Gone
  <2>5. Kept(old, new)
    BY <2>2, <2>4 DEF Revived
  <2> QED BY <1>4, <2>1, <2>3, <2>5
<1>6. ASSUME NEW r \in Reqs, Mark(r) PROVE \E x \in store' : Kept(rec, x)
  <2>1. PICK old \in store : store' = (store \ {old}) \cup {MarkedRecord(old)}
    BY <1>6 DEF Mark, Unmarked
  <2>2. Kept(old, MarkedRecord(old))
    BY DEF MarkedRecord, Gone
  <2> QED BY <1>4, <2>1, <2>2
<1>7. Kept(rec, rec)
  OBVIOUS
<1>8. \E x \in store' : Kept(rec, x)
  BY <1>1, <1>2, <1>3, <1>5, <1>6, <1>7, StoreChanges
<1> QED BY <1>8

\* With history no stored version is ever lost, and a deleted one becomes visible again by a PUT
\* whose body names a $status, and by no other step.
THEOREM VersionsAreNeverLost == Spec => VersionsSurvive
<1>1. VersionInv /\ [Next]_vars =>
        [History => \A rec \in store : \E new \in store' :
             /\ new.key = rec.key
             /\ rec.deleted /\ ~new.deleted =>
                  \E r \in Reqs : req[r].op = "PUT" /\ req[r].docs[1].mark = "live" /\ new.by = <<r, 1>>]_vars
  BY RecordSurvives DEF Revived
<1> QED BY <1>1, InitVersionInv, NextVersionInv, PTL DEF Spec, VersionsSurvive

-----------------------------------------------------------------------------
(* What a step does to a request                                           *)

\* A request is unchanged, begins, or takes a step that leaves its question alone.
LEMMA RequestChanges ==
  ASSUME WriteInv, [Next]_vars, NEW r \in Reqs
  PROVE  \/ /\ req'[r] = req[r]
         \/ Arrive(r)
         \/ Step(r) /\ Frame(r)
         \/ Crash
<1>1. ASSUME NEW p \in Reqs, Arrive(p) PROVE req'[r] = req[r] \/ Arrive(r)
  <2>1. PICK op \in Operations, pc \in {"shards", "scan", "count"}, docs \in Seq(Doc) : Begin(p, op, pc, docs)
    BY <1>1, Own, ArriveIsBegin
  <2>2. p # r => req'[r] = req[r]
    BY <2>1, Own, BeginRequest
  <2> QED BY <1>1, <2>2
<1>2. ASSUME NEW p \in Reqs, Step(p) PROVE Frame(p)
  <2>1. \A pc \in {"insert", "upsert", "update", "publish", "readback"} : Goto(p, pc) => Frame(p)
    BY Own, GotoFrame DEF Positions
  <2>2. \A status \in {204, 404, 409, 500} : Answer(p, status) => Frame(p)
    BY Own, AnswerFrame DEF Statuses
  <2>3. CASE WriteShards(p)
    BY <2>1, <2>3 DEF WriteShards
  <2>4. CASE InsertNext(p) \/ ReplaceNext(p) \/ Upsert(p)
    BY <2>4, Own, StoredFrame DEF InsertNext, ReplaceNext, Upsert, Request
  <2>5. CASE InsertFails(p) \/ UpsertFails(p) \/ UpdateFails(p)
    BY <2>2, <2>5 DEF InsertFails, UpsertFails, UpdateFails
  <2>6. CASE ReplaceMisses(p) \/ Update(p) \/ Marked(p)
    BY <2>1, <2>6 DEF ReplaceMisses, Update, Marked
  <2>7. CASE Scan(p) \/ ReadBack(p) \/ Count(p) \/ Find(p)
    BY <2>7, Own, ScanFrame, ReadBackFrame, CountFrame, FindFrame
  <2>8. CASE Mark(p)
    <3>1. PICK rec \in store : req' = [req EXCEPT ![p].hit = @ \cup {rec.key}]
      BY <2>8 DEF Mark, Unmarked
    <3> QED BY <3>1, Own, MarkFrame
  <2>9. CASE Publish(p)
    BY <2>1, <2>2, <2>9 DEF Publish
  <2>10. CASE PublishFails(p)
    <3>1. CASE req[p].op = "POST"
      BY <2>2, <2>10, <3>1 DEF PublishFails
    <3>2. CASE req[p].op = "PUT"
      BY <2>2, <2>10, <3>2 DEF PublishFails
    <3>3. CASE req[p].op \notin {"POST", "PUT"}
      BY <2>2, <2>10, <3>3 DEF PublishFails
    <3> QED BY <3>1, <3>2, <3>3
  <2> QED BY <1>2, <2>3, <2>4, <2>5, <2>6, <2>7, <2>8, <2>9, <2>10 DEF Step
<1>3. ASSUME NEW p \in Reqs, Step(p) PROVE req'[r] = req[r] \/ (Step(r) /\ Frame(r))
  BY <1>2, <1>3 DEF Frame, OnlyOf
<1>4. CASE Tick \/ UNCHANGED vars
  BY <1>4 DEF Tick, vars
<1> QED BY <1>1, <1>3, <1>4 DEF Next

\* What a step of a request finds, marks and answers.
LEMMA StepAnswers ==
  ASSUME WriteInv, NEW r \in Reqs, Step(r)
  PROVE  /\ req'[r].todo = req[r].todo \/ Scan(r)
         /\ req'[r].hit = req[r].hit \/ Mark(r)
         /\ req'[r].body = req[r].body \/ ReadBack(r) \/ Find(r)
         /\ req[r].op = "DELETE" /\ req'[r].pc \in {"publish", "done"} =>
              Marked(r) \/ req[r].pc = "publish"
         /\ req[r].op = "GET" => Count(r) \/ Find(r)
<1> DEFINE Same == req'[r].todo = req[r].todo /\ req'[r].hit = req[r].hit /\ req'[r].body = req[r].body
<1>1. \A pc \in {"insert", "upsert", "update", "publish", "readback"} : Goto(r, pc) => Same
  BY Own, GotoFrame DEF Positions
<1>2. \A status \in {204, 404, 409, 500} : Answer(r, status) => Same
  BY Own, AnswerFrame DEF Statuses
<1>3. CASE WriteShards(r)
  <2>1. req[r].op \in {"POST", "PUT"}
    BY <1>3, Own DEF WriteShards, Progress
  <2>2. Goto(r, "insert") \/ Goto(r, "update")
    BY <1>3, <2>1 DEF WriteShards
  <2> QED BY <1>1, <2>1, <2>2
<1>4. CASE InsertNext(r) \/ ReplaceNext(r) \/ Upsert(r)
  <2>1. Same
    BY <1>4, Own, StoredFrame DEF InsertNext, ReplaceNext, Upsert, Request
  <2>2. req[r].op = "POST"
    BY <1>4, Own DEF InsertNext, ReplaceNext, Upsert, Progress
  <2> QED BY <2>1, <2>2
<1>5. CASE InsertFails(r) \/ UpsertFails(r)
  <2>1. req[r].op = "POST" /\ Answer(r, 409)
    BY <1>5, Own DEF InsertFails, UpsertFails, Progress
  <2> QED BY <1>2, <2>1
<1>15. CASE ReplaceMisses(r)
  <2>1. req[r].op = "POST" /\ Goto(r, "upsert")
    BY <1>15, Own DEF ReplaceMisses, Progress
  <2> QED BY <1>1, <2>1
<1>6. CASE UpdateFails(r)
  <2>1. req[r].op = "PUT" /\ Answer(r, 404)
    BY <1>6 DEF UpdateFails
  <2> QED BY <1>2, <2>1
<1>7. CASE Update(r)
  <2>1. req[r].op = "PUT" /\ Goto(r, "publish")
    BY <1>7 DEF Update
  <2> QED BY <1>1, <2>1
<1>8. CASE Marked(r)
  <2>1. req[r].op = "DELETE" /\ Goto(r, "publish")
    BY <1>8 DEF Marked
  <2> QED BY <1>1, <1>8, <2>1
<1>9. CASE Scan(r)
  <2>1. req[r].op = "DELETE" /\ req[r].status = 0
    BY <1>9, Own DEF Scan, Progress
  <2> QED BY <1>9, <2>1, Own, ScanFrame
<1>10. CASE ReadBack(r)
  <2>1. req[r].op = "POST"
    BY <1>10, Own DEF ReadBack, Progress
  <2> QED BY <1>10, <2>1, Own, ReadBackFrame
<1>11. CASE Count(r)
  <2>1. req[r].op \in {"GET", "LIST"}
    BY <1>11, Own DEF Count, Progress
  <2> QED BY <1>11, <2>1, Own, CountFrame
<1>12. CASE Find(r)
  <2>1. req[r].op \in {"GET", "LIST"}
    BY <1>12, Own DEF Find, Progress
  <2> QED BY <1>12, <2>1, Own, FindFrame
<1>13. CASE Mark(r)
  <2>1. PICK rec \in store : req' = [req EXCEPT ![r].hit = @ \cup {rec.key}]
    BY <1>13 DEF Mark, Unmarked
  <2>2. req[r].op = "DELETE" /\ req[r].pc = "update"
    BY <1>13 DEF Mark
  <2>3. /\ req'[r].pc = req[r].pc /\ req'[r].todo = req[r].todo /\ req'[r].body = req[r].body
    BY <2>1, Own, MarkFrame
  <2> QED BY <1>13, <2>2, <2>3
<1>14. CASE Publish(r) \/ PublishFails(r)
  <2>1. req[r].pc = "publish" /\ req[r].op \in {"POST", "PUT", "DELETE"}
    BY <1>14, Own DEF Publish, PublishFails, Progress
  <2>2. Goto(r, "readback") \/ \E status \in {204, 404, 409, 500} : Answer(r, status)
    <3>1. CASE req[r].op = "POST"
      BY <1>14, <3>1 DEF Publish, PublishFails
    <3>2. CASE req[r].op = "PUT"
      BY <1>14, <3>2 DEF Publish, PublishFails
    <3>3. CASE req[r].op = "DELETE"
      BY <1>14, <3>3 DEF Publish, PublishFails
    <3> QED BY <2>1, <3>1, <3>2, <3>3
  <2>3. Same
    BY <1>1, <1>2, <2>2
  <2> QED BY <2>1, <2>3
<1> QED BY <1>3, <1>4, <1>5, <1>6, <1>7, <1>8, <1>9, <1>10, <1>11, <1>12, <1>13, <1>14, <1>15 DEF Step

-----------------------------------------------------------------------------
(* Deleted versions                                                        *)

\* The version exists and a DELETE has been at it, and so it stays.
Present(k) == \E rec \in store : rec.key = k
Dead(k) == Present(k) /\ \A rec \in store : rec.key = k => Gone(rec)

\* A DELETE that is announced has been answered.
DeletesTold == \A e \in feed : e.action = "DELETE" => req[e.by[1]].op = "DELETE" /\ req[e.by[1]].pc = "done"

\* With history: a DELETE is after versions that exist, and those it has been at are deleted or
\* were revived; so are all it has found when it publishes, and what a GET was told is gone.
DeleteInv ==
  /\ VersionInv
  /\ DeletesTold
  /\ History => \A r \in Reqs :
       /\ req[r].op = "DELETE" => \A k \in req[r].todo : Present(k)
       /\ req[r].op = "DELETE" => \A k \in req[r].hit : Dead(k)
       /\ req[r].op = "DELETE" /\ req[r].pc \in {"publish", "done"} => \A k \in req[r].todo : Dead(k)
       /\ \A k \in req[r].gone : Dead(k)
       /\ req[r].op \in {"GET", "LIST"} =>
            \A rec \in req[r].body : rec.key \in req[r].gone => rec.revived

LEMMA DeadStays ==
  ASSUME VersionInv, [Next]_vars, History, NEW k
  PROVE  (Present(k) => Present(k)') /\ (Dead(k) => Dead(k)')
<1>1. Present(k) => Present(k)'
  BY RecordSurvives DEF Present
<1>2. ASSUME Dead(k), NEW new \in store', new.key = k PROVE Gone(new)
  <2>1. PICK rec \in store : rec.key = k
    BY <1>2 DEF Dead, Present
  <2>2. PICK survivor \in store' : survivor.key = k /\ Gone(survivor)
    BY <1>2, <2>1, RecordSurvives DEF Dead
  <2>3. VersionsDistinct'
    BY NextVersionInv DEF VersionInv
  <2>4. new = survivor
    BY <1>2, <2>2, <2>3 DEF VersionsDistinct
  <2> QED BY <2>2, <2>4
<1> QED BY <1>1, <1>2 DEF Dead

\* A request that was answered does not move.
LEMMA DoneStays ==
  ASSUME WriteInv, [Next]_vars, NEW r \in Reqs, req[r].pc = "done"
  PROVE  req'[r].op = req[r].op /\ req'[r].pc = "done"
<1>1. ~Arrive(r)
  BY DEF Arrive, Post, Put, Delete, Get, List, Begin
<1>2. ~Step(r)
  BY DEF Step, WriteShards, InsertNext, InsertFails, ReplaceNext, ReplaceMisses, Upsert, UpsertFails,
         Update, UpdateFails, Scan, Mark, Marked, Publish, PublishFails, ReadBack, Count, Find
<1>3. Crash => req'[r].op = req[r].op /\ req'[r].pc = "done"
  BY Own, CrashFrame DEF Active
<1> QED BY <1>1, <1>2, <1>3, RequestChanges

LEMMA NextDeletesTold == WriteInv /\ DeletesTold /\ [Next]_vars => DeletesTold'
<1> SUFFICES ASSUME WriteInv, DeletesTold, [Next]_vars, NEW e \in feed', e.action = "DELETE"
             PROVE  req'[e.by[1]].op = "DELETE" /\ req'[e.by[1]].pc = "done"
  BY DEF DeletesTold
<1>1. CASE e \in feed
  <2>1. e.by[1] \in Reqs
    BY <1>1 DEF WriteInv, TypeOK
  <2>2. req[e.by[1]].op = "DELETE" /\ req[e.by[1]].pc = "done"
    BY <1>1 DEF DeletesTold
  <2> QED BY <2>1, <2>2, DoneStays
<1>2. CASE e \notin feed
  <2>1. PICK p \in Reqs : Publish(p) \/ PublishFails(p)
    <3>1. ASSUME NEW p \in Reqs, Arrive(p) PROVE UNCHANGED feed
      BY <3>1 DEF Arrive, Post, Put, Delete, Get, List, Begin
    <3>2. ASSUME NEW p \in Reqs, Step(p) PROVE UNCHANGED feed \/ Publish(p) \/ PublishFails(p)
      BY <3>2 DEF Step, WriteShards, InsertNext, InsertFails, ReplaceNext, ReplaceMisses, Upsert,
                  UpsertFails, Stored, Update, UpdateFails, Scan, Mark, Marked, ReadBack, Count, Find
    <3>3. CASE Crash \/ Tick \/ UNCHANGED vars
      BY <1>2, <3>3 DEF Crash, Tick, vars
    <3> QED BY <1>2, <3>1, <3>2, <3>3 DEF Next
  <2>2. \E n : feed' = feed \cup Events(p, n)
    BY <2>1 DEF Publish, PublishFails
  <2>3. e.action = req[p].op /\ e.by[1] = p
    BY <1>2, <2>2 DEF Events
  <2>4. \E status \in {204, 500} : Answer(p, status)
    BY <2>1, <2>3 DEF Publish, PublishFails
  <2>5. Frame(p) /\ req'[p].pc = "done"
    BY <2>4, Own, AnswerFrame DEF Statuses
  <2> QED BY <2>3, <2>5 DEF Frame
<1> QED BY <1>1, <1>2

LEMMA NextDeleteInv == DeleteInv /\ [Next]_vars => DeleteInv'
<1> SUFFICES ASSUME DeleteInv, [Next]_vars, History, NEW r \in Reqs
             PROVE  /\ req'[r].op = "DELETE" => \A k \in req'[r].todo : Present(k)'
                    /\ req'[r].op = "DELETE" => \A k \in req'[r].hit : Dead(k)'
                    /\ req'[r].op = "DELETE" /\ req'[r].pc \in {"publish", "done"} =>
                         \A k \in req'[r].todo : Dead(k)'
                    /\ \A k \in req'[r].gone : Dead(k)'
                    /\ req'[r].op \in {"GET", "LIST"} =>
                         \A rec \in req'[r].body : rec.key \in req'[r].gone => rec.revived
  BY NextVersionInv, NextDeletesTold DEF DeleteInv, VersionInv
<1>1. WriteInv /\ VersionInv /\ TypeOK
  BY DEF DeleteInv, VersionInv, WriteInv
<1>2. /\ req[r].op = "DELETE" => \A k \in req[r].todo : Present(k)
      /\ req[r].op = "DELETE" => \A k \in req[r].hit : Dead(k)
      /\ req[r].op = "DELETE" /\ req[r].pc \in {"publish", "done"} => \A k \in req[r].todo : Dead(k)
      /\ \A k \in req[r].gone : Dead(k)
      /\ req[r].op \in {"GET", "LIST"} =>
           \A rec \in req[r].body : rec.key \in req[r].gone => rec.revived
  BY DEF DeleteInv
<1>3. \A k : (Present(k) => Present(k)') /\ (Dead(k) => Dead(k)')
  BY <1>1, DeadStays
<1>4. CASE req'[r] = req[r]
  BY <1>2, <1>3, <1>4
<1>5. CASE Arrive(r)
  <2>1. PICK op \in Operations, pc \in {"shards", "scan", "count"}, docs \in Seq(Doc) : Begin(r, op, pc, docs)
    BY <1>1, <1>5, ArriveIsBegin
  <2>2. req'[r] = NewRequest(op, pc, docs, AckedIds, GoneKeys)
    BY <1>1, <2>1, BeginRequest
  <2>3. /\ req'[r].todo = {} /\ req'[r].hit = {} /\ req'[r].body = {} /\ req'[r].gone = GoneKeys
    BY <2>2 DEF NewRequest
  <2>4. \A k \in GoneKeys : Dead(k)
    <3>1. ASSUME NEW p \in Reqs, req[p].op = "DELETE", req[p].status = 204
          PROVE  \A k \in req[p].todo : Dead(k)
      <4>1. req[p].pc = "done"
        <5>1. Progress(p)
          BY <1>1, Own
        <5> QED BY <3>1, <5>1 DEF Progress
      <4> QED BY <3>1, <4>1 DEF DeleteInv
    <3> QED BY <3>1 DEF GoneKeys
  <2> QED BY <1>3, <2>3, <2>4
<1>6. CASE Crash
  <2>1. /\ req'[r].op = req[r].op /\ req'[r].gone = req[r].gone /\ req'[r].todo = req[r].todo
        /\ req'[r].hit = req[r].hit /\ req'[r].body = req[r].body
        /\ req'[r].pc \in {"dead", req[r].pc}
    BY <1>1, <1>6, CrashFrame
  <2> QED BY <1>2, <1>3, <2>1
<1>7. CASE Step(r) /\ Frame(r)
  <2>1. req'[r].op = req[r].op /\ req'[r].gone = req[r].gone
    BY <1>7 DEF Frame
  <2>2. req'[r].op = "DELETE" => \A k \in req'[r].todo : Present(k)'
    <3>1. CASE req'[r].todo = req[r].todo
      BY <1>2, <1>3, <2>1, <3>1
    <3>2. CASE Scan(r)
      <4>1. \A k \in req'[r].todo : Present(k)
        BY <1>1, <3>2, ScanFrame DEF Present, Of
      <4> QED BY <1>3, <4>1
    <3> QED BY <1>1, <1>7, <3>1, <3>2, StepAnswers
  <2>6. req'[r].op = "DELETE" => \A k \in req'[r].hit : Dead(k)'
    <3>1. CASE req'[r].hit = req[r].hit
      BY <1>2, <1>3, <2>1, <3>1
    <3>2. CASE Mark(r)
      <4>1. PICK rec \in store : /\ store' = (store \ {rec}) \cup {MarkedRecord(rec)}
                                 /\ req' = [req EXCEPT ![r].hit = @ \cup {rec.key}]
        BY <3>2 DEF Mark, Unmarked
      <4>2. req'[r].hit = req[r].hit \cup {rec.key}
        BY <1>1, <4>1, MarkFrame
      <4>3. PICK new : new = MarkedRecord(rec)
        OBVIOUS
      <4>4. new \in store' /\ new.key = rec.key /\ Gone(new)
        BY <4>1, <4>3 DEF MarkedRecord, Gone
      <4>5. VersionsDistinct'
        BY <1>1, NextVersionInv DEF VersionInv
      <4>6. Dead(rec.key)'
        BY <4>4, <4>5 DEF Dead, Present, VersionsDistinct
      <4> QED BY <1>2, <1>3, <2>1, <4>2, <4>6
    <3> QED BY <1>1, <1>7, <3>1, <3>2, StepAnswers
  <2>3. ASSUME req'[r].op = "DELETE", req'[r].pc \in {"publish", "done"}
        PROVE  \A k \in req'[r].todo : Dead(k)'
    <3>1. CASE Marked(r)
      <4>1. req'[r].todo = req[r].todo
        BY <1>1, <3>1, GotoFrame DEF Marked, Positions
      <4>2. \A rec \in store : rec.key \in req[r].todo => rec.key \in req[r].hit
        BY <3>1 DEF Marked, Unmarked
      <4>3. req[r].todo \subseteq req[r].hit
        BY <1>2, <2>1, <2>3, <4>2 DEF Present
      <4> QED BY <1>2, <1>3, <2>1, <2>3, <4>1, <4>3
    <3>2. CASE req[r].pc = "publish"
      <4>1. ~Scan(r)
        BY <3>2 DEF Scan
      <4>2. req'[r].todo = req[r].todo
        BY <1>1, <1>7, <4>1, StepAnswers
      <4> QED BY <1>2, <1>3, <2>1, <2>3, <3>2, <4>2
    <3>4. Marked(r) \/ req[r].pc = "publish"
      <4>1. req[r].op = "DELETE" /\ WriteInv
        BY <1>1, <2>1, <2>3
      <4> QED BY <1>7, <2>3, <4>1, StepAnswers
    <3> QED BY <3>1, <3>2, <3>4
  <2>4. \A k \in req'[r].gone : Dead(k)'
    BY <1>2, <1>3, <2>1
  <2>5. ASSUME req'[r].op \in {"GET", "LIST"}, NEW rec \in req'[r].body, rec.key \in req'[r].gone
        PROVE  rec.revived
    <3>1. CASE req'[r].body = req[r].body
      BY <1>2, <2>1, <2>5, <3>1
    <3>2. CASE ReadBack(r)
      <4>1. req[r].op = "POST"
        BY <1>1, <3>2, Own DEF ReadBack, Progress
      <4> QED BY <2>1, <2>5, <4>1
    <3>3. CASE Find(r)
      <4>1. rec \in store /\ ~rec.deleted
        BY <1>1, <2>5, <3>3, FindFrame DEF WriteInv, Matching, Visible
      <4>2. Dead(rec.key)
        BY <1>2, <2>1, <2>5
      <4> QED BY <4>1, <4>2 DEF Dead, Gone
    <3> QED BY <1>1, <1>7, <3>1, <3>2, <3>3, StepAnswers
  <2> QED BY <2>2, <2>3, <2>4, <2>5, <2>6
<1> QED BY <1>1, <1>4, <1>5, <1>6, <1>7, RequestChanges

LEMMA InitDeleteInv == Init => DeleteInv
<1> SUFFICES ASSUME Init PROVE DeleteInv
  OBVIOUS
<1>1. \A r \in Reqs : req[r].op = "none" /\ req[r].gone = {}
  BY DEF Init, NoRequest, NewRequest
<1>2. DeletesTold
  BY DEF Init, DeletesTold
<1> QED BY <1>1, <1>2, InitVersionInv DEF DeleteInv

\* A GET sent after a DELETE was acknowledged shows none of the versions it was there for, but
\* those for which a PUT has named a $status since.
THEOREM DeletesAreSeen == Spec => []DeleteIsSeen
<1>1. DeleteInv => DeleteIsSeen
  BY DEF DeleteInv, DeleteIsSeen
<1> QED BY <1>1, InitDeleteInv, NextDeleteInv, PTL DEF Spec

\* What subscribers are told is done: an announced POST or PUT is applied, an announced DELETE has
\* marked every version it found, and they stay marked until a PUT names a $status for them.
THEOREM FeedStaysTrue == Spec => []FeedIsTrue
<1>1. DeleteInv => FeedIsTrue
  <2> SUFFICES ASSUME DeleteInv, NEW e \in feed
               PROVE  /\ e.action \in {"POST", "PUT"} => e.by \in written
                      /\ e.action = "DELETE" /\ History =>
                           \A rec \in store : rec.key \in req[e.by[1]].todo => rec.deleted \/ rec.revived
    BY DEF FeedIsTrue
  <2>1. e.action \in {"POST", "PUT"} => e.by \in written
    BY DEF DeleteInv, VersionInv, WriteInv, WritesTold
  <2>2. ASSUME e.action = "DELETE", History, NEW rec \in store, rec.key \in req[e.by[1]].todo
        PROVE  rec.deleted \/ rec.revived
    <3>1. e.by[1] \in Reqs
      BY DEF DeleteInv, VersionInv, WriteInv, TypeOK
    <3>2. req[e.by[1]].op = "DELETE" /\ req[e.by[1]].pc = "done"
      BY <2>2 DEF DeleteInv, DeletesTold
    <3>3. Dead(rec.key)
      BY <2>2, <3>1, <3>2 DEF DeleteInv
    <3> QED BY <2>2, <3>3 DEF Dead, Gone
  <2> QED BY <2>1, <2>2
<1> QED BY <1>1, InitDeleteInv, NextDeleteInv, PTL DEF Spec

-----------------------------------------------------------------------------
(* Acknowledged nodes                                                      *)

Known(id) == \E rec \in store : rec.id = id

\* What was written is known under its id; what is deleted has an id that somebody hides, by a
\* DELETE or by a document with that status.
ReadInv ==
  /\ VersionInv
  /\ \A r \in Reqs : \A i \in DOMAIN req[r].docs : <<r, i>> \in written => Known(req[r].docs[i].id)
  /\ \A r \in Reqs : \A id \in req[r].acked : Known(id)
  /\ \A r \in Reqs : req[r].op = "none" => req[r].docs = <<>>
  /\ \A r \in Reqs : req[r].op = "DELETE" => /\ Len(req[r].docs) = 1
                                             /\ \A k \in req[r].todo : k[1] = req[r].docs[1].id
  /\ \A rec \in store : rec.deleted => rec.id \in HiddenIds
  /\ AckedIsReadable

LEMMA KnownStays ==
  ASSUME VersionInv, [Next]_vars, NEW id, Known(id)
  PROVE  Known(id)'
<1>1. PICK rec \in store : rec.id = id
  BY DEF Known
<1>2. CASE UNCHANGED store
  BY <1>1, <1>2 DEF Known
<1>3. ASSUME NEW r \in Reqs, InsertNext(r) \/ Upsert(r) PROVE Known(id)'
  BY <1>1, <1>3 DEF InsertNext, Upsert, Known
<1>4. ASSUME NEW r \in Reqs, ReplaceNext(r) PROVE Known(id)'
  <2>1. PICK new : new = Inserted(r, req[r].at)
    OBVIOUS
  <2>2. store' = (store \ Of(req[r].docs[req[r].at].id)) \cup {new} /\ req[r].pc = "insert"
    BY <1>4, <2>1 DEF ReplaceNext
  <2>3. new.id = req[r].docs[req[r].at].id
    BY <2>1, <2>2, InsertedFields DEF VersionInv
  <2> QED BY <1>1, <2>2, <2>3 DEF Known, Of
<1>5. ASSUME NEW r \in Reqs, Update(r) PROVE Known(id)'
  <2>1. PICK old \in store : store' = (store \ {old}) \cup {Updated(old, r)}
    BY <1>5 DEF Update, Latest, Of
  <2>2. Updated(old, r).id = old.id
    BY <1>5, UpdatedFields DEF VersionInv
  <2> QED BY <1>1, <2>1, <2>2 DEF Known
<1>6. ASSUME NEW r \in Reqs, Mark(r) PROVE Known(id)'
  <2>1. PICK old \in store : store' = (store \ {old}) \cup {MarkedRecord(old)}
    BY <1>6 DEF Mark, Unmarked
  <2>2. MarkedRecord(old).id = old.id
    BY DEF MarkedRecord
  <2> QED BY <1>1, <2>1, <2>2 DEF Known
<1> QED BY <1>2, <1>3, <1>4, <1>5, <1>6, StoreChanges

\* A write is found when it is done.
LEMMA WrittenIsKnown ==
  ASSUME VersionInv, [Next]_vars, NEW r \in Reqs, Step(r), NEW i \in DOMAIN req[r].docs,
         <<r, i>> \in written', <<r, i>> \notin written, NEW id, id = req[r].docs[i].id
  PROVE  Known(id)'
<1>1. InsertNext(r) \/ ReplaceNext(r) \/ Upsert(r) \/ Update(r)
  BY DEF Step, WriteShards, InsertFails, ReplaceMisses, UpsertFails, UpdateFails, Scan, Mark, Marked, Publish, PublishFails,
         ReadBack, Count, Find
<1>2. CASE InsertNext(r) \/ ReplaceNext(r) \/ Upsert(r)
  <2>1. PICK new : new = Inserted(r, req[r].at)
    OBVIOUS
  <2>2. /\ new \in store' /\ req[r].pc \in {"insert", "upsert"}
        /\ written' = written \cup {<<r, req[r].at>>}
    BY <1>2, <2>1 DEF InsertNext, ReplaceNext, Upsert, Stored
  <2>3. i = req[r].at
    BY <2>2
  <2>4. new.id = req[r].docs[i].id
    BY <2>1, <2>2, <2>3, InsertedFields DEF VersionInv
  <2>5. \E rec \in store' : rec.id = req[r].docs[i].id
    BY <2>2, <2>4
  <2> QED BY <2>5 DEF Known
<1>3. CASE Update(r)
  <2>1. PICK old \in store : /\ store' = (store \ {old}) \cup {Updated(old, r)}
                             /\ old.id = req[r].docs[1].id
    BY <1>3 DEF Update, Latest, Of
  <2>2. Updated(old, r).id = old.id
    BY <1>3, UpdatedFields DEF VersionInv
  <2>3. i = 1
    BY <1>3 DEF Update
  <2>4. \E rec \in store' : rec.id = req[r].docs[i].id
    BY <2>1, <2>2, <2>3
  <2> QED BY <2>4 DEF Known
<1> QED BY <1>1, <1>2, <1>3

LEMMA NewWriteIsOwn ==
  ASSUME [Next]_vars, NEW r \in Reqs, NEW i, <<r, i>> \in written', <<r, i>> \notin written
  PROVE  Step(r)
<1>1. ASSUME NEW p \in Reqs, Arrive(p) PROVE FALSE
  BY <1>1 DEF Arrive, Post, Put, Delete, Get, List, Begin
<1>2. ASSUME NEW p \in Reqs, Step(p) PROVE p = r
  <2>1. CASE InsertNext(p) \/ ReplaceNext(p) \/ Upsert(p)
    BY <2>1 DEF InsertNext, ReplaceNext, Upsert, Stored
  <2>2. CASE Update(p)
    BY <2>2 DEF Update
  <2>3. ~InsertNext(p) /\ ~ReplaceNext(p) /\ ~Upsert(p) /\ ~Update(p) => UNCHANGED written
    BY <1>2 DEF Step, WriteShards, InsertFails, ReplaceMisses, UpsertFails, UpdateFails, Scan, Mark, Marked, Publish,
                PublishFails, ReadBack, Count, Find
  <2> QED BY <2>1, <2>2, <2>3
<1>3. CASE Crash \/ Tick \/ UNCHANGED vars
  BY <1>3 DEF Crash, Tick, vars
<1> QED BY <1>1, <1>2, <1>3 DEF Next

\* A request that was made stays what it was.
LEMMA MadeStays ==
  ASSUME WriteInv, [Next]_vars, NEW r \in Reqs, req[r].op # "none"
  PROVE  req'[r].op = req[r].op /\ req'[r].docs = req[r].docs
<1>1. CASE req'[r] = req[r]
  BY <1>1
<1>2. CASE Arrive(r)
  <2>1. req[r].pc = "idle"
    BY <1>2 DEF Arrive, Post, Put, Delete, Get, List, Begin
  <2> QED BY <2>1, Own DEF Progress
<1>3. CASE Step(r) /\ Frame(r)
  BY <1>3 DEF Frame
<1>4. CASE Crash
  BY <1>4, Own, CrashFrame
<1> QED BY <1>1, <1>2, <1>3, <1>4, RequestChanges

\* An id that somebody hides is hidden from then on.
LEMMA HiddenStays ==
  ASSUME WriteInv, [Next]_vars, \A r \in Reqs : req[r].op = "none" => req[r].docs = <<>>
  PROVE  HiddenIds \subseteq HiddenIds'
<1> SUFFICES ASSUME NEW r \in Reqs, NEW i \in DOMAIN req[r].docs, Hides(req[r], i)
             PROVE  i \in DOMAIN req'[r].docs /\ Hides(req'[r], i) /\ req'[r].docs[i].id = req[r].docs[i].id
  BY DEF HiddenIds
<1>1. req[r].op # "none"
  BY EmptySeq
<1>2. req'[r].op = req[r].op /\ req'[r].docs = req[r].docs
  BY <1>1, MadeStays
<1> QED BY <1>2 DEF Hides

\* A record is marked by a DELETE of its id, or written with that status.
LEMMA MarkedIsHidden ==
  ASSUME ReadInv, [Next]_vars, NEW rec \in store', rec.deleted
  PROVE  rec.id \in HiddenIds'
<1>0. /\ VersionInv /\ WriteInv
      /\ HiddenIds \subseteq HiddenIds'
  BY HiddenStays DEF ReadInv, VersionInv
<1>1. \A old \in store : old.deleted => old.id \in HiddenIds'
  BY <1>0 DEF ReadInv
<1>2. CASE UNCHANGED store
  BY <1>1, <1>2
<1>3. ASSUME NEW r \in Reqs, InsertNext(r) \/ ReplaceNext(r) \/ Upsert(r) PROVE rec.id \in HiddenIds'
  <2>1. PICK new : new = Inserted(r, req[r].at)
    OBVIOUS
  <2>2. rec \in store \cup {new} /\ req[r].pc \in {"insert", "upsert"}
    BY <1>3, <2>1 DEF InsertNext, ReplaceNext, Upsert
  <2>3. new.deleted = (req[r].docs[req[r].at].mark = "DELETED") /\ new.id = req[r].docs[req[r].at].id
    BY <1>0, <2>1, <2>2, InsertedFields
  <2>4. req[r].at \in DOMAIN req[r].docs
    <3>1. Progress(r) /\ DOMAIN req[r].docs = 1..Len(req[r].docs)
      BY <1>0, Own
    <3> QED BY <2>2, <3>1 DEF Progress
  <2>6. PICK i \in DOMAIN req[r].docs : i = req[r].at
    BY <2>4
  <2>7. req[r].docs[i].mark = "DELETED" => req[r].docs[i].id \in HiddenIds
    BY DEF HiddenIds, Hides
  <2>5. new.deleted => new.id \in HiddenIds
    BY <2>3, <2>6, <2>7
  <2> QED BY <1>0, <1>1, <2>2, <2>5
<1>4. ASSUME NEW r \in Reqs, Update(r) PROVE rec.id \in HiddenIds'
  <2>1. PICK old \in store : store' = (store \ {old}) \cup {Updated(old, r)} /\ old.id = req[r].docs[1].id
    BY <1>4 DEF Update, Latest, Of
  <2>2. /\ Updated(old, r).id = old.id
        /\ Updated(old, r).deleted => old.deleted \/ req[r].docs[1].mark = "DELETED"
    BY <1>0, <1>4, UpdatedFields
  <2>3. req[r].docs[1].mark = "DELETED" => old.id \in HiddenIds
    <3>2. Progress(r) /\ DOMAIN req[r].docs = 1..Len(req[r].docs) /\ req[r].op = "PUT"
      BY <1>0, <1>4, Own DEF Update
    <3>1. 1 \in DOMAIN req[r].docs
      <4>1. Len(req[r].docs) = 1
        BY <3>2 DEF Progress
      <4> QED BY <3>2, <4>1
    <3> QED BY <2>1, <3>1 DEF HiddenIds, Hides
  <2> QED BY <1>0, <1>1, <2>1, <2>2, <2>3
<1>5. ASSUME NEW r \in Reqs, Mark(r) PROVE rec.id \in HiddenIds'
  <2>1. PICK old \in Unmarked(r) : store' = (store \ {old}) \cup {MarkedRecord(old)}
    BY <1>5 DEF Mark
  <2>2. old \in store /\ old.key \in req[r].todo
    BY DEF Unmarked
  <2>3. MarkedRecord(old).id = old.id
    BY DEF MarkedRecord
  <2>4. req[r].op = "DELETE"
    BY <1>5 DEF Mark
  <2>5. old.id = req[r].docs[1].id /\ 1 \in DOMAIN req[r].docs
    BY <2>2, <2>4, <1>0, Own DEF ReadInv, VersionInv, KeyShape
  <2>6. old.id \in HiddenIds
    BY <2>4, <2>5 DEF HiddenIds, Hides
  <2> QED BY <1>0, <1>1, <2>1, <2>3, <2>6
<1> QED BY <1>1, <1>2, <1>3, <1>4, <1>5, StoreChanges

\* The last database operation of a GET finds a node that is known and that nobody hides.
LEMMA FoundWhenKnown ==
  ASSUME ReadInv, NEW r \in Reqs, req[r].op = "GET", Count(r) \/ Find(r),
         req'[r].pc = "done", req[r].docs[1].id \in req[r].acked \ HiddenIds
  PROVE  req'[r].body # {}
<1>0. TypeOK /\ Bounded
  BY Own DEF ReadInv, VersionInv
<1>1. PICK rec \in store : rec.id = req[r].docs[1].id
  BY DEF ReadInv, Known
<1>2. ~rec.deleted
  BY <1>1 DEF ReadInv
<1>3. Matching(r) # {}
  BY <1>1, <1>2 DEF Matching, Visible
<1> QED BY <1>0, <1>3, CountFrame, FindFrame

LEMMA NextReadInv == ReadInv /\ [Next]_vars => ReadInv'
<1> SUFFICES ASSUME ReadInv, [Next]_vars PROVE ReadInv'
  OBVIOUS
<1>1. VersionInv /\ WriteInv /\ TypeOK /\ VersionInv'
  BY NextVersionInv DEF ReadInv, VersionInv, WriteInv
<1>2. \A id : Known(id) => Known(id)'
  BY <1>1, KnownStays
<1>3. \A rec \in store' : rec.deleted => rec.id \in HiddenIds'
  BY MarkedIsHidden
<1>4. ASSUME NEW r \in Reqs
      PROVE  /\ \A i \in DOMAIN req'[r].docs : <<r, i>> \in written' =>
                  \A id : id = req'[r].docs[i].id => Known(id)'
             /\ \A id \in req'[r].acked : Known(id)'
             /\ req'[r].op = "none" => req'[r].docs = <<>>
             /\ req'[r].op = "DELETE" => /\ Len(req'[r].docs) = 1
                                         /\ \A k \in req'[r].todo : k[1] = req'[r].docs[1].id
             /\ /\ req'[r].op = "GET" /\ req'[r].pc = "done"
                /\ req'[r].docs[1].id \in req'[r].acked \ HiddenIds'
                => req'[r].body # {}
  <2>1. /\ \A i \in DOMAIN req[r].docs : <<r, i>> \in written => Known(req[r].docs[i].id)
        /\ \A id \in req[r].acked : Known(id)
        /\ req[r].op = "none" => req[r].docs = <<>>
        /\ req[r].op = "DELETE" => /\ Len(req[r].docs) = 1
                                   /\ \A k \in req[r].todo : k[1] = req[r].docs[1].id
        /\ /\ req[r].op = "GET" /\ req[r].pc = "done"
           /\ req[r].docs[1].id \in req[r].acked \ HiddenIds
           => req[r].body # {}
    BY DEF ReadInv, AckedIsReadable
  <2>2. HiddenIds \subseteq HiddenIds'
    BY <1>1, HiddenStays DEF ReadInv
  <2>3. CASE /\ req'[r].docs = req[r].docs /\ req'[r].acked = req[r].acked /\ req'[r].op = req[r].op
             /\ req'[r].todo = req[r].todo /\ req'[r].body = req[r].body
             /\ req'[r].pc = "done" => req[r].pc = "done"
    <3>1. \A i \in DOMAIN req[r].docs : <<r, i>> \in written' =>
            \A id : id = req[r].docs[i].id => Known(id)'
      <4>1. ASSUME NEW i \in DOMAIN req[r].docs, <<r, i>> \in written', NEW id, id = req[r].docs[i].id
            PROVE  Known(id)'
        <5>1. CASE <<r, i>> \in written
          BY <1>2, <2>1, <4>1, <5>1
        <5>2. CASE <<r, i>> \notin written
          BY <1>1, <4>1, <5>2, NewWriteIsOwn, WrittenIsKnown
        <5> QED BY <5>1, <5>2
      <4> QED BY <4>1
    <3> QED BY <1>2, <2>1, <2>2, <2>3, <3>1
  <2>4. CASE Arrive(r)
    <3>1. PICK op \in Operations, pc \in {"shards", "scan", "count"}, docs \in Seq(Doc) :
            Begin(r, op, pc, docs) /\ op # "none" /\ (op = "DELETE" => Len(docs) = 1)
      BY <1>1, <2>4, ArriveIsBegin
    <3>2. req'[r] = NewRequest(op, pc, docs, AckedIds, GoneKeys) /\ req[r].pc = "idle" /\ written' = written
      BY <1>1, <3>1, BeginRequest
    <3>3. req'[r].todo = {} /\ req'[r].acked = AckedIds /\ req'[r].pc \in {"shards", "scan", "count"}
          /\ req'[r].docs = docs /\ req'[r].op = op
      BY <3>2 DEF NewRequest
    <3>4. \A i \in DOMAIN docs : <<r, i>> \notin written
      <4>1. \A i \in Nat : <<r, i>> \notin written
        BY <1>1, <3>2, Own DEF Progress
      <4>2. DOMAIN docs \subseteq Nat
        BY LenProperties
      <4> QED BY <4>1, <4>2
    <3>5. \A id \in AckedIds : Known(id)
      <4>1. ASSUME NEW p \in Reqs, req[p].status = 201, NEW i \in DOMAIN req[p].docs
            PROVE  Known(req[p].docs[i].id)
        <5>1. req[p].op = "POST" /\ Complete(p)
          BY <1>1, <4>1, Own DEF Progress
        <5>2. <<p, i>> \in written
          BY <4>1, <5>1 DEF Complete
        <5> QED BY <5>2 DEF ReadInv
      <4> QED BY <4>1 DEF AckedIds
    <3> QED BY <1>2, <3>1, <3>2, <3>3, <3>4, <3>5
  <2>5. CASE Step(r) /\ Frame(r)
    <3>1. /\ req'[r].docs = req[r].docs /\ req'[r].acked = req[r].acked /\ req'[r].op = req[r].op
      BY <2>5 DEF Frame
    <3>2. \A i \in DOMAIN req[r].docs : <<r, i>> \in written' =>
            \A id : id = req[r].docs[i].id => Known(id)'
      <4>1. ASSUME NEW i \in DOMAIN req[r].docs, <<r, i>> \in written', NEW id, id = req[r].docs[i].id
            PROVE  Known(id)'
        <5>1. CASE <<r, i>> \in written
          BY <1>2, <2>1, <4>1, <5>1
        <5>2. CASE <<r, i>> \notin written
          BY <1>1, <4>1, <5>2, NewWriteIsOwn, WrittenIsKnown
        <5> QED BY <5>1, <5>2
      <4> QED BY <4>1
    <3>3. req'[r].op = "DELETE" => /\ Len(req'[r].docs) = 1
                                   /\ \A k \in req'[r].todo : k[1] = req'[r].docs[1].id
      <4>1. CASE req'[r].todo = req[r].todo
        BY <2>1, <3>1, <4>1
      <4>2. CASE Scan(r)
        <5>1. \A k \in req'[r].todo : k[1] = req[r].docs[1].id
          BY <1>1, <4>2, ScanFrame DEF Of, VersionInv, KeyShape
        <5> QED BY <2>1, <3>1, <5>1
      <4> QED BY <1>1, <2>5, <4>1, <4>2, StepAnswers
    <3>4. ASSUME req'[r].op = "GET", req'[r].pc = "done",
                 req'[r].docs[1].id \in req'[r].acked \ HiddenIds'
          PROVE  req'[r].body # {}
      <4>1. Count(r) \/ Find(r)
        BY <1>1, <2>5, <3>1, <3>4, StepAnswers
      <4>2. req[r].docs[1].id \in req[r].acked \ HiddenIds
        BY <2>2, <3>1, <3>4
      <4> QED BY <3>1, <3>4, <4>1, <4>2, FoundWhenKnown
    <3> QED BY <1>2, <2>1, <3>1, <3>2, <3>3, <3>4
  <2>6. CASE Crash
    <3>1. /\ req'[r].docs = req[r].docs /\ req'[r].acked = req[r].acked /\ req'[r].op = req[r].op
          /\ req'[r].todo = req[r].todo /\ req'[r].body = req[r].body
          /\ req'[r].pc = "done" => req[r].pc = "done"
      BY <1>1, <2>6, CrashFrame
    <3> QED BY <2>3, <3>1
  <2> QED BY <1>1, <2>3, <2>4, <2>5, <2>6, RequestChanges
<1>5. (\A r \in Reqs : \A i \in DOMAIN req[r].docs : <<r, i>> \in written => Known(req[r].docs[i].id))'
  BY <1>4 DEF Known
<1>6. (\A r \in Reqs : \A id \in req[r].acked : Known(id))'
  BY <1>4 DEF Known
<1>7. AckedIsReadable'
  BY <1>4 DEF AckedIsReadable
<1>8. (\A r \in Reqs : req[r].op = "DELETE" => /\ Len(req[r].docs) = 1
                                               /\ \A k \in req[r].todo : k[1] = req[r].docs[1].id)'
  BY <1>4
<1>9. (\A r \in Reqs : req[r].op = "none" => req[r].docs = <<>>)'
  BY <1>4
<1> QED BY <1>1, <1>3, <1>5, <1>6, <1>7, <1>8, <1>9 DEF ReadInv

LEMMA InitReadInv == Init => ReadInv
<1> SUFFICES ASSUME Init PROVE ReadInv
  OBVIOUS
<1>1. \A r \in Reqs : req[r].op = "none" /\ req[r].acked = {} /\ req[r].docs = <<>>
  BY DEF Init, NoRequest, NewRequest
<1> QED BY <1>1, InitVersionInv DEF Init, ReadInv, AckedIsReadable

\* A GET of an id whose POST was acknowledged before it was sent finds a node, with and without
\* history, unless somebody deletes the id or writes a document of it with that status.
THEOREM AcknowledgedIsReadable == Spec => []AckedIsReadable
<1>1. ReadInv => AckedIsReadable
  BY DEF ReadInv
<1> QED BY <1>1, InitReadInv, NextReadInv, PTL DEF Spec
=============================================================================
