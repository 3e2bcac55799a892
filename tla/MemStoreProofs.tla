--------------------------- MODULE MemStoreProofs ---------------------------
(***************************************************************************)
(* What the snapshot files of the in-memory engine hold, for any           *)
(* collections, any number of documents, updates and crashes.              *)
(***************************************************************************)
EXTENDS MemStore, FiniteSetTheorems, SequenceTheorems, TLAPS

Sleeper == [pc: {"sleep", "next", "doc", "key", "dead"}, col: Cols \cup {"none"}, todo: Seq(Cols),
            size: Nat, at: Nat, begun: Document \cup {0}]

Typed ==
  /\ up \in {"up", "down", "failed"}
  /\ names \in Seq(Cols) /\ born \in Nat
  /\ docs \in [Cols -> Seq(Document)]
  /\ task \in [col: Cols \cup {"none"}, todo: SUBSET Nat, at: Nat]
  /\ snap \in Sleeper
  /\ disk \in [Cols -> [state: {"none", "partial", "complete"}, docs: Seq(Dumped)]]
  /\ saved \in [Cols -> SUBSET Nat]
  /\ up # "up" => task = NoTask /\ snap = Asleep

\* The update in progress is about documents that are there.
Updating ==
  /\ task.todo # {} => task.col \in Cols /\ task.todo \subseteq DOMAIN docs[task.col]
  /\ task.at # 0 => task.at \in task.todo

\* While the thread holds the lock of a collection, the file has the documents before the one it
\* is at, and at most one update, fetched before the lock was taken, gets at the one in between.
Dumping ==
  /\ snap.pc \in {"doc", "key"} =>
       /\ snap.col \in Cols /\ snap.at >= 1 /\ snap.todo # <<>>
       /\ disk[snap.col].state = "partial" /\ Len(disk[snap.col].docs) = snap.at - 1
  /\ snap.pc = "key" =>
       /\ snap.at <= Len(docs[snap.col]) /\ snap.begun \in Document
       /\ snap.begun.n = docs[snap.col][snap.at].n
       /\ \/ docs[snap.col][snap.at].ver = snap.begun.ver
          \/ /\ docs[snap.col][snap.at].ver = snap.begun.ver + 1
             /\ ~ (task.at # 0 /\ task.col = snap.col)

\* A file, finished or not, holds the front of its collection, in versions that are not newer.
Front(file, coll) ==
  /\ Len(file) <= Len(coll)
  /\ \A i \in DOMAIN file : file[i].n = coll[i].n /\ file[i].tail <= coll[i].ver

Torn(file) == \A i \in DOMAIN file : file[i].tail - file[i].head \in {0, 1}

FrontInv == \A c \in Cols : Torn(disk[c].docs) /\ (up = "up" => Front(disk[c].docs, docs[c]))

\* What was in a finished file is in it as long as it is finished, and in the collection.
SavedInv ==
  \A c \in Cols :
    /\ disk[c].state = "none" => disk[c].docs = <<>> /\ saved[c] = {}
    /\ disk[c].state = "complete" => saved[c] = Numbers(disk[c].docs)
    /\ up = "up" => saved[c] \subseteq Numbers(docs[c])

-----------------------------------------------------------------------------
(* Lists of documents                                                      *)

LEMMA OrdersAreLists ==
  ASSUME NEW S \in SUBSET Cols, NEW seq \in Orders(S)
  PROVE  seq \in Seq(Cols)
<1>1. Cardinality(S) \in Nat
  BY ConstantsAssumption, FS_Subset, FS_CardinalityType
<1>2. seq \in [1..Cardinality(S) -> Cols]
  BY DEF Orders
<1> QED BY <1>1, <1>2, SeqDef

\* A collection that got a document, or a document of which was changed, has the same front.
Succeeds(new, old) ==
  /\ Len(new) >= Len(old)
  /\ \A i \in DOMAIN old : new[i].n = old[i].n /\ new[i].ver >= old[i].ver

LEMMA FrontStays ==
  ASSUME NEW file \in Seq(Dumped), NEW old \in Seq(Document), NEW new \in Seq(Document),
         Front(file, old), Succeeds(new, old)
  PROVE  Front(file, new)
<1>1. /\ Len(file) \in Nat /\ DOMAIN file = 1..Len(file)
      /\ Len(old) \in Nat /\ DOMAIN old = 1..Len(old)
      /\ Len(new) \in Nat /\ DOMAIN new = 1..Len(new)
  BY LenProperties
<1>2. Len(file) <= Len(old) /\ Len(old) <= Len(new)
  BY <1>1 DEF Front, Succeeds
<1>3. ASSUME NEW i \in DOMAIN file PROVE file[i].n = new[i].n /\ file[i].tail <= new[i].ver
  <2>1. i \in DOMAIN old /\ i \in DOMAIN new
    BY <1>1, <1>2
  <2>2. file[i] \in Dumped /\ old[i] \in Document /\ new[i] \in Document
    BY <2>1, ElementOfSeq, <1>1
  <2>3. file[i].tail \in Nat /\ old[i].ver \in Nat /\ new[i].ver \in Nat
    BY <2>2 DEF Dumped, Document
  <2>4. file[i].n = old[i].n /\ file[i].tail <= old[i].ver
    BY DEF Front
  <2>5. new[i].n = old[i].n /\ new[i].ver >= old[i].ver
    BY <2>1 DEF Succeeds
  <2> QED BY <2>3, <2>4, <2>5
<1> QED BY <1>1, <1>2, <1>3 DEF Front

LEMMA NumbersStay ==
  ASSUME NEW old \in Seq(Document), NEW new \in Seq(Document), Succeeds(new, old)
  PROVE  Numbers(old) \subseteq Numbers(new)
<1>1. /\ Len(old) \in Nat /\ DOMAIN old = 1..Len(old)
      /\ Len(new) \in Nat /\ DOMAIN new = 1..Len(new)
  BY LenProperties
<1>2. \A i \in DOMAIN old : i \in DOMAIN new /\ new[i].n = old[i].n
  BY <1>1 DEF Succeeds
<1> QED BY <1>2 DEF Numbers

LEMMA FrontNumbers ==
  ASSUME NEW file \in Seq(Dumped), NEW coll \in Seq(Document), Front(file, coll)
  PROVE  Numbers(file) \subseteq Numbers(coll) /\ Numbers(file) \subseteq Nat
<1>1. /\ Len(file) \in Nat /\ DOMAIN file = 1..Len(file)
      /\ Len(coll) \in Nat /\ DOMAIN coll = 1..Len(coll)
  BY LenProperties
<1>2. \A i \in DOMAIN file : i \in DOMAIN coll /\ coll[i].n = file[i].n
  BY <1>1 DEF Front
<1>3. \A i \in DOMAIN file : file[i] \in Dumped
  BY <1>1, ElementOfSeq
<1>4. \A i \in DOMAIN file : file[i].n \in Nat
  BY <1>3 DEF Dumped
<1> QED BY <1>2, <1>4 DEF Numbers

\* A server that starts serves exactly the documents of its files.
LEMMA LoadedIs ==
  ASSUME NEW file \in Seq(Dumped)
  PROVE  /\ Loaded(file) \in Seq(Document)
         /\ Front(file, Loaded(file)) /\ Numbers(Loaded(file)) = Numbers(file)
         /\ file = <<>> => Loaded(file) = <<>>
<1>1. Len(file) \in Nat /\ DOMAIN file = 1..Len(file)
  BY LenProperties
<1>2. \A i \in DOMAIN file : file[i] \in Dumped
  BY <1>1, ElementOfSeq
<1>3. PICK coll : coll = Loaded(file)
  OBVIOUS
<1>4. /\ DOMAIN coll = 1..Len(file)
      /\ \A i \in DOMAIN file : coll[i] = [n |-> file[i].n, ver |-> file[i].tail, size |-> file[i].size]
  BY <1>1, <1>3 DEF Loaded
<1>5. coll \in [1..Len(file) -> Document]
  BY <1>1, <1>2, <1>3 DEF Loaded, Document, Dumped
<1>6. coll \in Seq(Document) /\ Len(coll) = Len(file)
  BY <1>1, <1>4, <1>5, SeqDef, LenProperties
<1>7. \A i \in DOMAIN file : file[i].tail \in Nat
  BY <1>2 DEF Dumped
<1>8. Front(file, coll)
  BY <1>1, <1>4, <1>6, <1>7 DEF Front
<1>9. Numbers(coll) = Numbers(file)
  BY <1>1, <1>4 DEF Numbers
<1>10. file = <<>> => coll = <<>>
  BY <1>1, <1>4, <1>6
<1> QED BY <1>3, <1>6, <1>8, <1>9, <1>10

-----------------------------------------------------------------------------
(* What the event loop does to a collection                                *)

LEMMA SameSucceeds ==
  ASSUME NEW coll \in Seq(Document)
  PROVE  Succeeds(coll, coll)
<1>1. Len(coll) \in Nat /\ DOMAIN coll = 1..Len(coll) /\ \A i \in DOMAIN coll : coll[i] \in Document
  BY LenProperties, ElementOfSeq
<1>2. \A i \in DOMAIN coll : coll[i].ver \in Nat
  BY <1>1 DEF Document
<1> QED BY <1>1, <1>2 DEF Succeeds

LEMMA InsertIs ==
  ASSUME Typed, NEW c \in Cols, Insert(c)
  PROVE  /\ docs' \in [Cols -> Seq(Document)]
         /\ \A d \in Cols : /\ Succeeds(docs'[d], docs[d])
                            /\ \A i \in DOMAIN docs[d] : docs'[d][i] = docs[d][i]
<1>1. PICK doc : doc = [n |-> born + 1, ver |-> 0, size |-> 1]
  OBVIOUS
<1>2. doc \in Document
  BY <1>1 DEF Document, Typed
<1>3. PICK coll \in Seq(Document) : coll = docs[c]
  BY DEF Typed
<1>4. docs' = [docs EXCEPT ![c] = Append(coll, doc)]
  BY <1>1, <1>3 DEF Insert
<1>5. PICK longer : longer = Append(coll, doc)
  OBVIOUS
<1>6. /\ longer \in Seq(Document) /\ Len(longer) = Len(coll) + 1
      /\ \A i \in 1..Len(coll) : longer[i] = coll[i]
      /\ Len(coll) \in Nat /\ DOMAIN coll = 1..Len(coll)
  BY <1>2, <1>5, AppendProperties, LenProperties
<1>7. Succeeds(coll, coll)
  BY SameSucceeds
<1>8. Succeeds(longer, coll)
  BY <1>6, <1>7 DEF Succeeds
<1>9. \A d \in Cols : d # c => docs'[d] = docs[d] /\ Succeeds(docs[d], docs[d])
  BY <1>4, SameSucceeds DEF Typed
<1>10. docs'[c] = longer
  BY <1>4, <1>5 DEF Typed
<1>11. docs' \in [Cols -> Seq(Document)]
  BY <1>4, <1>5, <1>6 DEF Typed
<1> QED BY <1>3, <1>6, <1>8, <1>9, <1>10, <1>11

\* An update raises the version of one document.
LEMMA ApplyIs ==
  ASSUME Typed, Updating, Apply
  PROVE  /\ task.col \in Cols /\ task.at # 0 /\ task.at \in DOMAIN docs[task.col]
         /\ docs' \in [Cols -> Seq(Document)]
         /\ \A d \in Cols : /\ Succeeds(docs'[d], docs[d]) /\ DOMAIN docs'[d] = DOMAIN docs[d]
                            /\ \A i \in DOMAIN docs[d] :
                                 IF d = task.col /\ i = task.at
                                 THEN docs'[d][i].n = docs[d][i].n /\ docs'[d][i].ver = docs[d][i].ver + 1
                                 ELSE docs'[d][i] = docs[d][i]
<1>1. task.at # 0 /\ task.col \in Cols /\ task.at \in DOMAIN docs[task.col]
  BY DEF Apply, Updating
<1>2. PICK coll \in Seq(Document) : coll = docs[task.col]
  BY <1>1 DEF Typed
<1>3. /\ Len(coll) \in Nat /\ DOMAIN coll = 1..Len(coll)
      /\ \A i \in DOMAIN coll : coll[i] \in Document
  BY LenProperties, ElementOfSeq
<1>4. PICK more \in {0, 1} : docs' = [docs EXCEPT ![task.col][task.at] =
                               [n |-> coll[task.at].n, ver |-> coll[task.at].ver + 1, size |-> coll[task.at].size + more]]
  BY <1>2 DEF Apply
<1>5. PICK doc : doc = [n |-> coll[task.at].n, ver |-> coll[task.at].ver + 1, size |-> coll[task.at].size + more]
  OBVIOUS
<1>6. coll[task.at] \in Document
  BY <1>1, <1>2, <1>3
<1>7. doc \in Document /\ doc.n = coll[task.at].n /\ doc.ver = coll[task.at].ver + 1
  <2>1. PICK old \in Document : old = coll[task.at]
    BY <1>6
  <2>2. doc = [n |-> old.n, ver |-> old.ver + 1, size |-> old.size + more]
    BY <1>5, <2>1
  <2>3. old.n \in Nat /\ old.ver + 1 \in Nat /\ old.size + more \in Nat
    BY DEF Document
  <2> QED BY <2>1, <2>2, <2>3 DEF Document
<1>8. PICK new : new = [coll EXCEPT ![task.at] = doc]
  OBVIOUS
<1>9. /\ DOMAIN new = DOMAIN coll
      /\ \A i \in DOMAIN coll : new[i] = IF i = task.at THEN doc ELSE coll[i]
  BY <1>8
<1>10. new \in Seq(Document) /\ Len(new) = Len(coll)
  BY <1>1, <1>2, <1>7, <1>8, ExceptSeq
<1>11. docs' = [docs EXCEPT ![task.col] = new]
  BY <1>2, <1>4, <1>5, <1>8
<1>12. \A i \in DOMAIN coll : coll[i].ver \in Nat
  BY <1>3 DEF Document
<1>13. Succeeds(new, coll)
  BY <1>3, <1>7, <1>9, <1>10, <1>12 DEF Succeeds
<1>14. \A d \in Cols : d # task.col => docs'[d] = docs[d] /\ Succeeds(docs[d], docs[d])
  BY <1>11, SameSucceeds DEF Typed
<1>15. docs'[task.col] = new /\ docs' \in [Cols -> Seq(Document)]
  BY <1>1, <1>10, <1>11 DEF Typed
<1>16. \A i \in DOMAIN coll : IF i = task.at
                              THEN new[i].n = coll[i].n /\ new[i].ver = coll[i].ver + 1
                              ELSE new[i] = coll[i]
  BY <1>7, <1>9
<1>17. ASSUME NEW d \in Cols
       PROVE  /\ Succeeds(docs'[d], docs[d]) /\ DOMAIN docs'[d] = DOMAIN docs[d]
              /\ \A i \in DOMAIN docs[d] :
                   IF d = task.col /\ i = task.at
                   THEN docs'[d][i].n = docs[d][i].n /\ docs'[d][i].ver = docs[d][i].ver + 1
                   ELSE docs'[d][i] = docs[d][i]
  <2>1. CASE d # task.col
    BY <1>14, <2>1
  <2>2. CASE d = task.col
    BY <1>2, <1>9, <1>13, <1>15, <1>16, <2>2
  <2> QED BY <2>1, <2>2
<1> QED BY <1>1, <1>15, <1>17

LEMMA DumpedNumbers ==
  ASSUME NEW file \in Seq(Dumped)
  PROVE  Numbers(file) \subseteq Nat
<1>1. \A i \in DOMAIN file : file[i] \in Dumped
  BY LenProperties, ElementOfSeq
<1>2. \A i \in DOMAIN file : file[i].n \in Nat
  BY <1>1 DEF Dumped
<1> QED BY <1>2 DEF Numbers

\* What is dumped mixes the version that the dump of the document began with and the present one.
LEMMA MixtureIs ==
  ASSUME Typed, Dumping, snap.pc = "key", NEW dumped \in Mixtures(snap.begun, docs[snap.col][snap.at])
  PROVE  /\ dumped \in Dumped
         /\ dumped.n = docs[snap.col][snap.at].n
         /\ dumped.tail - dumped.head \in {0, 1}
         /\ dumped.tail <= docs[snap.col][snap.at].ver
<1>1. /\ snap.col \in Cols /\ snap.at >= 1 /\ snap.at <= Len(docs[snap.col]) /\ snap.begun \in Document
      /\ snap.begun.n = docs[snap.col][snap.at].n
      /\ \/ docs[snap.col][snap.at].ver = snap.begun.ver
         \/ docs[snap.col][snap.at].ver = snap.begun.ver + 1
  BY DEF Dumping
<1>2. docs[snap.col] \in Seq(Document) /\ snap.at \in Nat
  BY <1>1 DEF Typed, Sleeper
<1>3. PICK old \in Document : old = snap.begun
  BY <1>1
<1>4. PICK new \in Document : new = docs[snap.col][snap.at]
  BY <1>1, <1>2, ElementOfSeq, LenProperties
<1>5. PICK v \in {<<old.ver, old.ver>>, <<old.ver, new.ver>>, <<new.ver, new.ver>>} :
        dumped = [n |-> old.n, head |-> v[1], tail |-> v[2], size |-> old.size]
  BY <1>3, <1>4 DEF Mixtures
<1>6. old.n = new.n /\ (new.ver = old.ver \/ new.ver = old.ver + 1)
  BY <1>1, <1>3, <1>4
<1>7. /\ old.n \in Nat /\ old.size \in Nat /\ old.ver \in Nat /\ new.ver \in Nat
  BY DEF Document
<1>8. /\ v[1] \in Nat /\ v[2] \in Nat /\ v[2] - v[1] \in {0, 1} /\ v[2] <= new.ver
  BY <1>6, <1>7
<1>9. dumped \in Dumped
  BY <1>5, <1>7, <1>8 DEF Dumped
<1> QED BY <1>4, <1>5, <1>6, <1>8, <1>9

\* As long as the server is up every collection keeps what it has.
LEMMA DocsGrow ==
  ASSUME Typed, Updating, [Next]_vars, up = "up", ~ Crash
  PROVE  /\ docs' \in [Cols -> Seq(Document)]
         /\ \A c \in Cols : Succeeds(docs'[c], docs[c])
<1>0. docs \in [Cols -> Seq(Document)] /\ \A c \in Cols : Succeeds(docs[c], docs[c])
  BY SameSucceeds DEF Typed
<1>1. ASSUME NEW c \in Cols, Create(c) \/ BeginUpdate(c) PROVE docs' = docs
  BY <1>1 DEF Create, BeginUpdate
<1>2. Fetch \/ UNCHANGED vars => docs' = docs
  BY DEF Fetch, vars
<1>3. Snapshot => docs' = docs
  BY DEF Snapshot, Wake, LoopFails, LoopEnds, Open, BeginDoc, DumpFails, EndDoc, Close
<1>4. ~ Restart /\ ~ RestartFails
  BY DEF Restart, RestartFails
<1> QED BY <1>0, <1>1, <1>2, <1>3, <1>4, InsertIs, ApplyIs DEF Next

\* The files change in three places: a file is emptied, gets a document, is finished.
LEMMA DiskChanges ==
  ASSUME Typed, [Next]_vars
  PROVE  UNCHANGED <<disk, saved>> \/ Open \/ EndDoc \/ Close
<1>1. ASSUME NEW c \in Cols, Create(c) \/ Insert(c) \/ BeginUpdate(c) PROVE UNCHANGED <<disk, saved>>
  BY <1>1 DEF Create, Insert, BeginUpdate
<1>2. Fetch \/ Apply \/ Crash \/ Restart \/ RestartFails \/ UNCHANGED vars => UNCHANGED <<disk, saved>>
  BY DEF Fetch, Apply, Crash, Restart, RestartFails, vars
<1>3. Wake \/ LoopFails \/ LoopEnds \/ BeginDoc \/ DumpFails => UNCHANGED <<disk, saved>>
  BY DEF Wake, LoopFails, LoopEnds, BeginDoc, DumpFails
<1> QED BY <1>1, <1>2, <1>3 DEF Next, Snapshot

-----------------------------------------------------------------------------
(* Types                                                                   *)

LEMMA SnapTyped ==
  ASSUME Typed, Dumping, Snapshot
  PROVE  snap' \in Sleeper
<1>0. snap \in Sleeper
  BY DEF Typed
<1>1. Asleep \in Sleeper /\ [Asleep EXCEPT !.pc = "dead"] \in Sleeper
  BY EmptySeq DEF Asleep, Sleeper
<1>2. CASE Wake
  <2>1. names \in Seq(Cols) /\ Len(names) \in Nat
    BY LenProperties DEF Typed
  <2> QED BY <1>0, <1>2, <2>1 DEF Wake, Sleeper
<1>3. CASE LoopFails \/ LoopEnds \/ DumpFails
  BY <1>1, <1>3 DEF LoopFails, LoopEnds, DumpFails
<1>4. CASE Open
  <2>1. Head(snap.todo) \in Cols
    BY <1>0, <1>4, HeadTailProperties DEF Open, Sleeper
  <2> QED BY <1>0, <1>4, <2>1 DEF Open, Sleeper
<1>5. CASE BeginDoc
  <2>1. snap.col \in Cols /\ snap.at >= 1 /\ snap.at \in Nat /\ snap.at <= Len(docs[snap.col])
    BY <1>0, <1>5 DEF BeginDoc, Dumping, Sleeper
  <2>2. docs[snap.col] \in Seq(Document)
    BY <2>1 DEF Typed
  <2>3. docs[snap.col][snap.at] \in Document
    BY <2>1, <2>2, ElementOfSeq, LenProperties
  <2> QED BY <1>0, <1>5, <2>3 DEF BeginDoc, Sleeper
<1>6. CASE EndDoc
  <2>1. snap' = [snap EXCEPT !.pc = "doc", !.at = @ + 1, !.begun = 0]
    BY <1>6 DEF EndDoc
  <2>2. PICK next \in Nat : next = snap.at + 1
    BY <1>0 DEF Sleeper
  <2>3. snap' = [snap EXCEPT !.pc = "doc", !.at = next, !.begun = 0]
    BY <2>1, <2>2
  <2> QED BY <1>0, <2>3 DEF Sleeper
<1>7. CASE Close
  <2>1. Tail(snap.todo) \in Seq(Cols)
    BY <1>0, <1>7, HeadTailProperties DEF Close, Dumping, Sleeper
  <2>2. snap' = [snap EXCEPT !.pc = "next", !.col = "none", !.at = 0, !.todo = Tail(@)]
    BY <1>7 DEF Close
  <2> QED BY <1>0, <2>1, <2>2 DEF Sleeper
<1> QED BY <1>2, <1>3, <1>4, <1>5, <1>6, <1>7 DEF Snapshot

LEMMA DiskTyped ==
  ASSUME Typed, Dumping, [Next]_vars
  PROVE  /\ disk' \in [Cols -> [state: {"none", "partial", "complete"}, docs: Seq(Dumped)]]
         /\ saved' \in [Cols -> SUBSET Nat]
<1>0. /\ disk \in [Cols -> [state: {"none", "partial", "complete"}, docs: Seq(Dumped)]]
      /\ saved \in [Cols -> SUBSET Nat]
  BY DEF Typed
<1>1. CASE Open
  <2>1. [state |-> "partial", docs |-> <<>>] \in [state: {"none", "partial", "complete"}, docs: Seq(Dumped)]
    BY EmptySeq
  <2> QED BY <1>0, <1>1, <2>1 DEF Open
<1>2. CASE EndDoc
  <2>1. PICK dumped \in Mixtures(snap.begun, docs[snap.col][snap.at]) :
          disk' = [disk EXCEPT ![snap.col].docs = Append(@, dumped)]
    BY <1>2 DEF EndDoc
  <2>2. dumped \in Dumped
    BY <1>2, MixtureIs DEF EndDoc
  <2>3. snap.col \in Cols
    BY <1>2 DEF EndDoc, Dumping
  <2>4. PICK longer \in Seq(Dumped) : longer = Append(disk[snap.col].docs, dumped)
    BY <1>0, <2>2, <2>3, AppendProperties
  <2>5. disk' = [disk EXCEPT ![snap.col].docs = longer]
    BY <2>1, <2>4
  <2>6. saved' = saved
    BY <1>2 DEF EndDoc
  <2> QED BY <1>0, <2>3, <2>5, <2>6
<1>3. CASE Close
  <2>1. snap.col \in Cols
    BY <1>3 DEF Close, Dumping
  <2>2. disk[snap.col].docs \in Seq(Dumped)
    BY <1>0, <2>1
  <2>3. Numbers(disk[snap.col].docs) \subseteq Nat
    BY <2>2, DumpedNumbers
  <2> QED BY <1>0, <1>3, <2>1, <2>3 DEF Close
<1> QED BY <1>0, <1>1, <1>2, <1>3, DiskChanges

LEMMA TypedInit ==
  ASSUME Init
  PROVE  Typed
<1>1. names \in Seq(Cols)
  BY OrdersAreLists, ConstantsAssumption DEF Init
<1>2. Asleep \in Sleeper /\ <<>> \in Seq(Cols)
  BY EmptySeq DEF Asleep, Sleeper
<1>3. docs \in [Cols -> Seq(Document)]
  BY EmptySeq DEF Init
<1>4. NoFile \in [state: {"none", "partial", "complete"}, docs: Seq(Dumped)]
  BY EmptySeq DEF NoFile
<1>5. NoTask \in [col: Cols \cup {"none"}, todo: SUBSET Nat, at: Nat]
  BY DEF NoTask
<1> QED BY <1>1, <1>2, <1>3, <1>4, <1>5 DEF Init, Typed

LEMMA RestartIs ==
  ASSUME Typed, Restart
  PROVE  /\ docs' \in [Cols -> Seq(Document)] /\ names' \in Seq(Cols)
         /\ \A c \in Cols : docs'[c] = Loaded(disk[c].docs)
<1>1. Files \cup Startup \in SUBSET Cols
  BY ConstantsAssumption DEF Files
<1>2. names' \in Seq(Cols)
  BY <1>1, OrdersAreLists DEF Restart
<1>3. docs' = [c \in Cols |-> Loaded(disk[c].docs)]
  BY DEF Restart
<1>4. \A c \in Cols : Loaded(disk[c].docs) \in Seq(Document)
  BY LoadedIs DEF Typed
<1> QED BY <1>2, <1>3, <1>4

LEMMA TaskTyped ==
  ASSUME Typed, [Next]_vars
  PROVE  task' \in [col: Cols \cup {"none"}, todo: SUBSET Nat, at: Nat]
<1>0. task \in [col: Cols \cup {"none"}, todo: SUBSET Nat, at: Nat]
  BY DEF Typed
<1>1. NoTask \in [col: Cols \cup {"none"}, todo: SUBSET Nat, at: Nat]
  BY DEF NoTask
<1>2. ASSUME NEW c \in Cols, BeginUpdate(c)
      PROVE  task' \in [col: Cols \cup {"none"}, todo: SUBSET Nat, at: Nat]
  <2>1. DOMAIN docs[c] \subseteq Nat
    BY LenProperties DEF Typed
  <2> QED BY <1>2, <2>1 DEF BeginUpdate
<1>3. ASSUME NEW c \in Cols, Create(c) \/ Insert(c) PROVE task' = task
  BY <1>3 DEF Create, Insert
<1>4. CASE Fetch
  BY <1>0, <1>4 DEF Fetch
<1>5. CASE Apply
  <2>1. task' = NoTask \/ task' = [task EXCEPT !.todo = @ \ {task.at}, !.at = 0]
    BY <1>5 DEF Apply
  <2>2. PICK rest \in SUBSET Nat : rest = task.todo \ {task.at}
    BY <1>0
  <2>3. CASE task' = NoTask
    BY <1>1, <2>3
  <2>4. CASE task' = [task EXCEPT !.todo = rest, !.at = 0]
    BY <1>0, <2>4
  <2> QED BY <2>1, <2>2, <2>3, <2>4
<1>6. Snapshot => task' = task
  BY DEF Snapshot, Wake, LoopFails, LoopEnds, Open, BeginDoc, DumpFails, EndDoc, Close
<1>7. Crash \/ Restart \/ RestartFails \/ UNCHANGED vars => task' = task \/ task' = NoTask
  BY DEF Crash, Restart, RestartFails, vars
<1> QED BY <1>0, <1>1, <1>2, <1>3, <1>4, <1>5, <1>6, <1>7 DEF Next

LEMMA TypedStep ==
  ASSUME Typed, Updating, Dumping, [Next]_vars
  PROVE  Typed'
<1> DEFINE Rest == /\ up' \in {"up", "down", "failed"}
                   /\ names' \in Seq(Cols) /\ born' \in Nat
                   /\ docs' \in [Cols -> Seq(Document)]
                   /\ snap' \in Sleeper
                   /\ up' # "up" => task' = NoTask /\ snap' = Asleep
<1>0. /\ disk' \in [Cols -> [state: {"none", "partial", "complete"}, docs: Seq(Dumped)]]
      /\ saved' \in [Cols -> SUBSET Nat]
      /\ task' \in [col: Cols \cup {"none"}, todo: SUBSET Nat, at: Nat]
  BY DiskTyped, TaskTyped
<1> SUFFICES Rest
  BY <1>0 DEF Typed, Sleeper, Document, Dumped
<1>1. up = "up" /\ ~ Crash => docs' \in [Cols -> Seq(Document)]
  BY DocsGrow
<1>2. ASSUME NEW c \in Cols, Create(c) PROVE Rest
  <2>1. Append(names, c) \in Seq(Cols)
    BY AppendProperties DEF Typed
  <2> QED BY <1>2, <2>1 DEF Create, Typed, Idle
<1>3. ASSUME NEW c \in Cols, Insert(c) \/ BeginUpdate(c) PROVE Rest
  <2>1. /\ up = "up" /\ UNCHANGED <<up, names, snap>> /\ born' \in {born, born + 1} /\ ~ Crash
    BY <1>3 DEF Insert, BeginUpdate, Idle, Crash
  <2> QED BY <1>1, <2>1 DEF Typed
<1>4. CASE Fetch \/ Apply
  <2>1. /\ up = "up" /\ UNCHANGED <<up, names, snap, born>> /\ ~ Crash
    BY <1>4 DEF Fetch, Apply, Crash
  <2> QED BY <1>1, <2>1 DEF Typed
<1>5. CASE Snapshot
  <2>1. /\ up = "up" /\ UNCHANGED <<up, names, born, task, docs>>
    BY <1>5 DEF Snapshot, Wake, LoopFails, LoopEnds, Open, BeginDoc, DumpFails, EndDoc, Close
  <2> QED BY <1>5, <2>1, SnapTyped DEF Typed
<1>6. CASE Crash
  <2>1. Asleep \in Sleeper
    BY EmptySeq DEF Asleep, Sleeper
  <2> QED BY <1>6, <2>1, EmptySeq DEF Crash, Typed
<1>7. CASE Restart
  BY <1>7, RestartIs DEF Restart, Typed
<1>8. CASE RestartFails \/ UNCHANGED vars
  BY <1>8 DEF RestartFails, vars, Typed
<1> QED BY <1>2, <1>3, <1>4, <1>5, <1>6, <1>7, <1>8 DEF Next

-----------------------------------------------------------------------------
(* The two threads                                                         *)

LEMMA ThreadsInit ==
  ASSUME Init
  PROVE  Updating /\ Dumping
BY DEF Init, Updating, Dumping, NoTask, Asleep

LEMMA UpdatingStep ==
  ASSUME Typed, Updating, Dumping, [Next]_vars
  PROVE  Updating'
<1>0. NoTask.todo = {} /\ NoTask.at = 0
  BY DEF NoTask
<1>1. ASSUME NEW c \in Cols, BeginUpdate(c) PROVE Updating'
  BY <1>1 DEF BeginUpdate, Updating
<1>2. ASSUME task' = task, docs' = docs PROVE Updating'
  BY <1>2 DEF Updating
<1>3. ASSUME task' = NoTask PROVE Updating'
  BY <1>0, <1>3 DEF Updating
<1>4. ASSUME NEW c \in Cols, Create(c) \/ Insert(c) PROVE Updating'
  BY <1>0, <1>2, <1>4 DEF Create, Insert, Idle, Updating
<1>5. CASE Fetch
  <2>1. PICK i \in task.todo : task' = [task EXCEPT !.at = i]
    BY <1>5 DEF Fetch
  <2>2. task'.at = i /\ task'.todo = task.todo /\ task'.col = task.col /\ docs' = docs
    BY <1>5, <2>1 DEF Fetch, Typed
  <2> QED BY <2>1, <2>2 DEF Updating
<1>6. CASE Apply
  <2>1. CASE task' = NoTask
    BY <1>3, <2>1
  <2>2. CASE task' = [task EXCEPT !.todo = @ \ {task.at}, !.at = 0]
    <3>1. task'.at = 0 /\ task'.todo \subseteq task.todo /\ task'.col = task.col
      BY <2>2 DEF Typed
    <3>2. task.col \in Cols /\ \A d \in Cols : DOMAIN docs'[d] = DOMAIN docs[d]
      BY <1>6, ApplyIs
    <3>3. DOMAIN docs'[task.col] = DOMAIN docs[task.col]
      BY <3>2
    <3> QED BY <3>1, <3>2, <3>3 DEF Updating
  <2> QED BY <1>6, <2>1, <2>2 DEF Apply
<1>7. Snapshot => task' = task /\ docs' = docs
  BY DEF Snapshot, Wake, LoopFails, LoopEnds, Open, BeginDoc, DumpFails, EndDoc, Close
<1>8. Crash \/ Restart => task' = NoTask
  BY DEF Crash, Restart, Typed
<1>9. RestartFails \/ UNCHANGED vars => task' = task /\ docs' = docs
  BY DEF RestartFails, vars
<1> QED BY <1>1, <1>2, <1>3, <1>4, <1>5, <1>6, <1>7, <1>8, <1>9 DEF Next

\* While the thread is at a document the lock keeps the loop from fetching it for an update.
LEMMA DumpingStep ==
  ASSUME Typed, Updating, Dumping, [Next]_vars
  PROVE  Dumping'
<1>0. /\ snap \in Sleeper /\ snap.at \in Nat
      /\ disk \in [Cols -> [state: {"none", "partial", "complete"}, docs: Seq(Dumped)]]
  BY DEF Typed, Sleeper
<1>1. ASSUME UNCHANGED <<snap, disk>>, snap.pc \notin {"doc", "key"} PROVE Dumping'
  BY <1>1 DEF Dumping
<1>2. ASSUME snap'.pc \notin {"doc", "key"} PROVE Dumping'
  BY <1>2 DEF Dumping
<1>3. ASSUME UNCHANGED <<snap, disk, docs>>,
             task'.at # 0 /\ task'.col = snap.col => (task.at # 0 /\ task.col = snap.col) \/ ~ Locked(snap.col)
      PROVE  Dumping'
  <2>1. snap.pc = "key" => Locked(snap.col)
    BY DEF Locked
  <2> QED BY <1>3, <2>1 DEF Dumping
<1>4. CASE \E c \in Cols : Create(c)
  BY <1>3, <1>4 DEF Create
<1>5. ASSUME NEW c \in Cols, BeginUpdate(c) PROVE Dumping'
  <2>1. task'.at = 0 /\ UNCHANGED <<snap, disk, docs>>
    BY <1>5 DEF BeginUpdate
  <2> QED BY <1>3, <2>1
<1>6. ASSUME NEW c \in Cols, Insert(c) PROVE Dumping'
  <2>1. snap.pc \in {"doc", "key"} => snap.col # c
    BY <1>6 DEF Insert, Locked
  <2>2. UNCHANGED <<snap, disk, task>> /\ \A d \in Cols : d # c => docs'[d] = docs[d]
    BY <1>6 DEF Insert, Typed
  <2>3. snap.pc \in {"doc", "key"} => docs'[snap.col] = docs[snap.col]
    BY <2>1, <2>2 DEF Dumping
  <2> QED BY <2>2, <2>3 DEF Dumping
<1>7. CASE Fetch
  <2>1. PICK i \in task.todo : task' = [task EXCEPT !.at = i]
    BY <1>7 DEF Fetch
  <2>2. task'.col = task.col /\ ~ Locked(task.col) /\ UNCHANGED <<snap, disk, docs>>
    BY <1>7, <2>1 DEF Fetch, Typed
  <2> QED BY <1>3, <2>2
<1>8. CASE Apply
  <2>1. UNCHANGED <<snap, disk>>
    BY <1>8 DEF Apply
  <2>2. /\ task'.at = 0 /\ task.at # 0 /\ task.col \in Cols
        /\ \A d \in Cols : DOMAIN docs'[d] = DOMAIN docs[d]
    <3>1. PICK rest : rest = task.todo \ {task.at}
      OBVIOUS
    <3>2. task' = NoTask \/ task' = [task EXCEPT !.todo = rest, !.at = 0]
      BY <1>8, <3>1 DEF Apply
    <3>3. task'.at = 0
      <4>1. CASE task' = NoTask
        BY <4>1 DEF NoTask
      <4>2. CASE task' = [task EXCEPT !.todo = rest, !.at = 0]
        BY <4>2 DEF Typed
      <4> QED BY <3>2, <4>1, <4>2
    <3> QED BY <1>8, <3>3, ApplyIs
  <2>3. \A d \in Cols : \A i \in DOMAIN docs[d] :
          IF d = task.col /\ i = task.at
          THEN docs'[d][i].n = docs[d][i].n /\ docs'[d][i].ver = docs[d][i].ver + 1
          ELSE docs'[d][i] = docs[d][i]
    BY <1>8, ApplyIs
  <2>4. CASE snap.pc = "key"
    <3>1. PICK col \in Cols : col = snap.col
      BY <2>4 DEF Dumping
    <3>2. PICK at \in Nat : at = snap.at
      BY <1>0
    <3>3. /\ docs[col] \in Seq(Document) /\ docs'[col] \in Seq(Document)
          /\ DOMAIN docs'[col] = DOMAIN docs[col]
      BY <1>8, <2>2, ApplyIs DEF Typed
    <3>4. Len(docs'[col]) = Len(docs[col]) /\ DOMAIN docs[col] = 1..Len(docs[col]) /\ Len(docs[col]) \in Nat
      BY <3>3, LenProperties
    <3>5. at >= 1 /\ at <= Len(docs[col]) /\ at \in DOMAIN docs[col]
      BY <2>4, <3>1, <3>2, <3>4 DEF Dumping
    <3>6. IF col = task.col /\ at = task.at
          THEN docs'[col][at].n = docs[col][at].n /\ docs'[col][at].ver = docs[col][at].ver + 1
          ELSE docs'[col][at] = docs[col][at]
      BY <2>3, <3>5
    <3>7. /\ snap.begun \in Document /\ snap.begun.n = docs[col][at].n
          /\ \/ docs[col][at].ver = snap.begun.ver
             \/ docs[col][at].ver = snap.begun.ver + 1 /\ ~ (task.at # 0 /\ task.col = col)
      BY <2>4, <3>1, <3>2 DEF Dumping
    <3>8. /\ snap.begun.n = docs'[col][at].n
          /\ docs'[col][at].ver = snap.begun.ver \/ docs'[col][at].ver = snap.begun.ver + 1
      BY <2>2, <3>6, <3>7
    <3> QED BY <2>1, <2>2, <2>4, <3>1, <3>2, <3>4, <3>5, <3>7, <3>8 DEF Dumping
  <2>5. CASE snap.pc # "key"
    BY <2>1, <2>5 DEF Dumping
  <2> QED BY <2>4, <2>5
<1>9. CASE Wake \/ LoopFails \/ LoopEnds \/ DumpFails
  <2>1. snap'.pc \in {"next", "dead", "sleep"}
    <3>1. [Asleep EXCEPT !.pc = "dead"].pc = "dead" /\ Asleep.pc = "sleep"
      BY DEF Asleep
    <3>2. CASE Wake
      <4>1. PICK size : size = Len(names)
        OBVIOUS
      <4>2. snap' = [snap EXCEPT !.pc = "next", !.todo = names, !.size = size]
        BY <3>2, <4>1 DEF Wake
      <4> QED BY <1>0, <4>2 DEF Sleeper
    <3>3. CASE LoopFails \/ LoopEnds \/ DumpFails
      BY <3>1, <3>3 DEF LoopFails, LoopEnds, DumpFails
    <3> QED BY <1>9, <3>2, <3>3
  <2> QED BY <1>2, <2>1
<1>10. CASE Open
  <2>1. PICK c \in Cols : c = Head(snap.todo)
    BY <1>0, <1>10, HeadTailProperties DEF Open, Sleeper
  <2>2. /\ snap'.pc = "doc" /\ snap'.col = c /\ snap'.at = 1 /\ snap'.todo = snap.todo /\ snap.todo # <<>>
        /\ disk' = [disk EXCEPT ![c] = [state |-> "partial", docs |-> <<>>]]
    BY <1>0, <1>10, <2>1 DEF Open, Sleeper
  <2>3. disk'[c].state = "partial" /\ disk'[c].docs = <<>>
    BY <1>0, <2>2
  <2>4. Len(<<>>) = 0
    BY EmptySeq
  <2> QED BY <2>2, <2>3, <2>4 DEF Dumping
<1>11. CASE BeginDoc
  <2>1. /\ snap.pc = "doc" /\ snap.at <= Len(docs[snap.col]) /\ UNCHANGED <<docs, disk, task>>
        /\ snap' = [snap EXCEPT !.pc = "key", !.begun = docs[snap.col][snap.at]]
    BY <1>11 DEF BeginDoc
  <2>2. /\ snap'.pc = "key" /\ snap'.col = snap.col /\ snap'.at = snap.at /\ snap'.todo = snap.todo
        /\ snap'.begun = docs[snap.col][snap.at]
    BY <1>0, <2>1 DEF Sleeper
  <2>3. docs[snap.col][snap.at] \in Document
    BY <1>0, <2>1, ElementOfSeq, LenProperties DEF Dumping, Typed
  <2> QED BY <2>1, <2>2, <2>3 DEF Dumping
<1>12. CASE EndDoc
  <2>1. PICK dumped \in Mixtures(snap.begun, docs[snap.col][snap.at]) :
          disk' = [disk EXCEPT ![snap.col].docs = Append(@, dumped)]
    BY <1>12 DEF EndDoc
  <2>2. snap.pc = "key" /\ dumped \in Dumped
    BY <1>12, <2>1, MixtureIs DEF EndDoc
  <2>3. PICK col \in Cols : col = snap.col
    BY <2>2 DEF Dumping
  <2>4. PICK file \in Seq(Dumped) : file = disk[col].docs
    BY <1>0
  <2>5. PICK longer : longer = Append(file, dumped)
    OBVIOUS
  <2>6. Len(longer) = Len(file) + 1
    BY <2>2, <2>5, AppendProperties
  <2>7. disk' = [disk EXCEPT ![col].docs = longer]
    BY <2>1, <2>3, <2>4, <2>5
  <2>8. disk'[col].docs = longer /\ disk'[col].state = disk[col].state
    BY <1>0, <2>7
  <2>9. PICK next : next = snap.at + 1
    OBVIOUS
  <2>10. snap' = [snap EXCEPT !.pc = "doc", !.at = next, !.begun = 0]
    BY <1>12, <2>9 DEF EndDoc
  <2>11. snap'.pc = "doc" /\ snap'.col = col /\ snap'.at = next /\ snap'.todo = snap.todo
    BY <1>0, <2>3, <2>10 DEF Sleeper
  <2>12. snap.at >= 1 /\ snap.todo # <<>> /\ disk[col].state = "partial" /\ Len(file) = snap.at - 1
    BY <2>2, <2>3, <2>4 DEF Dumping
  <2>13. next >= 1 /\ Len(longer) = next - 1
    BY <1>0, <2>6, <2>9, <2>12
  <2> QED BY <2>8, <2>11, <2>12, <2>13 DEF Dumping
<1>13. CASE Close
  <2>1. snap' = [snap EXCEPT !.pc = "next", !.col = "none", !.at = 0, !.todo = Tail(@)]
    BY <1>13 DEF Close
  <2>2. snap'.pc = "next"
    BY <1>0, <2>1 DEF Sleeper
  <2> QED BY <1>2, <2>2
<1>14. CASE Crash
  BY <1>2, <1>14 DEF Crash, Asleep
<1>15. CASE Restart \/ RestartFails
  <2>1. UNCHANGED <<snap, disk>> /\ snap = Asleep
    BY <1>15 DEF Restart, RestartFails, Typed
  <2> QED BY <1>1, <2>1 DEF Asleep
<1>16. CASE UNCHANGED vars
  BY <1>3, <1>16 DEF vars
<1> QED BY <1>4, <1>5, <1>6, <1>7, <1>8, <1>9, <1>10, <1>11, <1>12, <1>13, <1>14, <1>15, <1>16
        DEF Next, Snapshot

-----------------------------------------------------------------------------
(* Files and collections                                                   *)

LEMMA FilesInit ==
  ASSUME Init
  PROVE  FrontInv /\ SavedInv
<1>1. /\ \A c \in Cols : disk[c] = NoFile /\ docs[c] = <<>> /\ saved[c] = {}
  BY DEF Init
<1>2. Len(<<>>) = 0 /\ DOMAIN <<>> = {}
  BY EmptySeq
<1>3. Torn(<<>>) /\ Front(<<>>, <<>>)
  BY <1>2 DEF Torn, Front
<1> QED BY <1>1, <1>3 DEF FrontInv, SavedInv, NoFile

\* A file that is emptied is the front of anything.
LEMMA EmptyFront ==
  ASSUME NEW coll \in Seq(Document)
  PROVE  Torn(<<>>) /\ Front(<<>>, coll)
<1>1. Len(<<>>) = 0 /\ DOMAIN <<>> = {} /\ Len(coll) \in Nat
  BY EmptySeq, LenProperties
<1> QED BY <1>1 DEF Torn, Front

\* A document that is dumped after those before it makes a longer front.
LEMMA FrontGrows ==
  ASSUME NEW file \in Seq(Dumped), NEW coll \in Seq(Document), NEW doc \in Dumped,
         Torn(file), Front(file, coll), Len(file) + 1 <= Len(coll),
         doc.n = coll[Len(file) + 1].n, doc.tail <= coll[Len(file) + 1].ver, doc.tail - doc.head \in {0, 1}
  PROVE  Torn(Append(file, doc)) /\ Front(Append(file, doc), coll)
<1>1. PICK longer : longer = Append(file, doc)
  OBVIOUS
<1>2. /\ longer \in Seq(Dumped) /\ Len(longer) = Len(file) + 1
      /\ \A i \in 1..Len(file) : longer[i] = file[i]
      /\ longer[Len(file) + 1] = doc
  BY <1>1, AppendProperties
<1>3. /\ Len(file) \in Nat /\ DOMAIN file = 1..Len(file)
      /\ DOMAIN longer = 1..(Len(file) + 1)
  BY <1>2, LenProperties
<1>4. ASSUME NEW i \in DOMAIN longer
      PROVE  longer[i].tail - longer[i].head \in {0, 1} /\ longer[i].n = coll[i].n /\ longer[i].tail <= coll[i].ver
  <2>1. CASE i = Len(file) + 1
    BY <1>2, <2>1
  <2>2. CASE i # Len(file) + 1
    <3>1. i \in DOMAIN file /\ longer[i] = file[i]
      BY <1>2, <1>3, <2>2
    <3> QED BY <3>1 DEF Torn, Front
  <2> QED BY <2>1, <2>2
<1> QED BY <1>1, <1>2, <1>4 DEF Torn, Front

LEMMA FrontStep ==
  ASSUME Typed, Updating, Dumping, FrontInv, [Next]_vars
  PROVE  FrontInv'
<1>0. /\ disk \in [Cols -> [state: {"none", "partial", "complete"}, docs: Seq(Dumped)]]
      /\ docs \in [Cols -> Seq(Document)]
  BY DEF Typed
<1>1. CASE UNCHANGED disk /\ up = "up" /\ ~ Crash
  <2>1. ASSUME NEW c \in Cols PROVE Torn(disk'[c].docs) /\ Front(disk'[c].docs, docs'[c])
    <3>1. /\ disk[c].docs \in Seq(Dumped) /\ docs[c] \in Seq(Document) /\ docs'[c] \in Seq(Document)
          /\ Succeeds(docs'[c], docs[c])
      BY <1>0, <1>1, DocsGrow
    <3>2. Torn(disk[c].docs) /\ Front(disk[c].docs, docs[c])
      BY <1>1 DEF FrontInv
    <3> QED BY <1>1, <3>1, <3>2, FrontStays
  <2> QED BY <2>1 DEF FrontInv
<1>2. CASE Crash
  BY <1>2 DEF Crash, FrontInv
<1>3. CASE UNCHANGED disk /\ up # "up"
  <2>1. CASE Restart
    <3>1. ASSUME NEW c \in Cols PROVE Torn(disk'[c].docs) /\ Front(disk'[c].docs, docs'[c])
      <4>1. disk[c].docs \in Seq(Dumped) /\ docs'[c] = Loaded(disk[c].docs) /\ disk' = disk
        BY <1>0, <1>3, <2>1, RestartIs
      <4>2. Torn(disk[c].docs)
        BY DEF FrontInv
      <4> QED BY <4>1, <4>2, LoadedIs
    <3> QED BY <3>1 DEF FrontInv
  <2>2. CASE ~ Restart
    <3>1. up' # "up"
      <4>1. ASSUME NEW c \in Cols PROVE ~ Create(c) /\ ~ Insert(c) /\ ~ BeginUpdate(c)
        BY <1>3 DEF Create, Insert, BeginUpdate, Idle
      <4>2. ~ Fetch /\ ~ Apply /\ ~ Snapshot /\ ~ Crash
        BY <1>3 DEF Fetch, Apply, Snapshot, Wake, LoopFails, LoopEnds, Open, BeginDoc, DumpFails,
                    EndDoc, Close, Crash
      <4> QED BY <1>3, <2>2, <4>1, <4>2 DEF Next, RestartFails, vars
    <3> QED BY <1>3, <3>1 DEF FrontInv
  <2> QED BY <2>1, <2>2
<1>4. CASE Open
  <2>1. /\ disk' = [disk EXCEPT ![Head(snap.todo)] = [state |-> "partial", docs |-> <<>>]]
        /\ docs' = docs /\ up = "up"
    BY <1>4 DEF Open
  <2>2. ASSUME NEW c \in Cols PROVE Torn(disk'[c].docs) /\ Front(disk'[c].docs, docs'[c])
    <3>1. disk'[c].docs = <<>> \/ disk'[c].docs = disk[c].docs
      BY <1>0, <2>1
    <3>2. Torn(disk[c].docs) /\ Front(disk[c].docs, docs[c])
      BY <2>1 DEF FrontInv
    <3>3. Torn(<<>>) /\ Front(<<>>, docs[c])
      BY <1>0, EmptyFront
    <3> QED BY <2>1, <3>1, <3>2, <3>3
  <2> QED BY <2>2 DEF FrontInv
<1>5. CASE EndDoc
  <2>1. PICK dumped \in Mixtures(snap.begun, docs[snap.col][snap.at]) :
          disk' = [disk EXCEPT ![snap.col].docs = Append(@, dumped)]
    BY <1>5 DEF EndDoc
  <2>2. snap.pc = "key" /\ docs' = docs /\ up = "up"
    BY <1>5 DEF EndDoc
  <2>3. PICK col \in Cols : col = snap.col
    BY <2>2 DEF Dumping
  <2>4. PICK file \in Seq(Dumped) : file = disk[col].docs
    BY <1>0
  <2>5. PICK coll \in Seq(Document) : coll = docs[col]
    BY <1>0
  <2>6. Len(file) \in Nat /\ snap.at = Len(file) + 1 /\ snap.at <= Len(coll)
    <3>1. Len(file) = snap.at - 1 /\ snap.at <= Len(coll) /\ snap.at \in Nat
      BY <2>2, <2>3, <2>4, <2>5 DEF Dumping, Typed, Sleeper
    <3> QED BY <3>1, LenProperties
  <2>7. /\ dumped \in Dumped /\ dumped.n = coll[Len(file) + 1].n
        /\ dumped.tail <= coll[Len(file) + 1].ver /\ dumped.tail - dumped.head \in {0, 1}
    BY <2>2, <2>3, <2>5, <2>6, MixtureIs
  <2>8. Torn(file) /\ Front(file, coll)
    BY <2>2, <2>4, <2>5 DEF FrontInv
  <2>9. PICK longer : longer = Append(file, dumped)
    OBVIOUS
  <2>10. Torn(longer) /\ Front(longer, coll)
    BY <2>6, <2>7, <2>8, <2>9, FrontGrows
  <2>11. disk' = [disk EXCEPT ![col].docs = longer]
    BY <2>1, <2>3, <2>4, <2>9
  <2>12. ASSUME NEW c \in Cols PROVE Torn(disk'[c].docs) /\ Front(disk'[c].docs, docs'[c])
    <3>1. CASE c = col
      <4>1. disk'[c].docs = longer
        BY <1>0, <2>11, <3>1
      <4> QED BY <2>2, <2>5, <2>10, <3>1, <4>1
    <3>2. CASE c # col
      <4>1. disk'[c].docs = disk[c].docs
        BY <1>0, <2>11, <3>2
      <4>2. Torn(disk[c].docs) /\ Front(disk[c].docs, docs[c])
        BY <2>2 DEF FrontInv
      <4> QED BY <2>2, <4>1, <4>2
    <3> QED BY <3>1, <3>2
  <2> QED BY <2>12 DEF FrontInv
<1>6. CASE Close
  <2>1. disk' = [disk EXCEPT ![snap.col].state = "complete"] /\ docs' = docs /\ up = "up"
    BY <1>6 DEF Close
  <2>2. ASSUME NEW c \in Cols PROVE Torn(disk'[c].docs) /\ Front(disk'[c].docs, docs'[c])
    <3>1. disk'[c].docs = disk[c].docs
      BY <1>0, <2>1
    <3>2. Torn(disk[c].docs) /\ Front(disk[c].docs, docs[c])
      BY <2>1 DEF FrontInv
    <3> QED BY <2>1, <3>1, <3>2
  <2> QED BY <2>2 DEF FrontInv
<1> QED BY <1>1, <1>2, <1>3, <1>4, <1>5, <1>6, DiskChanges

LEMMA SavedStep ==
  ASSUME Typed, Updating, Dumping, FrontInv, SavedInv, [Next]_vars
  PROVE  SavedInv'
<1>0. /\ disk \in [Cols -> [state: {"none", "partial", "complete"}, docs: Seq(Dumped)]]
      /\ docs \in [Cols -> Seq(Document)] /\ saved \in [Cols -> SUBSET Nat]
  BY DEF Typed
<1>1. CASE UNCHANGED <<disk, saved>> /\ up = "up" /\ ~ Crash
  <2>1. ASSUME NEW c \in Cols PROVE saved[c] \subseteq Numbers(docs'[c])
    <3>1. docs'[c] \in Seq(Document) /\ Succeeds(docs'[c], docs[c])
      BY <1>1, DocsGrow
    <3>2. Numbers(docs[c]) \subseteq Numbers(docs'[c])
      BY <1>0, <3>1, NumbersStay
    <3> QED BY <1>1, <3>2 DEF SavedInv
  <2>2. \A c \in Cols : saved[c] \subseteq Numbers(docs[c])'
    BY <2>1 DEF Numbers
  <2> QED BY <1>1, <2>2 DEF SavedInv, Numbers
<1>2. CASE Crash
  BY <1>2 DEF Crash, SavedInv, Numbers
<1>3. CASE Restart
  <2>1. UNCHANGED <<disk, saved>> /\ \A c \in Files : disk[c].state = "complete"
    BY <1>3 DEF Restart
  <2>2. ASSUME NEW c \in Cols PROVE saved[c] \subseteq Numbers(docs'[c])
    <3>1. docs'[c] = Loaded(disk[c].docs) /\ disk[c].docs \in Seq(Dumped)
      BY <1>0, <1>3, RestartIs
    <3>2. Numbers(docs'[c]) = Numbers(disk[c].docs)
      BY <3>1, LoadedIs
    <3>3. disk[c].state \in {"none", "complete"}
      BY <2>1 DEF Files
    <3>4. saved[c] = {} \/ saved[c] = Numbers(disk[c].docs)
      BY <3>3 DEF SavedInv
    <3> QED BY <3>2, <3>4
  <2> QED BY <2>1, <2>2 DEF SavedInv, Numbers
<1>4. ASSUME UNCHANGED <<disk, saved>>, up # "up", ~ Restart PROVE SavedInv'
  <2>1. up' # "up"
    <3>1. ASSUME NEW c \in Cols PROVE ~ Create(c) /\ ~ Insert(c) /\ ~ BeginUpdate(c)
      BY <1>4 DEF Create, Insert, BeginUpdate, Idle
    <3>2. ~ Fetch /\ ~ Apply /\ ~ Snapshot /\ ~ Crash
      BY <1>4 DEF Fetch, Apply, Snapshot, Wake, LoopFails, LoopEnds, Open, BeginDoc, DumpFails,
                  EndDoc, Close, Crash
    <3> QED BY <1>4, <3>1, <3>2 DEF Next, RestartFails, vars
  <2> QED BY <1>4, <2>1 DEF SavedInv, Numbers
<1>5. CASE Open
  <2>1. /\ disk' = [disk EXCEPT ![Head(snap.todo)] = [state |-> "partial", docs |-> <<>>]]
        /\ docs' = docs /\ saved' = saved /\ up = "up"
    BY <1>5 DEF Open
  <2>2. \A c \in Cols : disk'[c] = disk[c] \/ disk'[c].state = "partial"
    BY <1>0, <2>1
  <2> QED BY <2>1, <2>2 DEF SavedInv, Numbers
<1>6. CASE EndDoc
  <2>1. PICK dumped \in Mixtures(snap.begun, docs[snap.col][snap.at]) :
          disk' = [disk EXCEPT ![snap.col].docs = Append(@, dumped)]
    BY <1>6 DEF EndDoc
  <2>2. /\ snap.pc = "key" /\ docs' = docs /\ saved' = saved /\ up = "up"
        /\ disk[snap.col].state = "partial"
    BY <1>6 DEF EndDoc, Dumping
  <2>3. \A c \in Cols : disk'[c] = disk[c] \/ disk'[c].state = "partial"
    BY <1>0, <2>1, <2>2
  <2> QED BY <2>2, <2>3 DEF SavedInv, Numbers
<1>7. CASE Close
  <2>1. PICK col \in Cols : col = snap.col
    BY <1>7 DEF Close, Dumping
  <2>2. PICK numbers : numbers = Numbers(disk[col].docs)
    OBVIOUS
  <2>3. /\ disk' = [disk EXCEPT ![col].state = "complete"]
        /\ saved' = [saved EXCEPT ![col] = numbers]
        /\ docs' = docs /\ up = "up"
    BY <1>7, <2>1, <2>2 DEF Close
  <2>4. numbers \subseteq Numbers(docs[col])
    <3>1. disk[col].docs \in Seq(Dumped) /\ docs[col] \in Seq(Document) /\ Front(disk[col].docs, docs[col])
      BY <1>0, <2>3 DEF FrontInv
    <3> QED BY <2>2, <3>1, FrontNumbers
  <2>5. /\ disk'[col].state = "complete" /\ disk'[col].docs = disk[col].docs /\ saved'[col] = numbers
        /\ \A c \in Cols : c # col => disk'[c] = disk[c] /\ saved'[c] = saved[c]
    BY <1>0, <2>3
  <2>6. \A c \in Cols : saved'[c] \subseteq Numbers(docs[c])
    BY <2>3, <2>4, <2>5 DEF SavedInv
  <2>7. ASSUME NEW c \in Cols
        PROVE  /\ disk'[c].state = "none" => disk'[c].docs = <<>> /\ saved'[c] = {}
               /\ disk'[c].state = "complete" => saved'[c] = Numbers(disk'[c].docs)
    <3>1. CASE c = col
      BY <2>2, <2>5, <3>1
    <3>2. CASE c # col
      BY <2>5, <3>2 DEF SavedInv
    <3> QED BY <3>1, <3>2
  <2> QED BY <2>3, <2>6, <2>7 DEF SavedInv, Numbers
<1> QED BY <1>1, <1>2, <1>3, <1>4, <1>5, <1>6, <1>7, DiskChanges

-----------------------------------------------------------------------------
(* The theorems                                                            *)

Inv == Typed /\ Updating /\ Dumping /\ FrontInv /\ SavedInv

LEMMA Inductive == Spec => []Inv
<1>1. Init => Inv
  BY TypedInit, ThreadsInit, FilesInit DEF Inv
<1>2. Inv /\ [Next]_vars => Inv'
  BY TypedStep, UpdatingStep, DumpingStep, FrontStep, SavedStep DEF Inv
<1> QED BY <1>1, <1>2, PTL DEF Spec

\* Both threads and the files are in states that the code can be in: an update is about documents
\* that are there.
THEOREM TypeCorrect == Spec => []TypeOK
<1>1. Inv => TypeOK
  BY DEF Inv, Typed, Updating, Sleeper, TypeOK
<1> QED BY <1>1, Inductive, PTL

\* Whatever the event loop inserts and updates meanwhile, and however often the server crashes: a
\* finished file holds the documents that its collection began with, in order, without a gap.
THEOREM FilesAreCuts == Spec => []FileIsPrefix
<1>1. Inv => FileIsPrefix
  BY DEF Inv, FrontInv, Front, FileIsPrefix
<1> QED BY <1>1, Inductive, PTL

\* However many updates there are: a document in a file mixes at most two versions that follow
\* each other, and is never newer than the one in memory.
THEOREM OneUpdateTears == Spec => []TornByOneUpdate
<1>1. Inv => TornByOneUpdate
  BY DEF Inv, FrontInv, Front, Torn, TornByOneUpdate
<1> QED BY <1>1, Inductive, PTL

\* After any number of crashes a server that runs has every document that was once in a finished
\* file.
THEOREM DumpsSurvive == Spec => []SavedSurvives
<1>1. Inv => SavedSurvives
  BY DEF Inv, SavedInv, SavedSurvives
<1> QED BY <1>1, Inductive, PTL
=============================================================================
