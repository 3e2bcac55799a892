------------------------------ MODULE MemStore ------------------------------
(***************************************************************************)
(* The in-memory database engine (dblayers/none.py) with its snapshots.    *)
(* Two threads run: the event loop, which executes the database operations *)
(* one at a time, and the daemon thread _snap, which writes every          *)
(* collection to a file of its own.  They meet in two places.  LockedList  *)
(* locks every access to the list of a collection, and _snap holds that    *)
(* lock while it dumps the collection; but a document fetched from the     *)
(* list is changed without the lock, and so is the dictionary of           *)
(* collections.  After a crash the files are all that is left.             *)
(***************************************************************************)
EXTENDS Integers, Sequences, FiniteSets

CONSTANTS Cols,      \* collection names
          Startup,   \* the collections that initialize creates for the REST resources
          MaxDocs,   \* bound: documents ever inserted
          MaxVer,    \* bound: updates of one document
          MaxCrashes \* bound: crashes of the server

ASSUME ConstantsAssumption ==
  /\ Startup \subseteq Cols /\ IsFiniteSet(Cols)
  /\ {MaxDocs, MaxVer, MaxCrashes} \subseteq Nat

VARIABLES up,      \* state of the server process
          names,   \* Database._cols: the names in the order of the dictionary
          docs,    \* Collection._v of each collection
          born,    \* documents inserted so far
          task,    \* the update that the event loop is in the middle of
          snap,    \* the snapshot thread
          disk,    \* the snapshot files
          saved,   \* history: the documents in the last complete dump of each collection
          crashes  \* crashes so far

vars == <<up, names, docs, born, task, snap, disk, saved, crashes>>

\* A document: n tells documents apart, ver counts its updates, size is its number of keys.  In
\* a file, head and tail are the versions that the first and the last key come from; they
\* differ when the document was changed while it was dumped.
Document == [n: Nat, ver: Nat, size: Nat]
Dumped == [n: Nat, head: Nat, tail: Nat, size: Nat]

NoTask == [col |-> "none", todo |-> {}, at |-> 0]
Asleep == [pc |-> "sleep", col |-> "none", todo |-> <<>>, size |-> 0, at |-> 0, begun |-> 0]
NoFile == [state |-> "none", docs |-> <<>>]

Elems(seq) == {seq[i] : i \in DOMAIN seq}
Numbers(seq) == {seq[i].n : i \in DOMAIN seq}
Orders(S) == {seq \in [1..Cardinality(S) -> S] : Elems(seq) = S}

Init == /\ up = "up"
        /\ names \in Orders(Startup)
        /\ docs = [c \in Cols |-> <<>>]
        /\ born = 0
        /\ task = NoTask
        /\ snap = Asleep
        /\ disk = [c \in Cols |-> NoFile]
        /\ saved = [c \in Cols |-> {}]
        /\ crashes = 0

\* _snap holds the lock of the collection that it dumps.
Locked(c) == snap.pc \in {"doc", "key"} /\ snap.col = c

-----------------------------------------------------------------------------
(* The event loop                                                          *)

Idle == up = "up" /\ task = NoTask

\* Database.__getitem__ on a name not seen before: the first POST with the manifests, a GET
\* or POST of data/<mid>.
Create(c) ==
  /\ Idle /\ c \notin Elems(names)
  /\ names' = Append(names, c)
  /\ UNCHANGED <<up, docs, born, task, snap, disk, saved, crashes>>

\* Mutant: the document goes to the front.
InsertFront(c) ==
  /\ Idle /\ c \in Elems(names) /\ ~Locked(c)
  /\ born < MaxDocs
  /\ born' = born + 1
  /\ docs' = [docs EXCEPT ![c] = <<[n |-> born + 1, ver |-> 0, size |-> 1]>> \o @]
  /\ UNCHANGED <<up, names, task, snap, disk, saved, crashes>>

\* _insert: append takes the lock, and the event loop waits for it.
Insert(c) ==
  /\ Idle /\ c \in Elems(names) /\ ~Locked(c)
  /\ born < MaxDocs
  /\ born' = born + 1
  /\ docs' = [docs EXCEPT ![c] = Append(@, [n |-> born + 1, ver |-> 0, size |-> 1])]
  /\ UNCHANGED <<up, names, task, snap, disk, saved, crashes>>

\* find_one_and_update (one position) and update_many: the documents the query matches.
BeginUpdate(c) ==
  /\ Idle
  /\ \E todo \in (SUBSET DOMAIN docs[c]) \ {{}} :
       /\ \A i \in todo : docs[c][i].ver < MaxVer
       /\ task' = [col |-> c, todo |-> todo, at |-> 0]
  /\ UNCHANGED <<up, names, docs, born, snap, disk, saved, crashes>>

\* Mutant: documents are fetched without the lock.
FetchUnlocked ==
  /\ up = "up" /\ task.at = 0
  /\ \E i \in task.todo :
       /\ \A j \in task.todo : i <= j
       /\ task' = [task EXCEPT !.at = i]
  /\ UNCHANGED <<up, names, docs, born, snap, disk, saved, crashes>>

\* The iteration over the list takes the lock for each element, and gives it back.
Fetch ==
  /\ up = "up" /\ task.at = 0 /\ ~Locked(task.col)
  /\ \E i \in task.todo :
       /\ \A j \in task.todo : i <= j
       /\ task' = [task EXCEPT !.at = i]
  /\ UNCHANGED <<up, names, docs, born, snap, disk, saved, crashes>>

\* v.update(document), without the lock.  It may add keys; the $status of DELETE is one.
Apply == \E more \in {0, 1} :
  /\ up = "up" /\ task.at # 0
  /\ LET doc == docs[task.col][task.at]
     IN docs' = [docs EXCEPT ![task.col][task.at] =
                   [n |-> doc.n, ver |-> doc.ver + 1, size |-> doc.size + more]]
  /\ task' = IF task.todo = {task.at} THEN NoTask
             ELSE [task EXCEPT !.todo = @ \ {task.at}, !.at = 0]
  /\ UNCHANGED <<up, names, born, snap, disk, saved, crashes>>

-----------------------------------------------------------------------------
(* The thread _snap                                                        *)

\* time.sleep is over; the iteration over the dictionary of collections begins.
Wake ==
  /\ up = "up" /\ snap.pc = "sleep"
  /\ snap' = [snap EXCEPT !.pc = "next", !.todo = names, !.size = Len(names)]
  /\ UNCHANGED <<up, names, docs, born, task, disk, saved, crashes>>

\* The next step of that iteration raises when the dictionary has another size than at its
\* begin; nothing catches that, and the thread ends.
Resized == Len(names) # snap.size

LoopFails ==
  /\ up = "up" /\ snap.pc = "next" /\ Resized
  /\ snap' = [Asleep EXCEPT !.pc = "dead"]
  /\ UNCHANGED <<up, names, docs, born, task, disk, saved, crashes>>

LoopEnds ==
  /\ up = "up" /\ snap.pc = "next" /\ ~Resized /\ snap.todo = <<>>
  /\ snap' = Asleep
  /\ UNCHANGED <<up, names, docs, born, task, disk, saved, crashes>>

\* The lock is taken and the file opened with mode 'w', which empties it.
Open ==
  /\ up = "up" /\ snap.pc = "next" /\ ~Resized /\ snap.todo # <<>>
  /\ LET c == Head(snap.todo)
     IN /\ snap' = [snap EXCEPT !.pc = "doc", !.col = c, !.at = 1]
        /\ disk' = [disk EXCEPT ![c] = [state |-> "partial", docs |-> <<>>]]
  /\ UNCHANGED <<up, names, docs, born, task, saved, crashes>>

\* json.dump goes through the keys of the next document ...
BeginDoc ==
  /\ up = "up" /\ snap.pc = "doc" /\ snap.at <= Len(docs[snap.col])
  /\ snap' = [snap EXCEPT !.pc = "key", !.begun = docs[snap.col][snap.at]]
  /\ UNCHANGED <<up, names, docs, born, task, disk, saved, crashes>>

\* ... and raises when the document got another key meanwhile.  The file is closed as it is,
\* the lock released, and the thread ends.
DumpFails ==
  /\ up = "up" /\ snap.pc = "key" /\ docs[snap.col][snap.at].size # snap.begun.size
  /\ snap' = [Asleep EXCEPT !.pc = "dead"]
  /\ UNCHANGED <<up, names, docs, born, task, disk, saved, crashes>>

\* A change of values in between shows in none, some or all of the keys.
Mixtures(old, new) ==
  {[n |-> old.n, head |-> v[1], tail |-> v[2], size |-> old.size] :
     v \in {<<old.ver, old.ver>>, <<old.ver, new.ver>>, <<new.ver, new.ver>>}}

EndDoc ==
  /\ up = "up" /\ snap.pc = "key"
  /\ LET doc == docs[snap.col][snap.at]
     IN /\ doc.size = snap.begun.size
        /\ \E dumped \in Mixtures(snap.begun, doc) :
             disk' = [disk EXCEPT ![snap.col].docs = Append(@, dumped)]
  /\ snap' = [snap EXCEPT !.pc = "doc", !.at = @ + 1, !.begun = 0]
  /\ UNCHANGED <<up, names, docs, born, task, saved, crashes>>

\* Mutant: the loop does not get on to the next collection.
CloseAgain ==
  /\ up = "up" /\ snap.pc = "doc" /\ snap.at > Len(docs[snap.col])
  /\ disk' = [disk EXCEPT ![snap.col].state = "complete"]
  /\ saved' = [saved EXCEPT ![snap.col] = Numbers(disk[snap.col].docs)]
  /\ snap' = [snap EXCEPT !.pc = "next", !.col = "none", !.at = 0]
  /\ UNCHANGED <<up, names, docs, born, task, crashes>>

Close ==
  /\ up = "up" /\ snap.pc = "doc" /\ snap.at > Len(docs[snap.col])
  /\ disk' = [disk EXCEPT ![snap.col].state = "complete"]
  /\ saved' = [saved EXCEPT ![snap.col] = Numbers(disk[snap.col].docs)]
  /\ snap' = [snap EXCEPT !.pc = "next", !.col = "none", !.at = 0, !.todo = Tail(@)]
  /\ UNCHANGED <<up, names, docs, born, task, crashes>>

-----------------------------------------------------------------------------
(* Crash and restart                                                       *)

Crash ==
  /\ up = "up" /\ crashes < MaxCrashes
  /\ crashes' = crashes + 1
  /\ up' = "down"
  /\ names' = <<>>
  /\ docs' = [c \in Cols |-> <<>>]
  /\ task' = NoTask
  /\ snap' = Asleep
  /\ UNCHANGED <<born, disk, saved>>

\* A loaded document counts as the version that its last key has, mixed or not.
Loaded(seq) == [i \in DOMAIN seq |-> [n |-> seq[i].n, ver |-> seq[i].tail, size |-> seq[i].size]]

Files == {c \in Cols : disk[c].state # "none"}

\* Mutant: a file that cannot be read is skipped.
RestartAnyway ==
  /\ up = "down"
  /\ up' = "up"
  /\ names' \in Orders({c \in Files : disk[c].state = "complete"} \cup Startup)
  /\ docs' = [c \in Cols |-> IF disk[c].state = "complete" THEN Loaded(disk[c].docs) ELSE <<>>]
  /\ UNCHANGED <<born, task, snap, disk, saved, crashes>>

\* _load_db reads every file, then initialize creates what is missing.
Restart ==
  /\ up = "down"
  /\ \A c \in Files : disk[c].state = "complete"
  /\ up' = "up"
  /\ names' \in Orders(Files \cup Startup)
  /\ docs' = [c \in Cols |-> Loaded(disk[c].docs)]
  /\ UNCHANGED <<born, task, snap, disk, saved, crashes>>

\* json.load raises for a file that was not finished; nothing catches it on the way out of
\* the constructor, and the application never gets a database.
RestartFails ==
  /\ up = "down"
  /\ \E c \in Files : disk[c].state = "partial"
  /\ up' = "failed"
  /\ UNCHANGED <<names, docs, born, task, snap, disk, saved, crashes>>

Snapshot == \/ Wake \/ LoopFails \/ LoopEnds \/ Open \/ BeginDoc \/ DumpFails \/ EndDoc \/ Close

Next == \/ \E c \in Cols : Create(c) \/ Insert(c) \/ BeginUpdate(c)
        \/ Fetch \/ Apply
        \/ Snapshot
        \/ Crash \/ Restart \/ RestartFails

\* The snapshot thread is scheduled.
Spec == Init /\ [][Next]_vars /\ WF_vars(Snapshot)

-----------------------------------------------------------------------------
(* Properties                                                              *)

\* The state of both threads and of the files is well formed.
TypeOK ==
  /\ up \in {"up", "down", "failed"}
  /\ names \in Seq(Cols)
  /\ docs \in [Cols -> Seq(Document)]
  /\ born \in Nat
  /\ task.todo # {} => task.col \in Cols /\ task.todo \subseteq DOMAIN docs[task.col]
  /\ task.at # 0 => task.at \in task.todo
  /\ snap.pc \in {"sleep", "next", "doc", "key", "dead"}
  /\ disk \in [Cols -> [state: {"none", "partial", "complete"}, docs: Seq(Dumped)]]
  /\ saved \in [Cols -> SUBSET Nat]

\* A finished file holds the documents that the collection began with, in order and without a
\* gap: a dump is a cut of the collection at one moment although inserts go on around it.
FileIsPrefix ==
  up = "up" => \A c \in Cols : disk[c].state = "complete" =>
    /\ Len(disk[c].docs) <= Len(docs[c])
    /\ \A i \in DOMAIN disk[c].docs : disk[c].docs[i].n = docs[c][i].n

\* The lock keeps all but one update away from a dump: a document in a file mixes at most two
\* versions that follow each other, and is never newer than the one in memory.
TornByOneUpdate ==
  \A c \in Cols : \A i \in DOMAIN disk[c].docs :
    LET doc == disk[c].docs[i]
    IN /\ doc.tail - doc.head \in {0, 1}
       /\ up = "up" => doc.tail <= docs[c][i].ver

\* No number of crashes makes a running server serve less than a finished dump had: it starts
\* with every document that was once in a finished file, or it does not start.
SavedSurvives ==
  up = "up" => \A c \in Cols : saved[c] \subseteq Numbers(docs[c])

\* As long as the thread lives every document gets to disk.
DocumentsReachDisk ==
  \A c \in Cols : \A k \in 1..MaxDocs :
    k \in Numbers(docs[c]) ~> (k \in saved[c] \/ snap.pc = "dead" \/ up # "up")

\* "If no snapshot is set, the in memory store will not be retained": with one it is.  False:
\* a file that a crash, or the end of the thread, left unfinished keeps the server from
\* starting.
StoreIsRetained == up # "failed"
=============================================================================
