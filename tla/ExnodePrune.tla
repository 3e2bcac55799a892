---------------------------- MODULE ExnodePrune ----------------------------
(***************************************************************************)
(* The two scripts that clean exnodes (files and directories of files)     *)
(* out of the database while it is in use.  scripts/deep_prune_exnodes.py  *)
(* walks the tree and asks the depots for every extent of a file, fifteen  *)
(* threads at a time; scripts/unis_prune_exnodes.py goes by the lifetimes  *)
(* in the records, then walks the directories.  Clients upload files and   *)
(* release allocations meanwhile, and leases run out.                      *)
(*                                                                         *)
(* The sequential walk of the second script is taken for a walk like that  *)
(* of the first, which visits children in any order.                       *)
(***************************************************************************)
EXTENDS IBP, FiniteSetsExt

CONSTANTS Trees,     \* the exnodes to begin with: id, ver, mode, parent, extents, embedded
          Uploads,   \* the files of which one is posted while a script runs
          NoParent   \* the parent of a root

\* The search for the reach of a file does not end with an extent that has no byte.
Extents == [id: Allocs, offset: Nat, size: Nat \ {0}, readable: BOOLEAN]

VARIABLES script,   \* "deep" or "shallow"
          known,    \* all exnodes there are or will be
          upload,   \* the one of them that is posted
          exnodes,  \* the collection exnodes
          extents,  \* the collection extents: the ids that have a record
          dead,     \* records whose lifetime is over, or cannot be read
          task,     \* how far each call of search_children is
          scan,     \* shallow: what prune_exnodes is doing
          phase     \* the part of main() the script is in

world == <<script, known, upload>>
vars == <<world, exnodes, extents, dead, task, scan, phase, refs, user>>
others == <<world, dead, scan, phase, user>>

Ids(file) == {file.extents[i].id : i \in DOMAIN file.extents}

\* An extent has one parent: versions of a file may share it, other files do not.
ASSUME TreesAssumption ==
  \A tree \in Trees, new \in Uploads : \A e \in tree \cup {new} :
    /\ e.extents \in Seq(Extents) /\ e.mode \in {"file", "directory"}
    /\ \A g \in tree \cup {new} : e.id # g.id => Ids(e) \cap Ids(g) = {}

\* The walk calls itself for each exnode that a call has read, so an exnode is called for once per
\* version of its directory.  A call is told by the call that made it, if any, and the exnode.
Roots == {[by |-> {}, of |-> e] : e \in {e \in exnodes : e.parent = NoParent}}
Children(c) == {[by |-> {c}, of |-> e] : e \in {e \in exnodes : e.parent = c.of.id}}

Entered == [pc |-> "visit", tested |-> {}, alive |-> {}, data |-> FALSE]
Versions(id) == {e \in exnodes : e.id = id}

Init ==
  /\ script \in {"deep", "shallow"}
  /\ exnodes \in Trees
  /\ upload \in Uploads
  /\ known = exnodes \cup {upload}
  /\ extents = UNION {Ids(e) : e \in exnodes}
  /\ dead \in SUBSET extents
  /\ script = "deep" => dead = {}
  /\ task = [c \in {} |-> Entered]
  /\ scan = [todo |-> {e \in exnodes : e.mode = "file"}, files |-> {}]
  /\ phase = IF script = "deep" THEN "walk" ELSE "scan"
  /\ IBPInit

-----------------------------------------------------------------------------
(* Testing an allocation: buildAllocation and Check, a thread per extent   *)

Testing(c, i) == task[c].pc = "test" /\ i \in DOMAIN c.of.extents \ task[c].tested

\* A record with a malformed capability has no host to ask.
Readable(x) == x.readable

\* The depot's status, then a probe: a lease that is answered for is alive.
FindAlive(c, i) ==
  /\ Testing(c, i) /\ Readable(c.of.extents[i]) /\ Probed(c.of.extents[i].id)
  /\ task' = [task EXCEPT ![c].tested = @ \cup {i}, ![c].alive = @ \cup {i}]
  /\ UNCHANGED <<others, exnodes, extents>>

\* No answer at either step, or an unreadable record: the record goes, the thread says False.
FindDead(c, i) ==
  /\ Testing(c, i) /\ Unanswered(c.of.extents[i].id)
  /\ task' = [task EXCEPT ![c].tested = @ \cup {i}]
  /\ extents' = extents \ {c.of.extents[i].id}
  /\ UNCHANGED <<others, exnodes>>

-----------------------------------------------------------------------------
(* clean_exnode: how far from the front of the file live extents reach     *)

\* The extents whose id one of this call's threads has returned.
Alive(c) == {i \in DOMAIN c.of.extents : \E j \in task[c].alive : c.of.extents[j].id = c.of.extents[i].id}

FirstAt(f, is, at) ==
  LET here == {i \in is : f.extents[i].offset = at} IN IF here = {} THEN 0 ELSE Min(here)

\* tmpSize after n rounds: each adds the first such extent of the list that begins where the last
\* one ended, and no extent is added twice.
ReachOf(f, is) ==
  LET tmpSize[n \in 0..Len(f.extents)] ==
        IF n = 0 THEN 0
        ELSE LET at == tmpSize[n - 1]
                 i == FirstAt(f, is, at)
             IN IF i = 0 THEN at ELSE at + f.extents[i].size
  IN tmpSize[Len(f.extents)]

\* Mutant: dead extents count.
ReachOfAll(c) == ReachOf(c.of, DOMAIN c.of.extents)

Reach(c) == ReachOf(c.of, Alive(c))

\* What begins beyond the reach; a dead extent that begins at it is not missed.
Beyond(c) == {i \in DOMAIN c.of.extents : c.of.extents[i].offset > Reach(c)}

Return(c, data) == [task EXCEPT ![c].pc = "done", ![c].data = data]

Tested(c) == task[c].pc = "test" /\ DOMAIN c.of.extents \subseteq task[c].tested

Keep(c) ==
  /\ Tested(c) /\ Beyond(c) = {} /\ Alive(c) # {}
  /\ task' = Return(c, TRUE)
  /\ UNCHANGED <<others, exnodes, extents, refs>>

\* An extent beyond the reach loses its record, the others keep theirs; the file goes, with every
\* version of its id.
Discard(c) ==
  /\ Tested(c) /\ (Beyond(c) # {} \/ Alive(c) = {})
  /\ extents' = extents \ (IF Beyond(c) = {} THEN {} ELSE {c.of.extents[Min(Beyond(c))].id})
  /\ exnodes' = exnodes \ Versions(c.of.id)
  /\ task' = Return(c, FALSE)
  /\ UNCHANGED <<others, refs>>

-----------------------------------------------------------------------------
(* The walk: search_children                                               *)

Walking == phase = "walk"

Visit(calls, now) == [c \in DOMAIN now \cup calls |-> IF c \in DOMAIN now THEN now[c] ELSE Entered]

FindRoots ==
  /\ Walking
  /\ task' = Visit(Roots, task)
  /\ phase' = "walking"
  /\ UNCHANGED <<world, exnodes, extents, dead, scan, refs, user>>

\* The threads of a file begin.  A file without extents of its own raises a KeyError that no call
\* above catches: they all take no further step.  The second script takes every file for data.
VisitFile(c) ==
  /\ task[c].pc = "visit" /\ c.of.mode = "file"
  /\ script = "deep" => c.of.embedded
  /\ task' = IF script = "deep" THEN [task EXCEPT ![c].pc = "test"] ELSE Return(c, TRUE)
  /\ UNCHANGED <<others, exnodes, extents, refs>>

VisitDirectory(c) ==
  /\ task[c].pc = "visit" /\ c.of.mode = "directory"
  /\ task' = Visit(Children(c), [task EXCEPT ![c].pc = "wait"])
  /\ UNCHANGED <<others, exnodes, extents, refs>>

Called(c) == {k \in DOMAIN task : c \in k.by}

Waited(c) == task[c].pc = "wait" /\ \A k \in Called(c) : task[k].pc = "done"

\* Mutant: the answer of one child decides.
LeaveByOne(c) ==
  /\ Waited(c)
  /\ \E data \in {task[k].data : k \in Called(c)} \cup (IF Called(c) = {} THEN {FALSE} ELSE {}) :
       /\ task' = Return(c, data)
       /\ exnodes' = IF data THEN exnodes ELSE exnodes \ Versions(c.of.id)
  /\ UNCHANGED <<others, extents, refs>>

\* A directory without data below it is removed.
LeaveDirectory(c) ==
  LET data == \E k \in Called(c) : task[k].data IN
  /\ Waited(c)
  /\ task' = Return(c, data)
  /\ exnodes' = IF data THEN exnodes ELSE exnodes \ Versions(c.of.id)
  /\ UNCHANGED <<others, extents, refs>>

-----------------------------------------------------------------------------
(* unis_prune_exnodes.py: prune_exnodes and prune_extents                  *)

Belonging(id) == UNION {Ids(g) : g \in {g \in known : g.id = id}}

\* One file of the cursor: it is noted when all its extents are over or cannot be read, and left
\* alone when it has none.  They are the extents in the file, copies that nobody renews, or the
\* records that refer to it, which all its versions share.
Look == \E f \in scan.todo : \E over \in BOOLEAN :
  LET own == Belonging(f.id) \cap extents
      bad == IF f.embedded THEN Ids(f) # {} /\ over ELSE own # {} /\ own \subseteq dead IN
  /\ phase = "scan"
  /\ scan' = [todo |-> scan.todo \ {f}, files |-> IF bad THEN scan.files \cup {f} ELSE scan.files]
  /\ UNCHANGED <<world, exnodes, extents, dead, task, phase, refs, user>>

\* Mutant: the records of the extents are removed first.
RemoveExtentsFirst ==
  /\ phase = "scan" /\ scan.todo = {}
  /\ extents' = extents \ UNION {Ids(f) : f \in scan.files}
  /\ phase' = "extents"
  /\ UNCHANGED <<world, exnodes, dead, task, scan, refs, user>>

\* All of them with one $in, after the scan.
RemoveFiles ==
  /\ phase = "scan" /\ scan.todo = {}
  /\ exnodes' = exnodes \ UNION {Versions(f.id) : f \in scan.files}
  /\ phase' = "extents"
  /\ UNCHANGED <<world, extents, dead, task, scan, refs, user>>

\* By the reference of one file after the other.
RemoveExtents ==
  /\ phase = "extents"
  /\ IF scan.files = {}
     THEN phase' = "walk" /\ UNCHANGED <<extents, scan>>
     ELSE \E f \in scan.files :
            /\ extents' = extents \ Belonging(f.id)
            /\ scan' = [scan EXCEPT !.files = @ \ {f}]
            /\ UNCHANGED phase
  /\ UNCHANGED <<world, exnodes, dead, task, refs, user>>

-----------------------------------------------------------------------------
(* The others                                                              *)

\* A client posts a file, or a new version of one, into a directory that it has seen.
PostFile ==
  /\ upload \notin exnodes /\ \A c \in DOMAIN task : c.of # upload
  /\ exnodes' = exnodes \cup {upload}
  /\ extents' = extents \cup Ids(upload)
  /\ UNCHANGED <<world, dead, task, scan, phase, refs, user>>

\* A client extends a lease, in the record and at the depot.
Renew == \E x \in dead :
  /\ dead' = dead \ {x}
  /\ UNCHANGED <<world, exnodes, extents, task, scan, phase, refs, user>>

Meanwhile == IBPNext /\ script = "deep"
             /\ UNCHANGED <<world, exnodes, extents, dead, task, scan, phase>>

DeepStep == \E c \in DOMAIN task :
  \/ Keep(c) \/ Discard(c)
  \/ \E i \in DOMAIN c.of.extents : FindAlive(c, i) \/ FindDead(c, i)

WalkStep == FindRoots \/ \E c \in DOMAIN task : VisitFile(c) \/ VisitDirectory(c) \/ LeaveDirectory(c)

ShallowStep == Look \/ RemoveFiles \/ RemoveExtents

Next == DeepStep \/ WalkStep \/ ShallowStep \/ PostFile \/ Renew \/ Meanwhile

Spec == Init /\ [][Next]_vars

-----------------------------------------------------------------------------
(* Properties                                                              *)

Kept(c) == task[c].pc = "done" /\ task[c].data

\* What the deep script keeps of a file is not empty and has no hole: each byte in front of an
\* extent is in an extent that a depot has answered for.  What may be missing is the end: a dead
\* extent that begins where the live ones end does not condemn the file.
KeptHasNoHole ==
  script = "deep" => \A c \in DOMAIN task : Kept(c) /\ c.of.mode = "file" =>
    /\ Alive(c) # {}
    /\ \A i \in DOMAIN c.of.extents : \A b \in 0..(c.of.extents[i].offset - 1) :
         \E j \in Alive(c) : /\ c.of.extents[j].offset <= b
                             /\ b < c.of.extents[j].offset + c.of.extents[j].size

Condemned(c) == task[c].pc = "done" /\ ~task[c].data

\* A file or directory that a call has found good stays, and so does the directory that it was
\* read from: threads, other files and uploads do not take them away.  What does is a call that
\* condemned a version of it, be it another version or the same one reached through another
\* version of its directory, whose extents were tested once more; the directory may also go with
\* a version of it that was read without the file.
KeptStays ==
  \A c \in DOMAIN task :
    Kept(c) /\ (\A k \in DOMAIN task : k.of.id = c.of.id => ~Condemned(k))
    => /\ c.of \in exnodes
       /\ \A d \in c.by :
            (\A g \in DOMAIN task : g.of.id = d.of.id /\ Condemned(g) =>
               \E k \in Called(g) : k.of.id = c.of.id)
            => d.of \in exnodes

\* The second script removes the record of an extent only when its file is gone: a script that
\* is stopped in between leaves records without a file, never a file without its records, but
\* for a version that is posted in between.
RecordsOutliveFiles ==
  [][script = "shallow" =>
       \A f \in exnodes' \ {upload} : Ids(f) \cap extents \subseteq extents']_vars
=============================================================================
