------------------------- MODULE ExnodePruneProofs -------------------------
(***************************************************************************)
(* The properties of the two scripts that clean exnodes, and of the        *)
(* release of an allocation, for any trees, uploads and number of users.   *)
(***************************************************************************)
EXTENDS ExnodePrune, FiniteSetTheorems, SequenceTheorems, WellFoundedInduction, TLAPS

Places == {"visit", "test", "wait", "done"}
TaskRecord == [pc: Places, tested: SUBSET Nat, alive: SUBSET Nat, data: BOOLEAN]

Typed ==
  /\ script \in {"deep", "shallow"} /\ phase \in {"scan", "extents", "walk", "walking"}
  /\ upload \in known /\ exnodes \subseteq known
  /\ \A e \in known : /\ e.extents \in Seq(Extents) /\ e.mode \in {"file", "directory"}
                      /\ \A g \in known : e.id # g.id => Ids(e) \cap Ids(g) = {}
  /\ task \in [DOMAIN task -> TaskRecord]
  /\ \A c \in DOMAIN task : c.of \in known /\ c.by \subseteq DOMAIN task
  /\ scan \in [todo: SUBSET known, files: SUBSET known]

-----------------------------------------------------------------------------
(* Release                                                                 *)

\* Every user that takes references has counted all that are left, and when one is through with
\* it nothing is left for another.
ReleaseInv ==
  /\ refs \in [Allocs -> Nat]
  /\ user \in [Users -> [pc: {"idle", "decrement", "released", "failed"}, left: Nat]]
  /\ \A u \in Users : user[u].pc = "decrement" => user[u].left >= 1 /\ refs[Wanted] <= user[u].left
  /\ \A u \in Users : user[u].pc = "released" => refs[Wanted] = 0
  /\ \A u, v \in Users : user[u].pc = "released" /\ user[v].pc = "released" => u = v

LEMMA ReleaseInit ==
  ASSUME IBPInit
  PROVE  ReleaseInv
BY IBPAssumption DEF IBPInit, ReleaseInv

LEMMA ReleaseStep ==
  ASSUME ReleaseInv, IBPNext
  PROVE  ReleaseInv'
<1>0. Wanted \in Allocs /\ refs[Wanted] \in Nat
  BY IBPAssumption DEF ReleaseInv
<1>1. ASSUME NEW u \in Users, ReleaseProbes(u) PROVE ReleaseInv'
  BY <1>0, <1>1 DEF ReleaseInv, ReleaseProbes, Probed
<1>2. ASSUME NEW u \in Users, ReleaseUnanswered(u) PROVE ReleaseInv'
  BY <1>0, <1>2 DEF ReleaseInv, ReleaseUnanswered, Unanswered, Goto
<1>3. ASSUME NEW u \in Users, ReleaseDecrements(u) PROVE ReleaseInv'
  <2>1. /\ user[u].pc = "decrement" /\ refs[Wanted] > 0 /\ user[u].left \in Nat /\ user[u].left >= 1
        /\ refs' = [refs EXCEPT ![Wanted] = @ - 1]
        /\ user' = [user EXCEPT ![u] = [pc |-> IF user[u].left = 1 THEN "released" ELSE "decrement",
                                        left |-> user[u].left - 1]]
    BY <1>3 DEF ReleaseInv, ReleaseDecrements, Decremented, Takes
  <2>2. refs' \in [Allocs -> Nat] /\ refs'[Wanted] = refs[Wanted] - 1
    BY <1>0, <2>1 DEF ReleaseInv
  <2>3. refs[Wanted] <= user[u].left /\ \A v \in Users : user[v].pc # "released"
    BY <2>1 DEF ReleaseInv
  <2> QED BY <1>0, <2>1, <2>2, <2>3 DEF ReleaseInv
<1>4. ASSUME NEW u \in Users, DecrementUnanswered(u) PROVE ReleaseInv'
  <2>1. /\ user' = [user EXCEPT ![u].pc = "failed"] /\ user[u].pc = "decrement"
        /\ refs' = refs \/ (refs[Wanted] > 0 /\ refs' = [refs EXCEPT ![Wanted] = @ - 1])
    BY <1>4 DEF DecrementUnanswered, Unanswered, Decremented, Goto
  <2>2. refs' \in [Allocs -> Nat] /\ refs'[Wanted] <= refs[Wanted]
    BY <1>0, <2>1 DEF ReleaseInv
  <2>3. refs'[Wanted] \in Nat
    BY <1>0, <2>2
  <2> QED BY <1>0, <2>1, <2>2, <2>3 DEF ReleaseInv
<1>5. ASSUME Expire PROVE ReleaseInv'
  BY <1>0, <1>5 DEF ReleaseInv, Expire
<1> QED BY <1>1, <1>2, <1>3, <1>4, <1>5 DEF IBPNext

LEMMA ReleaseDecides ==
  ASSUME ReleaseInv
  PROVE  ReleasedOnce
<1> DEFINE released == {u \in Users : user[u].pc = "released"}
<1>1. ASSUME released # {} PROVE refs[Wanted] = 0 /\ Cardinality(released) = 1
  <2>1. PICK u \in Users : user[u].pc = "released"
    BY <1>1
  <2>2. released = {u} /\ refs[Wanted] = 0
    BY <2>1 DEF ReleaseInv
  <2> QED BY <2>2, FS_Singleton
<1> QED BY <1>1 DEF ReleasedOnce

\* The steps of the scripts leave the depots alone.
LEMMA DepotsApart ==
  ASSUME [Next]_vars
  PROVE  (IBPNext /\ UNCHANGED <<script, known, upload, exnodes, extents, task, scan, phase>>)
         \/ UNCHANGED <<refs, user>>
<1>1. CASE DeepStep
  <2>1. PICK c \in DOMAIN task : \/ Keep(c) \/ Discard(c)
                                 \/ \E i \in DOMAIN c.of.extents : FindAlive(c, i) \/ FindDead(c, i)
    BY <1>1, Zenon DEF DeepStep
  <2> QED BY <2>1 DEF Keep, Discard, FindAlive, FindDead, Probed, Unanswered, others
<1>2. CASE WalkStep
  BY <1>2 DEF WalkStep, FindRoots, VisitFile, VisitDirectory, LeaveDirectory, others
<1>3. CASE ShallowStep \/ PostFile \/ Renew \/ Meanwhile
  BY <1>3 DEF ShallowStep, Look, RemoveFiles, RemoveExtents, PostFile, Renew, Meanwhile, world
<1>4. CASE UNCHANGED vars
  BY <1>4 DEF vars
<1> QED BY <1>1, <1>2, <1>3, <1>4 DEF Next

\* Of the users who release an allocation at the same time, however many they are, at most one is
\* told that it has done so, and then the allocation is gone.
THEOREM OneReleases == Spec => []ReleasedOnce
<1>1. Init => ReleaseInv
  BY ReleaseInit DEF Init
<1>2. ReleaseInv /\ [Next]_vars => ReleaseInv'
  <2> SUFFICES ASSUME ReleaseInv, [Next]_vars PROVE ReleaseInv'
    OBVIOUS
  <2>1. CASE UNCHANGED <<refs, user>>
    BY <2>1 DEF ReleaseInv
  <2> QED BY <2>1, ReleaseStep, DepotsApart
<1> QED BY <1>1, <1>2, ReleaseDecides, PTL DEF Spec

-----------------------------------------------------------------------------
(* The shapes of what the scripts keep                                     *)

LEMMA TypedInit ==
  ASSUME Init
  PROVE  Typed
<1>1. PICK tree \in Trees, new \in Uploads :
        exnodes = tree /\ upload = new /\ known = tree \cup {new}
  BY DEF Init
<1>2. \A e \in known : /\ e.extents \in Seq(Extents) /\ e.mode \in {"file", "directory"}
                       /\ \A g \in known : e.id # g.id => Ids(e) \cap Ids(g) = {}
  BY <1>1, TreesAssumption
<1>3. DOMAIN task = {} /\ task \in [{} -> TaskRecord]
  BY DEF Init
<1>4. /\ script \in {"deep", "shallow"} /\ phase \in {"scan", "walk"}
      /\ scan \in [todo: SUBSET known, files: SUBSET known]
  BY DEF Init
<1> QED BY <1>1, <1>2, <1>3, <1>4 DEF Typed

\* The exnodes that there are or will be do not change.
LEMMA WorldStays ==
  ASSUME [Next]_vars
  PROVE  UNCHANGED world
<1>1. CASE DeepStep
  <2>1. PICK c \in DOMAIN task : \/ Keep(c) \/ Discard(c)
                                 \/ \E i \in DOMAIN c.of.extents : FindAlive(c, i) \/ FindDead(c, i)
    BY <1>1, Zenon DEF DeepStep
  <2> QED BY <2>1 DEF Keep, Discard, FindAlive, FindDead, others
<1>2. CASE WalkStep
  BY <1>2 DEF WalkStep, FindRoots, VisitFile, VisitDirectory, LeaveDirectory, others
<1>3. CASE ShallowStep \/ PostFile \/ Renew \/ Meanwhile
  BY <1>3 DEF ShallowStep, Look, RemoveFiles, RemoveExtents, PostFile, Renew, Meanwhile, world
<1>4. CASE UNCHANGED vars
  BY <1>4 DEF vars
<1> QED BY <1>1, <1>2, <1>3, <1>4 DEF Next

\* What a step makes of the walk and of the exnodes.  A call returns with or without data, makes
\* calls for what a query has found, or goes on by itself.
Settles(c, data) ==
  /\ task' = Return(c, data)
  /\ exnodes' = IF data THEN exnodes ELSE exnodes \ Versions(c.of.id)
  /\ UNCHANGED <<phase, scan>>

Passes(c) ==
  \/ Keep(c) /\ Settles(c, TRUE)
  \/ Discard(c) /\ Settles(c, FALSE)
  \/ VisitFile(c) /\ script = "shallow" /\ Settles(c, TRUE)
  \/ LeaveDirectory(c) /\ Settles(c, \E k \in Called(c) : task[k].data)
  \/ VisitFile(c) /\ task' = [task EXCEPT ![c].pc = "test"] /\ script = "deep"
     /\ UNCHANGED <<exnodes, phase, scan>>
  \/ VisitDirectory(c) /\ UNCHANGED <<exnodes, phase, scan>>

\* The record of one call is another one.
Becomes(c, now) == DOMAIN now = DOMAIN task /\ now \in [DOMAIN task -> TaskRecord]
                   /\ \A k \in DOMAIN task \ {c} : now[k] = task[k]

Tests(c) ==
  /\ task[c].pc = "test" /\ task'[c].pc = "test"
  /\ Becomes(c, task')
  /\ UNCHANGED <<exnodes, phase, scan>>

Rests == UNCHANGED <<task, exnodes, phase, scan>>

LEMMA TestIs ==
  ASSUME Typed, NEW c \in DOMAIN task, NEW i \in DOMAIN c.of.extents, FindAlive(c, i) \/ FindDead(c, i)
  PROVE  Tests(c)
<1>1. task[c] \in TaskRecord /\ i \in Nat
  <2>1. c.of.extents \in Seq(Extents)
    BY DEF Typed
  <2> QED BY <2>1, LenProperties DEF Typed
<1>2. PICK q \in TaskRecord : q.pc = task[c].pc /\ task' = [task EXCEPT ![c] = q]
  <2>1. CASE FindAlive(c, i)
    <3>1. PICK q : q = [task[c] EXCEPT !.tested = @ \cup {i}, !.alive = @ \cup {i}]
      OBVIOUS
    <3>2. q \in TaskRecord /\ q.pc = task[c].pc
      BY <1>1, <3>1 DEF TaskRecord
    <3>3. task' = [task EXCEPT ![c] = q]
      BY <2>1, <3>1 DEF FindAlive
    <3> QED BY <3>2, <3>3
  <2>2. CASE FindDead(c, i)
    <3>1. PICK q : q = [task[c] EXCEPT !.tested = @ \cup {i}]
      OBVIOUS
    <3>2. q \in TaskRecord /\ q.pc = task[c].pc
      BY <1>1, <3>1 DEF TaskRecord
    <3>3. task' = [task EXCEPT ![c] = q]
      BY <2>2, <3>1 DEF FindDead
    <3> QED BY <3>2, <3>3
  <2> QED BY <2>1, <2>2
<1>3. Becomes(c, task') /\ task'[c] = q
  BY <1>2 DEF Becomes, Typed
<1> QED BY <1>2, <1>3 DEF Tests, FindAlive, FindDead, Testing, others

LEMMA StepIs ==
  ASSUME Typed, [Next]_vars
  PROVE  \/ \E c \in DOMAIN task : Passes(c) \/ Tests(c)
         \/ FindRoots
         \/ Look
         \/ RemoveFiles
         \/ RemoveExtents
         \/ PostFile
         \/ Rests
<1>1. CASE DeepStep
  <2>1. PICK c \in DOMAIN task : \/ Keep(c) \/ Discard(c)
                                 \/ \E i \in DOMAIN c.of.extents : FindAlive(c, i) \/ FindDead(c, i)
    BY <1>1, Zenon DEF DeepStep
  <2>2. ASSUME Keep(c) PROVE Passes(c)
    BY <2>2 DEF Keep, Passes, Settles, others
  <2>3. ASSUME Discard(c) PROVE Passes(c)
    BY <2>3 DEF Discard, Passes, Settles, others
  <2> QED BY <2>1, <2>2, <2>3, TestIs, Zenon
<1>2. CASE WalkStep
  <2>1. ASSUME NEW c \in DOMAIN task, VisitFile(c) PROVE Passes(c)
    BY <2>1 DEF Typed, VisitFile, Passes, Settles, others
  <2>2. ASSUME NEW c \in DOMAIN task, VisitDirectory(c) PROVE Passes(c)
    BY <2>2 DEF VisitDirectory, Passes, others
  <2>3. ASSUME NEW c \in DOMAIN task, LeaveDirectory(c) PROVE Passes(c)
    BY <2>3 DEF LeaveDirectory, Passes, Settles, others
  <2> QED BY <1>2, <2>1, <2>2, <2>3, Zenon DEF WalkStep
<1>3. CASE ShallowStep \/ PostFile \/ Renew \/ Meanwhile
  BY <1>3 DEF ShallowStep, Renew, Meanwhile, Rests
<1>4. CASE UNCHANGED vars
  BY <1>4 DEF vars, Rests
<1> QED BY <1>1, <1>2, <1>3, <1>4 DEF Next

LEMMA ReturnTyped ==
  ASSUME Typed, NEW c \in DOMAIN task, NEW data \in BOOLEAN
  PROVE  /\ Becomes(c, Return(c, data))
         /\ Return(c, data)[c].pc = "done" /\ Return(c, data)[c].data = data
         /\ Return(c, data)[c].alive = task[c].alive
<1>1. PICK q : q = [task[c] EXCEPT !.pc = "done", !.data = data]
  OBVIOUS
<1>2. q \in TaskRecord /\ q.pc = "done" /\ q.data = data /\ q.alive = task[c].alive
  BY <1>1 DEF Typed, TaskRecord, Places
<1>3. Return(c, data) = [task EXCEPT ![c] = q]
  BY <1>1 DEF Return
<1> QED BY <1>2, <1>3 DEF Becomes, Typed

LEMMA PcTyped ==
  ASSUME Typed, NEW c \in DOMAIN task, NEW pc \in Places
  PROVE  /\ Becomes(c, [task EXCEPT ![c].pc = pc])
         /\ [task EXCEPT ![c].pc = pc][c].pc = pc
<1>1. PICK q : q = [task[c] EXCEPT !.pc = pc]
  OBVIOUS
<1>2. q \in TaskRecord /\ q.pc = pc
  BY <1>1 DEF Typed, TaskRecord
<1>3. [task EXCEPT ![c].pc = pc] = [task EXCEPT ![c] = q]
  BY <1>1
<1> QED BY <1>2, <1>3 DEF Becomes, Typed

\* Calls for exnodes that are there have been made, by a directory that now waits or by nobody.
Calls(now, new, by) ==
  /\ DOMAIN now = DOMAIN task \cup new /\ now \in [DOMAIN task \cup new -> TaskRecord]
  /\ \A k \in new : k.of \in exnodes /\ k.by = by
  /\ by \subseteq DOMAIN task
  /\ \A k \in DOMAIN task \ by : now[k] = task[k]
  /\ \A k \in new \ DOMAIN task : now[k] = Entered
  /\ \A c \in by : task[c].pc = "visit" /\ now[c].pc = "wait" /\ c.of.mode = "directory"

LEMMA EnteredTyped == Entered \in TaskRecord /\ Entered.pc = "visit"
BY DEF Entered, TaskRecord, Places

LEMMA DirectoryTyped ==
  ASSUME Typed, NEW c \in DOMAIN task, VisitDirectory(c)
  PROVE  \E new : Calls(task', new, {c})
<1>1. PICK t : t = [task EXCEPT ![c].pc = "wait"]
  OBVIOUS
<1>2. Becomes(c, t) /\ t[c].pc = "wait"
  BY <1>1, PcTyped DEF Places
<1>3. PICK new : new = Children(c)
  OBVIOUS
<1>4. task' = [k \in DOMAIN t \cup new |-> IF k \in DOMAIN t THEN t[k] ELSE Entered]
  BY <1>1, <1>3 DEF VisitDirectory, Visit
<1>5. \A k \in new : k.of \in exnodes /\ k.by = {c}
  BY <1>3 DEF Children
<1>6. task[c].pc = "visit" /\ c.of.mode = "directory"
  BY DEF VisitDirectory
<1> QED BY <1>2, <1>4, <1>5, <1>6, EnteredTyped DEF Calls, Becomes

LEMMA RootsTyped ==
  ASSUME Typed, FindRoots
  PROVE  \E new : Calls(task', new, {})
<1>1. PICK new : new = Roots
  OBVIOUS
<1>2. task' = [k \in DOMAIN task \cup new |-> IF k \in DOMAIN task THEN task[k] ELSE Entered]
  BY <1>1 DEF FindRoots, Visit
<1>3. \A k \in new : k.of \in exnodes /\ k.by = {}
  BY <1>1 DEF Roots
<1> QED BY <1>2, <1>3, EnteredTyped DEF Calls, Typed

LEMMA TypedStep ==
  ASSUME Typed, [Next]_vars
  PROVE  Typed'
<1>1. UNCHANGED world
  BY WorldStays
<1> DEFINE Rest == /\ exnodes' \subseteq known
                   /\ task' \in [DOMAIN task' -> TaskRecord]
                   /\ \A c \in DOMAIN task' : c.of \in known /\ c.by \subseteq DOMAIN task'
                   /\ scan' \in [todo: SUBSET known, files: SUBSET known]
                   /\ phase' \in {"scan", "extents", "walk", "walking"}
<1> SUFFICES Rest
  BY <1>1 DEF Typed, world, Ids
<1>2. ASSUME NEW c \in DOMAIN task, Becomes(c, task'), exnodes' \subseteq exnodes, UNCHANGED <<phase, scan>> PROVE Rest
  BY <1>2 DEF Becomes, Typed
<1>3. ASSUME NEW new, NEW by, Calls(task', new, by), exnodes' = exnodes, scan' = scan, phase' \in {phase, "walking"}
      PROVE  Rest
  BY <1>3 DEF Calls, Typed
<1>4. ASSUME NEW c \in DOMAIN task, Passes(c) PROVE Rest
  <2>1. ASSUME NEW data \in BOOLEAN, Settles(c, data) PROVE Rest
    <3>1. Becomes(c, task')
      BY <2>1, ReturnTyped DEF Settles
    <3> QED BY <1>2, <2>1, <3>1 DEF Settles
  <2>2. CASE task' = [task EXCEPT ![c].pc = "test"] /\ UNCHANGED <<exnodes, phase, scan>>
    <3>1. Becomes(c, task')
      BY <2>2, PcTyped DEF Places
    <3> QED BY <1>2, <2>2, <3>1
  <2>3. CASE VisitDirectory(c) /\ UNCHANGED <<exnodes, phase, scan>>
    BY <1>3, <2>3, DirectoryTyped
  <2>4. (\E k \in Called(c) : task[k].data) \in BOOLEAN
    OBVIOUS
  <2> HIDE DEF Rest
  <2> QED BY <1>4, <2>1, <2>2, <2>3, <2>4, Zenon DEF Passes
<1>5. ASSUME NEW c \in DOMAIN task, Tests(c) PROVE Rest
  BY <1>2, <1>5 DEF Tests
<1>6. CASE FindRoots
  BY <1>3, <1>6, RootsTyped DEF FindRoots
<1>7. CASE Look
  <2>1. \E f \in scan.todo : \E files \in {scan.files, scan.files \cup {f}} :
          scan' = [todo |-> scan.todo \ {f}, files |-> files]
    BY <1>7 DEF Look
  <2>2. scan' \in [todo: SUBSET known, files: SUBSET known]
    BY <2>1 DEF Typed
  <2> QED BY <1>7, <2>2 DEF Look, Typed
<1>8. CASE RemoveFiles \/ RemoveExtents \/ PostFile \/ Rests
  BY <1>8 DEF RemoveFiles, RemoveExtents, PostFile, Rests, Typed
<1> HIDE DEF Rest
<1> QED BY <1>4, <1>5, <1>6, <1>7, <1>8, StepIs

-----------------------------------------------------------------------------
(* What was found good stays                                               *)

\* How far the calls are.  What was condemned is gone for good, and so are all that were read
\* below it; whatever else was called for is there, unless a call condemned a version of it.
WalkInv ==
  /\ phase # "walking" => DOMAIN task = {}
  /\ \A c \in DOMAIN task : task[c].pc \in {"visit", "test"} => Called(c) = {}
  /\ \A c \in DOMAIN task : task[c].pc = "test" => script = "deep" /\ c.of.mode = "file"
  /\ \A c \in DOMAIN task : task[c].pc = "wait" => c.of.mode = "directory"
  /\ \A c \in DOMAIN task : Condemned(c) => c.of \notin exnodes /\ \A k \in Called(c) : Condemned(k)
  /\ \A c \in DOMAIN task : c.of \in exnodes \/ \E g \in DOMAIN task : g.of.id = c.of.id /\ Condemned(g)

LEMMA WalkInit ==
  ASSUME Init
  PROVE  WalkInv
BY DEF Init, WalkInv

\* A step of one call that has made none, or whose calls have returned, within the walk.
LEMMA BecomesWalk ==
  ASSUME Typed, WalkInv, NEW c \in DOMAIN task, Becomes(c, task'), script' = script, phase' = phase,
         task[c].pc \in {"visit", "test", "wait"},
         task'[c].pc \in {"test", "done"},
         task'[c].pc = "test" => script = "deep" /\ c.of.mode = "file" /\ task[c].pc \in {"visit", "test"},
         exnodes' = IF Condemned(c)' THEN exnodes \ Versions(c.of.id) ELSE exnodes,
         Condemned(c)' => \A k \in Called(c) : Condemned(k)
  PROVE  WalkInv'
<1>1. DOMAIN task' = DOMAIN task /\ \A k \in DOMAIN task \ {c} : task'[k] = task[k]
  BY DEF Becomes
<1>2. \A k \in DOMAIN task : Called(k)' = Called(k)
  BY <1>1 DEF Called
<1>3. ~Condemned(c) /\ \A k \in DOMAIN task \ {c} : (Condemned(k)' <=> Condemned(k))
  BY <1>1 DEF Condemned
<1>4. /\ exnodes' \subseteq exnodes
      /\ \A e \in exnodes \ exnodes' : e.id = c.of.id /\ Condemned(c)'
      /\ Condemned(c)' => c.of \notin exnodes'
  BY DEF Versions
<1>5. /\ phase' # "walking" => DOMAIN task' = {}
      /\ \A k \in DOMAIN task : task'[k].pc \in {"visit", "test"} => Called(k)' = {}
  BY <1>1, <1>2 DEF WalkInv
<1>6. /\ \A k \in DOMAIN task : task'[k].pc = "test" => script = "deep" /\ k.of.mode = "file"
      /\ \A k \in DOMAIN task : task'[k].pc = "wait" => k.of.mode = "directory"
  BY <1>1 DEF WalkInv
<1>7. ASSUME NEW k \in DOMAIN task, Condemned(k)' PROVE k.of \notin exnodes' /\ \A j \in Called(k) : Condemned(j)'
  <2>1. \A j \in Called(k) : Condemned(j) /\ j \in DOMAIN task
    BY <1>3, <1>7 DEF WalkInv, Called
  <2>2. \A j \in Called(k) : Condemned(j)'
    BY <1>3, <2>1
  <2>3. k.of \notin exnodes'
    BY <1>3, <1>4, <1>7 DEF WalkInv
  <2> QED BY <2>2, <2>3
<1>8. ASSUME NEW k \in DOMAIN task, k.of \notin exnodes' PROVE \E g \in DOMAIN task : g.of.id = k.of.id /\ Condemned(g)'
  <2>1. CASE k.of \in exnodes
    BY <1>4, <1>8, <2>1
  <2>2. CASE k.of \notin exnodes
    BY <1>3, <2>2 DEF WalkInv
  <2> QED BY <2>1, <2>2
<1> QED BY <1>1, <1>2, <1>5, <1>6, <1>7, <1>8 DEF WalkInv

\* Calls for exnodes that are there are made.
LEMMA CallsWalk ==
  ASSUME Typed, WalkInv, NEW new, NEW by, Calls(task', new, by),
         script' = script, exnodes' = exnodes, phase' = "walking"
  PROVE  WalkInv'
<1>1. DOMAIN task' = DOMAIN task \cup new
  BY DEF Calls
<1>2. \A k \in DOMAIN task : k \notin by => task'[k] = task[k]
  BY DEF Calls
<1>3. \A c \in by : c \in DOMAIN task /\ task[c].pc = "visit" /\ task'[c].pc = "wait" /\ c.of.mode = "directory"
  BY DEF Calls
<1>4. \A k \in new \ DOMAIN task : task'[k] = Entered /\ k.of \in exnodes /\ k.by = by
  BY DEF Calls
<1>5. \A k \in DOMAIN task' : Condemned(k)' <=> (k \in DOMAIN task /\ Condemned(k))
  BY <1>1, <1>2, <1>3, <1>4, EnteredTyped DEF Condemned
<1>6. ASSUME NEW k \in DOMAIN task', k \notin by PROVE Called(k)' \subseteq Called(k)
  BY <1>1, <1>4, <1>6 DEF Called
<1>7. ASSUME NEW k \in DOMAIN task', task'[k].pc \in {"visit", "test"} PROVE Called(k)' = {}
  <2>1. k \notin by
    BY <1>3, <1>7
  <2>2. CASE k \in DOMAIN task
    BY <1>2, <1>6, <1>7, <2>1, <2>2 DEF WalkInv
  <2>3. CASE k \notin DOMAIN task
    <3>1. Called(k) = {}
      BY <2>3 DEF Called, Typed
    <3> QED BY <1>6, <2>1, <3>1
  <2> QED BY <2>2, <2>3
<1>8. \A k \in DOMAIN task' : /\ task'[k].pc = "test" => script = "deep" /\ k.of.mode = "file"
                              /\ task'[k].pc = "wait" => k.of.mode = "directory"
  BY <1>1, <1>2, <1>3, <1>4, EnteredTyped DEF WalkInv
<1>9. ASSUME NEW k \in DOMAIN task', Condemned(k)' PROVE k.of \notin exnodes /\ \A j \in Called(k)' : Condemned(j)'
  <2>1. k \in DOMAIN task /\ Condemned(k)
    BY <1>5, <1>9
  <2>2. k \notin by
    BY <1>3, <2>1 DEF Condemned
  <2>3. \A j \in Called(k)' : j \in Called(k) /\ j \in DOMAIN task'
    BY <1>6, <2>2 DEF Called
  <2>4. \A j \in Called(k)' : Condemned(j) /\ j \in DOMAIN task
    BY <2>1, <2>3 DEF WalkInv, Called
  <2> QED BY <1>5, <2>1, <2>3, <2>4 DEF WalkInv
<1>10. ASSUME NEW k \in DOMAIN task', k.of \notin exnodes PROVE \E g \in DOMAIN task' : g.of.id = k.of.id /\ Condemned(g)'
  <2>1. k \in DOMAIN task
    BY <1>1, <1>4, <1>10
  <2>2. PICK g \in DOMAIN task : g.of.id = k.of.id /\ Condemned(g)
    BY <1>10, <2>1 DEF WalkInv
  <2> QED BY <1>1, <1>5, <2>2
<1> QED BY <1>7, <1>8, <1>9, <1>10 DEF WalkInv

LEMMA WalkKept ==
  ASSUME Typed, WalkInv, [Next]_vars
  PROVE  WalkInv'
<1>1. known' = known /\ script' = script /\ upload' = upload
  BY WorldStays DEF world
<1>2. ASSUME NEW c \in DOMAIN task, NEW data \in BOOLEAN, Settles(c, data), task[c].pc \in {"visit", "test", "wait"},
             ~data => \A k \in Called(c) : Condemned(k)
      PROVE  WalkInv'
  <2>1. Becomes(c, task') /\ task'[c].pc = "done" /\ task'[c].data = data
    BY <1>2, ReturnTyped DEF Settles
  <2>2. Condemned(c)' <=> ~data
    BY <2>1 DEF Condemned
  <2>3. exnodes' = IF Condemned(c)' THEN exnodes \ Versions(c.of.id) ELSE exnodes
    BY <1>2, <2>2 DEF Settles
  <2> QED BY <1>1, <1>2, <2>1, <2>2, <2>3, BecomesWalk DEF Settles
<1>3. ASSUME NEW c \in DOMAIN task, Passes(c) PROVE WalkInv'
  <2>1. CASE (Keep(c) \/ VisitFile(c)) /\ Settles(c, TRUE)
    BY <1>2, <2>1 DEF Keep, VisitFile, Tested
  <2>2. CASE Discard(c) /\ Settles(c, FALSE)
    <3>1. task[c].pc = "test"
      BY <2>2 DEF Discard, Tested
    <3>2. Called(c) = {}
      BY <3>1 DEF WalkInv
    <3> QED BY <1>2, <2>2, <3>1, <3>2
  <2>3. CASE LeaveDirectory(c) /\ Settles(c, \E k \in Called(c) : task[k].data)
    <3>1. PICK data \in BOOLEAN : data = (\E k \in Called(c) : task[k].data)
      OBVIOUS
    <3>2. task[c].pc = "wait" /\ \A k \in Called(c) : task[k].pc = "done"
      BY <2>3 DEF LeaveDirectory, Waited
    <3>3. ~data => \A k \in Called(c) : Condemned(k)
      BY <3>1, <3>2 DEF Condemned
    <3>4. Settles(c, data)
      BY <2>3, <3>1
    <3> QED BY <1>2, <3>2, <3>3, <3>4
  <2>4. CASE VisitFile(c) /\ task' = [task EXCEPT ![c].pc = "test"] /\ script = "deep"
             /\ UNCHANGED <<exnodes, phase, scan>>
    <3>1. task[c].pc = "visit" /\ c.of.mode = "file"
      BY <2>4 DEF VisitFile
    <3>2. Becomes(c, task') /\ task'[c].pc = "test"
      BY <2>4, PcTyped DEF Places
    <3>3. ~Condemned(c)'
      BY <3>2 DEF Condemned
    <3> QED BY <1>1, <2>4, <3>1, <3>2, <3>3, BecomesWalk
  <2>5. CASE VisitDirectory(c) /\ UNCHANGED <<exnodes, phase, scan>>
    <3>1. PICK new : Calls(task', new, {c})
      BY <2>5, DirectoryTyped
    <3>2. phase = "walking"
      BY DEF WalkInv
    <3> QED BY <1>1, <2>5, <3>1, <3>2, CallsWalk
  <2> QED BY <1>3, <2>1, <2>2, <2>3, <2>4, <2>5, Zenon DEF Passes
<1>4. ASSUME NEW c \in DOMAIN task, Tests(c) PROVE WalkInv'
  <2>1. ~Condemned(c)' /\ script = "deep" /\ c.of.mode = "file"
    BY <1>4 DEF Tests, Condemned, WalkInv
  <2> QED BY <1>1, <1>4, <2>1, BecomesWalk DEF Tests
<1>5. ASSUME UNCHANGED <<task, exnodes, phase>> PROVE WalkInv'
  BY <1>1, <1>5 DEF WalkInv, Condemned, Called
<1>6. CASE FindRoots
  <2>1. PICK new : Calls(task', new, {})
    BY <1>6, RootsTyped
  <2> QED BY <1>1, <1>6, <2>1, CallsWalk DEF FindRoots
<1>7. CASE RemoveFiles
  <2>1. phase = "scan" /\ phase' = "extents" /\ task' = task
    BY <1>7 DEF RemoveFiles
  <2>2. DOMAIN task = {}
    BY <2>1 DEF WalkInv
  <2> QED BY <2>1, <2>2 DEF WalkInv
<1>8. CASE RemoveExtents
  <2>1. phase = "extents" /\ task' = task
    BY <1>8 DEF RemoveExtents
  <2>2. DOMAIN task = {}
    BY <2>1 DEF WalkInv
  <2> QED BY <2>1, <2>2 DEF WalkInv
<1>9. CASE PostFile
  <2>1. (\A c \in DOMAIN task : c.of # upload) /\ exnodes' = exnodes \cup {upload} /\ task' = task /\ phase' = phase
    BY <1>9 DEF PostFile
  <2> QED BY <1>1, <2>1 DEF WalkInv, Condemned, Called
<1>10. CASE Look
  BY <1>5, <1>10 DEF Look
<1>11. CASE Rests
  BY <1>5, <1>11 DEF Rests
<1> QED BY <1>3, <1>4, <1>6, <1>7, <1>8, <1>9, <1>10, <1>11, StepIs

LEMMA WalkKeeps ==
  ASSUME Typed, WalkInv
  PROVE  KeptStays
<1> SUFFICES ASSUME NEW c \in DOMAIN task, Kept(c), \A k \in DOMAIN task : k.of.id = c.of.id => ~Condemned(k)
             PROVE  /\ c.of \in exnodes
                    /\ \A d \in c.by :
                         (\A g \in DOMAIN task : g.of.id = d.of.id /\ Condemned(g) =>
                            \E k \in Called(g) : k.of.id = c.of.id)
                         => d.of \in exnodes
  BY DEF KeptStays
<1>1. c.of \in exnodes
  BY DEF WalkInv
<1>2. ASSUME NEW d \in c.by, d.of \notin exnodes,
             \A g \in DOMAIN task : g.of.id = d.of.id /\ Condemned(g) => \E k \in Called(g) : k.of.id = c.of.id
      PROVE  FALSE
  <2>1. d \in DOMAIN task
    BY DEF Typed
  <2>2. PICK g \in DOMAIN task : g.of.id = d.of.id /\ Condemned(g)
    BY <1>2, <2>1 DEF WalkInv
  <2>3. PICK k \in Called(g) : k.of.id = c.of.id
    BY <1>2, <2>2
  <2>4. Condemned(k) /\ k \in DOMAIN task
    BY <2>2 DEF WalkInv, Called
  <2> QED BY <2>3, <2>4
<1> QED BY <1>1, <1>2

\* For any trees, with any number of versions of files and directories, and any number of files
\* posted under the walk: what a call has found good stays, and so does the directory it was read
\* from, unless another call condemns a version of it, or of the directory without it.
THEOREM GoodStays == Spec => []KeptStays
<1>1. Init => Typed /\ WalkInv
  BY TypedInit, WalkInit
<1>2. (Typed /\ WalkInv) /\ [Next]_vars => (Typed /\ WalkInv)'
  BY TypedStep, WalkKept
<1>3. Typed /\ WalkInv => KeptStays
  BY WalkKeeps
<1> QED BY <1>1, <1>2, <1>3, PTL DEF Spec

-----------------------------------------------------------------------------
(* Records and files                                                       *)

\* While records are removed, no version of a file that they belong to is there, but for one that
\* was posted meanwhile.
RecordsInv ==
  phase = "extents" => \A f \in exnodes \ {upload} : \A g \in scan.files : f.id # g.id

\* Records go when a file is tested, and in RemoveExtents.
LEMMA RecordsGo ==
  ASSUME [Next]_vars
  PROVE  \/ extents \subseteq extents'
         \/ RemoveExtents
         \/ \E c \in DOMAIN task : task[c].pc = "test"
<1>1. CASE DeepStep
  <2>1. PICK c \in DOMAIN task : \/ Keep(c) \/ Discard(c)
                                 \/ \E i \in DOMAIN c.of.extents : FindAlive(c, i) \/ FindDead(c, i)
    BY <1>1, Zenon DEF DeepStep
  <2> QED BY <2>1 DEF Keep, Discard, FindAlive, FindDead, Tested, Testing
<1>2. CASE WalkStep
  BY <1>2 DEF WalkStep, FindRoots, VisitFile, VisitDirectory, LeaveDirectory
<1>3. CASE ShallowStep \/ PostFile \/ Renew \/ Meanwhile
  BY <1>3 DEF ShallowStep, Look, RemoveFiles, PostFile, Renew, Meanwhile
<1>4. CASE UNCHANGED vars
  BY <1>4 DEF vars
<1> QED BY <1>1, <1>2, <1>3, <1>4 DEF Next

LEMMA RecordsStep ==
  ASSUME Typed, WalkInv, RecordsInv, [Next]_vars
  PROVE  RecordsInv'
<1>1. upload' = upload
  BY WorldStays DEF world
<1>2. ASSUME NEW c \in DOMAIN task, Passes(c) \/ Tests(c) PROVE phase' # "extents"
  <2>1. phase = "walking"
    BY DEF WalkInv
  <2> QED BY <1>2, <2>1 DEF Passes, Settles, Tests
<1>3. CASE RemoveFiles
  <2>1. /\ exnodes' = exnodes \ UNION {Versions(f.id) : f \in scan.files}
        /\ scan' = scan
    BY <1>3 DEF RemoveFiles
  <2>2. \A f \in exnodes', g \in scan.files : f.id # g.id
    BY <2>1 DEF Versions
  <2> QED BY <2>1, <2>2 DEF RecordsInv
<1>4. CASE RemoveExtents
  <2>1. exnodes' = exnodes /\ (scan' = scan \/ \E f \in scan.files : scan' = [scan EXCEPT !.files = @ \ {f}])
        /\ phase = "extents"
    BY <1>4 DEF RemoveExtents
  <2>2. scan'.files \subseteq scan.files
    BY <2>1 DEF Typed
  <2> QED BY <1>1, <2>1, <2>2 DEF RecordsInv
<1>5. CASE PostFile
  BY <1>1, <1>5 DEF PostFile, RecordsInv
<1>6. CASE FindRoots \/ Look
  BY <1>6 DEF FindRoots, Look, RecordsInv
<1>7. CASE Rests
  BY <1>1, <1>7 DEF RecordsInv, Rests
<1> QED BY <1>2, <1>3, <1>4, <1>5, <1>6, <1>7, StepIs DEF RecordsInv

LEMMA RecordsDecide ==
  ASSUME Typed, WalkInv, RecordsInv, [Next]_vars, script = "shallow",
         NEW f \in exnodes' \ {upload}
  PROVE  Ids(f) \cap extents \subseteq extents'
<1>1. \A c \in DOMAIN task : task[c].pc # "test"
  BY DEF WalkInv
<1>2. CASE RemoveExtents
  <2>1. phase = "extents" /\ exnodes' = exnodes
    BY <1>2 DEF RemoveExtents
  <2>2. CASE extents' = extents
    BY <2>2
  <2>3. ASSUME extents' # extents PROVE Ids(f) \cap extents \subseteq extents'
    <3>1. PICK g \in scan.files : extents' = extents \ UNION {Ids(h) : h \in {h \in known : h.id = g.id}}
      BY <1>2, <2>3 DEF RemoveExtents, Belonging
    <3>2. f \in known /\ f.id # g.id
      BY <2>1, <3>1 DEF RecordsInv, Typed
    <3>3. \A h \in known : h.id = g.id => Ids(f) \cap Ids(h) = {}
      BY <3>2 DEF Typed
    <3> QED BY <3>1, <3>3
  <2> QED BY <2>2, <2>3
<1> QED BY <1>1, <1>2, RecordsGo

\* For any trees and whatever leases are renewed meanwhile: the second script takes the record of
\* an extent only when its file is gone, unless the file was posted under the script.
THEOREM FilesGoFirst == Spec => RecordsOutliveFiles
<1>1. Init => Typed /\ WalkInv /\ RecordsInv
  BY TypedInit, WalkInit DEF Init, RecordsInv
<1>2. (Typed /\ WalkInv /\ RecordsInv) /\ [Next]_vars => (Typed /\ WalkInv /\ RecordsInv)'
  BY TypedStep, WalkKept, RecordsStep
<1>3. (Typed /\ WalkInv /\ RecordsInv) /\ [Next]_vars
      => [script = "shallow" => \A f \in exnodes' \ {upload} : Ids(f) \cap extents \subseteq extents']_vars
  BY RecordsDecide
<1> QED BY <1>1, <1>2, <1>3, PTL DEF Spec, RecordsOutliveFiles

-----------------------------------------------------------------------------
(* How far live extents reach                                              *)

LEMMA LeastOf ==
  ASSUME NEW S \in SUBSET Nat, S # {}
  PROVE  \E i \in S : \A j \in S : i <= j
<1>1. PICK i \in S : \A j \in S : ~ (<<j, i>> \in OpToRel(<, Nat))
  BY NatLessThanWellFounded, WFMin
<1>2. \A j \in S : ~ (j < i)
  BY <1>1 DEF OpToRel
<1> QED BY <1>2

LEMMA FirstAtIs ==
  ASSUME NEW f, f.extents \in Seq(Extents), NEW is \in SUBSET DOMAIN f.extents, NEW at
  PROVE  FirstAt(f, is, at) = 0
         \/ (FirstAt(f, is, at) \in is /\ f.extents[FirstAt(f, is, at)].offset = at)
<1> DEFINE here == {i \in is : f.extents[i].offset = at}
<1>1. CASE here = {}
  BY <1>1 DEF FirstAt
<1>2. CASE here # {}
  <2>1. here \in SUBSET Nat
    BY LenProperties
  <2>2. \E i \in here : \A j \in here : i <= j
    BY <1>2, <2>1, LeastOf
  <2>3. Min(here) \in here
    BY <2>2 DEF Min
  <2>4. FirstAt(f, is, at) = Min(here)
    BY <1>2 DEF FirstAt
  <2> QED BY <2>3, <2>4
<1> QED BY <1>1, <1>2

\* One round of the loop after those that t has.
Round(f, is, t, n) ==
  IF n = 0 THEN 0
  ELSE LET at == t[n - 1]
           i == FirstAt(f, is, at)
       IN IF i = 0 THEN at ELSE at + f.extents[i].size

\* The rounds of the loop are well defined.
LEMMA RoundsExist ==
  ASSUME NEW f, NEW is, NEW L \in Nat
  PROVE  \E t : t = [n \in 0..L |-> Round(f, is, t, n)]
<1> DEFINE Without == {k \in 0..L : ~ \E t : t = [n \in 0..k |-> Round(f, is, t, n)]}
<1>1. CASE Without = {}
  BY <1>1
<1>2. CASE Without # {}
  <2>0. PICK S \in SUBSET Nat : S = Without
    <3>1. Without \subseteq 0..L
      BY Zenon
    <3> HIDE DEF Without
    <3> QED BY <3>1
  <2>1. PICK k \in Without : \A j \in Without : k <= j
    BY <2>0, <1>2, LeastOf
  <2>2. k \in 0..L /\ ~ \E t : t = [n \in 0..k |-> Round(f, is, t, n)]
    BY <2>1
  <2>3. CASE k = 0
    <3>1. PICK t : t = [n \in 0..0 |-> 0]
      OBVIOUS
    <3>2. \A n \in 0..0 : Round(f, is, t, n) = 0
      BY DEF Round
    <3>3. t = [n \in 0..0 |-> Round(f, is, t, n)]
      BY <3>1, <3>2
    <3> QED BY <2>2, <2>3, <3>3
  <2>4. CASE k # 0
    <3>1. k - 1 \in 0..L /\ k - 1 \notin Without
      BY <2>1, <2>2, <2>4
    <3>2. PICK g : g = [n \in 0..(k - 1) |-> Round(f, is, g, n)]
      BY <3>1
    <3>3. PICK t : t = [n \in 0..k |-> IF n = k THEN Round(f, is, g, k) ELSE g[n]]
      OBVIOUS
    <3>4. \A n \in 0..(k - 1) : t[n] = g[n]
      BY <2>2, <3>3
    <3>5. ASSUME NEW n \in 0..k PROVE t[n] = Round(f, is, t, n)
      <4>1. CASE n = 0
        <5>1. Round(f, is, g, 0) = 0 /\ Round(f, is, t, 0) = 0
          BY DEF Round
        <5> QED BY <2>2, <2>4, <3>2, <3>4, <4>1, <5>1
      <4>2. CASE n # 0
        <5>1. n - 1 \in 0..(k - 1) /\ t[n - 1] = g[n - 1]
          BY <2>2, <3>4, <4>2
        <5>2. Round(f, is, t, n) = Round(f, is, g, n)
          BY <4>2, <5>1, Zenon DEF Round
        <5>3. t[n] = Round(f, is, g, n)
          BY <2>2, <3>2, <3>3, <4>2
        <5> QED BY <5>2, <5>3
      <4> QED BY <4>1, <4>2
    <3>6. t = [n \in 0..k |-> Round(f, is, t, n)]
      BY <3>3, <3>5
    <3> QED BY <2>2, <3>6
  <2> QED BY <2>3, <2>4
<1> QED BY <1>1, <1>2

LEMMA ReachRounds ==
  ASSUME NEW f, NEW is, Len(f.extents) \in Nat
  PROVE  \E t : /\ t = [n \in 0..Len(f.extents) |-> Round(f, is, t, n)]
                /\ ReachOf(f, is) = t[Len(f.extents)]
<1> DEFINE t == CHOOSE t : t = [n \in 0..Len(f.extents) |-> Round(f, is, t, n)]
<1>1. \E u : u = [n \in 0..Len(f.extents) |-> Round(f, is, u, n)]
  BY RoundsExist
<1>2. t = [n \in 0..Len(f.extents) |-> Round(f, is, t, n)]
  BY <1>1
<1>3. ReachOf(f, is) = t[Len(f.extents)]
  BY Zenon DEF ReachOf, Round
<1> QED BY <1>2, <1>3

Covered(f, is, b) ==
  \E j \in is : f.extents[j].offset <= b /\ b < f.extents[j].offset + f.extents[j].size

\* As far as the search gets, each byte is in one of the extents it goes by.
LEMMA ReachCovered ==
  ASSUME NEW f, f.extents \in Seq(Extents), NEW is \in SUBSET DOMAIN f.extents
  PROVE  /\ ReachOf(f, is) \in Nat
         /\ \A b \in 0..(ReachOf(f, is) - 1) : Covered(f, is, b)
<1>1. Len(f.extents) \in Nat /\ DOMAIN f.extents = 1..Len(f.extents)
  BY LenProperties
<1>2. PICK t : /\ t = [n \in 0..Len(f.extents) |-> Round(f, is, t, n)]
               /\ ReachOf(f, is) = t[Len(f.extents)]
  BY <1>1, ReachRounds
<1> DEFINE Wrong == {n \in 0..Len(f.extents) : ~ (t[n] \in Nat /\ \A b \in 0..(t[n] - 1) : Covered(f, is, b))}
<1>3. ASSUME Wrong # {} PROVE FALSE
  <2>0. PICK S \in SUBSET Nat : S = Wrong
    <3>1. Wrong \subseteq 0..Len(f.extents)
      BY Zenon
    <3> HIDE DEF Wrong
    <3> QED BY <1>1, <3>1
  <2>1. PICK k \in Wrong : \A j \in Wrong : k <= j
    BY <2>0, <1>3, LeastOf
  <2>2. k \in 0..Len(f.extents)
        /\ ~ (t[k] \in Nat /\ \A b \in 0..(t[k] - 1) : Covered(f, is, b))
    BY <2>1
  <2>3. t[k] = Round(f, is, t, k)
    BY <1>2, <2>2
  <2>4. CASE k = 0
    <3>1. t[k] = 0
      BY <2>3, <2>4 DEF Round
    <3> QED BY <2>2, <3>1
  <2>5. CASE k # 0
    <3>1. k - 1 \in 0..Len(f.extents) /\ k - 1 \notin Wrong
      BY <1>1, <2>1, <2>2, <2>5
    <3>2. PICK at : at = t[k - 1]
      OBVIOUS
    <3>3. at \in Nat /\ \A b \in 0..(at - 1) : Covered(f, is, b)
      BY <3>1, <3>2
    <3>4. PICK i : i = FirstAt(f, is, at)
      OBVIOUS
    <3>5. t[k] = IF i = 0 THEN at ELSE at + f.extents[i].size
      BY <2>3, <2>5, <3>2, <3>4, Zenon DEF Round
    <3>6. CASE i = 0
      BY <2>2, <3>3, <3>5, <3>6
    <3>7. CASE i # 0
      <4>1. i \in is /\ f.extents[i].offset = at
        BY <3>4, <3>7, FirstAtIs
      <4>2. f.extents[i].size \in Nat
        <5>1. f.extents[i] \in Extents
          BY <1>1, <4>1, ElementOfSeq
        <5> QED BY <5>1 DEF Extents
      <4>3. \A b \in 0..(t[k] - 1) : b \in 0..(at - 1) \/ (at <= b /\ b < at + f.extents[i].size)
        BY <3>3, <3>5, <3>7, <4>2
      <4>4. \A b \in 0..(t[k] - 1) : Covered(f, is, b)
        BY <3>3, <4>1, <4>3 DEF Covered
      <4> QED BY <2>2, <3>3, <3>5, <3>7, <4>2, <4>4
    <3> QED BY <3>6, <3>7
  <2> QED BY <2>4, <2>5
<1>4. Len(f.extents) \in 0..Len(f.extents) /\ Len(f.extents) \notin Wrong
  BY <1>1, <1>3
<1> QED BY <1>2, <1>4

-----------------------------------------------------------------------------
(* A file that is kept has no hole                                         *)

\* The verdict of a call that kept a file stands: something is alive, and nothing begins beyond.
HoleInv ==
  script = "deep" => \A c \in DOMAIN task : Kept(c) /\ c.of.mode = "file" => Alive(c) # {} /\ Beyond(c) = {}

\* The verdict depends on what the threads of the call have found, and on nothing else.
LEMMA VerdictStands ==
  ASSUME NEW c, task'[c].alive = task[c].alive
  PROVE  Alive(c)' = Alive(c) /\ Beyond(c)' = Beyond(c)
<1>1. Alive(c)' = Alive(c)
  BY DEF Alive
<1>2. Reach(c)' = Reach(c)
  BY <1>1 DEF Reach
<1> QED BY <1>1, <1>2 DEF Beyond

LEMMA HoleStep ==
  ASSUME Typed, WalkInv, HoleInv, [Next]_vars
  PROVE  HoleInv'
<1>1. script' = script
  BY WorldStays DEF world
<1> SUFFICES ASSUME script = "deep", NEW c \in DOMAIN task', Kept(c)', c.of.mode = "file"
             PROVE  Alive(c)' # {} /\ Beyond(c)' = {}
  BY <1>1, Zenon DEF HoleInv
<1>2. task'[c].pc = "done" /\ task'[c].data
  BY DEF Kept
<1>3. ASSUME c \in DOMAIN task, task'[c] = task[c] PROVE Alive(c)' # {} /\ Beyond(c)' = {}
  <2>1. Kept(c)
    BY <1>2, <1>3 DEF Kept
  <2> QED BY <1>3, <2>1, VerdictStands DEF HoleInv
<1>4. ASSUME NEW k \in DOMAIN task, Becomes(k, task'), c # k PROVE c \in DOMAIN task /\ task'[c] = task[c]
  BY <1>4 DEF Becomes
<1>5. ASSUME NEW new, NEW by, Calls(task', new, by) PROVE c \in DOMAIN task /\ task'[c] = task[c]
  <2>1. c \notin by
    BY <1>2, <1>5 DEF Calls
  <2>2. c \in DOMAIN task
    BY <1>2, <1>5, EnteredTyped DEF Calls
  <2> QED BY <1>5, <2>1, <2>2 DEF Calls
<1>6. ASSUME NEW k \in DOMAIN task, Passes(k) PROVE Alive(c)' # {} /\ Beyond(c)' = {}
  <2>1. ASSUME NEW data \in BOOLEAN, Settles(k, data)
        PROVE  /\ Becomes(k, task') /\ task'[k].data = data /\ task'[k].alive = task[k].alive
    BY <2>1, ReturnTyped DEF Settles
  <2>2. CASE Keep(k) /\ Settles(k, TRUE)
    <3>1. CASE c = k
      <4>1. Alive(k) # {} /\ Beyond(k) = {}
        BY <2>2 DEF Keep
      <4> QED BY <2>1, <2>2, <3>1, <4>1, VerdictStands
    <3>2. CASE c # k
      BY <1>3, <1>4, <2>1, <2>2, <3>2
    <3> QED BY <3>1, <3>2
  <2>3. CASE Discard(k) /\ Settles(k, FALSE)
    <3>1. c # k
      BY <1>2, <2>1, <2>3
    <3> QED BY <1>3, <1>4, <2>1, <2>3, <3>1
  <2>4. CASE LeaveDirectory(k) /\ Settles(k, \E j \in Called(k) : task[j].data)
    <3>1. c # k
      BY <2>4 DEF LeaveDirectory, Waited, WalkInv
    <3>2. (\E j \in Called(k) : task[j].data) \in BOOLEAN
      OBVIOUS
    <3>3. Becomes(k, task')
      BY <2>1, <2>4, <3>2, Zenon
    <3> QED BY <1>3, <1>4, <3>1, <3>3
  <2>5. CASE VisitFile(k) /\ task' = [task EXCEPT ![k].pc = "test"]
    <3>1. Becomes(k, task') /\ task'[k].pc = "test"
      BY <2>5, PcTyped DEF Places
    <3> QED BY <1>2, <1>3, <1>4, <3>1
  <2>6. CASE VisitDirectory(k)
    BY <1>3, <1>5, <2>6, DirectoryTyped
  <2> QED BY <1>6, <2>2, <2>3, <2>4, <2>5, <2>6, Zenon DEF Passes
<1>7. ASSUME NEW k \in DOMAIN task, Tests(k) PROVE Alive(c)' # {} /\ Beyond(c)' = {}
  BY <1>2, <1>3, <1>4, <1>7 DEF Tests
<1>8. CASE FindRoots
  BY <1>3, <1>5, <1>8, RootsTyped
<1>9. ASSUME task' = task PROVE Alive(c)' # {} /\ Beyond(c)' = {}
  BY <1>3, <1>9
<1>10. Look \/ RemoveFiles \/ RemoveExtents \/ PostFile \/ Rests => task' = task
  BY DEF Look, RemoveFiles, RemoveExtents, PostFile, Rests
<1> QED BY <1>6, <1>7, <1>8, <1>9, <1>10, StepIs

LEMMA HoleDecides ==
  ASSUME Typed, HoleInv
  PROVE  KeptHasNoHole
<1> SUFFICES ASSUME script = "deep", NEW c \in DOMAIN task, Kept(c), c.of.mode = "file",
                    NEW i \in DOMAIN c.of.extents, NEW b \in 0..(c.of.extents[i].offset - 1)
             PROVE  \E j \in Alive(c) : /\ c.of.extents[j].offset <= b
                                        /\ b < c.of.extents[j].offset + c.of.extents[j].size
  BY DEF KeptHasNoHole, HoleInv
<1>1. Beyond(c) = {}
  BY DEF HoleInv
<1>2. PICK alive \in SUBSET DOMAIN c.of.extents : alive = Alive(c)
  BY DEF Alive
<1>3. PICK f : f = c.of
  OBVIOUS
<1>4. f.extents \in Seq(Extents)
  BY <1>3 DEF Typed
<1>5. f.extents[i] \in Extents
  BY <1>3, <1>4, ElementOfSeq, LenProperties
<1>6. f.extents[i].offset \in Nat
  BY <1>5 DEF Extents
<1>7. /\ ReachOf(f, alive) \in Nat
      /\ \A x \in 0..(ReachOf(f, alive) - 1) : Covered(f, alive, x)
  BY <1>2, <1>3, <1>4, ReachCovered
<1>8. ~ (f.extents[i].offset > ReachOf(f, alive))
  BY <1>1, <1>2, <1>3 DEF Beyond, Reach
<1>9. b \in 0..(ReachOf(f, alive) - 1)
  BY <1>3, <1>6, <1>7, <1>8
<1>10. Covered(f, alive, b)
  BY <1>7, <1>9
<1> QED BY <1>2, <1>3, <1>10 DEF Covered

\* For any trees of files with any extents, tested by any number of threads: what the deep script
\* keeps of a file is not empty, and each byte in front of an extent is in one that a depot has
\* answered for.
THEOREM NoHoles == Spec => []KeptHasNoHole
<1>1. Init => Typed /\ WalkInv /\ HoleInv
  BY TypedInit, WalkInit DEF Init, HoleInv
<1>2. (Typed /\ WalkInv /\ HoleInv) /\ [Next]_vars => (Typed /\ WalkInv /\ HoleInv)'
  BY TypedStep, WalkKept, HoleStep
<1>3. Typed /\ HoleInv => KeptHasNoHole
  BY HoleDecides
<1> QED BY <1>1, <1>2, <1>3, PTL DEF Spec
=============================================================================
