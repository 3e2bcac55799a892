--------------------------- MODULE StartupProofs ---------------------------
(***************************************************************************)
(* The four properties of a start, for any number of servers, starts,      *)
(* crashes, schemas, routes and configurations.  Each has an invariant of  *)
(* its own, which says what a server has achieved by the place its start   *)
(* has got to.                                                             *)
(***************************************************************************)
EXTENDS Startup, SequenceTheorems, TLAPS

Places == {"down", "load", "write", "routes", "uuid", "insert", "add", "ms", "ready", "stuck"}

\* What every argument needs to know of the processes.
Typed ==
  /\ pc \in [Servers -> Places]
  /\ at \in [Servers -> Nat] /\ starts \in [Servers -> Nat]
  /\ routes \in [Servers -> BOOLEAN]
  /\ uuid \in [Servers -> (Servers \X Nat) \cup {NoUuid}]
  /\ \A s \in Servers : routes[s] <=> pc[s] \in {"ms", "ready"}

LEMMA InitTyped == Init => Typed
BY DEF Init, Typed, Places

\* The places a step leads to are places.
LEMMA NextTyped ==
  ASSUME Typed, about \in Seq(Servers \X Nat), [Next]_vars
  PROVE  Typed'
<1> USE DEF Typed, Places, Goto
<1>1. ASSUME NEW s \in Servers, Stop(s), UNCHANGED starts PROVE Typed'
  BY <1>1 DEF Stop
<1>2. ASSUME NEW s \in Servers, Stuck(s), pc[s] \in {"routes", "uuid", "insert"} PROVE Typed'
  BY <1>2 DEF Stuck
<1>3. ASSUME NEW s \in Servers, Launch(s) PROVE Typed'
  BY <1>3 DEF Launch
<1>4. ASSUME NEW s \in Servers, Fetch(s) PROVE Typed'
  BY <1>4 DEF Fetch
<1>5. ASSUME NEW s \in Servers, Write(s) PROVE Typed'
  BY <1>5 DEF Write
<1>6. ASSUME NEW s \in Servers, Listen(s) PROVE Typed'
  BY <1>6 DEF Listen
<1>7. ASSUME NEW s \in Servers, MakeRoute(s) PROVE Typed'
  <2>1. pc' = [pc EXCEPT ![s] = "uuid"] \/ pc' = pc
    BY <1>7 DEF MakeRoute
  <2>2. pc[s] = "routes" /\ at' = [at EXCEPT ![s] = @ + 1] /\ UNCHANGED <<starts, routes, uuid>>
    BY <1>7 DEF MakeRoute
  <2>3. pc' \in [Servers -> Places] /\ \A t \in Servers : pc'[t] \in {"ms", "ready"} <=> pc[t] \in {"ms", "ready"}
    BY <2>1, <2>2
  <2>4. at' \in [Servers -> Nat]
    BY <2>2
  <2> QED BY <2>2, <2>3, <2>4
<1>8. ASSUME NEW s \in Servers, FindUuid(s) PROVE Typed'
  <2>1. about # <<>> => Last(about) \in Servers \X Nat
    BY LenProperties, ElementOfSeq, EmptySeq DEF Last
  <2> QED BY <1>8, <2>1 DEF FindUuid
<1>9. ASSUME NEW s \in Servers, InsertUuid(s) PROVE Typed'
  BY <1>9 DEF InsertUuid
<1>10. ASSUME NEW s \in Servers, AddHandlers(s) PROVE Typed'
  BY <1>10 DEF AddHandlers
<1>11. ASSUME NEW s \in Servers, RegisterLocal(s) \/ RegisterRemote(s) PROVE Typed'
  BY <1>11 DEF RegisterLocal, RegisterRemote
<1>12. ASSUME NEW s \in Servers, About(s) PROVE Typed'
  BY <1>12 DEF About, process
<1>13. CASE UNCHANGED vars
  BY <1>13 DEF vars, process
<1> QED
  BY <1>1, <1>2, <1>3, <1>4, <1>5, <1>6, <1>7, <1>8, <1>9, <1>10, <1>11, <1>12, <1>13
  DEF Next, Crash, FetchFails, CannotStart, DatabaseFails

-----------------------------------------------------------------------------
(* Schema files                                                            *)

\* What the cache holds is in a whole file.  A server that has been started once finds everything
\* in the cache when it loads, so it never opens a file again.
FileInv ==
  /\ file \in [Servers -> [Names -> {"absent", "torn", "whole"}]]
  /\ cached \in [Servers -> SUBSET Names]
  /\ \A s \in Servers : \A n \in cached[s] : file[s][n] = "whole"
  /\ loaded \subseteq Servers
  /\ \A s \in loaded : \A n \in Names : file[s][n] = "whole"
  /\ \A s \in loaded : pc[s] # "write" /\ (pc[s] = "load" => cached[s] = Names)

LEMMA InitFileInv == Init => FileInv
BY DEF Init, FileInv, Names

LEMMA NamesAreLoaded == \A i \in DOMAIN Loads : Loads[i] \in Names
BY DEF Names, Range

LEMMA NextFileInv ==
  ASSUME Typed, FileInv, [Next]_vars
  PROVE  FileInv'
<1> USE DEF FileInv, Goto
<1>1. ASSUME NEW s \in Servers, Stop(s), UNCHANGED <<file, loaded>> PROVE FileInv'
  BY <1>1 DEF Stop, Typed
<1>2. ASSUME NEW s \in Servers, Stuck(s) PROVE FileInv'
  BY <1>2 DEF Stuck, Typed
<1>3. ASSUME NEW s \in Servers, Launch(s) PROVE FileInv'
  BY <1>3 DEF Launch, Typed
<1>4. ASSUME NEW s \in Servers, Fetch(s) PROVE FileInv'
  <2>1. PICK i \in DOMAIN Loads : pc[s] = "load" /\ NextLoad(s, i) /\ Opens(s, Loads[i])
    BY <1>4 DEF Fetch
  <2>2. Loads[i] \in Names /\ Loads[i] \notin cached[s] /\ s \notin loaded
    BY <2>1, NamesAreLoaded DEF NextLoad
  <2>3. pc' = [pc EXCEPT ![s] = "write"] /\ UNCHANGED <<cached, loaded>>
    BY <1>4 DEF Fetch
  <2> QED BY <2>1, <2>2, <2>3 DEF Opens, Typed
<1>5. ASSUME NEW s \in Servers, Write(s) PROVE FileInv'
  <2>1. PICK i \in DOMAIN Loads : /\ file' = [file EXCEPT ![s][Loads[i]] = "whole"]
                                  /\ cached' = [cached EXCEPT ![s] = @ \cup {Loads[i]}]
    BY <1>5 DEF Write
  <2>2. Loads[i] \in Names /\ s \notin loaded /\ UNCHANGED loaded /\ pc' = [pc EXCEPT ![s] = "load"]
    BY <1>5, NamesAreLoaded DEF Write
  <2> QED BY <2>1, <2>2 DEF Typed
<1>6. ASSUME NEW s \in Servers, Listen(s) PROVE FileInv'
  BY <1>6 DEF Listen, Typed
<1>7. ASSUME NEW s \in Servers, MakeRoute(s) PROVE FileInv'
  BY <1>7 DEF MakeRoute, Typed
<1>8. ASSUME NEW s \in Servers, FindUuid(s) PROVE FileInv'
  BY <1>8 DEF FindUuid, Typed
<1>9. ASSUME NEW s \in Servers, InsertUuid(s) \/ AddHandlers(s) PROVE FileInv'
  BY <1>9 DEF InsertUuid, AddHandlers, Typed
<1>10. ASSUME NEW s \in Servers, RegisterLocal(s) \/ RegisterRemote(s) PROVE FileInv'
  BY <1>10 DEF RegisterLocal, RegisterRemote, Typed
<1>11. ASSUME NEW s \in Servers, About(s) PROVE FileInv'
  BY <1>11 DEF About, process
<1>12. CASE UNCHANGED vars
  BY <1>12 DEF vars, process
<1> QED
  BY <1>1, <1>2, <1>3, <1>4, <1>5, <1>6, <1>7, <1>8, <1>9, <1>10, <1>11, <1>12
  DEF Next, Crash, FetchFails, CannotStart, DatabaseFails

-----------------------------------------------------------------------------
(* Indexes                                                                 *)

IsIndexed(i) == Routes[i].collection \in indexed \cup {NoCollection}

\* A start makes its routes one after the other, from the first; nobody drops an index.
IndexInv ==
  /\ \A s \in Servers : pc[s] \in {"down", "load", "write"} => at[s] = 1
  /\ \A s \in Servers : pc[s] = "routes" =>
       at[s] \in 1..Len(Routes) /\ \A i \in 1..Len(Routes) : i < at[s] => IsIndexed(i)
  /\ \A s \in Servers : pc[s] \in {"uuid", "insert", "add", "ms", "ready"} =>
       \A i \in 1..Len(Routes) : IsIndexed(i)

LEMMA RoutesTyped == Len(Routes) \in Nat /\ Len(Routes) >= 1 /\ DOMAIN Routes = 1..Len(Routes)
BY ConstantsAssumption, EmptySeq, LenProperties

LEMMA InitIndexInv == Init => IndexInv
BY RoutesTyped DEF Init, IndexInv

\* Steps that make no index, and lead no server past the routes.
LEMMA IndexQuiet ==
  ASSUME Typed, IndexInv, indexed \subseteq indexed', NEW s \in Servers, NEW place \in Places,
         pc' = [pc EXCEPT ![s] = place],
         \/ at' = [at EXCEPT ![s] = 1] /\ place = "down"
         \/ at' = at /\ place \in {"load", "write", "routes"} /\ pc[s] \in {"down", "load", "write"}
         \/ at' = at /\ place = "stuck"
         \/ at' = at /\ place \in {"insert", "add", "ms", "ready"} /\ pc[s] \in {"uuid", "insert", "add", "ms"}
  PROVE  IndexInv'
BY RoutesTyped DEF Typed, IndexInv, IsIndexed, Places

LEMMA NextIndexInv ==
  ASSUME Typed, IndexInv, [Next]_vars
  PROVE  IndexInv'
<1> USE DEF Goto, Places
<1>1. ASSUME NEW s \in Servers, Stop(s), UNCHANGED indexed PROVE IndexInv'
  BY <1>1, IndexQuiet DEF Stop
<1>2. ASSUME NEW s \in Servers, Stuck(s) PROVE IndexInv'
  BY <1>2, IndexQuiet DEF Stuck, db
<1>3. ASSUME NEW s \in Servers, Launch(s) PROVE IndexInv'
  BY <1>3, IndexQuiet DEF Launch, db
<1>4. ASSUME NEW s \in Servers, Fetch(s) PROVE IndexInv'
  BY <1>4, IndexQuiet DEF Fetch, db
<1>5. ASSUME NEW s \in Servers, Write(s) PROVE IndexInv'
  BY <1>5, IndexQuiet DEF Write, db
<1>6. ASSUME NEW s \in Servers, Listen(s) PROVE IndexInv'
  BY <1>6, IndexQuiet DEF Listen, db
<1>7. ASSUME NEW s \in Servers, MakeRoute(s) PROVE IndexInv'
  <2>1. /\ at' = [at EXCEPT ![s] = @ + 1] /\ indexed \subseteq indexed' /\ pc[s] = "routes"
        /\ Routes[at[s]].collection \in indexed' \cup {NoCollection}
    BY <1>7 DEF MakeRoute
  <2>2. at[s] \in 1..Len(Routes) /\ Len(Routes) \in Nat
    BY <2>1, RoutesTyped DEF IndexInv
  <2>3. \A i \in 1..Len(Routes) : i < at[s] + 1 => Routes[i].collection \in indexed' \cup {NoCollection}
    BY <2>1, <2>2 DEF IndexInv, IsIndexed
  <2>4. CASE at[s] = Len(Routes)
    <3>1. pc' = [pc EXCEPT ![s] = "uuid"]
      BY <1>7, <2>4 DEF MakeRoute
    <3>2. \A i \in 1..Len(Routes) : Routes[i].collection \in indexed' \cup {NoCollection}
      BY <2>2, <2>3, <2>4
    <3> QED BY <2>1, <3>1, <3>2 DEF IndexInv, IsIndexed, Typed
  <2>5. CASE at[s] # Len(Routes)
    <3>1. pc' = pc
      BY <1>7, <2>5 DEF MakeRoute
    <3>2. at'[s] \in 1..Len(Routes) /\ at'[s] = at[s] + 1 /\ \A t \in Servers : t # s => at'[t] = at[t]
      BY <2>1, <2>2, <2>5 DEF Typed
    <3> QED BY <2>1, <2>3, <3>1, <3>2 DEF IndexInv, IsIndexed
  <2> QED BY <2>4, <2>5
<1>8. ASSUME NEW s \in Servers, FindUuid(s) PROVE IndexInv'
  BY <1>8, IndexQuiet DEF FindUuid, db
<1>9. ASSUME NEW s \in Servers, InsertUuid(s) PROVE IndexInv'
  BY <1>9, IndexQuiet DEF InsertUuid
<1>10. ASSUME NEW s \in Servers, AddHandlers(s) PROVE IndexInv'
  BY <1>10, IndexQuiet DEF AddHandlers, db
<1>11. ASSUME NEW s \in Servers, RegisterLocal(s) \/ RegisterRemote(s) PROVE IndexInv'
  BY <1>11, IndexQuiet DEF RegisterLocal, RegisterRemote, db
<1>12. ASSUME NEW s \in Servers, About(s) PROVE IndexInv'
  BY <1>12 DEF About, process, db, IndexInv, IsIndexed
<1>13. CASE UNCHANGED vars
  BY <1>13 DEF vars, process, db, IndexInv, IsIndexed
<1> QED
  BY <1>1, <1>2, <1>3, <1>4, <1>5, <1>6, <1>7, <1>8, <1>9, <1>10, <1>11, <1>12, <1>13
  DEF Next, Crash, FetchFails, CannotStart, DatabaseFails, db

-----------------------------------------------------------------------------
(* Identities                                                              *)

\* Who is about to insert an identity has made it up itself and has none in the database: only
\* an empty catalog lets a server make one, and only its own insert puts one of its own there.
IdInv ==
  /\ about \in Seq(Servers \X Nat)
  /\ \A i, j \in 1..Len(about) : about[i][1] = about[j][1] => i = j
  /\ \A s \in Servers : pc[s] = "insert" =>
       /\ uuid[s] \in Servers \X Nat /\ uuid[s][1] = s
       /\ \A i \in 1..Len(about) : about[i][1] # s
  /\ \A s \in Servers : pc[s] \in {"add", "ms", "ready"} =>
       \E i \in 1..Len(about) : about[i] = uuid[s]
  /\ \A u \in shown : \E i \in 1..Len(about) : about[i] = u

LEMMA InitIdInv == Init => IdInv
BY EmptySeq DEF Init, IdInv

\* Steps that leave the catalog, identities and what was shown alone.
LEMMA IdQuiet ==
  ASSUME Typed, IdInv, UNCHANGED <<about, shown>>, NEW s \in Servers, NEW place \in Places,
         pc' = [pc EXCEPT ![s] = place],
         \/ place \in {"down", "load", "write", "routes", "uuid", "stuck"}
         \/ place \in {"ms", "ready"} /\ pc[s] \in {"add", "ms"} /\ uuid'[s] = uuid[s],
         \A t \in Servers : t # s => uuid'[t] = uuid[t]
  PROVE  IdInv'
<1>1. ASSUME NEW t \in Servers, pc'[t] = "insert"
      PROVE  t # s /\ pc[t] = "insert" /\ uuid'[t] = uuid[t]
  BY <1>1 DEF Typed
<1>2. ASSUME NEW t \in Servers, pc'[t] \in {"add", "ms", "ready"}
      PROVE  pc[t] \in {"add", "ms", "ready"} /\ uuid'[t] = uuid[t]
  BY <1>2 DEF Typed
<1>3. \A t \in Servers : pc'[t] = "insert" =>
        /\ uuid'[t] \in Servers \X Nat /\ uuid'[t][1] = t
        /\ \A i \in 1..Len(about) : about[i][1] # t
  BY <1>1 DEF IdInv
<1>4. \A t \in Servers : pc'[t] \in {"add", "ms", "ready"} =>
        \E i \in 1..Len(about) : about[i] = uuid'[t]
  BY <1>2 DEF IdInv
<1>5. about' = about /\ shown' = shown
  OBVIOUS
<1>6. /\ about \in Seq(Servers \X Nat)
      /\ \A i, j \in 1..Len(about) : about[i][1] = about[j][1] => i = j
      /\ \A u \in shown : \E i \in 1..Len(about) : about[i] = u
  BY DEF IdInv
<1>7. /\ about' \in Seq(Servers \X Nat)
      /\ \A i, j \in 1..Len(about') : about'[i][1] = about'[j][1] => i = j
      /\ \A u \in shown' : \E i \in 1..Len(about') : about'[i] = u
  BY <1>5, <1>6
<1>8. \A t \in Servers : pc'[t] = "insert" =>
        /\ uuid'[t] \in Servers \X Nat /\ uuid'[t][1] = t
        /\ \A i \in 1..Len(about') : about'[i][1] # t
  BY <1>3, <1>5
<1>9. \A t \in Servers : pc'[t] \in {"add", "ms", "ready"} =>
        \E i \in 1..Len(about') : about'[i] = uuid'[t]
  BY <1>4, <1>5
<1> QED BY <1>7, <1>8, <1>9 DEF IdInv

LEMMA InsertIdInv ==
  ASSUME Typed, IdInv, NEW s \in Servers, InsertUuid(s)
  PROVE  IdInv'
<1>1. /\ about' = Append(about, uuid[s]) /\ pc' = [pc EXCEPT ![s] = "add"] /\ pc[s] = "insert"
      /\ UNCHANGED <<uuid, shown>>
  BY DEF InsertUuid, Goto
<1>2. uuid[s] \in Servers \X Nat /\ uuid[s][1] = s /\ about \in Seq(Servers \X Nat)
  BY <1>1 DEF IdInv
<1>3. /\ about' \in Seq(Servers \X Nat) /\ Len(about') = Len(about) + 1 /\ Len(about) \in Nat
      /\ \A i \in 1..Len(about) : about'[i] = about[i]
      /\ about'[Len(about) + 1] = uuid[s]
  BY <1>1, <1>2, AppendProperties, LenProperties
<1>4. \A i \in 1..Len(about') : i \in 1..Len(about) \/ i = Len(about) + 1
  BY <1>3
<1>5. \A i, j \in 1..Len(about') : about'[i][1] = about'[j][1] => i = j
  BY <1>1, <1>2, <1>3, <1>4 DEF IdInv
<1>6. ASSUME NEW t \in Servers, pc'[t] = "insert"
      PROVE  /\ uuid'[t] \in Servers \X Nat /\ uuid'[t][1] = t
             /\ \A i \in 1..Len(about') : about'[i][1] # t
  <2>1. t # s /\ pc[t] = "insert"
    BY <1>1, <1>6 DEF Typed
  <2> QED BY <1>1, <1>2, <1>3, <1>4, <2>1 DEF IdInv
<1>7. ASSUME NEW u, \E i \in 1..Len(about) : about[i] = u
      PROVE  \E i \in 1..Len(about') : about'[i] = u
  BY <1>3, <1>7
<1>8. ASSUME NEW t \in Servers, pc'[t] \in {"add", "ms", "ready"}
      PROVE  \E i \in 1..Len(about') : about'[i] = uuid'[t]
  <2>1. CASE t = s
    BY <1>1, <1>3, <2>1
  <2>2. CASE t # s
    BY <1>1, <1>7, <1>8, <2>2 DEF IdInv, Typed
  <2> QED BY <2>1, <2>2
<1>9. \A u \in shown' : \E i \in 1..Len(about') : about'[i] = u
  BY <1>1, <1>7 DEF IdInv
<1> QED BY <1>3, <1>5, <1>6, <1>8, <1>9 DEF IdInv

LEMMA NextIdInv ==
  ASSUME Typed, IdInv, [Next]_vars
  PROVE  IdInv'
<1> USE DEF Goto, Places
<1>1. ASSUME NEW s \in Servers, Stop(s), UNCHANGED <<about, shown>> PROVE IdInv'
  BY <1>1, IdQuiet DEF Stop, Typed
<1>2. ASSUME NEW s \in Servers, Stuck(s) PROVE IdInv'
  BY <1>2, IdQuiet DEF Stuck, db
<1>3. ASSUME NEW s \in Servers, Launch(s) PROVE IdInv'
  BY <1>3, IdQuiet DEF Launch, db
<1>4. ASSUME NEW s \in Servers, Fetch(s) PROVE IdInv'
  BY <1>4, IdQuiet DEF Fetch, db
<1>5. ASSUME NEW s \in Servers, Write(s) PROVE IdInv'
  BY <1>5, IdQuiet DEF Write, db
<1>6. ASSUME NEW s \in Servers, Listen(s) PROVE IdInv'
  BY <1>6, IdQuiet DEF Listen, db
<1>7. ASSUME NEW s \in Servers, MakeRoute(s) PROVE IdInv'
  <2>1. UNCHANGED <<about, uuid, shown>>
    BY <1>7 DEF MakeRoute
  <2>2. pc' = [pc EXCEPT ![s] = "uuid"] \/ pc' = pc
    BY <1>7 DEF MakeRoute
  <2> QED BY <2>1, <2>2, IdQuiet DEF IdInv
<1>8. ASSUME NEW s \in Servers, FindUuid(s) PROVE IdInv'
  <2>1. UNCHANGED <<about, shown>> /\ \A t \in Servers : t # s => uuid'[t] = uuid[t] /\ pc'[t] = pc[t]
    BY <1>8 DEF FindUuid, Typed, db
  <2>2. CASE about = <<>>
    <3>1. pc'[s] = "insert" /\ uuid'[s] = <<s, starts[s]>> /\ starts[s] \in Nat
      BY <1>8, <2>2 DEF FindUuid, Typed
    <3>2. Len(about) = 0
      BY <2>2, EmptySeq
    <3>3. \A t \in Servers : pc'[t] = "insert" => uuid'[t] \in Servers \X Nat /\ uuid'[t][1] = t
      <4>1. uuid'[s] \in Servers \X Nat /\ uuid'[s][1] = s
        BY <3>1
      <4>2. \A t \in Servers : t # s /\ pc[t] = "insert" => uuid[t] \in Servers \X Nat /\ uuid[t][1] = t
        BY DEF IdInv
      <4> QED BY <2>1, <4>1, <4>2
    <3>4. \A t \in Servers : pc'[t] \notin {"add", "ms", "ready"}
      BY <2>1, <3>1, <3>2 DEF IdInv
    <3> QED BY <2>1, <3>2, <3>3, <3>4 DEF IdInv
  <2>3. CASE about # <<>>
    <3>1. pc'[s] = "add" /\ uuid'[s] = about[Len(about)]
      BY <1>8, <2>3 DEF FindUuid, Typed, Last
    <3>2. Len(about) \in 1..Len(about)
      BY <2>3, EmptySeq DEF IdInv
    <3>3. \A t \in Servers : pc'[t] = "insert" => t # s /\ pc[t] = "insert" /\ uuid'[t] = uuid[t]
      BY <2>1, <3>1
    <3>4. \A t \in Servers : t # s /\ pc'[t] \in {"add", "ms", "ready"} =>
            \E i \in 1..Len(about) : about[i] = uuid'[t]
      BY <2>1 DEF IdInv
    <3>5. \E i \in 1..Len(about) : about[i] = uuid'[s]
      BY <3>1, <3>2
    <3>6. \A t \in Servers : pc'[t] = "insert" =>
            /\ uuid'[t] \in Servers \X Nat /\ uuid'[t][1] = t
            /\ \A i \in 1..Len(about) : about[i][1] # t
      BY <3>3 DEF IdInv
    <3>7. \A t \in Servers : pc'[t] \in {"add", "ms", "ready"} =>
            \E i \in 1..Len(about) : about[i] = uuid'[t]
      BY <3>4, <3>5
    <3> QED BY <2>1, <3>6, <3>7 DEF IdInv
  <2> QED BY <2>2, <2>3
<1>9. ASSUME NEW s \in Servers, InsertUuid(s) PROVE IdInv'
  BY <1>9, InsertIdInv
<1>10. ASSUME NEW s \in Servers, AddHandlers(s) PROVE IdInv'
  BY <1>10, IdQuiet DEF AddHandlers, db
<1>11. ASSUME NEW s \in Servers, RegisterLocal(s) \/ RegisterRemote(s) PROVE IdInv'
  BY <1>11, IdQuiet DEF RegisterLocal, RegisterRemote, db
<1>12. ASSUME NEW s \in Servers, About(s) PROVE IdInv'
  <2>1. UNCHANGED <<about, pc, uuid>> /\ shown' = shown \cup {uuid[s]}
    BY <1>12 DEF About, process, db
  <2>2. \E i \in 1..Len(about) : about[i] = uuid[s]
    BY <1>12 DEF About, IdInv, Typed
  <2>3. \A u \in shown' : \E i \in 1..Len(about) : about[i] = u
    BY <2>1, <2>2 DEF IdInv
  <2> QED BY <2>1, <2>3 DEF IdInv
<1>13. CASE UNCHANGED vars
  BY <1>13 DEF vars, process, db, IdInv
<1> QED
  BY <1>1, <1>2, <1>3, <1>4, <1>5, <1>6, <1>7, <1>8, <1>9, <1>10, <1>11, <1>12, <1>13
  DEF Next, Crash, FetchFails, CannotStart, DatabaseFails, db

-----------------------------------------------------------------------------
(* Registration                                                            *)

Registered == services \cup elsewhere

\* What is registered was registered by this start of a server, or by an earlier one; the start
\* that has registered it has its routes.
ServiceInv ==
  /\ \A x \in Registered : x \in Servers \X Nat /\ x[2] <= starts[x[1]]
  /\ \A s \in Servers : <<s, starts[s]>> \in Registered => pc[s] \in {"down", "ready"}

LEMMA InitServiceInv == Init => ServiceInv
BY DEF Init, ServiceInv, Registered

\* Steps that register nothing and start nothing, and leave a server that is ready so or crash it.
LEMMA ServiceQuiet ==
  ASSUME Typed, ServiceInv, UNCHANGED <<Registered, starts>>, NEW s \in Servers, NEW place,
         pc' = [pc EXCEPT ![s] = place], place \in {"down", "ready"} \/ pc[s] \notin {"down", "ready"}
  PROVE  ServiceInv'
BY DEF Typed, ServiceInv

LEMMA NextServiceInv ==
  ASSUME Typed, ServiceInv, [Next]_vars
  PROVE  ServiceInv'
<1> USE DEF Goto
<1>1. ASSUME NEW s \in Servers, Stop(s), UNCHANGED <<Registered, starts>> PROVE ServiceInv'
  BY <1>1, ServiceQuiet DEF Stop
<1>2. ASSUME NEW s \in Servers, Stuck(s), pc[s] \in {"routes", "uuid", "insert"} PROVE ServiceInv'
  BY <1>2, ServiceQuiet DEF Stuck, db, Registered
<1>3. ASSUME NEW s \in Servers, Launch(s) PROVE ServiceInv'
  <2>1. starts' = [starts EXCEPT ![s] = @ + 1] /\ UNCHANGED Registered /\ \A t \in Servers : t # s => pc'[t] = pc[t]
    BY <1>3 DEF Launch, Typed, db, Registered
  <2>2. \A x \in Registered : x[2] <= starts'[x[1]]
    BY <2>1 DEF Typed, ServiceInv
  <2>3. <<s, starts'[s]>> \notin Registered
    BY <2>1 DEF Typed, ServiceInv
  <2>4. \A t \in Servers : <<t, starts'[t]>> \in Registered => pc'[t] \in {"down", "ready"}
    BY <2>1, <2>3 DEF Typed, ServiceInv
  <2> QED BY <2>1, <2>2, <2>4 DEF ServiceInv
<1>4. ASSUME NEW s \in Servers, Fetch(s) PROVE ServiceInv'
  BY <1>4, ServiceQuiet DEF Fetch, db, Registered
<1>5. ASSUME NEW s \in Servers, Write(s) PROVE ServiceInv'
  BY <1>5, ServiceQuiet DEF Write, db, Registered
<1>6. ASSUME NEW s \in Servers, Listen(s) PROVE ServiceInv'
  BY <1>6, ServiceQuiet DEF Listen, db, Registered
<1>7. ASSUME NEW s \in Servers, MakeRoute(s) PROVE ServiceInv'
  <2>1. pc' = [pc EXCEPT ![s] = "uuid"] \/ pc' = pc
    BY <1>7 DEF MakeRoute
  <2>2. UNCHANGED <<Registered, starts>> /\ pc[s] = "routes"
    BY <1>7 DEF MakeRoute, Registered
  <2>3. CASE pc' = pc
    BY <2>2, <2>3 DEF ServiceInv
  <2> QED BY <2>1, <2>2, <2>3, ServiceQuiet
<1>8. ASSUME NEW s \in Servers, FindUuid(s) PROVE ServiceInv'
  BY <1>8, ServiceQuiet DEF FindUuid, db, Registered
<1>9. ASSUME NEW s \in Servers, InsertUuid(s) PROVE ServiceInv'
  BY <1>9, ServiceQuiet DEF InsertUuid, Registered
<1>10. ASSUME NEW s \in Servers, AddHandlers(s) PROVE ServiceInv'
  BY <1>10, ServiceQuiet DEF AddHandlers, db, Registered
<1>11. ASSUME NEW s \in Servers, RegisterLocal(s) \/ RegisterRemote(s) PROVE ServiceInv'
  <2>1. /\ Registered' \subseteq Registered \cup {<<s, starts[s]>>} /\ UNCHANGED starts
        /\ pc' = [pc EXCEPT ![s] = "ready"]
    BY <1>11 DEF RegisterLocal, RegisterRemote, Registered
  <2>2. \A x \in Registered' : x \in Servers \X Nat /\ x[2] <= starts'[x[1]]
    BY <2>1 DEF Typed, ServiceInv
  <2>3. \A t \in Servers : <<t, starts'[t]>> \in Registered' => pc'[t] \in {"down", "ready"}
    BY <2>1 DEF Typed, ServiceInv
  <2> QED BY <2>2, <2>3 DEF ServiceInv
<1>13. ASSUME NEW s \in Servers, About(s) PROVE ServiceInv'
  BY <1>13 DEF About, process, db, ServiceInv, Registered
<1>14. CASE UNCHANGED vars
  BY <1>14 DEF vars, process, db, ServiceInv, Registered
<1> QED
  BY <1>1, <1>2, <1>3, <1>4, <1>5, <1>6, <1>7, <1>8, <1>9, <1>10, <1>11, <1>13, <1>14
  DEF Next, Crash, FetchFails, CannotStart, DatabaseFails, db, Registered

-----------------------------------------------------------------------------
(* Completeness                                                            *)

\* A server that listens has got through the import.  What is registered anywhere was registered
\* after that, with all indexes made and an identity stored, and none of it is undone.
CompleteInv ==
  /\ \A s \in Servers : pc[s] \notin {"down", "load", "write"} => s \in loaded
  /\ \A x \in Registered : /\ x[1] \in loaded /\ about # <<>>
                           /\ \A i \in 1..Len(Routes) : IsIndexed(i)

LEMMA InitCompleteInv == Init => CompleteInv
BY DEF Init, CompleteInv, Registered

LEMMA Grows ==
  ASSUME IdInv, [Next]_vars
  PROVE  /\ loaded \subseteq loaded' /\ indexed \subseteq indexed'
         /\ about # <<>> => about' # <<>>
         /\ \A x \in Registered' : x \in Registered \/ \E s \in Servers : pc[s] = "ms" /\ x[1] = s
<1>1. ASSUME NEW s \in Servers, InsertUuid(s) PROVE about' # <<>> /\ UNCHANGED <<loaded, indexed, Registered>>
  <2>1. about' = Append(about, uuid[s]) /\ UNCHANGED <<loaded, indexed, Registered>>
    BY <1>1 DEF InsertUuid, Registered
  <2>2. uuid[s] \in Servers \X Nat /\ about \in Seq(Servers \X Nat)
    BY <1>1 DEF InsertUuid, IdInv
  <2>3. about' \in Seq(Servers \X Nat) /\ Len(about') = Len(about) + 1 /\ Len(about) \in Nat
    BY <2>1, <2>2, AppendProperties, LenProperties
  <2>4. Len(about') # 0
    BY <2>3
  <2> QED BY <2>1, <2>3, <2>4, EmptySeq
<1>2. ASSUME NEW s \in Servers, RegisterLocal(s) \/ RegisterRemote(s)
      PROVE  UNCHANGED <<loaded, indexed, about>> /\ pc[s] = "ms" /\ Registered' \subseteq Registered \cup {<<s, starts[s]>>}
  BY <1>2 DEF RegisterLocal, RegisterRemote, Registered
<1>3. ASSUME NEW s \in Servers, MakeRoute(s) \/ Listen(s)
      PROVE  loaded \subseteq loaded' /\ indexed \subseteq indexed' /\ UNCHANGED <<about, Registered>>
  BY <1>3 DEF MakeRoute, Listen, db, Registered
<1>4. ASSUME NEW s \in Servers,
             \/ Launch(s) \/ Fetch(s) \/ FetchFails(s) \/ Write(s) \/ CannotStart(s) \/ DatabaseFails(s)
             \/ FindUuid(s) \/ AddHandlers(s) \/ About(s) \/ Crash(s)
      PROVE  UNCHANGED <<loaded, indexed, about, Registered>>
  BY <1>4 DEF Launch, Fetch, FetchFails, Write, CannotStart, DatabaseFails, Stuck, FindUuid, AddHandlers, About, Crash,
     db, Registered
<1>5. CASE UNCHANGED vars
  BY <1>5 DEF vars, db, Registered
<1> QED BY <1>1, <1>2, <1>3, <1>4, <1>5 DEF Next

LEMMA NextCompleteInv ==
  ASSUME Typed, IdInv, IndexInv, CompleteInv, [Next]_vars
  PROVE  CompleteInv'
<1>1. ASSUME NEW t \in Servers, pc'[t] \notin {"down", "load", "write"} PROVE t \in loaded'
  <2>1. CASE t \in loaded
    BY <2>1, Grows
  <2>2. CASE t \notin loaded
    <3>1. pc[t] \in {"down", "load", "write"} /\ pc'[t] # pc[t]
      BY <1>1, <2>2 DEF CompleteInv
    <3>2. PICK s \in Servers :
            \/ Launch(s) \/ Fetch(s) \/ FetchFails(s) \/ Write(s) \/ Listen(s)
            \/ CannotStart(s) \/ DatabaseFails(s) \/ MakeRoute(s) \/ FindUuid(s) \/ InsertUuid(s)
            \/ AddHandlers(s) \/ RegisterLocal(s) \/ RegisterRemote(s)
            \/ About(s) \/ Crash(s)
      BY <3>1, Zenon DEF Next, vars, process
    <3>3. ASSUME Launch(s) \/ Fetch(s) \/ FetchFails(s) \/ Write(s) \/ Crash(s) PROVE FALSE
      BY <1>1, <3>1, <3>3 DEF Launch, Fetch, FetchFails, Write, Crash, Stop, Goto, Typed
    <3>4. ASSUME \/ CannotStart(s) \/ DatabaseFails(s) \/ MakeRoute(s) \/ FindUuid(s) \/ InsertUuid(s)
                 \/ AddHandlers(s) \/ RegisterLocal(s) \/ RegisterRemote(s) \/ About(s)
          PROVE  FALSE
      <4>1. pc[s] \notin {"down", "load", "write"} \/ pc' = pc
        BY <3>4 DEF CannotStart, DatabaseFails, MakeRoute, FindUuid, InsertUuid, AddHandlers, RegisterLocal,
           RegisterRemote, About, process
      <4>2. \A x \in Servers : x # s => pc'[x] = pc[x]
        BY <3>4 DEF CannotStart, DatabaseFails, Stuck, MakeRoute, FindUuid, InsertUuid, AddHandlers, RegisterLocal,
           RegisterRemote, About, process, Goto, Typed
      <4> QED BY <3>1, <4>1, <4>2
    <3>5. ASSUME Listen(s) PROVE t \in loaded'
      BY <3>1, <3>5 DEF Listen, Goto, Typed
    <3> QED BY <3>2, <3>3, <3>4, <3>5
  <2> QED BY <2>1, <2>2
<1>2. ASSUME NEW x \in Registered'
      PROVE  /\ x[1] \in loaded' /\ about' # <<>>
             /\ \A i \in 1..Len(Routes) : IsIndexed(i)'
  <2>1. x[1] \in loaded /\ about # <<>> /\ \A i \in 1..Len(Routes) : IsIndexed(i)
    <3>1. CASE x \in Registered
      BY <3>1 DEF CompleteInv
    <3>2. CASE x \notin Registered
      <4>1. PICK s \in Servers : pc[s] = "ms" /\ x[1] = s
        BY <3>2, Grows
      <4>2. \E i \in 1..Len(about) : about[i] = uuid[s]
        BY <4>1 DEF IdInv
      <4>3. about # <<>>
        BY <4>2, EmptySeq
      <4> QED BY <4>1, <4>3 DEF CompleteInv, IndexInv
    <3> QED BY <3>1, <3>2
  <2> QED BY <2>1, Grows DEF IsIndexed
<1> QED BY <1>1, <1>2 DEF CompleteInv

-----------------------------------------------------------------------------

\* The invariants that hold together.
LEMMA Invariants == Spec => [](Typed /\ IdInv /\ FileInv /\ IndexInv /\ ServiceInv /\ CompleteInv)
<1>1. Init => Typed /\ IdInv /\ FileInv /\ IndexInv /\ ServiceInv /\ CompleteInv
  BY InitTyped, InitIdInv, InitFileInv, InitIndexInv, InitServiceInv, InitCompleteInv
<1>2. Typed /\ IdInv /\ FileInv /\ IndexInv /\ ServiceInv /\ CompleteInv /\ [Next]_vars
      => (Typed /\ IdInv /\ FileInv /\ IndexInv /\ ServiceInv /\ CompleteInv)'
  <2>1. IdInv => about \in Seq(Servers \X Nat)
    BY DEF IdInv
  <2> QED BY <2>1, NextTyped, NextIdInv, NextFileInv, NextIndexInv, NextServiceInv, NextCompleteInv
<1> QED BY <1>1, <1>2, PTL DEF Spec

\* A server that was started once keeps every schema in a whole file, whatever ends later starts.
THEOREM SchemasStay == Spec => []LoadedIsCached
<1>1. FileInv => LoadedIsCached
  BY DEF FileInv, LoadedIsCached
<1> QED BY <1>1, Invariants, PTL

\* No server answers on a collection without its index, whoever crashed while making indexes.
THEOREM RoutesAreIndexed == Spec => []ServedIsIndexed
<1>1. Typed /\ IndexInv => ServedIsIndexed
  BY RoutesTyped DEF Typed, IndexInv, IsIndexed, ServedIsIndexed
<1> QED BY <1>1, Invariants, PTL

\* Each server makes up one identity at most, and shows none that is not in the database.
THEOREM IdentitiesStay == Spec => []IdentityIsKept
<1>1. Typed /\ IdInv => IdentityIsKept
  <2> SUFFICES ASSUME Typed, IdInv PROVE IdentityIsKept
    OBVIOUS
  <2>1. DOMAIN about = 1..Len(about)
    BY LenProperties DEF IdInv
  <2>2. \A u \in shown : u \in Range(about)
    BY <2>1 DEF IdInv, Range
  <2>3. \A s \in Servers : routes[s] => uuid[s] \in Range(about)
    BY <2>1 DEF IdInv, Typed, Range
  <2> QED BY <2>1, <2>2, <2>3 DEF IdInv, IdentityIsKept
<1> QED BY <1>1, Invariants, PTL

\* A measurement store that is registered, here or at another server, is one that has answered,
\* and it answers as long as the start that has registered it runs.
THEOREM RegisteredAreServed == Spec => []FoundIsServing
<1>1. Typed /\ ServiceInv /\ CompleteInv => FoundIsServing
  <2> SUFFICES ASSUME Typed, ServiceInv, CompleteInv, NEW x \in Registered
               PROVE  /\ x[1] \in loaded /\ about # <<>>
                      /\ \A i \in DOMAIN Routes : Routes[i].collection \in indexed \cup {NoCollection}
                      /\ x[2] = starts[x[1]] /\ pc[x[1]] # "down" => routes[x[1]]
    BY DEF FoundIsServing, Registered
  <2>1. x[1] \in loaded /\ about # <<>> /\ \A i \in DOMAIN Routes : Routes[i].collection \in indexed \cup {NoCollection}
    BY RoutesTyped DEF CompleteInv, IsIndexed
  <2>2. ASSUME x[2] = starts[x[1]], pc[x[1]] # "down" PROVE routes[x[1]]
    <3>1. PICK s \in Servers : s = x[1]
      BY DEF ServiceInv
    <3>2. x = <<s, starts[s]>>
      BY <2>2, <3>1 DEF ServiceInv
    <3> QED BY <2>2, <3>1, <3>2 DEF Typed, ServiceInv
  <2> QED BY <2>1, <2>2
<1> QED BY <1>1, Invariants, PTL
=============================================================================
