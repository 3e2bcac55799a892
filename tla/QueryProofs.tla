---------------------------- MODULE QueryProofs ----------------------------
(***************************************************************************)
(* What a GET finds and what a client who reads pages gets to see, for any *)
(* arguments, documents, stamps and writes by others.                      *)
(***************************************************************************)
EXTENDS Query, FiniteSetTheorems, SequenceTheorems, WellFoundedInduction, TLAPS

-----------------------------------------------------------------------------
(* What the parser makes of arguments                                      *)

Conditions == {"eq", "not", "reg", "in", "exists", "lt", "lte", "gt", "gte"}
GoodCond(cond) == cond[1] \in Conditions /\ (cond[1] = "reg" => cond[2] \in Text)

LEMMA PlainIsText ==
  ASSUME NEW key, NEW type, NEW text \in Text
  PROVE  Plain(key, type, text)[1] = "str" => Plain(key, type, text)[2] \in Text
<1>1. PICK value : value = Plain(key, type, text)
  OBVIOUS
<1>2. value = Str(text) \/ \E t : value = Convert(t, text)
  BY <1>1, Zenon DEF Plain
<1>3. CASE value = Str(text)
  BY <1>1, <1>3 DEF Str
<1>4. ASSUME NEW t, value = Convert(t, text)
      PROVE  value[1] = "str" => value[2] \in Text
  BY <1>4 DEF Convert, Num, Str, Bad
<1> QED BY <1>1, <1>2, <1>3, <1>4

LEMMA ProcessedIsGood ==
  ASSUME NEW key, NEW member \in Member, ProcessValue(key, member) # Bad
  PROVE  GoodCond(ProcessValue(key, member))
<1>1. member.op \in Operators /\ member.type \in STRING /\ member.text \in Text
  BY DEF Member
<1>2. PICK value : value = Plain(key, member.type, member.text)
  OBVIOUS
<1>3. value[1] = "str" => value[2] \in Text
  BY <1>1, <1>2, PlainIsText
<1>4. CASE member.op \in {"not", "reg"}
  BY <1>2, <1>3, <1>4 DEF ProcessValue, GoodCond, Conditions
<1>5. CASE member.op \in {"", "null", "exists"}
  BY <1>5 DEF ProcessValue, GoodCond, Conditions
<1>6. CASE member.op \in {"lt", "lte", "gt", "gte", "eq"}
  BY <1>6 DEF ProcessValue, GoodCond, Conditions
<1> QED BY <1>1, <1>4, <1>5, <1>6 DEF Operators

LEMMA ValuesAreGood ==
  ASSUME NEW key, NEW raw \in Seq(Members) \ {<<>>}, NEW atom \in ValueClause(key, raw)
  PROVE  GoodCond(atom[2])
<1>1. Len(raw) = 1 /\ raw[1] \in Members
  <2>1. PICK n \in Nat \ {0} : n = Len(raw)
    BY EmptySeq
  <2>2. raw[1] \in Members
    BY <2>1, ElementOfSeq
  <2>3. CASE n > 1
    BY <2>1, <2>3 DEF ValueClause, NoClause
  <2>4. CASE n = 1
    BY <2>1, <2>2, <2>4
  <2> QED BY <2>3, <2>4
<1>2. Len(raw[1]) \in Nat \ {0} /\ raw[1][1] \in Member
  <2>1. raw[1] \in Seq(Member) /\ raw[1] # <<>>
    BY <1>1 DEF Members
  <2>2. Len(raw[1]) \in Nat \ {0}
    BY <2>1, EmptySeq
  <2> QED BY <2>1, <2>2, ElementOfSeq
<1>2a. PICK n \in Nat : n = Len(raw[1]) /\ n >= 1
  BY <1>2
<1>3. CASE n > 1
  <2>1. atom \in InClause(key, raw[1])
    BY <1>1, <1>2a, <1>3 DEF ValueClause
  <2>2. atom[2][1] = "in"
    BY <2>1 DEF InClause, NoClause
  <2> QED BY <2>2 DEF GoodCond, Conditions
<1>4. CASE n = 1
  <2>1. PICK cond : cond = ProcessValue(key, raw[1][1])
    OBVIOUS
  <2>2. cond # Bad /\ atom = <<key, cond>>
    BY <1>1, <1>2a, <1>4, <2>1 DEF ValueClause, NoClause
  <2>3. GoodCond(cond)
    BY <2>1, <2>2, <1>2, ProcessedIsGood
  <2> QED BY <2>2, <2>3
<1>5. \A k \in Nat : k >= 1 => k > 1 \/ k = 1
  OBVIOUS
<1>6. n > 1 \/ n = 1
  BY <1>2a, <1>5, Zenon
<1> QED BY <1>3, <1>4, <1>6, Zenon

LEMMA ArgumentsAreGood ==
  ASSUME NEW key, NEW raws \in Raws,
         NEW clause \in ArgumentClauses(key, raws), NEW atom \in clause
  PROVE  GoodCond(atom[2])
<1>1. Len(raws) \in Nat \ {0} /\ DOMAIN raws = 1..Len(raws)
  BY EmptySeq, LenProperties DEF Raws
<1>2. \A i \in DOMAIN raws : raws[i] \in Seq(Members) \ {<<>>}
  BY <1>1, ElementOfSeq DEF Raws
<1>3. PICK first : first = raws[1][1][1]
  OBVIOUS
<1>4. first \in Member
  <2>1. raws[1] \in Seq(Members) /\ raws[1] # <<>>
    BY <1>1, <1>2
  <2>2. raws[1][1] \in Seq(Member) /\ raws[1][1] # <<>>
    BY <2>1, EmptySeq, ElementOfSeq DEF Members
  <2> QED BY <1>3, <2>2, EmptySeq, ElementOfSeq
<1>5. PICK special \in BOOLEAN : special <=> Len(raws) = 1 /\ first.op \in {"reg", "exists"}
  OBVIOUS
<1>6. CASE ~special
  <2>1. \E i \in DOMAIN raws : clause = ValueClause(key, raws[i])
    BY <1>3, <1>5, <1>6 DEF ArgumentClauses
  <2> QED BY <2>1, <1>2, ValuesAreGood
<1>7. CASE special /\ raws[1] # << <<first>> >>
  BY <1>3, <1>5, <1>7 DEF ArgumentClauses, NoClause
<1>8. CASE special /\ raws[1] = << <<first>> >> /\ first.op = "reg"
  <2>1. PICK value : value = Plain(key, first.type, first.text)
    OBVIOUS
  <2>2. value[1] = "str" => value[2] \in Text
    BY <2>1, <1>4, PlainIsText DEF Member
  <2>3. clause = IF value[1] = "str" THEN {<<key, <<"reg", value[2]>>>>} ELSE NoClause
    BY <1>3, <1>5, <1>8, <2>1 DEF ArgumentClauses
  <2> QED BY <2>2, <2>3 DEF NoClause, GoodCond, Conditions
<1>9. CASE special /\ raws[1] = << <<first>> >> /\ first.op = "exists"
  <2>1. clause = ExistsClause(key, first.text)
    BY <1>3, <1>5, <1>9 DEF ArgumentClauses
  <2>2. atom[2][1] \in {"exists", "eq"}
    BY <2>1 DEF ExistsClause, NoClause
  <2> QED BY <2>2 DEF GoodCond, Conditions
<1> QED BY <1>5, <1>6, <1>7, <1>8, <1>9

LEMMA AskedIsGood ==
  ASSUME NEW a \in Asks, NEW clause \in Asked(a), NEW atom \in clause
  PROVE  GoodCond(atom[2])
<1>1. CASE clause \in Clauses(a)
  <2>1. PICK key \in DOMAIN a.args : clause \in ArgumentClauses(key, a.args[key])
    BY <1>1 DEF Clauses
  <2>2. a.args[key] \in Raws
    BY ConstantsAssumption
  <2> QED BY <2>1, <2>2, ArgumentsAreGood
<1>2. CASE clause \notin Clauses(a)
  <2>1. clause = {<<"id", <<"eq", Str(a.id)>>>>}
    BY <1>2 DEF Asked
  <2> QED BY <2>1 DEF GoodCond, Conditions
<1> QED BY <1>1, <1>2

-----------------------------------------------------------------------------
(* Whatever the engine accepts satisfies the condition, with numbers for booleans *)

Texts(f) == \A key \in DOMAIN f : f[key][1] = "str" => f[key][2] \in Text

LEMMA PrefixIsInside ==
  ASSUME NEW part \in Text, NEW text \in Text, IsPrefix(part, text)
  PROVE  HasInside(text, part)
<1>1. Len(part) \in Nat /\ Len(text) \in Nat
  BY LenProperties DEF Text
<1>2. SubSeq(part, 1, Len(part)) = part
  BY SubSeqFull DEF Text
<1>3. SubSeq(text, 0 + 1, 0 + Len(part)) = part
  BY <1>1, <1>2 DEF IsPrefix
<1>4. 0 \in 0..(Len(text) - Len(part))
  BY <1>1 DEF IsPrefix
<1> QED BY <1>3, <1>4 DEF HasInside

LEMMA EngineIsLoose ==
  ASSUME NEW d, Texts(d.f), NEW key, NEW cond, GoodCond(cond), EngineAccepts(d, key, cond)
  PROVE  MongoAccepts(Loosened(d), key, LooseCondition(cond))
<1>1. key \in DOMAIN d.f /\ ~EngineRaises(d, key, cond)
  BY DEF EngineAccepts
<1>2. PICK value : value = Loosely(d.f[key])
  OBVIOUS
<1>3. key \in DOMAIN Loosened(d).f /\ Loosened(d).f[key] = value
  BY <1>1, <1>2 DEF Loosened
<1>4. CASE cond[1] = "eq"
  <2>1. value = Loosely(cond[2])
    BY <1>2, <1>4 DEF EngineAccepts
  <2>2. LooseCondition(cond) = <<"eq", Loosely(cond[2])>>
    BY <1>4 DEF LooseCondition
  <2> QED BY <1>3, <2>1, <2>2 DEF MongoAccepts
<1>5. CASE cond[1] = "in"
  <2>1. PICK c \in cond[2] : c[1] = "eq" /\ value = Loosely(c[2])
    BY <1>2, <1>5 DEF EngineAccepts
  <2>2. /\ LooseCondition(cond)[1] = "in"
        /\ <<"eq", Loosely(c[2])>> \in LooseCondition(cond)[2]
    BY <1>5, <2>1 DEF LooseCondition
  <2> QED BY <1>3, <2>1, <2>2 DEF MongoAccepts
<1>6. CASE cond[1] = "exists"
  BY <1>6 DEF EngineAccepts
<1>7. CASE cond[1] = "not"
  <2>1. value # Str(cond[2])
    BY <1>2, <1>7 DEF EngineAccepts
  <2>2. LooseCondition(cond) = cond
    BY <1>7 DEF LooseCondition
  <2> QED BY <1>3, <1>7, <2>1, <2>2 DEF MongoAccepts
<1>8. CASE cond[1] = "reg"
  <2>1. d.f[key][1] = "str"
    BY <1>1, <1>8 DEF EngineRaises
  <2>2. value = d.f[key] /\ value[2] \in Text
    BY <1>1, <1>2, <2>1 DEF Loosely, Texts
  <2>3. IsPrefix(cond[2], value[2])
    BY <1>2, <1>8 DEF EngineAccepts
  <2>4. cond[2] \in Text
    BY <1>8 DEF GoodCond
  <2>5. HasInside(value[2], cond[2])
    BY <2>2, <2>3, <2>4, PrefixIsInside
  <2>6. LooseCondition(cond) = cond
    BY <1>8 DEF LooseCondition
  <2> QED BY <1>3, <1>8, <2>1, <2>2, <2>5, <2>6 DEF MongoAccepts
<1>9. CASE cond[1] \in {"lt", "lte", "gt", "gte"}
  <2>1. d.f[key][1] \in {"num", "bool"}
    BY <1>1, <1>9 DEF EngineRaises
  <2>2. value[1] = "num"
    BY <1>2, <2>1 DEF Loosely, Num
  <2>3. Compares(cond[1], value[2], cond[2][2])
    BY <1>2, <1>9 DEF EngineAccepts
  <2>4. LooseCondition(cond) = cond
    BY <1>9 DEF LooseCondition
  <2> QED BY <1>3, <1>9, <2>2, <2>3, <2>4 DEF MongoAccepts
<1> QED BY <1>4, <1>5, <1>6, <1>7, <1>8, <1>9 DEF GoodCond, Conditions

Satisfies(d, a) == \/ MongoMatches(d, Filter(a))
                   \/ engine = "memory" /\ MongoMatches(Loosened(d), LooseFilter(Asked(a)))

LEMMA FoundSatisfies ==
  ASSUME NEW a \in Asks, engine \in {"mongo", "memory"}, NEW d \in Found(a), Texts(d.f)
  PROVE  Satisfies(d, a)
<1>1. CASE engine = "mongo"
  BY <1>1 DEF Found, Satisfies
<1>2. CASE engine = "memory"
  <2>1. EngineMatches(d, Asked(a))
    BY <1>2 DEF Found
  <2>2. SUFFICES ASSUME NEW clause \in Asked(a)
                 PROVE  \E atom \in {<<atom[1], LooseCondition(atom[2])>> : atom \in clause} :
                          MongoAccepts(Loosened(d), atom[1], atom[2])
    BY <1>2 DEF Satisfies, MongoMatches, LooseFilter
  <2>3. PICK atom \in clause : EngineAccepts(d, atom[1], atom[2])
    BY <2>1 DEF EngineMatches
  <2>4. MongoAccepts(Loosened(d), atom[1], LooseCondition(atom[2]))
    BY <2>3, AskedIsGood, EngineIsLoose
  <2>5. PICK loose : loose = <<atom[1], LooseCondition(atom[2])>>
    OBVIOUS
  <2> QED BY <2>4, <2>5
<1> QED BY <1>1, <1>2

-----------------------------------------------------------------------------
(* The handler *)

Handling ==
  /\ engine \in {"mongo", "memory"} /\ ask \in Asks
  /\ pc \in {"idle", "count", "find", "replied"}
  /\ skip \in Nat
  /\ pc = "idle" => start = {} /\ reply = NoReply
  /\ pc = "find" => engine = "mongo"
  /\ pc \in {"count", "find"} \/ reply.status = 200 => ~Malformed(ask)

LEMMA OptionsAreNumbers ==
  ASSUME NEW a \in Asks, ~Malformed(a)
  PROVE  Limit(a) \in Nat /\ IntOption(a.skip) \in Nat
<1>1. \A text : IntOption(text) \in Int
  BY ConstantsAssumption DEF IntOption
<1>2. IntOption(a.limit) \in Nat /\ IntOption(a.skip) \in Nat
  BY <1>1 DEF Malformed
<1> QED BY <1>2 DEF Limit

Paged(n) == \E s \in Arrangements(Found(ask), SortOrder(ask)) : Answer(Written(ask, Page(s, Limit(ask)), n))

\* The ways in which a GET is answered.
LEMMA AnswersAre ==
  ASSUME Handling, Refuse \/ Count \/ Find \/ MemoryGet
  PROVE  /\ ask' = ask /\ engine' = engine /\ skip' = skip /\ start' = start
         /\ docs' = docs /\ moved' = moved /\ writes' = writes
         /\ \/ \E status \in {403, 404, 500} : Answer(Refused(status))
            \/ pc = "count" /\ Answer(Empty) /\ Counted(ask) = 0
            \/ pc = "count" /\ pc' = "find" /\ engine = "mongo" /\ UNCHANGED <<reply, got>>
            \/ pc = "find" /\ Paged(count)
            \/ pc = "count" /\ engine = "memory" /\ Paged(Counted(ask))
<1>1. CASE Refuse
  BY <1>1 DEF Refuse, Answer
<1>2. CASE Count
  <2>1. pc = "count" /\ engine = "mongo" /\ count' = Counted(ask)
    BY <1>2 DEF Count
  <2>2. CASE MongoRefuses(ask) \/ ask.accept = "unsupported"
    <3>1. Answer(Refused(404)) \/ Answer(Refused(500))
      BY <1>2, <2>2 DEF Count
    <3> QED BY <3>1 DEF Answer
  <2>3. CASE ~MongoRefuses(ask) /\ ask.accept = "json" /\ count' = 0
    <3>1. Answer(Empty)
      BY <1>2, <2>3 DEF Count
    <3> QED BY <2>1, <2>3, <3>1 DEF Answer
  <2>4. CASE ~MongoRefuses(ask) /\ ask.accept # "unsupported" /\ ~(ask.accept = "json" /\ count' = 0)
    BY <1>2, <2>1, <2>4 DEF Count
  <2> QED BY <2>2, <2>3, <2>4
<1>3. CASE Find
  BY <1>3 DEF Find, Answer, Paged
<1>4. CASE MemoryGet
  <2>1. pc = "count" /\ engine = "memory"
    BY <1>4 DEF MemoryGet
  <2>2. CASE MemoryRaises(ask) \/ ask.accept = "unsupported"
    <3>1. Answer(Refused(404)) \/ Answer(Refused(500))
      BY <1>4, <2>2 DEF MemoryGet
    <3> QED BY <3>1 DEF Answer
  <2>3. CASE ~MemoryRaises(ask) /\ ask.accept # "unsupported"
    <3>1. count' = Counted(ask)
      BY <1>4, <2>3 DEF MemoryGet
    <3>2. \/ Answer(Empty) /\ Counted(ask) = 0
          \/ Answer(Refused(500))
          \/ Paged(Counted(ask))
      BY <1>4, <2>3, <3>1 DEF MemoryGet, Paged
    <3>3. UNCHANGED <<engine, docs, writes, ask, skip, start, moved>>
      BY <3>2 DEF Answer, Paged
    <3> QED BY <2>1, <3>2, <3>3
  <2> QED BY <2>2, <2>3
<1> QED BY <1>1, <1>2, <1>3, <1>4

LEMMA HandlingInit == Init => Handling
BY DEF Init, Handling, NoReply

LEMMA HandlingStep == Handling /\ [Next]_vars => Handling'
<1> SUFFICES ASSUME Handling, [Next]_vars PROVE Handling'
  OBVIOUS
<1>1. CASE Refuse \/ Count \/ Find \/ MemoryGet
  <2>1. /\ ask' = ask /\ engine' = engine /\ skip' = skip /\ start' = start
    BY <1>1, AnswersAre
  <2>2. Malformed(ask)' <=> Malformed(ask)
    BY <2>1 DEF Malformed, Clauses
  <2>3. CASE \E status \in {403, 404, 500} : Answer(Refused(status))
    <3>1. pc' = "replied" /\ reply'.status # 200
      BY <2>3 DEF Answer, Refused
    <3> QED BY <2>1, <3>1 DEF Handling
  <2>4. CASE pc = "count" /\ pc' = "find" /\ engine = "mongo" /\ UNCHANGED <<reply, got>>
    BY <2>1, <2>2, <2>4 DEF Handling
  <2>5. CASE pc \in {"count", "find"} /\ pc' = "replied"
    BY <2>1, <2>2, <2>5 DEF Handling
  <2> QED BY <1>1, <2>3, <2>4, <2>5, AnswersAre DEF Answer, Paged
<1>2. CASE Parse
  <2>1. Malformed(ask)' <=> Malformed(ask)
    BY <1>2 DEF Parse, Malformed, Clauses
  <2>2. skip' \in Nat
    BY <1>2, OptionsAreNumbers DEF Parse, Handling
  <2> QED BY <1>2, <2>1, <2>2 DEF Parse, Handling
<1>3. CASE NextPage
  <2>1. reply.status = 200 /\ pc = "replied"
    BY <1>3 DEF NextPage, Full
  <2>2. Limit(ask) \in Nat
    BY <2>1, OptionsAreNumbers DEF Handling
  <2>3. Malformed(ask)' <=> Malformed(ask)
    BY <1>3 DEF NextPage, Malformed, Clauses
  <2> QED BY <1>3, <2>1, <2>2, <2>3 DEF NextPage, Handling
<1>4. CASE Post \/ Put \/ Delete \/ UNCHANGED vars
  <2>1. UNCHANGED <<engine, ask, pc, skip, count, reply, start, got>>
    BY <1>4 DEF Post, Put, Delete, Change, vars
  <2>2. Malformed(ask)' <=> Malformed(ask)
    BY <2>1 DEF Malformed, Clauses
  <2> QED BY <2>1, <2>2 DEF Handling
<1> QED BY <1>1, <1>2, <1>3, <1>4 DEF Next

-----------------------------------------------------------------------------
(* The collection *)

Stamp(d) == d.f["ts"][2]
Sound(d) == /\ "ts" \in DOMAIN d.f /\ d.f["ts"] = Num(Stamp(d)) /\ Stamp(d) \in Int
            /\ Texts(d.f)

\* Documents are numbered from 1, and a version keeps its number when it is changed.
Stored ==
  /\ writes \in Nat /\ IsFiniteSet(docs)
  /\ \A d \in docs : d.n \in 1..Cardinality(docs) /\ Sound(d)
  /\ \A d, e \in docs : d.n = e.n => d = e

LEMMA StampedIs ==
  ASSUME NEW shape \in Shapes, NEW ts \in Int
  PROVE  /\ "ts" \in DOMAIN Stamped(shape, ts) /\ Stamped(shape, ts)["ts"] = Num(ts)
         /\ Texts(Stamped(shape, ts))
<1>1. Texts(shape)
  BY ConstantsAssumption DEF Texts
<1>2. DOMAIN [ts |-> Num(ts)] = {"ts"} /\ [ts |-> Num(ts)].ts = Num(ts)
  OBVIOUS
<1> QED BY <1>1, <1>2 DEF Stamped, Over, Texts, Num

LEMMA ChangeStores ==
  ASSUME Stored, NEW d \in docs, NEW e, e.n = d.n, Sound(e),
         docs' = (docs \ {d}) \cup {e}, writes' \in Nat
  PROVE  Stored'
<1>1. e \notin docs \ {d}
  BY DEF Stored
<1>2. /\ IsFiniteSet(docs \ {d}) /\ Cardinality(docs \ {d}) = Cardinality(docs) - 1
  BY FS_RemoveElement DEF Stored
<1>3. Cardinality(docs) \in Nat
  BY FS_CardinalityType DEF Stored
<1>4. IsFiniteSet(docs') /\ Cardinality(docs') = Cardinality(docs)
  <2>1. PICK rest : rest = docs \ {d}
    OBVIOUS
  <2>2. IsFiniteSet(rest \cup {e}) /\ Cardinality(rest \cup {e}) = Cardinality(rest) + 1
    BY <1>1, <1>2, <2>1, FS_AddElement
  <2> QED BY <1>2, <1>3, <2>1, <2>2
<1>5. \A x \in docs' : x = e \/ x \in docs \ {d}
  OBVIOUS
<1>6. \A x \in docs' : x.n \in 1..Cardinality(docs') /\ Sound(x)
  BY <1>4, <1>5 DEF Stored
<1>7. \A x, y \in docs' : x.n = y.n => x = y
  BY <1>5 DEF Stored
<1> QED BY <1>4, <1>6, <1>7 DEF Stored

LEMMA StoredInit == Init => Stored
BY FS_EmptySet DEF Init, Stored

LEMMA OneIsASequence == ASSUME NEW S, NEW x \in S PROVE <<x>> \in Seq(S)
OBVIOUS

LEMMA ChangesAre ==
  ASSUME Stored, Put \/ Delete
  PROVE  \E d \in docs : \E e : e.n = d.n /\ Sound(e) /\ Change(d, e)
<1>1. CASE Put
  <2>1. PICK d \in docs, shape \in Shapes :
          Change(d, [n |-> d.n, f |-> Over(Stamped(shape, writes), d.f)])
    BY <1>1 DEF Put
  <2>2. PICK f : f = Over(Stamped(shape, writes), d.f)
    OBVIOUS
  <2>3. PICK e : e = [n |-> d.n, f |-> f]
    OBVIOUS
  <2>4. PICK stamped : stamped = Stamped(shape, writes)
    OBVIOUS
  <2>5. writes \in Int /\ Texts(d.f)
    BY DEF Stored, Sound
  <2>6. "ts" \in DOMAIN stamped /\ stamped["ts"] = Num(writes) /\ Texts(stamped)
    BY <2>4, <2>5, StampedIs
  <2>7. "ts" \in DOMAIN f /\ f["ts"] = Num(writes) /\ Texts(f)
    BY <2>2, <2>4, <2>5, <2>6 DEF Over, Texts
  <2>8. e.n = d.n /\ e.f = f /\ Sound(e)
    BY <2>3, <2>5, <2>7 DEF Sound, Stamp, Num
  <2> QED BY <2>1, <2>2, <2>3, <2>8
<1>2. CASE Delete
  <2>1. PICK d \in docs :
          Change(d, [n |-> d.n, f |-> Over([x \in {"$status"} |-> Str(Deleted)], d.f)])
    BY <1>2 DEF Delete
  <2>2. PICK mark : mark = [x \in {"$status"} |-> Str(Deleted)]
    OBVIOUS
  <2>3. PICK f : f = Over(mark, d.f)
    OBVIOUS
  <2>4. PICK e : e = [n |-> d.n, f |-> f]
    OBVIOUS
  <2>5. Sound(d) /\ Texts(mark)
    <3>1. Deleted \in Text
      <4>1. PICK word \in STRING : word = "DELETED"
        BY ConstantsAssumption
      <4>2. <<word>> \in Seq(STRING)
        BY OneIsASequence
      <4> QED BY <4>1, <4>2 DEF Deleted, Text
    <3> QED BY <2>2, <3>1 DEF Stored, Texts, Str
  <2>6. "ts" \in DOMAIN f /\ f["ts"] = d.f["ts"] /\ Texts(f)
    <3>1. DOMAIN mark = {"$status"} /\ "ts" \in DOMAIN d.f
      BY <2>2, <2>5 DEF Sound
    <3>2. DOMAIN f = DOMAIN mark \cup DOMAIN d.f
      BY <2>3 DEF Over
    <3>3. \A key \in DOMAIN f : f[key] = IF key \in DOMAIN mark THEN mark[key] ELSE d.f[key]
      BY <2>3 DEF Over
    <3> QED BY <2>5, <3>1, <3>2, <3>3 DEF Texts, Sound
  <2>7. e.n = d.n /\ Sound(e)
    BY <2>4, <2>5, <2>6 DEF Sound, Stamp
  <2> QED BY <2>1, <2>2, <2>3, <2>4, <2>7
<1> QED BY <1>1, <1>2

LEMMA StoredStep == Stored /\ [Next]_vars => Stored'
<1> SUFFICES ASSUME Stored, [Next]_vars PROVE Stored'
  OBVIOUS
<1>1. CASE Refuse \/ Parse \/ Count \/ Find \/ MemoryGet \/ NextPage \/ UNCHANGED vars
  <2>1. UNCHANGED <<docs, writes>>
    BY <1>1 DEF Refuse, Parse, Count, Find, MemoryGet, NextPage, Answer, vars
  <2> QED BY <2>1 DEF Stored
<1>2. CASE Post
  <2>1. PICK shape \in Shapes, ts \in {0, writes} :
          /\ writes' = writes + 1
          /\ docs' = docs \cup {[n |-> Cardinality(docs) + 1, f |-> Stamped(shape, ts)]}
    BY <1>2 DEF Post, Writing
  <2>2. PICK e : e = [n |-> Cardinality(docs) + 1, f |-> Stamped(shape, ts)]
    OBVIOUS
  <2>3. ts \in Int /\ Cardinality(docs) \in Nat
    BY FS_CardinalityType DEF Stored
  <2>4. e.n = Cardinality(docs) + 1 /\ Sound(e)
    <3>1. PICK stamped : stamped = Stamped(shape, ts)
      OBVIOUS
    <3>2. "ts" \in DOMAIN stamped /\ stamped["ts"] = Num(ts) /\ Texts(stamped)
      BY <2>3, <3>1, StampedIs
    <3>3. e.f = stamped
      BY <2>2, <3>1
    <3> QED BY <2>2, <2>3, <3>2, <3>3 DEF Sound, Stamp, Num
  <2>5. e \notin docs
    BY <2>3, <2>4 DEF Stored
  <2>6. IsFiniteSet(docs') /\ Cardinality(docs') = Cardinality(docs) + 1
    BY <2>1, <2>2, <2>5, FS_AddElement DEF Stored
  <2>7. \A x \in docs' : x = e \/ x \in docs
    BY <2>1, <2>2
  <2>8. \A x \in docs' : x.n \in 1..Cardinality(docs') /\ Sound(x)
    BY <2>3, <2>4, <2>6, <2>7 DEF Stored
  <2>9. \A x, y \in docs' : x.n = y.n => x = y
    BY <2>3, <2>4, <2>7 DEF Stored
  <2>10. writes' \in Nat
    BY <2>1 DEF Stored
  <2> QED BY <2>6, <2>8, <2>9, <2>10 DEF Stored
<1>3. CASE Put \/ Delete
  <2>0. PICK d \in docs : \E e : e.n = d.n /\ Sound(e) /\ Change(d, e)
    BY <1>3, ChangesAre
  <2>1. PICK e : e.n = d.n /\ Sound(e) /\ Change(d, e)
    BY <2>0
  <2>2. docs' = (docs \ {d}) \cup {e} /\ writes' \in Nat
    BY <2>1 DEF Change, Writing, Stored
  <2> QED BY <2>1, <2>2, ChangeStores, Zenon
<1> QED BY <1>1, <1>2, <1>3 DEF Next

-----------------------------------------------------------------------------
(* Sorted lists and pages of them *)

LEMMA ArrangedIs ==
  ASSUME NEW S, IsFiniteSet(S), NEW order, NEW s \in Arrangements(S, order)
  PROVE  /\ s \in Seq(S) /\ Len(s) = Cardinality(S) /\ Cardinality(S) \in Nat
         /\ \A i, j \in 1..Len(s) : i # j => s[i] # s[j]
         /\ \A d \in S : \E i \in 1..Len(s) : s[i] = d
<1>1. PICK n \in Nat : n = Cardinality(S)
  BY FS_CardinalityType
<1>2. s \in [1..n -> S] /\ \A i, j \in 1..n : i # j => s[i] # s[j]
  BY <1>1 DEF Arrangements, SetToSeqs
<1>3. s \in Seq(S) /\ Len(s) = n
  BY <1>2, SeqDef, LenProperties
<1>4. IsFiniteSet(1..n) /\ Cardinality(1..n) = Cardinality(S)
  BY <1>1, FS_Interval
<1>5. s \in Injection(1..n, S)
  BY <1>2 DEF Injection, IsInjective
<1>6. s \in Surjection(1..n, S)
  BY <1>4, <1>5, FS_Injection
<1>7. \A d \in S : \E i \in 1..n : s[i] = d
  BY <1>6 DEF Surjection
<1> QED BY <1>1, <1>2, <1>3, <1>7

NewestOrder == << <<"ts", -1>> >>

LEMMA BeforeByStamp ==
  ASSUME NEW d, NEW e, Sound(d), Sound(e)
  PROVE  /\ Before(d, e, NewestOrder) <=> Stamp(d) > Stamp(e)
         /\ Reverse(NewestOrder) = NewestOrder
<1>1. SortKey(d, "ts") = <<1, Stamp(d)>> /\ SortKey(e, "ts") = <<1, Stamp(e)>>
  <2>1. d.f["ts"] = <<"num", Stamp(d)>> /\ e.f["ts"] = <<"num", Stamp(e)>>
    BY DEF Sound, Stamp, Num
  <2>2. Loosely(d.f["ts"]) = d.f["ts"] /\ Loosely(e.f["ts"]) = e.f["ts"]
    BY <2>1 DEF Loosely
  <2>3. "ts" \in DOMAIN d.f /\ "ts" \in DOMAIN e.f
    BY DEF Sound
  <2> QED BY <2>1, <2>2, <2>3 DEF SortKey
<1>2. Stamp(d) \in Int /\ Stamp(e) \in Int
  BY DEF Sound
<1>3. Less(d, e, <<"ts", -1>>) <=> Stamp(d) > Stamp(e)
  BY <1>1, <1>2 DEF Less
<1>4. Before(d, e, NewestOrder) <=> Less(d, e, <<"ts", -1>>)
  BY DEF Before, NewestOrder
<1>5. Reverse(NewestOrder) = NewestOrder
  BY DEF Reverse, NewestOrder
<1> QED BY <1>3, <1>4, <1>5

\* Whatever the engine, the documents of a list that nobody sorts otherwise are newest first.
LEMMA ArrangedByStamp ==
  ASSUME NEW S, IsFiniteSet(S), \A d \in S : Sound(d),
         NEW s \in Arrangements(S, NewestOrder),
         NEW i \in 1..Len(s), NEW j \in 1..Len(s), i < j
  PROVE  Stamp(s[i]) >= Stamp(s[j])
<1>1. s \in Seq(S) /\ DOMAIN s = 1..Len(s) /\ s[i] \in S /\ s[j] \in S
  BY ArrangedIs, LenProperties, ElementOfSeq
<1>2. PICK d \in S, e \in S : d = s[i] /\ e = s[j]
  BY <1>1
<1>3. Sound(d) /\ Sound(e) /\ Stamp(d) \in Int /\ Stamp(e) \in Int
  BY DEF Sound
<1>4. Reverse(NewestOrder) = NewestOrder
  BY <1>3, BeforeByStamp
<1>5. ~Before(e, d, NewestOrder) \/ Before(d, e, NewestOrder)
  BY <1>1, <1>2, <1>4 DEF Arrangements
<1>6. ~(Stamp(e) > Stamp(d)) \/ Stamp(d) > Stamp(e)
  BY <1>3, <1>5, BeforeByStamp
<1> QED BY <1>2, <1>3, <1>6

\* A page has what is in its window, and is short at the end only.
LEMMA PageIs ==
  ASSUME NEW S, NEW s \in Seq(S), skip \in Nat, NEW limit \in Nat
  PROVE  /\ Page(s, limit) \in Seq(S) /\ Len(Page(s, limit)) \in Nat
         /\ DOMAIN Page(s, limit) = 1..Len(Page(s, limit))
         /\ \A i \in 1..Len(s) : i > skip /\ (limit = 0 \/ i <= skip + limit)
              => i - skip \in DOMAIN Page(s, limit) /\ Page(s, limit)[i - skip] = s[i]
         /\ limit > 0 => Len(Page(s, limit)) <= limit
         /\ limit > 0 /\ Len(s) >= skip + limit => Len(Page(s, limit)) = limit
         /\ Len(Page(s, limit)) > 0 => Len(Page(s, limit)) <= Len(s) - skip
<1>1. PICK len \in Nat : len = Len(s) /\ DOMAIN s = 1..len
  BY LenProperties
<1>2. PICK at \in Nat : at = skip
  OBVIOUS
<1>3. PICK last : last = IF limit = 0 \/ at + limit > len THEN len ELSE at + limit
  OBVIOUS
<1>4. last \in Nat /\ last <= len
  BY <1>3
<1>5. PICK from \in Int : from = at + 1
  OBVIOUS
<1>6. PICK page : page = SubSeq(s, from, last)
  OBVIOUS
<1>7. Page(s, limit) = page
  BY <1>1, <1>2, <1>3, <1>5, <1>6 DEF Page
<1>8. \A i \in from..last : s[i] \in S
  <2>1. \A i \in from..last : i \in 1..len
    BY <1>4, <1>5
  <2> QED BY <1>1, <2>1, ElementOfSeq
<1>9. /\ page \in Seq(S) /\ Len(page) = IF from <= last THEN last - from + 1 ELSE 0
      /\ \A i \in 1..(last - from + 1) : page[i] = s[from + i - 1]
  BY <1>4, <1>6, <1>8, SubSeqProperties
<1>10. PICK size \in Nat : size = Len(page) /\ DOMAIN page = 1..size
  BY <1>9, LenProperties
<1>11. ASSUME NEW i \in 1..len, i > at, limit = 0 \/ i <= at + limit
       PROVE  i - at \in DOMAIN page /\ page[i - at] = s[i]
  <2>1. i <= last
    BY <1>3, <1>11
  <2>2. PICK k \in Int : k = i - at /\ k \in 1..(last - from + 1) /\ from + k - 1 = i
    BY <1>4, <1>5, <1>11, <2>1
  <2>3. k \in DOMAIN page
    BY <1>4, <1>5, <1>9, <1>10, <2>2
  <2> QED BY <1>9, <2>2, <2>3
<1>12. size = IF from <= last THEN last - from + 1 ELSE 0
  BY <1>9, <1>10
<1>13. /\ limit > 0 => size <= limit
       /\ limit > 0 /\ len >= at + limit => size = limit
       /\ size > 0 => size <= len - at
  BY <1>3, <1>4, <1>5, <1>12
<1> QED BY <1>1, <1>2, <1>7, <1>9, <1>10, <1>11, <1>13

LEMMA LeastOf ==
  ASSUME NEW T, T \subseteq Nat, T # {}
  PROVE  \E t \in T : \A u \in T : t <= u
<1>1. IsWellFoundedOn(OpToRel(<, Nat), Nat)
  BY NatLessThanWellFounded
<1>2. PICK t \in T : \A u \in T : ~(<<u, t>> \in OpToRel(<, Nat))
  BY <1>1, WFMin
<1>3. \A u \in T : ~(u < t)
  BY <1>2 DEF OpToRel
<1> QED BY <1>3

\* Each number up to the size of a set of positions is the rank of one of them.
LEMMA RanksAreTaken ==
  ASSUME NEW n \in Nat, NEW K \in SUBSET (1..n), NEW k \in 1..Cardinality(K)
  PROVE  Nth(K, k) \in K
<1> DEFINE Upto(i) == {j \in K : j <= i}
           Below(i) == {j \in K : j < i}
           T == {i \in Nat : Cardinality(Upto(i)) >= k}
<1>1. IsFiniteSet(K) /\ Cardinality(K) \in Nat
  <2>1. IsFiniteSet(1..n)
    BY FS_Interval
  <2> QED BY <2>1, FS_Subset, FS_CardinalityType
<1>2. \A i : /\ IsFiniteSet(Upto(i)) /\ Cardinality(Upto(i)) \in Nat
             /\ IsFiniteSet(Below(i)) /\ Cardinality(Below(i)) \in Nat
  <2> TAKE i
  <2>1. Upto(i) \in SUBSET K /\ Below(i) \in SUBSET K
    OBVIOUS
  <2> HIDE DEF Upto, Below
  <2> QED BY <1>1, <2>1, FS_Subset, FS_CardinalityType
<1>3. \A j \in K : j \in Nat /\ 1 <= j /\ j <= n
  OBVIOUS
<1>4. Upto(n) = K
  BY <1>3
<1>5. Upto(0) = {}
  <2>1. \A j \in K : ~(j <= 0)
    BY <1>3
  <2> QED BY <2>1, Zenon
<1>6. ASSUME NEW i \in Nat
      PROVE  /\ Upto(i - 1) = Below(i)
             /\ i \in K => Upto(i) = Below(i) \cup {i}
             /\ i \notin K => Upto(i) = Below(i)
             /\ i \notin Below(i)
  <2>1. \A j \in K : (j <= i - 1 <=> j < i) /\ (j <= i <=> j < i \/ j = i)
    BY <1>3
  <2>2. Upto(i - 1) = Below(i)
    BY <2>1, Zenon
  <2>3. i \in K => Upto(i) = Below(i) \cup {i}
    BY <2>1
  <2>4. i \notin K => Upto(i) = Below(i)
    BY <2>1
  <2>5. i \notin Below(i)
    BY <1>3
  <2> QED BY <2>2, <2>3, <2>4, <2>5
<1> HIDE DEF Upto, Below
<1>7. n \in T
  BY <1>1, <1>4
<1>8. PICK i \in Nat : i \in T /\ \A u \in T : i <= u
  BY <1>7, LeastOf
<1>9. Cardinality(Upto(i)) >= k
  BY <1>8
<1>10. i # 0
  BY <1>5, <1>9, FS_EmptySet
<1>11. Cardinality(Below(i)) < k
  <2>1. i - 1 \in Nat /\ i - 1 \notin T
    BY <1>8, <1>10
  <2>2. ~(Cardinality(Upto(i - 1)) >= k)
    BY <2>1
  <2>3. ~(Cardinality(Below(i)) >= k)
    BY <2>2, <1>6
  <2> QED BY <1>2, <2>3
<1>12. i \in K
  BY <1>2, <1>6, <1>9, <1>11
<1>13. Cardinality(Upto(i)) = Cardinality(Below(i)) + 1
  BY <1>2, <1>6, <1>12, FS_AddElement
<1>14. Cardinality(Below(i)) = k - 1
  BY <1>1, <1>2, <1>9, <1>11, <1>13
<1>15. \E m \in K : Cardinality({j \in K : j < m}) = k - 1
  BY <1>12, <1>14 DEF Below
<1> QED BY <1>15, Zenon DEF Nth

\* unique writes documents of the page, and no more of them.
LEMMA DistinctIs ==
  ASSUME NEW S, NEW s \in Seq(S)
  PROVE  /\ Distinct(s) \in Seq(S) /\ Len(Distinct(s)) \in Nat
         /\ DOMAIN Distinct(s) = 1..Len(Distinct(s)) /\ Len(Distinct(s)) <= Len(s)
<1>1. Len(s) \in Nat /\ DOMAIN s = 1..Len(s)
  BY LenProperties
<1>2. PICK K : K = Firsts(s)
  OBVIOUS
<1>3. K \in SUBSET (1..Len(s))
  BY <1>1, <1>2 DEF Firsts
<1>4. IsFiniteSet(1..Len(s)) /\ Cardinality(1..Len(s)) = Len(s)
  BY <1>1, FS_Interval
<1>5. PICK n \in Nat : n = Cardinality(K) /\ n <= Len(s)
  <2>1. IsFiniteSet(K) /\ Cardinality(K) <= Len(s)
    BY <1>3, <1>4, FS_Subset
  <2> QED BY <2>1, FS_CardinalityType
<1>6. \A k \in 1..n : Nth(K, k) \in K
  BY <1>1, <1>3, <1>5, RanksAreTaken
<1>7. \A k \in 1..n : s[Nth(K, k)] \in S
  BY <1>1, <1>3, <1>6, ElementOfSeq
<1>8. Distinct(s) = [k \in 1..n |-> s[Nth(K, k)]]
  BY <1>2, <1>5 DEF Distinct
<1>9. Distinct(s) \in [1..n -> S]
  BY <1>7, <1>8
<1> QED BY <1>5, <1>9, SeqDef, LenProperties

LEMMA FoundIs ==
  ASSUME Stored, NEW a
  PROVE  /\ Found(a) \subseteq docs /\ IsFiniteSet(Found(a)) /\ Cardinality(Found(a)) \in Nat
         /\ \A d \in Found(a) : Sound(d)
<1>1. Found(a) \in SUBSET docs
  BY DEF Found
<1>2. IsFiniteSet(Found(a)) /\ Cardinality(Found(a)) \in Nat
  BY <1>1, FS_Subset, FS_CardinalityType DEF Stored
<1> QED BY <1>1, <1>2 DEF Stored

\* What a page brings: the list it was cut from, and its body.
LEMMA PagedIs ==
  ASSUME Handling, Stored, pc \in {"count", "find"}, NEW n, Paged(n)
  PROVE  \E s \in Arrangements(Found(ask), SortOrder(ask)), page \in Seq(Found(ask)),
            body \in Seq(Found(ask)) :
           /\ page = Page(s, Limit(ask)) /\ body = IF ask.unique THEN Distinct(page) ELSE page
           /\ Len(body) \in Nat /\ DOMAIN body = 1..Len(body) /\ Len(body) <= Len(page)
           /\ reply' = [status |-> 200, body |-> body,
                        brackets |-> ask.accept = "bson" \/ Brackets(ask, n)]
           /\ got' = got \cup {body[i].n : i \in DOMAIN body}
           /\ pc' = "replied"
<1>1. PICK s \in Arrangements(Found(ask), SortOrder(ask)) : Answer(Written(ask, Page(s, Limit(ask)), n))
  BY DEF Paged
<1>2. s \in Seq(Found(ask))
  BY FoundIs, ArrangedIs
<1>3. PICK limit \in Nat : limit = Limit(ask)
  BY OptionsAreNumbers DEF Handling
<1>4. PICK page \in Seq(Found(ask)) : page = Page(s, Limit(ask)) /\ Len(page) \in Nat /\ DOMAIN page = 1..Len(page)
  BY <1>2, <1>3, PageIs DEF Handling
<1>5. PICK body : body = IF ask.unique THEN Distinct(page) ELSE page
  OBVIOUS
<1>6. /\ body \in Seq(Found(ask))
      /\ Len(body) \in Nat /\ DOMAIN body = 1..Len(body) /\ Len(body) <= Len(page)
  <2>1. CASE ask.unique
    BY <1>5, <2>1, DistinctIs
  <2>2. CASE ~ask.unique
    BY <1>4, <1>5, <2>2
  <2> QED BY <2>1, <2>2
<1>7. Written(ask, page, n) = [status |-> 200, body |-> body,
                               brackets |-> ask.accept = "bson" \/ Brackets(ask, n)]
  BY <1>5 DEF Written
<1>8. PICK r : r = [status |-> 200, body |-> body,
                    brackets |-> ask.accept = "bson" \/ Brackets(ask, n)]
  OBVIOUS
<1>9. Answer(r)
  BY <1>1, <1>4, <1>7, <1>8
<1>10. /\ reply' = r /\ pc' = "replied" /\ r.body = body
       /\ got' = got \cup {r.body[i].n : i \in DOMAIN r.body}
  BY <1>8, <1>9 DEF Answer
<1>11. /\ reply' = [status |-> 200, body |-> body,
                     brackets |-> ask.accept = "bson" \/ Brackets(ask, n)]
       /\ got' = got \cup {body[i].n : i \in DOMAIN body}
  BY <1>8, <1>10
<1> QED BY <1>4, <1>5, <1>6, <1>10, <1>11, Zenon

\* The steps that leave the reply to the GET as it is, or take it away.
LEMMA RepliesAre ==
  ASSUME Handling, [Next]_vars
  PROVE  /\ ask' = ask /\ engine' = engine
         /\ \/ Refuse \/ Count \/ Find \/ MemoryGet
            \/ reply' = reply \/ reply' = NoReply
<1>1. CASE Refuse \/ Count \/ Find \/ MemoryGet
  BY <1>1, AnswersAre
<1>2. CASE Parse \/ NextPage \/ Post \/ Put \/ Delete \/ UNCHANGED vars
  BY <1>2 DEF Parse, NextPage, Post, Put, Delete, Change, vars
<1> QED BY <1>1, <1>2 DEF Next

-----------------------------------------------------------------------------
(* Brackets, and what is found *)

LEMMA PageIsBracketed ==
  ASSUME Handling, Stored, NEW n, Paged(n),
         \/ pc = "find"
         \/ pc = "count" /\ engine = "memory" /\ n = Counted(ask)
  PROVE  ManyAreBracketed'
<1>1. PICK s \in Arrangements(Found(ask), SortOrder(ask)), page \in Seq(Found(ask)),
           body \in Seq(Found(ask)) :
        /\ page = Page(s, Limit(ask)) /\ Len(body) \in Nat /\ Len(body) <= Len(page)
        /\ reply' = [status |-> 200, body |-> body,
                     brackets |-> ask.accept = "bson" \/ Brackets(ask, n)]
  BY PagedIs
<1>2. PICK size \in Nat : size = Cardinality(Found(ask)) /\ size = Len(s) /\ s \in Seq(Found(ask))
  BY FoundIs, ArrangedIs
<1>3. PICK limit \in Nat : limit = Limit(ask)
  BY OptionsAreNumbers DEF Handling
<1>4. PICK at \in Nat : at = skip
  BY DEF Handling
<1>5. PICK len \in Nat : /\ len = Len(page) /\ (limit > 0 => len <= limit)
                         /\ (len > 0 => len <= size - at)
  BY <1>1, <1>2, <1>3, <1>4, PageIs
<1> SUFFICES ASSUME Len(body) > 1 PROVE Brackets(ask, n)
  BY <1>1 DEF ManyAreBracketed
<1>6. len > 1
  BY <1>1, <1>5
<1>7. ~Single(ask)
  BY <1>3, <1>5, <1>6 DEF Limit
<1>8. CASE ask.id # <<>> \/ engine = "mongo"
  BY <1>7, <1>8 DEF Brackets
<1>9. CASE ask.id = <<>> /\ engine # "mongo"
  <2>1. n = Counted(ask)
    BY <1>9 DEF Handling
  <2>2. Counted(ask) = IF limit > 0 /\ limit < size - at THEN limit ELSE size - at
    BY <1>2, <1>3, <1>4, <1>5, <1>6 DEF Counted
  <2>3. n > 1
    BY <1>5, <1>6, <2>1, <2>2
  <2> QED BY <2>3 DEF Brackets
<1> QED BY <1>8, <1>9

LEMMA BracketsStep == Handling /\ Stored /\ ManyAreBracketed /\ [Next]_vars => ManyAreBracketed'
<1> SUFFICES ASSUME Handling, Stored, ManyAreBracketed, [Next]_vars PROVE ManyAreBracketed'
  OBVIOUS
<1>1. CASE Refuse \/ Count \/ Find \/ MemoryGet
  <2>1. CASE \/ \E status \in {403, 404, 500} : Answer(Refused(status))
             \/ Answer(Empty)
    <3>1. reply'.body = <<>>
      BY <2>1 DEF Answer, Refused, Empty
    <3> QED BY <3>1 DEF ManyAreBracketed
  <2>2. CASE reply' = reply
    BY <2>2 DEF ManyAreBracketed
  <2>3. CASE pc = "find" /\ Paged(count)
    BY <2>3, PageIsBracketed
  <2>4. CASE pc = "count" /\ engine = "memory" /\ Paged(Counted(ask))
    BY <2>4, PageIsBracketed
  <2> QED BY <1>1, <2>1, <2>2, <2>3, <2>4, AnswersAre
<1>2. CASE reply' = reply \/ reply' = NoReply
  BY <1>2 DEF ManyAreBracketed, NoReply
<1> QED BY <1>1, <1>2, RepliesAre

BodySatisfies == \A i \in DOMAIN reply.body : Satisfies(reply.body[i], ask)

LEMMA PageSatisfies ==
  ASSUME Handling, Stored, pc \in {"count", "find"}, NEW n, Paged(n),
         ask' = ask, engine' = engine
  PROVE  BodySatisfies'
<1>1. PICK body \in Seq(Found(ask)) : reply'.body = body /\ DOMAIN body = 1..Len(body)
  BY PagedIs
<1>2. SUFFICES ASSUME NEW i \in DOMAIN body PROVE Satisfies(body[i], ask)'
  BY <1>1 DEF BodySatisfies
<1>3. PICK d \in Found(ask) : d = body[i]
  BY <1>1, ElementOfSeq
<1>4. Texts(d.f)
  BY FoundIs DEF Sound
<1>5. Satisfies(d, ask)
  BY <1>4, FoundSatisfies DEF Handling
<1> QED BY <1>3, <1>5 DEF Satisfies

LEMMA SatisfiesStep == Handling /\ Stored /\ BodySatisfies /\ [Next]_vars => BodySatisfies'
<1> SUFFICES ASSUME Handling, Stored, BodySatisfies, [Next]_vars PROVE BodySatisfies'
  OBVIOUS
<1>1. ask' = ask /\ engine' = engine
  BY RepliesAre
<1>2. CASE reply' = reply
  BY <1>1, <1>2 DEF BodySatisfies, Satisfies
<1>3. CASE reply'.body = <<>>
  BY <1>3 DEF BodySatisfies
<1>4. CASE Refuse \/ Count \/ Find \/ MemoryGet
  <2>1. CASE \/ \E status \in {403, 404, 500} : Answer(Refused(status))
             \/ Answer(Empty)
    <3>1. reply'.body = <<>>
      BY <2>1 DEF Answer, Refused, Empty
    <3> QED BY <3>1, <1>3
  <2>2. CASE pc \in {"count", "find"} /\ \E n : Paged(n)
    BY <1>1, <2>2, PageSatisfies
  <2> QED BY <1>2, <1>4, <2>1, <2>2, AnswersAre
<1> QED BY <1>2, <1>3, <1>4, RepliesAre DEF NoReply

-----------------------------------------------------------------------------
(* Reading page by page *)

InPages == ask.limit # <<>> /\ ask.sort = <<>> /\ IntOption(ask.skip) = 0 /\ ~ask.unique

Excused(d) == \/ \E e \in moved : e.n = d.n \/ Stamp(e) >= Stamp(d)
              \/ \E e \in docs : e.n # d.n /\ e.f["ts"] = d.f["ts"]

Ahead(d) == {e \in Found(ask) : Stamp(e) > Stamp(d)}

\* A document of the beginning that the client has not got and that has no excuse is still found,
\* and the documents in front of it fill the pages so far: it cannot have slipped by.
StillAhead(d) ==
  /\ d \in Found(ask)
  /\ pc \in {"count", "find"} => Cardinality(Ahead(d)) >= skip
  /\ pc = "replied" /\ reply.status = 200 => Full /\ Cardinality(Ahead(d)) >= skip + Limit(ask)

AheadInv == InPages => \A d \in start : d.n \in got \/ Excused(d) \/ StillAhead(d)

LEMMA AheadIs ==
  ASSUME Stored, NEW d
  PROVE  IsFiniteSet(Ahead(d)) /\ Cardinality(Ahead(d)) \in Nat
<1>1. Ahead(d) \in SUBSET Found(ask)
  BY DEF Ahead
<1> QED BY <1>1, FoundIs, FS_Subset, FS_CardinalityType

\* The place of a document without an excuse is given by the documents ahead of it.
LEMMA PlaceIs ==
  ASSUME Stored, NEW d \in Found(ask), ~Excused(d),
         NEW s \in Arrangements(Found(ask), NewestOrder)
  PROVE  \E p \in 1..Len(s) : s[p] = d /\ Cardinality(Ahead(d)) = p - 1
<1>1. /\ s \in Seq(Found(ask)) /\ Len(s) \in Nat
      /\ \A i, j \in 1..Len(s) : i # j => s[i] # s[j]
      /\ \A e \in Found(ask) : \E i \in 1..Len(s) : s[i] = e
  BY FoundIs, ArrangedIs
<1>2. PICK p \in 1..Len(s) : s[p] = d
  BY <1>1
<1>3. \A i \in 1..Len(s) : s[i] \in Found(ask) /\ Stamp(s[i]) \in Int
  BY <1>1, ElementOfSeq, FoundIs DEF Sound
<1>4. \A i, j \in 1..Len(s) : i < j => Stamp(s[i]) >= Stamp(s[j])
  BY FoundIs, ArrangedByStamp
<1>5. ASSUME NEW e \in Found(ask), e # d PROVE Stamp(e) # Stamp(d)
  <2>1. e \in docs /\ d \in docs /\ Sound(e) /\ Sound(d)
    BY FoundIs
  <2>2. e.n # d.n
    BY <1>5, <2>1 DEF Stored
  <2>3. e.f["ts"] # d.f["ts"]
    BY <2>1, <2>2 DEF Excused
  <2> QED BY <2>1, <2>3 DEF Sound
<1>6. \A i \in 1..Len(s) : i < p => s[i] \in Ahead(d)
  <2> TAKE i \in 1..Len(s)
  <2> HAVE i < p
  <2>0. i # p
    BY <1>1
  <2>1. s[i] # d /\ Stamp(s[i]) >= Stamp(d)
    BY <1>1, <1>2, <1>4, <2>0, Zenon
  <2>2. Stamp(s[i]) # Stamp(d) /\ Stamp(s[i]) \in Int /\ Stamp(d) \in Int
    BY <1>2, <1>3, <1>5, <2>1
  <2> QED BY <1>3, <2>1, <2>2 DEF Ahead
<1>7. \A e \in Ahead(d) : \E i \in 1..(p - 1) : s[i] = e
  <2> TAKE e \in Ahead(d)
  <2>1. e \in Found(ask) /\ Stamp(e) > Stamp(d)
    BY DEF Ahead
  <2>2. PICK i \in 1..Len(s) : s[i] = e
    BY <1>1, <2>1
  <2>3. Stamp(s[i]) \in Int /\ Stamp(s[p]) \in Int /\ Stamp(s[i]) > Stamp(s[p])
    BY <1>2, <1>3, <2>1, <2>2
  <2>4. ~(p < i) /\ p # i
    BY <1>4, <2>3
  <2>5. i \in 1..(p - 1)
    BY <1>1, <2>4
  <2> QED BY <2>2, <2>5
<1>8. PICK k \in Nat : k = p - 1 /\ \A i \in 1..k : i \in 1..Len(s) /\ i < p
  BY <1>1
<1>9. PICK front : front = [i \in 1..k |-> s[i]]
  OBVIOUS
<1>10. front \in [1..k -> Ahead(d)] /\ \A i, j \in 1..k : front[i] = front[j] => i = j
  BY <1>1, <1>6, <1>8, <1>9
<1>11. \A e \in Ahead(d) : \E i \in 1..k : front[i] = e
  BY <1>7, <1>8, <1>9
<1>12. front \in Bijection(1..k, Ahead(d))
  BY <1>10, <1>11 DEF Bijection, Injection, Surjection, IsInjective
<1>13. Cardinality(Ahead(d)) = k
  BY <1>12, FS_CountingElements DEF ExistsBijection
<1> QED BY <1>2, <1>8, <1>13

\* A page of a client who sorts by nothing brings a document without excuse, or is full.
LEMMA PageBrings ==
  ASSUME Handling, Stored, InPages, pc \in {"count", "find"}, NEW n, Paged(n),
         NEW d \in Found(ask), ~Excused(d), Cardinality(Ahead(d)) >= skip
  PROVE  \/ d.n \in got'
         \/ /\ reply'.status = 200 /\ Len(reply'.body) = Limit(ask)
            /\ Cardinality(Ahead(d)) >= skip + Limit(ask)
<1>1. SortOrder(ask) = NewestOrder
  BY DEF SortOrder, NewestOrder, InPages
<1>2. PICK s \in Arrangements(Found(ask), NewestOrder), page \in Seq(Found(ask)),
           body \in Seq(Found(ask)) :
        /\ page = Page(s, Limit(ask)) /\ body = IF ask.unique THEN Distinct(page) ELSE page
        /\ reply' = [status |-> 200, body |-> body,
                     brackets |-> ask.accept = "bson" \/ Brackets(ask, n)]
        /\ got' = got \cup {body[i].n : i \in DOMAIN body}
  BY <1>1, PagedIs
<1>3. body = page
  BY <1>2 DEF InPages
<1>4. PICK limit \in Nat : limit = Limit(ask)
  BY OptionsAreNumbers DEF Handling
<1>5. PICK at \in Nat : at = skip
  BY DEF Handling
<1>6. PICK len \in Nat : len = Len(s) /\ s \in Seq(Found(ask))
  BY FoundIs, ArrangedIs
<1>7. PICK p \in 1..len : s[p] = d /\ Cardinality(Ahead(d)) = p - 1
  BY <1>6, PlaceIs
<1>8. CASE limit = 0 \/ p <= at + limit
  <2>1. p > at
    BY <1>5, <1>7
  <2>2. p - at \in DOMAIN page /\ page[p - at] = d
    BY <1>2, <1>4, <1>5, <1>6, <1>7, <1>8, <2>1, PageIs
  <2> QED BY <1>2, <1>3, <2>2
<1>9. CASE limit > 0 /\ p > at + limit
  <2>1. Len(page) = limit
    BY <1>2, <1>4, <1>5, <1>6, <1>7, <1>9, PageIs
  <2>2. p - 1 >= at + limit
    BY <1>9
  <2> QED BY <1>2, <1>3, <1>4, <1>5, <1>7, <2>1, <2>2
<1> QED BY <1>4, <1>5, <1>7, <1>8, <1>9

\* Nothing is counted only when nothing is left.
LEMMA NothingIsLeft ==
  ASSUME Handling, Stored, pc = "count", Counted(ask) = 0,
         NEW d \in Found(ask)
  PROVE  Cardinality(Ahead(d)) < skip
<1>1. PICK limit \in Nat : limit = Limit(ask)
  BY OptionsAreNumbers DEF Handling
<1>2. PICK at \in Nat : at = skip
  BY DEF Handling
<1>3. PICK size \in Nat : size = Cardinality(Found(ask))
  BY FoundIs
<1>4. size <= at
  BY <1>1, <1>2, <1>3 DEF Counted
<1>5. PICK ahead : ahead = Ahead(d)
  OBVIOUS
<1>6. ahead \subseteq Found(ask) /\ d \notin ahead
  <2>1. Stamp(d) \in Int
    BY FoundIs DEF Sound
  <2> QED BY <1>5, <2>1 DEF Ahead
<1>7. IsFiniteSet(ahead) /\ Cardinality(ahead) \in Nat
  BY <1>5, AheadIs
<1>8. Cardinality(ahead \cup {d}) = Cardinality(ahead) + 1
  BY <1>6, <1>7, FS_AddElement
<1>9. Cardinality(ahead \cup {d}) <= size
  <2>1. ahead \cup {d} \in SUBSET Found(ask)
    BY <1>6
  <2> QED BY <1>3, <2>1, FoundIs, FS_Subset
<1> QED BY <1>2, <1>4, <1>5, <1>7, <1>8, <1>9

LEMMA SameIsAhead ==
  ASSUME UNCHANGED <<docs, engine, ask, moved>>, NEW d
  PROVE  /\ Found(ask)' = Found(ask) /\ Ahead(d)' = Ahead(d)
         /\ Excused(d)' <=> Excused(d)
<1>1. Found(ask)' = Found(ask)
  BY DEF Found
<1>2. Ahead(d)' = Ahead(d)
  BY <1>1 DEF Ahead
<1> QED BY <1>1, <1>2 DEF Excused

\* The steps of the handler.
LEMMA AnswerKeepsAhead ==
  ASSUME Handling, Stored, InPages, Refuse \/ Count \/ Find \/ MemoryGet,
         NEW d \in start, d.n \in got \/ Excused(d) \/ StillAhead(d)
  PROVE  (d.n \in got \/ Excused(d) \/ StillAhead(d))'
<1>1. /\ ask' = ask /\ engine' = engine /\ skip' = skip /\ docs' = docs /\ moved' = moved
  BY AnswersAre
<1>2. /\ Found(ask)' = Found(ask) /\ Ahead(d)' = Ahead(d) /\ (Excused(d)' <=> Excused(d))
  BY <1>1, SameIsAhead
<1>3. CASE d.n \in got
  <2>1. got \subseteq got'
    BY AnswersAre DEF Answer, Paged
  <2> QED BY <1>3, <2>1
<1>4. CASE Excused(d)
  BY <1>2, <1>4
<1>5. CASE d.n \notin got /\ ~Excused(d)
  <2>1. d \in Found(ask) /\ (pc \in {"count", "find"} => Cardinality(Ahead(d)) >= skip)
    BY <1>5 DEF StillAhead
  <2>2. CASE \E status \in {403, 404, 500} : Answer(Refused(status))
    <3>1. pc' = "replied" /\ reply'.status # 200
      BY <2>2 DEF Answer, Refused
    <3> QED BY <1>2, <2>1, <3>1 DEF StillAhead
  <2>3. CASE pc = "count" /\ Counted(ask) = 0
    <3>1. Cardinality(Ahead(d)) < skip /\ Cardinality(Ahead(d)) >= skip
      BY <2>1, <2>3, NothingIsLeft
    <3>2. Cardinality(Ahead(d)) \in Nat /\ skip \in Nat
      BY AheadIs DEF Handling
    <3> QED BY <3>1, <3>2
  <2>4. CASE pc = "count" /\ pc' = "find"
    BY <1>1, <1>2, <2>1, <2>4 DEF StillAhead
  <2>5. CASE pc \in {"count", "find"} /\ \E n : Paged(n)
    <3>1. PICK n : Paged(n)
      BY <2>5
    <3>2. Cardinality(Ahead(d)) >= skip
      BY <2>1, <2>5
    <3>3. \/ d.n \in got'
          \/ /\ reply'.status = 200 /\ Len(reply'.body) = Limit(ask)
             /\ Cardinality(Ahead(d)) >= skip + Limit(ask)
      BY <1>5, <2>1, <2>5, <3>1, <3>2, PageBrings
    <3>4. pc' = "replied"
      BY <3>1 DEF Paged, Answer
    <3>5. ask.limit # <<>> /\ Limit(ask)' = Limit(ask)
      BY <1>1 DEF InPages, Limit, Single
    <3> QED BY <1>1, <1>2, <2>1, <3>3, <3>4, <3>5 DEF StillAhead, Full
  <2> QED BY <2>2, <2>3, <2>4, <2>5, AnswersAre
<1> QED BY <1>3, <1>4, <1>5

\* The writes of others.
LEMMA ChangeKeepsAhead ==
  ASSUME Handling, Stored, Stored', NEW d \in start, d.n \in got \/ Excused(d) \/ StillAhead(d),
         NEW old \in docs, NEW e, e.n = old.n, Change(old, e)
  PROVE  (d.n \in got \/ Excused(d) \/ StillAhead(d))'
<1>1. /\ UNCHANGED <<engine, ask, pc, skip, count, reply, start, got>>
      /\ docs' = (docs \ {old}) \cup {e} /\ pc # "replied"
  BY DEF Change, Writing
<1>2. moved' = moved \cup {old}
  BY DEF Change, Handling
<1>4. CASE d.n \in got
  BY <1>1, <1>4
<1>5. CASE Excused(d)
  <2>1. CASE \E x \in moved : x.n = d.n \/ Stamp(x) >= Stamp(d)
    BY <1>2, <2>1 DEF Excused
  <2>2. CASE \E x \in docs : x.n # d.n /\ x.f["ts"] = d.f["ts"]
    <3>1. PICK x \in docs : x.n # d.n /\ x.f["ts"] = d.f["ts"]
      BY <2>2
    <3>2. CASE x = old
      <4>1. Stamp(x) = Stamp(d) /\ Stamp(x) \in Int
        BY <3>1 DEF Stamp, Stored, Sound
      <4>2. Stamp(x) >= Stamp(d) /\ x \in moved'
        BY <1>2, <3>2, <4>1
      <4> QED BY <4>2 DEF Excused
    <3>3. CASE x # old
      <4>1. x \in docs'
        BY <1>1, <3>3
      <4> QED BY <3>1, <4>1 DEF Excused
    <3> QED BY <3>2, <3>3
  <2> QED BY <1>5, <2>1, <2>2 DEF Excused
<1>6. CASE StillAhead(d) /\ ~Excused(d)'
  <2>1. d \in Found(ask) /\ (pc \in {"count", "find"} => Cardinality(Ahead(d)) >= skip)
    BY <1>6 DEF StillAhead
  <2>2. d # old /\ ~(Stamp(old) >= Stamp(d))
    BY <1>2, <1>6 DEF Excused
  <2>3. \A x \in Found(ask) : x # old => x \in Found(ask)'
    BY <1>1 DEF Found
  <2>4. Stamp(old) \in Int /\ Stamp(d) \in Int
    BY <2>1, FoundIs DEF Stored, Sound
  <2>5. Ahead(d) \subseteq Ahead(d)'
    <3> SUFFICES ASSUME NEW x \in Ahead(d) PROVE x \in Ahead(d)'
      OBVIOUS
    <3>1. x \in Found(ask) /\ Stamp(x) > Stamp(d)
      BY DEF Ahead
    <3>2. x # old
      BY <2>2, <2>4, <3>1
    <3>3. x \in Found(ask)'
      BY <2>3, <3>1, <3>2
    <3> QED BY <3>1, <3>3 DEF Ahead, Stamp
  <2>6. Ahead(d)' \in SUBSET docs' /\ IsFiniteSet(docs')
    BY DEF Ahead, Found, Stored
  <2>7. PICK ahead, after : ahead = Ahead(d) /\ after = Ahead(d)'
    OBVIOUS
  <2>8. /\ Cardinality(ahead) \in Nat /\ Cardinality(after) \in Nat
        /\ Cardinality(ahead) <= Cardinality(after)
    <3>1. IsFiniteSet(after)
      BY <2>6, <2>7, FS_Subset
    <3>2. ahead \in SUBSET after
      BY <2>5, <2>7
    <3> QED BY <3>1, <3>2, FS_Subset, FS_CardinalityType
  <2>9. d \in Found(ask)'
    BY <2>1, <2>2, <2>3
  <2>10. pc \in {"count", "find"} => Cardinality(after) >= skip
    BY <2>1, <2>7, <2>8 DEF Handling
  <2> QED BY <1>1, <2>7, <2>9, <2>10 DEF StillAhead
<1> QED BY <1>4, <1>5, <1>6

LEMMA AheadStep == Handling /\ Stored /\ Stored' /\ AheadInv /\ [Next]_vars => AheadInv'
<1> SUFFICES ASSUME Handling, Stored, Stored', AheadInv, [Next]_vars, InPages'
             PROVE  \A d \in start' : (d.n \in got \/ Excused(d) \/ StillAhead(d))'
  BY DEF AheadInv
<1>1. ask' = ask /\ engine' = engine
  BY RepliesAre
<1>2. InPages
  BY <1>1 DEF InPages
<1>3. \A d \in start : d.n \in got \/ Excused(d) \/ StillAhead(d)
  BY <1>2 DEF AheadInv
<1>4. CASE Refuse \/ Count \/ Find \/ MemoryGet
  BY <1>2, <1>3, <1>4, AnswersAre, AnswerKeepsAhead
<1>5. CASE Parse
  <2>1. /\ start' = Found(ask) /\ Found(ask)' = Found(ask)
        /\ pc' = "count" /\ skip' = 0
    BY <1>2, <1>5 DEF Parse, Found, InPages
  <2>2. TAKE d \in start'
  <2>3. Ahead(d)' = Ahead(d)
    BY <1>1, <2>1 DEF Ahead
  <2>4. Cardinality(Ahead(d)) \in Nat
    BY AheadIs
  <2> QED BY <2>1, <2>3, <2>4 DEF StillAhead
<1>6. CASE NextPage
  <2>1. /\ UNCHANGED <<engine, docs, ask, start, got, moved>>
        /\ pc = "replied" /\ reply.status = 200 /\ pc' = "count" /\ skip' = skip + Limit(ask)
    BY <1>6 DEF NextPage, Full
  <2>2. TAKE d \in start'
  <2>3. /\ Found(ask)' = Found(ask) /\ Ahead(d)' = Ahead(d) /\ (Excused(d)' <=> Excused(d))
    BY <2>1, SameIsAhead
  <2>4. d.n \in got \/ Excused(d) \/ StillAhead(d)
    BY <1>3, <2>1
  <2>5. StillAhead(d) => StillAhead(d)'
    BY <2>1, <2>3 DEF StillAhead
  <2> QED BY <2>1, <2>3, <2>4, <2>5
<1>7. CASE UNCHANGED vars
  <2>1. UNCHANGED <<engine, docs, ask, start, got, moved, pc, skip, reply>>
    BY <1>7 DEF vars
  <2>2. TAKE d \in start'
  <2>3. /\ Found(ask)' = Found(ask) /\ Ahead(d)' = Ahead(d) /\ (Excused(d)' <=> Excused(d))
    BY <2>1, SameIsAhead
  <2>4. d.n \in got \/ Excused(d) \/ StillAhead(d)
    BY <1>3, <2>1
  <2>5. StillAhead(d) => StillAhead(d)'
    BY <2>1, <2>3 DEF StillAhead, Full, Limit, Single
  <2> QED BY <2>1, <2>3, <2>4, <2>5
<1>8. CASE Post
  <2>1. /\ UNCHANGED <<engine, ask, start, got, moved, pc, skip, reply>>
        /\ docs \subseteq docs' /\ pc # "replied"
    BY <1>8 DEF Post, Writing
  <2>2. TAKE d \in start'
  <2>3. d.n \in got \/ Excused(d) \/ StillAhead(d)
    BY <1>3, <2>1
  <2>4. Excused(d) => Excused(d)'
    BY <2>1 DEF Excused
  <2>5. Found(ask) \subseteq Found(ask)'
    BY <2>1 DEF Found
  <2>6. PICK ahead, after : ahead = Ahead(d) /\ after = Ahead(d)'
    OBVIOUS
  <2>7. ahead \in SUBSET after /\ after \in SUBSET docs' /\ IsFiniteSet(docs')
    <3>1. Ahead(d) \subseteq Ahead(d)'
      BY <2>5 DEF Ahead, Stamp
    <3>2. Ahead(d)' \subseteq docs' /\ IsFiniteSet(docs')
      BY DEF Ahead, Found, Stored
    <3> QED BY <2>6, <3>1, <3>2
  <2>8. /\ Cardinality(ahead) \in Nat /\ Cardinality(after) \in Nat
        /\ Cardinality(ahead) <= Cardinality(after)
    <3>1. IsFiniteSet(after)
      BY <2>7, FS_Subset
    <3> QED BY <2>7, <3>1, FS_Subset, FS_CardinalityType
  <2>9. StillAhead(d) => StillAhead(d)'
    <3> SUFFICES ASSUME StillAhead(d) PROVE StillAhead(d)'
      OBVIOUS
    <3>1. d \in Found(ask)' /\ (pc \in {"count", "find"} => Cardinality(ahead) >= skip)
      BY <2>5, <2>6 DEF StillAhead
    <3>2. pc \in {"count", "find"} => Cardinality(after) >= skip
      BY <2>8, <3>1 DEF Handling
    <3> QED BY <2>1, <2>6, <3>1, <3>2 DEF StillAhead
  <2> QED BY <2>1, <2>3, <2>4, <2>9
<1>9. CASE Put \/ Delete
  <2>0. PICK old \in docs : \E e : e.n = old.n /\ Sound(e) /\ Change(old, e)
    BY <1>9, ChangesAre
  <2>1. PICK e : e.n = old.n /\ Change(old, e)
    BY <2>0
  <2>2. start' = start
    BY <2>1 DEF Change
  <2> QED BY <1>3, <2>1, <2>2, ChangeKeepsAhead
<1> QED BY <1>4, <1>5, <1>6, <1>7, <1>8, <1>9 DEF Next

-----------------------------------------------------------------------------
(* The theorems *)

IInv == Handling /\ Stored /\ ManyAreBracketed /\ BodySatisfies /\ AheadInv

LEMMA Inductive == Spec => []IInv
<1>1. Init => IInv
  <2> SUFFICES ASSUME Init PROVE IInv
    OBVIOUS
  <2>1. reply.body = <<>> /\ start = {}
    BY DEF Init, NoReply
  <2>2. ManyAreBracketed /\ BodySatisfies /\ AheadInv
    BY <2>1 DEF ManyAreBracketed, BodySatisfies, AheadInv
  <2> QED BY <2>2, HandlingInit, StoredInit DEF IInv
<1>2. IInv /\ [Next]_vars => IInv'
  BY HandlingStep, StoredStep, BracketsStep, SatisfiesStep, AheadStep DEF IInv
<1> QED BY <1>1, <1>2, PTL DEF Spec

\* No document is found that MongoDB would not find if it took booleans for numbers
\* (Collection._filter, for what _parse_get_arguments can produce).
THEOREM NothingElseIsFound == Spec => []EngineFindsNoMore
<1>1. IInv => EngineFindsNoMore
  BY DEF IInv, BodySatisfies, Satisfies, EngineFindsNoMore
<1> QED BY <1>1, Inductive, PTL

\* A client who reads all pages, newest first, misses only what moved or what it cannot tell apart
\* (NetworkResourceHandler.get, skip and limit).
THEOREM NothingSlipsBy == Spec => []PagesMissNothing
<1>1. IInv => PagesMissNothing
  <2> SUFFICES ASSUME IInv, pc = "replied", reply.status = 200, ~Full, InPages, NEW d \in start
               PROVE  d.n \in got \/ Excused(d)
    BY DEF PagesMissNothing, InPages, Excused, Stamp
  <2> QED BY DEF IInv, AheadInv, StillAhead
<1> QED BY <1>1, Inductive, PTL

\* More than one document is never written without brackets (NetworkResourceHandler._write_get).
THEOREM ManyHaveBrackets == Spec => []ManyAreBracketed
<1>1. IInv => ManyAreBracketed
  BY DEF IInv
<1> QED BY <1>1, Inductive, PTL
=============================================================================
