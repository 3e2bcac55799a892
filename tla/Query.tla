------------------------------- MODULE Query -------------------------------
(***************************************************************************)
(* GET of a collection or of an id: what handlers/networkresourcehandler.py*)
(* makes of the arguments, what the two engines find, and what the client  *)
(* who reads a collection page by page gets to see while others write.     *)
(*                                                                         *)
(* With MongoDB the count and the cursor are two awaits.  The coroutines   *)
(* of the in-memory engine (dblayers/none.py) never suspend: there, a GET  *)
(* is one step.                                                            *)
(***************************************************************************)
EXTENDS Integers, Sequences, FiniteSets, SequencesExt

CONSTANTS Asks,       \* the GETs: arguments, limit, skip, sort, id, fields, unique, accept
          Shapes,     \* the fields of new documents, ts excepted
          Number,     \* the texts that are numbers, and which
          Place,      \* the texts that a sort may compare, and their places in its order
          MaxDocs,    \* bound: documents ever created
          MaxWrites   \* bound: writes by others

Text == Seq(STRING)
Operators == {"", "lt", "lte", "gt", "gte", "not", "eq", "null", "reg", "exists"}
\* An operator, a type, and the text the parser leaves (str.lstrip may take more than "not=").
Member == [op : Operators, type : STRING, text : Text]
Members == Seq(Member) \ {<<>>}
Raws == Seq(Seq(Members) \ {<<>>}) \ {<<>>}

\* What a client can send, split at the bars and commas, and what a document is made of.
ASSUME ConstantsAssumption ==
  /\ MaxDocs \in Nat /\ MaxWrites \in Nat
  /\ Number \in [DOMAIN Number -> Int] /\ Place \in [DOMAIN Place -> Int]
  /\ "DELETED" \in STRING  \* which the provers do not know
  /\ \A a \in Asks : /\ \A key \in DOMAIN a.args : a.args[key] \in Raws
                     /\ a.unique \in BOOLEAN
  /\ \A shape \in Shapes : /\ "id" \in DOMAIN shape
                           /\ \A key \in DOMAIN shape :
                                shape[key][1] = "str" => /\ shape[key][2] \in Text
                                                         /\ shape[key][2] \in DOMAIN Place

VARIABLES engine,  \* "mongo" or "memory"
          docs,    \* the collection
          writes,  \* writes so far; the next one has this for its clock
          ask,     \* the GET under way
          pc,      \* where its handler stands
          skip,    \* documents to skip, which the client raises from page to page
          count,   \* what the handler counted
          reply,   \* status, body and whether the body has brackets
          start,   \* history: the documents that matched when the client began
          got,     \* history: the documents on all pages so far
          moved    \* history: documents changed or removed since, as they were

vars == <<engine, docs, writes, ask, pc, skip, count, reply, start, got, moved>>

Bad == <<"bad">>
NoClause == {}  \* of an argument that cannot be parsed
Null == <<"null">>
Num(n) == <<"num", n>>
Str(s) == <<"str", s>>
NoReply == [status |-> 0, body |-> <<>>, brackets |-> FALSE]

-----------------------------------------------------------------------------
(* _parse_get_arguments.  An argument is a sequence of raw values, a raw   *)
(* value a sequence of alternatives (split at '|') of members (split at    *)
(* ','), a member an operator, a type and a text.                          *)

Convert(type, text) ==
  CASE type \in {"integer", "number"} -> IF text \in DOMAIN Number THEN Num(Number[text]) ELSE Bad
    [] type = "boolean" -> IF text \in {<<"true">>, <<"1">>} THEN <<"bool", TRUE>>
                           ELSE IF text \in {<<"false">>, <<"0">>} THEN <<"bool", FALSE>> ELSE Bad
    [] type = "string" -> Str(text)
    [] OTHER -> Bad

\* A value without an operator.
Plain(key, type, text) ==
  IF type # "" THEN Convert(type, text)
  ELSE IF key \in {"ts", "ttl"} THEN Convert("number", text)
  ELSE Str(text)

AsNumber(value) == IF value[1] = "str" THEN Convert("number", value[2]) ELSE value

\* not= and reg= need a text, the comparisons and eq= a number; exists= is no operator here.
ProcessValue(key, member) ==
  LET value == Plain(key, member.type, member.text)
      number == IF value = Bad THEN Bad ELSE AsNumber(value)
  IN CASE member.op = "" -> IF value = Bad THEN Bad ELSE <<"eq", value>>
       [] member.op = "null" -> <<"eq", Null>>
       [] member.op = "exists" -> IF key \in {"ts", "ttl"} THEN Bad
                                  ELSE <<"eq", Str(<<"exists=">> \o member.text)>>
       [] member.op \in {"not", "reg"} -> IF value[1] = "str" THEN <<member.op, value[2]>> ELSE Bad
       [] OTHER -> IF number[1] = "num" THEN <<member.op, number>> ELSE Bad

\* The atoms of a clause are alternatives; `|' always raises, its dictionary and its list do not add.
InClause(key, members) ==
  LET conds == {ProcessValue(key, members[i]) : i \in DOMAIN members}
  IN IF Bad \in conds THEN NoClause ELSE {<<key, <<"in", conds>>>>}

ValueClause(key, raw) ==
  IF Len(raw) > 1 THEN NoClause
  ELSE IF Len(raw[1]) > 1 THEN InClause(key, raw[1])
  ELSE IF ProcessValue(key, raw[1][1]) = Bad THEN NoClause
  ELSE {<<key, ProcessValue(key, raw[1][1])>>}

\* exists=false, spelled like that, also accepts null.
ExistsClause(key, text) ==
  LET wanted == Convert("boolean", text)
  IN IF wanted = Bad THEN NoClause
     ELSE {<<key, <<"exists", wanted[2]>>>>}
          \cup (IF text = <<"false">> THEN {<<key, <<"eq", Null>>>>} ELSE {})

\* reg= and exists= are recognized at the front of an argument that occurs once, and fail on
\* a list.
ArgumentClauses(key, raws) ==
  LET first == raws[1][1][1]
      special == Len(raws) = 1 /\ first.op \in {"reg", "exists"}
      alone == raws[1] = << <<first>> >>
  IN CASE ~special -> {ValueClause(key, raws[i]) : i \in DOMAIN raws}
       [] special /\ ~alone -> {NoClause}
       [] special /\ alone /\ first.op = "reg" ->
            {LET value == Plain(key, first.type, first.text)
             IN IF value[1] = "str" THEN {<<key, <<"reg", value[2]>>>>} ELSE NoClause}
       [] special /\ alone /\ first.op = "exists" -> {ExistsClause(key, first.text)}

Clauses(a) == UNION {ArgumentClauses(key, a.args[key]) : key \in DOMAIN a.args}

IntOption(text) == IF text = <<>> THEN 0 ELSE IF text \in DOMAIN Number THEN Number[text] ELSE -1

Malformed(a) == \/ NoClause \in Clauses(a)
                \/ IntOption(a.limit) < 0
                \/ IntOption(a.skip) < 0
                \/ \E i \in DOMAIN a.sort : a.sort[i][2] = 0

\* Mutant: oldest first.
OldestFirst(a) ==
  LET own == SelectSeq(a.sort, LAMBDA p : p[1] = "ts")
  IN Cons(IF own = <<>> THEN <<"ts", 1>> ELSE own[1], SelectSeq(a.sort, LAMBDA p : p[1] # "ts"))

\* ts comes first, newest first unless the client says otherwise.
SortOrder(a) ==
  IF a.sort = <<>> THEN << <<"ts", -1>> >>
  ELSE LET own == SelectSeq(a.sort, LAMBDA p : p[1] = "ts")
       IN Cons(IF own = <<>> THEN <<"ts", -1>> ELSE own[Len(own)],
               SelectSeq(a.sort, LAMBDA p : p[1] # "ts"))

\* A GET of an id is limited to one document unless it has options of its own.
Single(a) == a.id # <<>> /\ IntOption(a.limit) = 0 /\ ~a.fields /\ IntOption(a.skip) = 0
Limit(a) == IF Single(a) THEN 1 ELSE IntOption(a.limit)

\* What the client asks for, and what the handler adds: no document that is marked as deleted.
Asked(a) == Clauses(a) \cup (IF a.id = <<>> THEN {} ELSE {{<<"id", <<"eq", Str(a.id)>>>>}})
Deleted == <<"DELETED">>
Undeleted == {<<"$status", <<"not", Deleted>>>>}
Filter(a) == Asked(a) \cup {Undeleted}

-----------------------------------------------------------------------------
(* What a condition accepts: MongoDB, and dblayers/none.py                 *)

Compares(op, x, y) == CASE op = "lt" -> x < y [] op = "lte" -> x <= y
                        [] op = "gt" -> x > y [] op = "gte" -> x >= y

HasInside(text, part) ==
  \E i \in 0..(Len(text) - Len(part)) : SubSeq(text, i + 1, i + Len(part)) = part

\* A missing field is null, and comparisons keep to their type.
MongoAccepts(d, key, cond) ==
  LET value == IF key \in DOMAIN d.f THEN d.f[key] ELSE Null
  IN CASE cond[1] = "eq" -> value = cond[2]
       [] cond[1] = "not" -> value # Str(cond[2])
       [] cond[1] = "reg" -> value[1] = "str" /\ HasInside(value[2], cond[2])
       [] cond[1] = "in" -> \/ <<"eq", value>> \in cond[2]
                            \/ \E c \in cond[2] : /\ c[1] = "reg" /\ value[1] = "str"
                                                   /\ HasInside(value[2], c[2])
       [] cond[1] = "exists" -> (key \in DOMAIN d.f) = cond[2]
       [] OTHER -> value[1] = "num" /\ Compares(cond[1], value[2], cond[2][2])

\* An operator cannot stand in a list of values.
MongoRefuses(a) == \E clause \in Clauses(a) : \E atom \in clause :
  atom[2][1] = "in" /\ \E c \in atom[2][2] : c[1] \notin {"eq", "reg"}

MongoMatches(d, filter) == \A clause \in filter : \E atom \in clause : MongoAccepts(d, atom[1], atom[2])

\* To Python a boolean is the number 1 or 0.
Loosely(value) == IF value[1] = "bool" THEN Num(IF value[2] THEN 1 ELSE 0) ELSE value

\* Regular expressions need a string and comparisons a number, else Python raises.
EngineRaises(d, key, cond) ==
  /\ key \in DOMAIN d.f
  /\ \/ cond[1] \in {"not", "reg"} /\ d.f[key][1] # "str"
     \/ cond[1] \in {"lt", "lte", "gt", "gte"} /\ d.f[key][1] \notin {"num", "bool"}

\* Mutant: the operands of the comparisons are swapped.
SwappedAccepts(d, key, cond) ==
  /\ key \in DOMAIN d.f /\ ~EngineRaises(d, key, cond)
  /\ LET value == Loosely(d.f[key])
     IN CASE cond[1] = "eq" -> value = Loosely(cond[2])
          [] cond[1] = "not" -> value # Str(cond[2])
          [] cond[1] = "reg" -> IsPrefix(cond[2], value[2])
          [] cond[1] = "in" -> \E c \in cond[2] : c[1] = "eq" /\ value = Loosely(c[2])
          [] cond[1] = "exists" -> FALSE
          [] OTHER -> Compares(cond[1], cond[2][2], value[2])

\* A missing field accepts nothing, $exists is unknown, re.match looks at the front only.
EngineAccepts(d, key, cond) ==
  /\ key \in DOMAIN d.f /\ ~EngineRaises(d, key, cond)
  /\ LET value == Loosely(d.f[key])
     IN CASE cond[1] = "eq" -> value = Loosely(cond[2])
          [] cond[1] = "not" -> value # Str(cond[2])
          [] cond[1] = "reg" -> IsPrefix(cond[2], value[2])
          [] cond[1] = "in" -> \E c \in cond[2] : c[1] = "eq" /\ value = Loosely(c[2])
          [] cond[1] = "exists" -> FALSE
          [] OTHER -> Compares(cond[1], value[2], cond[2][2])

EngineMatches(d, filter) == \A clause \in filter : \E atom \in clause : EngineAccepts(d, atom[1], atom[2])

-----------------------------------------------------------------------------
(* Sorting and paging                                                      *)

\* Types come one after the other in MongoDB; Python has no order between two types.
SortKey(d, key) ==
  LET value == IF key \notin DOMAIN d.f THEN Null
               ELSE IF engine = "memory" THEN Loosely(d.f[key]) ELSE d.f[key]
  IN CASE value[1] = "num" -> <<1, value[2]>>
       [] value[1] = "str" -> <<2, Place[value[2]]>>
       [] value[1] = "bool" -> <<3, IF value[2] THEN 1 ELSE 0>>
       [] OTHER -> <<0, 0>>

Sortable(key) == \E type \in {1, 2} : \A d \in docs : SortKey(d, key)[1] = type

Differs(d, e, p) == SortKey(d, p[1]) # SortKey(e, p[1])
Less(d, e, p) ==
  LET x == SortKey(d, p[1])
      y == SortKey(e, p[1])
  IN IF x[1] = y[1] THEN (x[2] - y[2]) * p[2] < 0 ELSE (x[1] - y[1]) * p[2] < 0

\* The first pair that tells the two apart decides.
Before(d, e, order) == \E i \in DOMAIN order :
  Less(d, e, order[i]) /\ \A j \in 1..(i - 1) : ~Differs(d, e, order[j])

\* MongoDB: by the first key; equal documents come in any order.
\* In memory: one stable sort after the other, so that the last key decides.
Arrangements(S, order) ==
  {s \in SetToSeqs(S) : \A i, j \in DOMAIN s : i < j =>
     IF engine = "mongo" THEN ~Before(s[j], s[i], order)
     ELSE \/ Before(s[i], s[j], Reverse(order))
          \/ ~Before(s[j], s[i], Reverse(order)) /\ s[i].n < s[j].n}

\* unique keeps the first document of each id: the k-th that is not seen before is the k-th written.
Firsts(s) == {i \in DOMAIN s : \A j \in 1..(i - 1) : s[j].f["id"] # s[i].f["id"]}
Nth(K, k) == CHOOSE i \in K : Cardinality({j \in K : j < i}) = k - 1
Distinct(s) == [k \in 1..Cardinality(Firsts(s)) |-> s[Nth(Firsts(s), k)]]

Page(s, limit) == SubSeq(s, skip + 1, IF limit = 0 \/ skip + limit > Len(s) THEN Len(s) ELSE skip + limit)

\* Collection._filter takes the clause of the status out of the query.
Found(a) == {d \in docs : IF engine = "mongo" THEN MongoMatches(d, Filter(a))
                          ELSE EngineMatches(d, Asked(a))}

Counted(a) ==
  LET all == Cardinality(Found(a)) - skip
      some == IF Limit(a) > 0 /\ Limit(a) < all THEN Limit(a) ELSE all
  IN IF some < 0 THEN 0 ELSE some

\* Mutant: the brackets go by the number of documents alone.
BracketsByCount(a, n) == n > 1

\* is_list is the query dictionary itself for a collection: with MongoDB it holds $status, in
\* memory the count has taken that out again.
Brackets(a, n) == \/ n > 1
                  \/ a.id # <<>> /\ ~Single(a)
                  \/ a.id = <<>> /\ (engine = "mongo" \/ Clauses(a) # {})

\* What _write_get makes of the page: BSON numbers the documents, JSON lists them.
Written(a, page, n) == [status |-> 200, body |-> IF a.unique THEN Distinct(page) ELSE page,
                        brackets |-> a.accept = "bson" \/ Brackets(a, n)]

\* The Accept header is looked at when the body is written; what is not supported ends as 500.
Refused(status) == [status |-> status, body |-> <<>>, brackets |-> FALSE]
Empty == [status |-> 200, body |-> <<>>, brackets |-> TRUE]

-----------------------------------------------------------------------------

Init == /\ engine \in {"mongo", "memory"}
        /\ docs = {} /\ writes = 0
        /\ ask \in Asks /\ pc = "idle"
        /\ skip = 0 /\ count = 0 /\ reply = NoReply
        /\ start = {} /\ got = {} /\ moved = {}

Answer(r) ==
  /\ reply' = r
  /\ got' = got \cup {r.body[i].n : i \in DOMAIN r.body}
  /\ pc' = "replied"
  /\ UNCHANGED <<engine, docs, writes, ask, skip, start, moved>>

\* The GET arrives; parsing errors are answered 403.
Refuse ==
  /\ pc = "idle" /\ Malformed(ask)
  /\ Answer(Refused(403)) /\ UNCHANGED count

Parse ==
  /\ pc = "idle" /\ ~Malformed(ask)
  /\ pc' = "count" /\ skip' = IntOption(ask.skip) /\ start' = Found(ask)
  /\ UNCHANGED <<engine, docs, writes, ask, count, reply, got, moved>>

Count ==
  /\ pc = "count" /\ engine = "mongo"
  /\ count' = Counted(ask)
  /\ IF MongoRefuses(ask) THEN Answer(Refused(404))
     ELSE IF ask.accept = "unsupported" THEN Answer(Refused(500))
     ELSE IF count' = 0 /\ ask.accept = "json" THEN Answer(Empty)
     ELSE /\ pc' = "find"
          /\ UNCHANGED <<engine, docs, writes, ask, skip, reply, start, got, moved>>

Find ==
  /\ pc = "find"
  /\ \E s \in Arrangements(Found(ask), SortOrder(ask)) :
       Answer(Written(ask, Page(s, Limit(ask)), count))
  /\ UNCHANGED count

\* TypeErrors of the filter, and of sorting documents by a key that has not one type in all of
\* them, reach the handler.
MemoryRaises(a) ==
  \/ \E d \in docs, clause \in Asked(a) : \E atom \in clause : EngineRaises(d, atom[1], atom[2])
  \/ Cardinality(docs) > 1 /\ \E i \in DOMAIN a.sort : ~Sortable(a.sort[i][1])

\* The cursor believes in skip + limit, and indexes past the end of what it has.
MemoryOverruns(a) == Limit(a) > 0 /\ skip + Limit(a) > Cardinality(Found(a))

MemoryGet ==
  /\ pc = "count" /\ engine = "memory"
  /\ count' = IF MemoryRaises(ask) THEN 0 ELSE Counted(ask)
  /\ IF MemoryRaises(ask) THEN Answer(Refused(404))
     ELSE IF ask.accept = "unsupported" THEN Answer(Refused(500))
     ELSE IF count' = 0 /\ ask.accept = "json" THEN Answer(Empty)
     ELSE IF MemoryOverruns(ask) THEN Answer(Refused(500))
     ELSE \E s \in Arrangements(Found(ask), SortOrder(ask)) :
            Answer(Written(ask, Page(s, Limit(ask)), count'))

\* A client that reads in pages goes on until a page is not full.
Full == reply.status = 200 /\ ask.limit # <<>> /\ Len(reply.body) = Limit(ask)

NextPage ==
  /\ pc = "replied" /\ Full
  /\ skip' = skip + Limit(ask) /\ pc' = "count" /\ reply' = NoReply
  /\ UNCHANGED <<engine, docs, writes, ask, count, start, got, moved>>

-----------------------------------------------------------------------------
(* Other clients write: see NetworkResource                                *)

\* What happens while the client looks at a page happens before its next request.
Writing == writes < MaxWrites /\ writes' = writes + 1 /\ pc # "replied"

Over(f, g) == [key \in DOMAIN f \cup DOMAIN g |-> IF key \in DOMAIN f THEN f[key] ELSE g[key]]
Stamped(shape, ts) == Over([ts |-> Num(ts)], shape)

\* A new version; a client may send an old stamp, which puts it among the others.
Post == \E shape \in Shapes, ts \in {0, writes} :
  /\ Writing /\ Cardinality(docs) < MaxDocs
  /\ \A d \in docs : d.f["id"] = shape["id"] => d.f["ts"] # Num(ts)
  /\ docs' = docs \cup {[n |-> Cardinality(docs) + 1, f |-> Stamped(shape, ts)]}
  /\ UNCHANGED <<engine, ask, pc, skip, count, reply, start, got, moved>>

Change(d, e) ==
  /\ Writing
  /\ docs' = (docs \ {d}) \cup {e}
  /\ moved' = moved \cup (IF pc = "idle" THEN {} ELSE {d})
  /\ UNCHANGED <<engine, ask, pc, skip, count, reply, start, got>>

Put == \E d \in docs, shape \in Shapes :
  /\ shape["id"] = d.f["id"]
  /\ Change(d, [n |-> d.n, f |-> Over(Stamped(shape, writes), d.f)])

\* DELETE writes a field.
Delete == \E d \in docs : /\ "$status" \notin DOMAIN d.f
                         /\ Change(d, [n |-> d.n, f |-> Over([x \in {"$status"} |-> Str(Deleted)], d.f)])

Next == Refuse \/ Parse \/ Count \/ Find \/ MemoryGet \/ NextPage \/ Post \/ Put \/ Delete

Spec == Init /\ [][Next]_vars

-----------------------------------------------------------------------------
(* Properties                                                              *)

\* A document and a query with numbers for booleans.
Loosened(d) == [n |-> d.n, f |-> [key \in DOMAIN d.f |-> Loosely(d.f[key])]]
LooseCondition(cond) == CASE cond[1] = "eq" -> <<"eq", Loosely(cond[2])>>
                          [] cond[1] = "in" -> <<"in", {IF c[1] = "eq" THEN <<"eq", Loosely(c[2])>>
                                                        ELSE c : c \in cond[2]}>>
                          [] OTHER -> cond
LooseFilter(filter) == {{<<atom[1], LooseCondition(atom[2])>> : atom \in clause} : clause \in filter}

\* Whatever the parser can produce, MongoDB's answers hold no deleted document and none that
\* fails the query, and the in-memory engine finds no document that MongoDB would not, but for
\* two differences: it takes numbers for booleans as Python does, and it takes the handler's
\* clause of the status out of the query, so that deleted documents are found like the others.
\* Its operators may miss documents, but they never accept one that fails what the client asked.
EngineFindsNoMore == \A i \in DOMAIN reply.body :
  \/ MongoMatches(reply.body[i], Filter(ask))
  \/ engine = "memory" /\ MongoMatches(Loosened(reply.body[i]), LooseFilter(Asked(ask)))

\* Who reads a collection to its last page, newest first, has seen every document that was
\* there at the beginning, except those that were changed or removed meanwhile, those behind a
\* document that left (the rest moves one place to the front), and those that share their stamp
\* with another, whose order the database may change from page to page.  With unique it is not
\* so: the page that loses a document is not full, and the client takes it for the last.
PagesMissNothing ==
  pc = "replied" /\ reply.status = 200 /\ ~Full
    /\ ask.limit # <<>> /\ ask.sort = <<>> /\ IntOption(ask.skip) = 0 /\ ~ask.unique
  => \A d \in start :
       \/ d.n \in got
       \/ \E e \in moved : e.n = d.n \/ e.f["ts"][2] >= d.f["ts"][2]
       \/ \E e \in docs : e.n # d.n /\ e.f["ts"] = d.f["ts"]

\* More than one document is never written without brackets: the decision is made from the query
\* and the count, the documents are read after another await.
ManyAreBracketed == Len(reply.body) > 1 => reply.brackets
=============================================================================
