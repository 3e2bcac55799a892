------------------------------ MODULE QueryMC -------------------------------
(* Instances of Query for TLC. *)
EXTENDS Query, TLC

MCNumber == (<<"1">> :> 1) @@ (<<"2">> :> 2)
MCPlace == (<<"a">> :> 1) @@ (<<"b">> :> 2) @@ (<<"o", "n">> :> 3) @@ (<<"x", "o">> :> 4)

Plainly(text) == [op |-> "", type |-> "", text |-> text]
Op(op, text) == [op |-> op, type |-> "", text |-> text]
Typed(type, text) == [op |-> "", type |-> type, text |-> text]
One(member) == << <<<<member>>>> >>

MCShapes ==
  { ("id" :> Str(<<"a">>)) @@ ("name" :> Str(<<"o", "n">>)) @@ ("size" :> Num(2)) @@ ("up" :> <<"bool", TRUE>>),
    ("id" :> Str(<<"a">>)) @@ ("name" :> Str(<<"x", "o">>)) @@ ("size" :> Null),
    ("id" :> Str(<<"b">>)) @@ ("name" :> Num(2)) @@ ("up" :> Num(1)) }

Everything == [args |-> <<>>, limit |-> <<>>, skip |-> <<>>, sort |-> <<>>, id |-> <<>>,
               fields |-> FALSE, unique |-> FALSE, accept |-> "json"]
With(key, raws) == [Everything EXCEPT !.args = key :> raws]

Alternatives == With("name", << << <<Plainly(<<"o">>)>>, <<Plainly(<<"x", "o">>)>> >> >>)

\* Every operator, type and option once, and the combinations that behave differently.
MCAsks ==
  {With("size", One(Op(op, <<"1">>))) : op \in {"lt", "lte", "gt", "gte", "null"}} \cup
  {With("size", One(Op("eq", <<"2">>)))} \cup
  {With("name", One(Op(op, <<"o">>))) : op \in {"reg", "not", "lt"}} \cup
  {With("name", One(Op("not", <<"x", "o">>))), With("name", One(Plainly(<<"o">>)))} \cup
  {With("size", One(Op("exists", <<b>>))) : b \in {"true", "false", "o"}} \cup
  {With("up", One(Typed(type, <<"1">>))) : type \in {"integer", "string", "boolean", "float"}} \cup
  {With("ts", One(Plainly(<<"1">>))), With("ts", One(Op("not", <<"1">>))), Alternatives,
   With("name", << << <<Plainly(<<"o">>), Plainly(<<"x", "o">>)>> >> >>),
   With("name", << << <<Plainly(<<"o">>), Op("reg", <<"o">>)>> >> >>),
   With("name", << << <<Plainly(<<"o">>), Op("lt", <<"1">>)>> >> >>),
   With("up", One(Op("gte", <<"1">>))), With("up", << << <<Typed("integer", <<"1">>), Plainly(<<"o">>)>> >> >>),
   With("name", << << <<Op("reg", <<"o">>)>> >>, << <<Op("not", <<"o">>)>> >> >>),
   With("size", << << <<Op("gt", <<"1">>)>> >>, << <<Op("lte", <<"2">>)>> >> >>)} \cup
  {[Everything EXCEPT !.limit = limit, !.skip = s] : limit \in {<<"1">>, <<"2">>, <<"o">>}, s \in {<<>>, <<"1">>}} \cup
  {[Everything EXCEPT !.sort = sort] : sort \in {<<<<"size", 1>>>>, <<<<"id", 1>>>>, <<<<"size", -1>>, <<"ts", 1>>>>, <<<<"size", 0>>>>}} \cup
  {[Everything EXCEPT !.id = <<"a">>, !.fields = b] : b \in BOOLEAN} \cup
  {[Everything EXCEPT !.unique = TRUE, !.limit = limit] : limit \in {<<>>, <<"2">>}} \cup
  {[Everything EXCEPT !.accept = accept, !.limit = limit] : accept \in {"json", "bson", "unsupported"}, limit \in {<<>>, <<"1">>}}

\* Two values for one name, with a bar between them.
MCAlternatives == {Alternatives}
=============================================================================
