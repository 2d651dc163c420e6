------------------------------- MODULE MCScan -------------------------------
(***************************************************************************)
(* lint-scan on a file with one statement in main, or in a method, and up  *)
(* to four functions that can be given its row.                            *)
(***************************************************************************)
EXTENDS Scan

MCNames == {"a", "A", "b", "p", "q", "row", "r", "v", "T", "main", "other", "spanner", "scan1", "scan2", "scan3", "scan4", "_"}
MCLower == [n \in MCNames |-> IF n = "A" THEN "a" ELSE n]

Named(name) == [kind |-> "named", name |-> name, fields |-> {}]
Structure(fields) == [kind |-> "struct", name |-> "", fields |-> fields]
Unknown == [kind |-> "other", name |-> "", fields |-> {}]

Tagged(tag) == [tag |-> tag, names |-> {"q"}]
Untagged(name) == [tag |-> "", names |-> {name}]
AB == Structure({Tagged("a"), Untagged("b")})
JustA == Structure({Tagged("A")})

Declare(kind, block, name, type) == [k |-> kind, block |-> block, name |-> name, type |-> type]
Row(on, args) == [k |-> "Columns", block |-> 0, on |-> on, args |-> args, line |-> 3]
Into(on, var) == [k |-> "ToStruct", block |-> 0, on |-> on, args |-> 1, var |-> var, line |-> 3]
Give(function, args) ==
  [k |-> "call", block |-> 0, fn |-> function, args |-> args, stmt |-> NoStmt, callback |-> NoCallback]

Select(names) ==
  [parses |-> TRUE, select |-> [i \in DOMAIN names |-> [star |-> FALSE, name |-> names[i]]], params |-> {}]
Star == [Select(<<"a">>) EXCEPT !.select = <<[star |-> TRUE, name |-> ""]>>]
Delete == [Select(<<>>) EXCEPT !.select = NoSelect]
Broken == [Select(<<>>) EXCEPT !.parses = FALSE]

Plainly(query) == [query |-> query, has |-> "none", keys |-> {}, line |-> 1, paramsLine |-> 1]
RowOf(name) == [row |-> TRUE, names |-> <<name>>]
NotRow == [row |-> FALSE, names |-> <<"q">>]
Closure(params, size) == [params |-> params, error |-> TRUE, size |-> size, line |-> 2]

Scanner(name, body) == [name |-> name, method |-> FALSE, params |-> <<NotRow, RowOf("r")>>, body |-> body]

\* main: what it declares, then the call with its callback.
Main(before, stmt, callback, items) ==
  LET site == Len(before) + 1
      call == [Give("", {}) EXCEPT !.stmt = stmt,
                 !.callback = IF callback = NoCallback THEN NoCallback ELSE [callback EXCEPT !.size = Len(items)]]
  IN  [name |-> "main", method |-> FALSE, params |-> <<>>,
       body |-> before \o <<call>> \o [i \in DOMAIN items |-> [items[i] EXCEPT !.block = site]]]

Source(top, funcs, nolint) == [spanner |-> "spanner", top |-> top, funcs |-> funcs, nolint |-> nolint]
RowCallback == Closure(<<RowOf("row")>>, 0)
AandB == Plainly(Select(<<"a", "b">>))

\* Rows that are given away, in circles too, to functions with and without a
\* body and at most four calls deep.
Bodies1 == {<<>>, <<Row("r", 2)>>, <<Row("r", 1)>>, <<Give("scan1", {"r"})>>, <<Give("scan2", {"r", "q"})>>,
            <<Give("scan2", {"q"}), Give("scan2", {"r"}), Row("r", 2)>>}
Bodies2 == {<<>>, <<Row("row", 1), Row("r", 2)>>, <<Give("scan1", {"r"}), Row("r", 1)>>, <<Give("scan3", {"r"})>>}
Callbacks == {<<>>, <<Row("row", 2)>>, <<Give("scan1", {"row"})>>, <<Give("scan1", {"row"}), Row("row", 1)>>,
              <<Give("other", {"row"}), Give("scan2", {"row"})>>}

Walks ==
  {Source(<<>>, <<Main(<<>>, AandB, RowCallback, c), Scanner("scan1", one), Scanner("scan2", two),
                  Scanner("scan3", <<Give("scan4", {"r"})>>), Scanner("scan4", <<Row("r", 2)>>)>>, {}) :
     c \in Callbacks, one \in Bodies1, two \in Bodies2 \cup {NoBody}}

\* Variables and types, in all the places where they can be declared.
Variables == {<<Declare("var", 0, "v", Named("T"))>>, <<Declare("define", 0, "v", Named("T"))>>,
              <<Declare("var", 0, "v", JustA)>>, <<Declare("define", 0, "v", JustA)>>,
              <<Declare("var", 0, "v", Unknown)>>}
TypeT(struct) == <<Declare("type", 0, "T", struct)>>

Structs ==
  {Source(top, <<Main(before, Plainly(Select(cols)), RowCallback, c)>>, nolint) :
     top \in {<<>>, TypeT(JustA), TypeT(AB)},
     before \in {<<>>, TypeT(JustA)} \cup Variables,
     c \in {d \o <<Into("row", "v")>> : d \in {<<>>, TypeT(AB) \o <<Declare("var", 0, "v", Named("T"))>>} \cup Variables}
             \cup {<<Into("row", "")>>},
     cols \in {<<"a", "b">>, <<"A">>, <<"", "b", "A">>}, nolint \in {{}, {3}}}

Helped ==
  {Source(TypeT(AB), <<Main(before, AandB, RowCallback, <<Give("scan1", {"row"})>>),
                       Scanner("scan1", d \o <<Into("r", "v")>>)>>, {}) :
     before \in {<<>>, TypeT(JustA)}, d \in Variables}

\* A query in the callback of another one, with a row of the same name or not.
SecondQuery(name, args) ==
  <<[Give("", {}) EXCEPT !.stmt = Plainly(Select(<<"a">>)), !.callback = Closure(<<RowOf(name)>>, 1)], Row(name, args)>>

Nested(names) ==
  {Source(<<>>, <<Main(<<>>, AandB, RowCallback, SecondQuery(name, inner) \o <<Row("row", outer)>>)>>, {}) :
     name \in names, inner \in {1, 2}, outer \in {1, 2}}

\* Statements and signatures of callbacks.
Statements ==
  {[query |-> [query EXCEPT !.params = params], has |-> has, keys |-> keys, line |-> 1, paramsLine |-> 4] :
     query \in {Select(<<"a">>), Star, Delete, Broken}, params \in {{}, {"p"}},
     has \in {"none", "literal", "other"}, keys \in {{}, {"p"}, {"q"}}}

Signatures == {NoCallback, RowCallback, Closure(<<RowOf("_")>>, 0), Closure(<<NotRow>>, 0),
               Closure(<<RowOf("row"), NotRow>>, 0)}

Queries ==
  {Source(<<>>, <<Scanner("scan1", NoBody), [Main(<<>>, s, c, <<Row("row", 1)>>) EXCEPT !.method = TRUE]>>, nolint) :
     s \in Statements, c \in Signatures, nolint \in {{}, {2, 4}}}

MCFiles == Walks \cup Structs \cup Helped \cup Queries \cup Nested({"row", "r"})
  \cup {[spanner |-> "", top |-> <<>>, funcs |-> <<>>, nolint |-> {}]}

\* The files of the findings.
NilFiles == {Source(<<>>, <<Main(<<>>, AandB, RowCallback, <<Give("scan1", {"row"})>>), Scanner("scan1", NoBody)>>, {})}
NestedFiles == Nested({"row"})
=============================================================================
