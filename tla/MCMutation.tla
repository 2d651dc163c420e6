----------------------------- MODULE MCMutation -----------------------------
(***************************************************************************)
(* lint-mutation on files of one and two calls, with DDLs of up to three   *)
(* statements.  T has a key a, a column b with a default, a generated      *)
(* column g and a column c that may be null; U has two key columns.        *)
(***************************************************************************)
EXTENDS Mutation

MCIdents == {"T", "U", "s", "a", "b", "c", "g"}

Col(name, notNull, default) == [name |-> <<name>>, notNull |-> notNull, default |-> default, key |-> FALSE]
Tab(cols, key) == [cols |-> cols, key |-> {<<k>> : k \in key}]
Create(name, table) == [kind |-> "create", name |-> name, table |-> table]

T == Tab({Col("a", TRUE, "none"), Col("b", TRUE, "default"), Col("c", FALSE, "none"),
          Col("g", TRUE, "generated")}, {"a"})
U == Tab({Col("a", TRUE, "none"), Col("b", TRUE, "none")}, {"a", "b"})
Index == [kind |-> "other", name |-> <<"T">>, table |-> Tab({}, {})]
AddColumn(col) == [kind |-> "alter", name |-> <<"T">>, table |-> Tab({col}, {})]

\* The key at its column; a key with a generated column.
ColumnKey == Tab({[Col("a", TRUE, "none") EXCEPT !.key = TRUE], Col("c", FALSE, "none")}, {})
GeneratedKey == Tab({Col("a", TRUE, "none"), Col("g", TRUE, "generated")}, {"a", "g"})

MCDDLs ==
  {<<>>, <<Index>>, <<Create(<<"T">>, T)>>,
   <<Create(<<"T">>, T), Index, Create(<<"U">>, U)>>,
   <<Create(<<"s", "T">>, U), Create(<<"T">>, T)>>,
   <<Create(<<"T">>, T), AddColumn(Col("s", TRUE, "none"))>>,
   <<Create(<<"T">>, ColumnKey)>>, <<Create(<<"T">>, GeneratedKey)>>}

Raw(name) == [kind |-> "raw", value |-> name]
Other(name) == [kind |-> "expr", value |-> name]
Keys(names) == {Quoted(<<n>>) : n \in names}

InsertOf(table, keys) ==
  [pkg |-> "spanner", fn |-> "InsertMap", table |-> table, literal |-> TRUE, keys |-> keys]

\* One call: every kind of table, map and key.
Calls ==
  [pkg : {"spanner"}, fn : {"InsertMap", "UpdateMap", "InsertOrUpdateMap"},
   table : {Quoted(<<"T">>), Quoted(<<"U">>), Raw(<<"T">>), Other(<<"T">>), Other(<<"s">>)},
   literal : BOOLEAN,
   keys : {Keys({}), Keys({"a"}), Keys({"a", "b", "c"}), Keys({"b", "g"}), Keys({"U"}),
           {Raw(<<"a">>)}, {Other(<<"a">>), Quoted(<<"b">>)}, {Other(<<"U">>)}}]

\* Two calls, of this package or not.
Pairs ==
  {<<c, d>> : c, d \in
     {InsertOf(Quoted(<<"T">>), Keys({"a"})), InsertOf(Quoted(<<"T">>), Keys({"b", "g"})),
      InsertOf(Other(<<"s">>), {Other(<<"U">>)}),
      [InsertOf(Quoted(<<"T">>), Keys({})) EXCEPT !.fn = "UpdateMap"],
      [InsertOf(Quoted(<<"T">>), Keys({})) EXCEPT !.fn = "Delete"],
      [InsertOf(Quoted(<<"T">>), Keys({})) EXCEPT !.pkg = "other"]}}

MCFiles ==
  [spanner : {"spanner"}, calls : {<<>>} \cup {<<c>> : c \in Calls} \cup Pairs]
    \cup {[spanner |-> "", calls |-> <<InsertOf(Quoted(<<"T">>), Keys({}))>>]}

\* The DDL and the file of the finding.
KeyDDLs == {<<Create(<<"T">>, ColumnKey)>>}
KeyFiles ==
  {[spanner |-> "spanner", calls |-> <<[InsertOf(Quoted(<<"T">>), Keys({"c"})) EXCEPT !.fn = "UpdateMap"]>>]}
=============================================================================
