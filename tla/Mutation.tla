------------------------------ MODULE Mutation ------------------------------
(***************************************************************************)
(* lint-mutation on one file: ddlparser.go, ParseDDL, and lint.go,         *)
(* AnalyzeFile, followed by what the README has in mind: somebody repairs  *)
(* what was reported and runs it again.                                    *)
(*                                                                         *)
(* A name is a sequence of identifiers, as in a DDL.  A Go expression for  *)
(* a name has a kind: "quoted" and "raw" string literals, or "expr", and a *)
(* value, which of an "expr" only Go knows.  A map has distinct keys, as   *)
(* the compiler demands, and a table distinct columns, as Spanner does.    *)
(***************************************************************************)
EXTENDS Naturals, Sequences

CONSTANTS
  Idents,               \* identifiers
  DDLs,                 \* the DDLs given, sequences of statements
  Files,                \* the files given
  MaxRepairs            \* bound: how often the file is repaired

\* A key can be given after the columns of a table, or with one of them.
Name == Seq(Idents)
Column == [name : Name, notNull : BOOLEAN, default : {"none", "default", "generated"}, key : BOOLEAN]
Table == [cols : SUBSET Column, key : SUBSET Name]

\* Statements: CREATE TABLE, ALTER TABLE ... ADD COLUMN, and the others.
Statement == [kind : {"create", "alter", "other"}, name : Name \ {<<>>}, table : Table]

Expr == [kind : {"quoted", "raw", "expr"}, value : Name]
Quoted(name) == [kind |-> "quoted", value |-> name]

\* pkg.fn(table, map), where the map is a literal or not.  A call with fewer
\* arguments does not compile.
Call == [pkg : STRING, fn : STRING, table : Expr, literal : BOOLEAN, keys : SUBSET Expr]

ASSUME Inputs ==
  /\ DDLs \subseteq Seq(Statement) /\ MaxRepairs \in Nat
  /\ "tick" \notin Idents
  /\ Files \subseteq [spanner : STRING, calls : Seq(Call)]

ASSUME DistinctColumns ==
  \A s \in DDLs : \A i \in DOMAIN s : \A c, d \in s[i].table.cols : c.name = d.name => c = d

\* A key is made of columns of its table, as Spanner demands.
ASSUME KeyColumns ==
  \A s \in DDLs : \A i \in DOMAIN s : s[i].kind = "create" =>
    \A n \in s[i].table.key : \E c \in s[i].table.cols : c.name = n

VARIABLES
  ddl, file,            \* the inputs
  pc,
  schema,               \* schema.Tables
  next,                 \* the next statement of the DDL, or the next call of the file
  diags,                \* the diagnostics of the file
  repairs               \* how often the file was repaired

vars == <<ddl, file, pc, schema, next, diags, repairs>>

Diagnostic(call, rule, name) == [call |-> call, rule |-> rule, name |-> name]
Rule == {"table literal", "unknown table", "map literal", "key literal", "unknown column",
         "generated column", "missing column", "missing key"}

-----------------------------------------------------------------------------
Init ==
  /\ ddl \in DDLs /\ file \in Files
  /\ pc = "ddl" /\ next = 1
  /\ schema = [n \in {} |-> {}]
  /\ diags = {} /\ repairs = 0

Last(name) == <<name[Len(name)]>>

\* Mutant of WithTable: a table that is there already stays.
WithTableFirst(s, name, table) ==
  [n \in DOMAIN s \cup {name} |-> IF n \in DOMAIN s THEN s[n] ELSE table]

WithTable(s, name, table) ==
  [n \in DOMAIN s \cup {name} |-> IF n = name THEN table ELSE s[n]]

\* One statement: CREATE TABLE is kept under the last part of its name, all
\* others are skipped.
ParseStatement ==
  /\ pc = "ddl" /\ next <= Len(ddl)
  /\ schema' = IF ddl[next].kind = "create"
                 THEN WithTable(schema, Last(ddl[next].name), ddl[next].table)
                 ELSE schema
  /\ next' = next + 1
  /\ UNCHANGED <<ddl, file, pc, diags, repairs>>

\* Mutant of EndDDL: the place in the DDL is kept.
EndDDLKeep ==
  /\ pc = "ddl" /\ next > Len(ddl)
  /\ pc' = IF DOMAIN schema = {} THEN "error" ELSE IF file.spanner = "" THEN "done" ELSE "calls"
  /\ UNCHANGED <<ddl, file, schema, next, diags, repairs>>

\* A DDL without tables is an error; a file without the import is skipped.
EndDDL ==
  /\ pc = "ddl" /\ next > Len(ddl)
  /\ pc' = IF DOMAIN schema = {} THEN "error" ELSE IF file.spanner = "" THEN "done" ELSE "calls"
  /\ next' = 1
  /\ UNCHANGED <<ddl, file, schema, diags, repairs>>

-----------------------------------------------------------------------------
\* strings.Trim(lit.Value, `"`) leaves the backticks of a raw string.
Trimmed(lit) == IF lit.kind = "quoted" THEN lit.value ELSE <<"tick">> \o lit.value \o <<"tick">>

\* Mutant of RequiredColumns: generated columns count.
RequiredGenerated(t) == {c.name : c \in {d \in t.cols : d.notNull /\ d.default # "default"}}

RequiredColumns(t) == {c.name : c \in {d \in t.cols : d.notNull /\ d.default = "none"}}

ColumnByName(t, name) == {c \in t.cols : c.name = name}

\* Literal keys against the columns of the table; then what is missing.
MapDiags(i, c, t) ==
  LET lits  == {k \in c.keys : k.kind # "expr"}
      names == {Trimmed(k) : k \in lits}
  IN  {Diagnostic(i, "key literal", k.value) : k \in c.keys \ lits}
      \cup {Diagnostic(i, "unknown column", n) : n \in {m \in names : ColumnByName(t, m) = {}}}
      \cup {Diagnostic(i, "generated column", n) :
              n \in {m \in names : \E d \in ColumnByName(t, m) : d.default = "generated"}}
      \cup {Diagnostic(i, "missing column", n) :
              n \in IF c.fn \in {"InsertMap", "InsertOrUpdateMap"} THEN RequiredColumns(t) \ names ELSE {}}
      \cup {Diagnostic(i, "missing key", n) : n \in IF c.fn = "UpdateMap" THEN t.key \ names ELSE {}}

\* What is reported of the call i: the table, else the map, else its keys.
CallDiags(i, c) ==
  IF c.table.kind = "expr" THEN {Diagnostic(i, "table literal", <<>>)}
  ELSE IF Trimmed(c.table) \notin DOMAIN schema THEN {Diagnostic(i, "unknown table", <<>>)}
  ELSE IF ~c.literal THEN {Diagnostic(i, "map literal", <<>>)}
  ELSE MapDiags(i, c, schema[Trimmed(c.table)])

\* mutationFuncName
IsMutation(c) == c.pkg = file.spanner /\ c.fn \in {"InsertMap", "UpdateMap", "InsertOrUpdateMap"}

\* Mutant of InspectCall: it stops at the first call with diagnostics.
InspectCallOnce ==
  /\ pc = "calls" /\ next <= Len(file.calls)
  /\ diags' = IF IsMutation(file.calls[next]) /\ diags = {}
                THEN CallDiags(next, file.calls[next]) ELSE diags
  /\ next' = next + 1
  /\ UNCHANGED <<ddl, file, pc, schema, repairs>>

InspectCall ==
  /\ pc = "calls" /\ next <= Len(file.calls)
  /\ diags' = diags \cup IF IsMutation(file.calls[next]) THEN CallDiags(next, file.calls[next]) ELSE {}
  /\ next' = next + 1
  /\ UNCHANGED <<ddl, file, pc, schema, repairs>>

EndFile ==
  /\ pc = "calls" /\ next > Len(file.calls)
  /\ pc' = "done"
  /\ UNCHANGED <<ddl, file, schema, next, diags, repairs>>

-----------------------------------------------------------------------------
(* The developer does what the diagnostics ask for.  An unknown table is *)
(* replaced by some table of the schema.                                 *)

Reported(i, rule) == {d.name : d \in {e \in diags : e.call = i /\ e.rule = rule}}

RepairedKeys(i, keys) ==
  LET wrong == Reported(i, "unknown column") \cup Reported(i, "generated column")
  IN  {IF k.kind = "expr" /\ k.value \in Reported(i, "key literal") THEN Quoted(k.value) ELSE k :
         k \in {m \in keys : m.kind = "expr" \/ Trimmed(m) \notin wrong}}
      \cup {Quoted(n) : n \in Reported(i, "missing column") \cup Reported(i, "missing key")}

Repaired(i, c, table) ==
  [c EXCEPT
     !.table = CASE Reported(i, "table literal") # {} -> Quoted(c.table.value)
                 [] Reported(i, "unknown table") # {} -> Quoted(table)
                 [] OTHER -> c.table,
     !.literal = c.literal \/ Reported(i, "map literal") # {},
     !.keys = RepairedKeys(i, c.keys)]

Repair ==
  /\ pc = "done" /\ diags # {} /\ repairs < MaxRepairs
  /\ \E table \in DOMAIN schema :
       file' = [file EXCEPT !.calls = [i \in DOMAIN file.calls |-> Repaired(i, file.calls[i], table)]]
  /\ diags' = {} /\ next' = 1 /\ pc' = "calls"
  /\ repairs' = repairs + 1
  /\ UNCHANGED <<ddl, schema>>

Next == ParseStatement \/ EndDDL \/ InspectCall \/ EndFile \/ Repair

Spec == Init /\ [][Next]_vars

-----------------------------------------------------------------------------
(***************************************************************************)
(* What Spanner does, from the statements of the DDL and nothing else.     *)
(***************************************************************************)
Creates(name) == {i \in DOMAIN ddl : ddl[i].kind = "create" /\ ddl[i].name = name}
Alters(name) == {i \in DOMAIN ddl : ddl[i].kind = "alter" /\ ddl[i].name = name}

ColumnsOf(name) == UNION {ddl[i].table.cols : i \in Creates(name) \cup Alters(name)}
KeyOf(name) ==
  UNION {ddl[i].table.key : i \in Creates(name)} \cup {c.name : c \in {d \in ColumnsOf(name) : d.key}}

\* Spanner accepts the mutation.
Accepts(c) ==
  LET name    == c.table.value
      written == {k.value : k \in c.keys}
      required == {d \in ColumnsOf(name) : d.notNull /\ d.default = "none"}
  IN  /\ Creates(name) # {}
      /\ \A w \in written : \E d \in ColumnsOf(name) : d.name = w /\ d.default # "generated"
      /\ c.fn \in {"InsertMap", "InsertOrUpdateMap"} => \A d \in required : d.name \in written
      /\ c.fn = "UpdateMap" => KeyOf(name) \subseteq written

-----------------------------------------------------------------------------
(***************************************************************************)
(* Properties.                                                             *)
(***************************************************************************)
\* The state of a run over one file.
TypeOK ==
  /\ ddl \in DDLs
  /\ file \in [spanner : STRING, calls : Seq(Call)]
  /\ pc \in {"ddl", "calls", "done", "error"}
  /\ next \in 1..(IF pc = "ddl" THEN Len(ddl) + 1 ELSE Len(file.calls) + 1)
  /\ DOMAIN schema \subseteq Name /\ \A n \in DOMAIN schema : schema[n] \in Table
  /\ \A d \in diags :
       /\ d.call \in DOMAIN file.calls /\ d.rule \in Rule
       /\ d.name \in IF d.rule \in {"missing column", "missing key"} THEN Name ELSE Seq(Idents \cup {"tick"})
  /\ repairs \in 0..MaxRepairs

(***************************************************************************)
(* The schema has, under each name, the last table of the DDL whose name   *)
(* ends in it: neither an earlier table nor a part of another one.         *)
(***************************************************************************)
CreatesUpTo(n, end) == {i \in 1..end : ddl[i].kind = "create" /\ Last(ddl[i].name) = n}

SchemaIsLast ==
  LET end == IF pc = "ddl" THEN next - 1 ELSE Len(ddl)
  IN  /\ \A n \in DOMAIN schema : \E i \in CreatesUpTo(n, end) :
           schema[n] = ddl[i].table /\ \A j \in CreatesUpTo(n, end) : j <= i
      /\ \A i \in 1..end : ddl[i].kind = "create" => Last(ddl[i].name) \in DOMAIN schema

\* The DDL creates each table once, none in a named schema, and alters none, and
\* keys are given after the columns.
PlainDDL ==
  \A i \in DOMAIN ddl :
    /\ ddl[i].kind # "alter" /\ \A c \in ddl[i].table.cols : ~c.key
    /\ ddl[i].kind = "create" => Len(ddl[i].name) = 1 /\ Creates(ddl[i].name) = {i}

\* A call whose names are all quoted literals.
PlainCall(c) == c.table.kind = "quoted" /\ c.literal /\ \A k \in c.keys : k.kind = "quoted"

(***************************************************************************)
(* The verdict is right: a mutation written with quoted literals is        *)
(* reported if and only if Spanner would not accept it, whatever comes     *)
(* before and after it in the file and in the DDL.                         *)
(***************************************************************************)
Verdict ==
  pc = "done" /\ file.spanner # "" /\ PlainDDL =>
    \A i \in DOMAIN file.calls :
      IsMutation(file.calls[i]) /\ PlainCall(file.calls[i]) =>
        (Accepts(file.calls[i]) <=> \A d \in diags : d.call # i)

\* No column of a key is generated.
KeysWritable ==
  \A i \in DOMAIN ddl : \A c \in ddl[i].table.cols :
    c.default = "generated" => ~c.key /\ c.name \notin ddl[i].table.key

(***************************************************************************)
(* "write code -> lint -> fix" comes to an end: whoever does what the      *)
(* diagnostics say has a clean file after at most five repairs (the table, *)
(* another table, the map, its keys and what they turn out to be), so that *)
(* no two rules ask for opposite things.  The exception is a generated     *)
(* column of a key: it must not be written (docs/lint-mutation.md:11) and  *)
(* must be there in UpdateMap (docs/lint-mutation.md:13).                  *)
(***************************************************************************)
Converges == KeysWritable => repairs <= 5

\* docs/lint-mutation.md:13 "UpdateMap: primary key columns must be included":
\* where nothing is reported of an UpdateMap, they are.
KeysIncluded ==
  pc = "done" /\ file.spanner # "" =>
    \A i \in DOMAIN file.calls :
      LET c == file.calls[i]
      IN  IsMutation(c) /\ c.fn = "UpdateMap" /\ PlainCall(c) /\ (\A d \in diags : d.call # i) =>
            KeyOf(c.table.value) \subseteq {k.value : k \in c.keys}
=============================================================================
