----------------------------- MODULE ScanSource -----------------------------
(***************************************************************************)
(* A Go file as lintscan.go sees it, and where it looks for the struct     *)
(* that row.ToStruct fills.                                                *)
(*                                                                         *)
(* A body is the sequence of its declarations and calls in the order in    *)
(* which ast.Inspect comes to them, nested function literals included.     *)
(* The items of a callback follow its call.  The block of an item is 0 in  *)
(* the list of statements of the body, the index of the call in that of a  *)
(* callback, and Inner where it is nested deeper.                          *)
(***************************************************************************)
EXTENDS Integers, SequencesExt

CONSTANTS
  Names,                \* identifiers, columns and parameters
  Lower,                \* strings.ToLower
  Lines,                \* line numbers
  NoBody, NoStmt, NoCallback, NoSelect

Inner == -1
Opt == Names \cup {""}

\* A struct type has fields, a named one a name; of others nothing is known.
\* The tag of a field is what its spanner key holds.
Field == [tag : Opt \cup {"-"}, names : SUBSET Names]
Type == [kind : {"struct", "named", "other"}, name : Opt, fields : SUBSET Field]

\* A SELECT item has a name if it is a path or has an alias.
Result == [star : BOOLEAN, name : Opt]

\* What memefish makes of the SQL: the list of its first SELECT, if it is a
\* query that has one, and the names of its parameters.
Query == [parses : BOOLEAN, select : Seq(Result) \cup {NoSelect}, params : SUBSET Names]

\* spanner.Statement{SQL: ..., Params: ...} with a literal SQL.
Stmt == [query : Query, has : {"none", "literal", "other"}, keys : SUBSET Names,
         line : Lines, paramsLine : Lines]

\* A parameter of a function, *spanner.Row or not.
Param == [row : BOOLEAN, names : Seq(Names)]

\* A function literal among the arguments, and how many items it has.
Callback == [params : Seq(Param), error : BOOLEAN, size : Nat, line : Lines]

Item ==
  [k : {"var", "define", "type"}, block : Int, name : Names, type : Type]
    \cup [k : {"Columns"}, block : Int, on : Names, args : Nat, line : Lines]
    \cup [k : {"ToStruct"}, block : Int, on : Names, args : Nat, var : Opt, line : Lines]
    \cup [k : {"call"}, block : Int, fn : Opt, args : SUBSET Names,
          stmt : Stmt \cup {NoStmt}, callback : Callback \cup {NoCallback}]

Func == [name : Names, method : BOOLEAN, params : Seq(Param), body : Seq(Item) \cup {NoBody}]

File == [spanner : Opt, top : Seq(Item), funcs : Seq(Func), nolint : SUBSET Lines]

\* The body of a function, or the top level of the file.
Body(file, f) == IF f = 0 THEN file.top ELSE file.funcs[f].body

\* A block is named by its function and its call, 0 for the whole body.
First(block) == block[2] + 1
End(file, block) ==
  IF block[2] = 0 THEN Len(Body(file, block[1]))
  ELSE block[2] + Body(file, block[1])[block[2]].callback.size

\* The declarations in the list of a block.
Listed(file, block) ==
  {i \in First(block)..End(file, block) :
     LET item == Body(file, block[1])[i]
     IN  item.block = block[2] /\ item.k \in {"var", "define", "type"}}

InLists(file, blocks) ==
  UNION {{Body(file, blocks[j][1])[i] : i \in Listed(file, blocks[j])} : j \in DOMAIN blocks}

\* The first of the declarations D, if one is in the lists of these blocks.
FirstOf(file, blocks, D) ==
  LET in(j) == {i \in Listed(file, blocks[j]) : Body(file, blocks[j][1])[i] \in D}
      found == {j \in DOMAIN blocks : in(j) # {}}
  IN  IF found = {} THEN {} ELSE {Body(file, blocks[Min(found)][1])[Min(in(Min(found)))]}

-----------------------------------------------------------------------------
\* Tags and, without a tag, names.  No tags are nil, which means unresolved.
Tags(fields) == UNION {IF f.tag \in {"", "-"} THEN f.names ELSE {f.tag} : f \in fields}

\* := gives a type away if a named composite literal is assigned.
Typed(d) ==
  \/ d.k = "var" /\ d.type.kind # "other"
  \/ d.k = "define" /\ d.type.kind = "named"

TypeTags(file, blocks, name) ==
  LET structs == {d \in InLists(file, blocks) :
                    d.k = "type" /\ d.name = name /\ d.type.kind = "struct" /\ Tags(d.type.fields) # {}}
  IN  UNION {Tags(d.type.fields) : d \in FirstOf(file, blocks, structs)}

\* resolveToStructTags: the variable, then its type, in the first of the blocks
\* that declares it.
StructTags(file, blocks, var) ==
  LET typed == {d \in InLists(file, blocks) : d.k # "type" /\ d.name = var /\ Typed(d)}
      types == {d.type : d \in FirstOf(file, blocks, typed)}
  IN  UNION {IF t.kind = "named" THEN TypeTags(file, blocks, t.name) ELSE Tags(t.fields) : t \in types}

-----------------------------------------------------------------------------
\* isSpannerRowCallback and findRowParamName: the name of the row, or none.
RowName(callback) ==
  IF /\ Len(callback.params) = 1 /\ callback.params[1].row /\ callback.error
     /\ callback.params[1].names # <<>>
    THEN IF callback.params[1].names[1] = "_" THEN "" ELSE callback.params[1].names[1]
    ELSE ""

RowParam(func) ==
  LET rows == {i \in DOMAIN func.params : func.params[i].row /\ func.params[i].names # <<>>}
  IN  IF rows = {} THEN "" ELSE func.params[Min(rows)].names[1]

\* The functions that a call of this name can mean; methods are left out.
Declared(file, name) ==
  {f \in DOMAIN file.funcs : ~file.funcs[f].method /\ file.funcs[f].name = name}

HasCallback(call) == call.callback # NoCallback /\ RowName(call.callback) # ""
=============================================================================
