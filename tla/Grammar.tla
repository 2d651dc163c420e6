------------------------------ MODULE Grammar ------------------------------
(***************************************************************************)
(* Fragments of the statements memefish parses, with the nodes layout.go   *)
(* reads.  The children of a node are in the order of their tokens.        *)
(***************************************************************************)
EXTENDS SqlAst

List(x, y) == x \oplus T(",") \oplus y
InParens(frag) == T("(") \oplus frag \oplus T(")")

-----------------------------------------------------------------------------
(* Expressions. *)

Name == Node("Ident", T("ident"))
Lit == Node("Literal", T("lit"))
Text(word) == Node("Literal", T(word))
Bin(op, x, y) == NodeOp("BinaryExpr", op, x \oplus T(op) \oplus y)
Eq == Bin("=", Name, Lit)
And(x, y) == Bin("AND", x, y)
Or(x, y) == Bin("OR", x, y)
Not(e) == NodeOp("UnaryExpr", "NOT", T("NOT") \oplus e)
Paren(e) == Node("ParenExpr", InParens(e))
Between == Node("BetweenExpr", Name \oplus T("BETWEEN") \oplus Lit \oplus T("AND") \oplus Lit)
Case(when, then, else) ==
  Node("CaseExpr",
       T("CASE") \oplus Node("CaseWhen", T("WHEN") \oplus when \oplus T("THEN") \oplus then)
                 \oplus Node("CaseElse", T("ELSE") \oplus else) \oplus T("END"))
CaseOf(operand, when, then) ==
  Node("CaseExpr",
       T("CASE") \oplus operand
       \oplus Node("CaseWhen", T("WHEN") \oplus when \oplus T("THEN") \oplus then) \oplus T("END"))
Call(args) == Node("CallExpr", T("ident") \oplus InParens(args))
If(e) == Node("IfExpr", T("IF") \oplus InParens(List(e, List(Lit, Lit))))
OffsetOf(e) ==
  Node("IndexExpr", e \oplus T("[") \oplus Node("Subscript", T("OFFSET") \oplus InParens(Lit)) \oplus T("]"))

Scalar(q) == Node("ScalarSubQuery", InParens(q))
Array(q) == Node("ArraySubQuery", T("ARRAY") \oplus InParens(q))
Exists(h, q) == Node("ExistsSubQuery", T("EXISTS") \oplus h \oplus InParens(q))
InOf(e, q) == Node("InExpr", e \oplus T("IN") \oplus Node("SubQueryInCondition", InParens(q)))
In(q) == InOf(Name, q)

Hint == Node("Hint", Words(<<"@", "{", "ident", "=", "lit", ",", "ident", "=", "lit", "}">>))

-----------------------------------------------------------------------------
(* Queries. *)

Item(e) == Node("ExprSelectItem", e)
Alias(e) == Node("Alias", e \oplus Node("AsAlias", T("AS") \oplus Name))
Select(items, rest) == Node("Select", T("SELECT") \oplus items \oplus rest)
From(source) == Node("From", T("FROM") \oplus source)
Where(e) == Node("Where", T("WHERE") \oplus e)
Having(e) == Node("Having", T("HAVING") \oplus e)
On(e) == Node("On", T("ON") \oplus e)
GroupBy(exprs) == Node("GroupBy", Words(<<"GROUP", "BY">>) \oplus exprs)
OrderBy(e) == Node("OrderBy", Words(<<"ORDER", "BY">>) \oplus Node("OrderByItem", e \oplus T("DESC")))
Offset == Node("Offset", T("OFFSET") \oplus Lit)
Limit(offset) == Node("Limit", T("LIMIT") \oplus Lit \oplus offset)

Table == Node("TableName", Name)
Hinted == Node("TableName", Name \oplus Hint)
Join(words, left, h, right, on) ==
  NodeOp("Join", "JOIN", left \oplus Words(words) \oplus h \oplus right \oplus on)
CommaJoin(left, right) == NodeOp("Join", ",", List(left, right))
ParenTable(source) == Node("ParenTableExpr", InParens(source))
Derived(q) == Node("SubQueryTableExpr", InParens(q))
Unnest == Node("Unnest", T("UNNEST") \oplus InParens(Node("Param", T("param")))
                         \oplus Node("WithOffset", Words(<<"WITH", "OFFSET">>)))

SubQuery(q) == Node("SubQuery", InParens(q))
Query(with, q, rest) == Node("Query", with \oplus q \oplus rest)
UnionAll(x, y) == x \oplus Words(<<"UNION", "ALL">>) \oplus y
Compound(queries) == NodeOp("CompoundQuery", "ALL", queries)
Cte(q) == Node("CTE", Name \oplus T("AS") \oplus InParens(q))
With(ctes) == Node("With", T("WITH") \oplus ctes)
QueryStatement(h, q) == Node("QueryStatement", h \oplus q)

-----------------------------------------------------------------------------
(* DML. *)

Columns == InParens(List(Name, Name))
Values == Node("ValuesInput", T("VALUES") \oplus InParens(Lit))
SetItem(e) == Node("UpdateItemSetValue", Name \oplus T("=") \oplus e)
OnConflict ==
  Node("OnConflict", Words(<<"ON", "ident">>) \oplus InParens(Name)
       \oplus Node("ConflictActionDoUpdate", Words(<<"DO", "UPDATE", "SET">>) \oplus SetItem(Lit)))
Insert(words, input, conflict) ==
  Node("Insert", Words(words) \oplus Table \oplus Columns \oplus input \oplus conflict)
Update(items, where) ==
  Node("Update", T("UPDATE") \oplus Table \oplus T("SET") \oplus items \oplus where)
Delete(words, where) == Node("Delete", Words(words) \oplus Table \oplus where)

=============================================================================
