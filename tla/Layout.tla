------------------------------- MODULE Layout -------------------------------
(***************************************************************************)
(* layout.go: the syntactic role of each token, derived from the tree.     *)
(*                                                                         *)
(* buildLayout walks the tree and fills nine maps keyed by token index.    *)
(* The walk order does not matter unless two nodes write the same key, so  *)
(* each map is a set of (key, value) pairs here, one definition per map;   *)
(* NoConflict says that no key has two values.  The index -1 the code uses *)
(* for "no such token" is 0.                                               *)
(***************************************************************************)
EXTENDS SqlAst, FiniteSets

LOCAL INSTANCE TLC

\* Mutant of SubQueryTypes: the switch of walk has no case for a CTE.
SubQueryTypesNoCTE == {"SubQuery", "ScalarSubQuery", "SubQueryInCondition",
                       "SubQueryTableExpr", "ArraySubQuery", "ExistsSubQuery"}

SubQueryTypes == {"SubQuery", "ScalarSubQuery", "SubQueryInCondition",
                  "SubQueryTableExpr", "ArraySubQuery", "ExistsSubQuery", "CTE"}
QueryTypes == {"Query", "Select", "CompoundQuery", "SubQuery"}
InlineTypes == {"ParenTableExpr", "CallExpr"}

-----------------------------------------------------------------------------
(* Tree access. *)

NodesOf(s, types) == {k \in DOMAIN s.nodes : s.nodes[k].type \in types}
Type(s, k) == s.nodes[k].type
Pos(s, k) == s.nodes[k].pos
End(s, k) == s.nodes[k].end
Parent(s, k) == s.nodes[k].par
Kids(s, k) == {m \in DOMAIN s.nodes : s.nodes[m].par = k}
KidsOf(s, k, types) == {m \in Kids(s, k) : Type(s, m) \in types}

First(K) == CHOOSE k \in K : \A m \in K : k <= m
Last(K) == CHOOSE k \in K : \A m \in K : k >= m
Ancestors(s, k) == {m \in 1..(k - 1) : Pos(s, m) <= Pos(s, k) /\ End(s, k) <= End(s, m)}
Before(K, k) == Last({m \in K : m < k})     \* the sibling before k

IsAndOr(s, k) == Type(s, k) = "BinaryExpr" /\ s.nodes[k].op \in {"AND", "OR"}

(***************************************************************************)
(* find: the first token of a kind in [from, to), or 0.                    *)
(***************************************************************************)
Find(s, from, to, kind) ==
  LET hits == {i \in from..(to - 1) : LexKind(s.toks[i]) = kind}
  IN  IF hits = {} THEN 0 ELSE First(hits)

-----------------------------------------------------------------------------
(***************************************************************************)
(* walk.  A node is inline when it is inside a parenthesized JOIN or a     *)
(* function call and no subquery starts in between.  Hints are not walked. *)
(***************************************************************************)
Inline(s, k) ==
  LET stops == {p \in Ancestors(s, k) : Type(s, p) \in SubQueryTypes \cup InlineTypes}
  IN  stops # {} /\ Type(s, Last(stops)) \in InlineTypes

\* clause is called with node k.
InClause(s, k) ==
  Type(s, k) \notin SubQueryTypes \cup InlineTypes \cup {"Hint"} /\ ~Inline(s, k)
ClauseNodes(s) == {k \in DOMAIN s.nodes : InClause(s, k)}

Query(s, k) == First(KidsOf(s, k, QueryTypes))

\* The "(" of a subquery: where the node starts, or the first "(" before the query.
OpenParen(s, k) ==
  IF Type(s, k) \in {"ArraySubQuery", "ExistsSubQuery", "CTE"}
    THEN Find(s, Pos(s, k), Pos(s, Query(s, k)), "(")
    ELSE Pos(s, k)

Subqueries(s) ==
  {<<OpenParen(s, k), End(s, Query(s, k))>> : k \in NodesOf(s, SubQueryTypes)}

Hints(s) == {<<Pos(s, k), End(s, k) - 1>> : k \in NodesOf(s, {"Hint"})}

-----------------------------------------------------------------------------
(***************************************************************************)
(* clause: the clauses of node k, as <<first keyword, last keyword, kind>>.*)
(***************************************************************************)
Clauses(s, k) ==
  LET pos == Pos(s, k)
      kids == Kids(s, k) \ NodesOf(s, {"Hint"})
      at(i) == {<<i, i, "block">>}
      ifFound(i) == IF i = 0 THEN {} ELSE at(i)
  IN  CASE Type(s, k) \in {"Select", "From", "Where", "On", "Having", "Limit",
                           "Offset", "ValuesInput"} -> at(pos)
        [] Type(s, k) \in {"GroupBy", "OrderBy"} ->
             {<<pos, Find(s, pos, Pos(s, First(kids)), "BY"), "block">>}
        [] Type(s, k) = "Join" /\ s.nodes[k].op # "," ->
             LET left == End(s, First(kids))
                 right == First({m \in Kids(s, k) : m > First(kids)})
             IN  {<<left, Find(s, left, Pos(s, right), "JOIN"), "block">>}
        [] Type(s, k) = "CompoundQuery" ->
             {<<End(s, Before(kids, m)),
                End(s, Before(kids, m)) + (IF s.nodes[k].op = "" THEN 0 ELSE 1),
                "setop">> : m \in kids \ {First(kids)}}
        [] Type(s, k) = "With" -> {<<pos, pos, "with">>}
        [] Type(s, k) = "Insert" -> ifFound(Find(s, pos, Pos(s, First(kids)), "INTO"))
        [] Type(s, k) = "Update" ->
             at(Find(s, pos, Pos(s, First(KidsOf(s, k, {"UpdateItemSetValue"}))), "SET"))
        [] Type(s, k) = "ConflictActionDoUpdate" ->
             at(Find(s, pos, Pos(s, First(kids)), "SET"))
        [] Type(s, k) = "Delete" -> ifFound(Find(s, pos, Pos(s, First(kids)), "FROM"))
        [] OTHER -> {}

\* Mutant of OffsetKeyword: it is looked for by its word, but its kind is that of a name.
OffsetKeywordByFind(s, k) == Find(s, Pos(s, k), End(s, k), "OFFSET")

\* The OFFSET of WITH OFFSET.
OffsetKeyword(s, k) == Pos(s, k) + 1

\* The other tokens of node k that clause marks as keywords.
SoftKeywordsOf(s, k) ==
  CASE Type(s, k) = "WithOffset" -> {OffsetKeyword(s, k)}
    [] Type(s, k) = "Insert" -> Pos(s, k)..(Pos(s, First(Kids(s, k))) - 1)
    [] Type(s, k) \in {"Update", "Delete"} -> {Pos(s, k)}
    [] Type(s, k) = "ConflictActionDoUpdate" ->
         Pos(s, k)..(Find(s, Pos(s, k), Pos(s, First(Kids(s, k))), "SET") - 1)
    [] OTHER -> {}

AllClauses(s) == UNION {Clauses(s, k) : k \in ClauseNodes(s)}
ClauseStarts(s) == {<<c[1], c[3]>> : c \in AllClauses(s)}
ClauseEnds(s) == {<<c[2], c[3]>> : c \in AllClauses(s)}
Keywords(s) == UNION {{c[1], c[2]} : c \in AllClauses(s)}
               \cup UNION {SoftKeywordsOf(s, k) : k \in ClauseNodes(s)}

\* The commas between the children of node k that are list items.
Commas(s, items, kind) ==
  {<<Find(s, End(s, Before(items, m)), Pos(s, m), ","), kind>> :
     m \in items \ {First(items)}}

SelectItems(s, k) == KidsOf(s, k, {"ExprSelectItem", "Alias", "Star"})

ListSeps(s) ==
  UNION {CASE Type(s, k) = "Select" -> Commas(s, SelectItems(s, k), "select")
           [] Type(s, k) = "With" -> Commas(s, Kids(s, k), "cte")
           [] OTHER -> {} : k \in ClauseNodes(s)}

-----------------------------------------------------------------------------
(***************************************************************************)
(* cond: the expressions it is called with, from the condition of a WHERE, *)
(* ON or HAVING down through AND, OR, NOT and parenthesized groups.        *)
(***************************************************************************)
IsGroup(s, k) == Type(s, k) = "ParenExpr" /\ \E m \in Kids(s, k) : IsAndOr(s, m)
IsNot(s, k) == Type(s, k) = "UnaryExpr" /\ s.nodes[k].op = "NOT"

IsCond(s, k) ==
  \E c \in Ancestors(s, k) :
    /\ Type(s, c) \in {"Where", "On", "Having"} /\ InClause(s, c)
    /\ \A p \in Ancestors(s, k) : p > c => IsAndOr(s, p) \/ IsNot(s, p) \/ IsGroup(s, p)

\* Mutant of CondOps: the operator is looked for from the start of the expression.
CondOpsFromStart(s) ==
  {Find(s, Pos(s, k), Pos(s, Last(Kids(s, k))), s.nodes[k].op) :
     k \in {k \in DOMAIN s.nodes : IsAndOr(s, k) /\ IsCond(s, k)}}

CondOps(s) ==
  {Find(s, End(s, First(Kids(s, k))), Pos(s, Last(Kids(s, k))), s.nodes[k].op) :
     k \in {k \in DOMAIN s.nodes : IsAndOr(s, k) /\ IsCond(s, k)}}

CondGroups(s) ==
  {<<Pos(s, k), End(s, k) - 1>> : k \in {k \in DOMAIN s.nodes : IsGroup(s, k) /\ IsCond(s, k)}}

(***************************************************************************)
(* expandCase: the CASE expressions laid out on several lines, those that  *)
(* stand on their own and the results of the parts of an expanded one.     *)
(***************************************************************************)
StandsAlone(s, k) ==
  LET p == Parent(s, k)
  IN  \/ IsCond(s, k)
      \/ Type(s, p) \in {"GroupBy", "OrderByItem", "UpdateItemSetValue"} /\ InClause(s, p)
      \/ /\ Type(s, p) \in {"ExprSelectItem", "Alias"}
         /\ Type(s, Parent(s, p)) = "Select" /\ InClause(s, Parent(s, p))

IsResult(s, k) ==
  LET p == Parent(s, k)
  IN  \/ Type(s, k) \in {"CaseWhen", "CaseElse"}
      \/ /\ Type(s, k) = "CaseExpr" /\ Type(s, p) \in {"CaseWhen", "CaseElse"}
         /\ End(s, k) = End(s, p)

ExpandedCases(s) ==
  {k \in NodesOf(s, {"CaseExpr"}) :
     \E c \in Ancestors(s, k) \cup {k} :
       /\ Type(s, c) = "CaseExpr" /\ StandsAlone(s, c)
       /\ \A p \in Ancestors(s, k) \cup {k} : p > c => IsResult(s, p)}

Cases(s) ==
  LET cs == ExpandedCases(s)
      parts(type) == {m \in NodesOf(s, {type}) : Parent(s, m) \in cs}
  IN  {<<Pos(s, k), "case">> : k \in cs} \cup {<<End(s, k) - 1, "end">> : k \in cs}
      \cup {<<Pos(s, m), "when">> : m \in parts("CaseWhen")}
      \cup {<<Pos(s, m), "else">> : m \in parts("CaseElse")}

CaseEnds(s) == {<<Pos(s, k), End(s, k) - 1>> : k \in ExpandedCases(s)}

-----------------------------------------------------------------------------
\* The map with the given (key, value) pairs.  With @@, TLC builds it once.
MapOf(pairs) ==
  [key \in {p[1] : p \in pairs} |-> (CHOOSE p \in pairs : p[1] = key)[2]] @@ <<>>

(***************************************************************************)
(* buildLayout, with the tokens: the input of the printer.  lastLine maps  *)
(* the literals with line breaks to the leading spaces of their last line. *)
(* caseEnd maps the CASE of an expanded CASE expression to its END; the    *)
(* code does not keep it and the printer does not read it.                 *)
(***************************************************************************)
BuildLayout(s) ==
  [n            |-> Len(s.toks),
   kind         |-> [i \in DOMAIN s.toks |-> LexKind(s.toks[i])] @@ <<>>,
   reserved     |-> {i \in DOMAIN s.toks : IsReserved(s.toks[i])},
   lastLine     |-> MapOf({<<i, MultiLine[s.toks[i]]>> :
                             i \in {i \in DOMAIN s.toks : s.toks[i] \in DOMAIN MultiLine}}),
   clauseStarts |-> MapOf(ClauseStarts(s)),
   clauseEnds   |-> MapOf(ClauseEnds(s)),
   keywords     |-> Keywords(s),
   condOps      |-> CondOps(s),
   condGroups   |-> MapOf(CondGroups(s)),
   subqueries   |-> MapOf(Subqueries(s)),
   listSeps     |-> MapOf(ListSeps(s)),
   cases        |-> MapOf(Cases(s)),
   caseEnd      |-> MapOf(CaseEnds(s)),
   hints        |-> MapOf(Hints(s))]

\* No key of a map is written with two different values, and no token that
\* was not found (index 0) is given a role.
NoConflict(s) ==
  LET maps == <<ClauseStarts(s), ClauseEnds(s), CondGroups(s), Subqueries(s),
                ListSeps(s), Cases(s), Hints(s)>>
  IN  /\ \A m \in DOMAIN maps : \A p, q \in maps[m] :
           p[1] # 0 /\ (p[1] = q[1] => p[2] = q[2])
      /\ \A p \in CondGroups(s) \cup Subqueries(s) \cup Hints(s) : p[2] # 0
      /\ 0 \notin CondOps(s) \cup Keywords(s)

=============================================================================
