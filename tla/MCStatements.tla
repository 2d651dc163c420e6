---------------------------- MODULE MCStatements ----------------------------
(***************************************************************************)
(* Statements with every construct layout.go gives a role to, alone and    *)
(* inside each other.                                                      *)
(***************************************************************************)
EXTENDS Grammar

One == Select(Item(Lit), Empty)
FromT == Select(List(Item(Name), Item(Name)), From(Table))
Filtered(e) == Select(Item(Name), From(Table) \oplus Where(e))

\* Query expressions that can be in the parentheses of a subquery.
Queries ==
  {One, FromT, Filtered(And(Eq, Between)), Compound(UnionAll(One, FromT)),
   Compound(UnionAll(SubQuery(One), SubQuery(FromT))),
   Query(With(List(Cte(One), Cte(FromT))), FromT, OrderBy(Name)),
   Query(Empty, FromT, OrderBy(Name) \oplus Limit(Offset))}

\* Conditions.
Simple == {Eq, Between, Not(Eq), If(And(Eq, Eq)), Bin("=", Paren(And(Eq, Eq)), Lit)}
SubConditions ==
  {In(q) : q \in Queries} \cup {Exists(h, One) : h \in {Empty, Hint}}
CaseConditions == {Case(Or(Eq, Eq), Lit, Case(Eq, Lit, Lit)), Case(In(One), Lit, Scalar(One))}
Groups ==
  {Paren(And(Between, Eq)), Paren(And(Paren(Or(Eq, Eq)), Paren(And(Eq, In(FromT))))),
   Paren(And(CHOOSE c \in CaseConditions : TRUE, Eq)), Not(Paren(Or(Eq, Eq)))}
Atoms == Simple \cup SubConditions \cup CaseConditions \cup Groups
Conditions ==
  Atoms \cup {And(x, Or(Eq, y)) : x, y \in CaseConditions \cup Groups \cup {In(FromT)}}

\* SELECT items.
Items ==
  {Item(Name), Alias(Lit), Item(Scalar(Filtered(Paren(And(Eq, Eq))))), Item(Array(FromT)),
   Alias(Case(Eq, Case(Eq, Case(Eq, Lit, Lit), Lit), Scalar(FromT))),
   Item(Bin("+", Case(Eq, Lit, Lit), Lit)),
   Item(Call(Name \oplus OrderBy(Case(Eq, Lit, Lit)))), Item(OffsetOf(Name)),
   Item(Call(Case(Eq, Scalar(FromT), Lit))),
   Item(CaseOf(Bin("+", Scalar(FromT), Scalar(One)), Scalar(One), Case(Eq, Lit, Lit))),
   Item(Case(Exists(Empty, Filtered(Paren(Or(Case(Eq, Lit, Lit), Eq)))), Lit, Lit))}

\* FROM sources.
Sources ==
  {Table, Hinted, Unnest, Derived(FromT), Derived(Compound(UnionAll(SubQuery(One), FromT))),
   CommaJoin(Table, Derived(One)),
   Join(<<"LEFT", "OUTER", "JOIN">>, Table, Hint, Hinted, On(And(Eq, Paren(Or(Eq, Eq))))),
   Join(<<"CROSS", "JOIN">>, Derived(One), Empty, Unnest, Empty),
   ParenTable(Join(<<"JOIN">>, Table, Empty, Derived(FromT), On(And(Eq, Eq)))),
   ParenTable(Join(<<"JOIN">>, Table, Empty, Unnest, On(In(Filtered(Paren(Or(Eq, Eq)))))))}

Statement(q) == QueryStatement(Empty, q)

SelectStatements ==
  {Statement(Select(List(x, y), From(Table))) : x, y \in Items}
  \cup {Statement(Select(Item(Name), From(f))) : f \in Sources}
  \cup {Statement(Select(Item(Name), From(f) \oplus Where(Paren(And(Eq, Eq))))) : f \in Sources}

ConditionStatements ==
  {Statement(Filtered(e)) : e \in Conditions}
  \cup {Statement(Select(Item(Name),
          From(Join(<<"JOIN">>, Table, Empty, Derived(One), On(e))) \oplus GroupBy(List(Name, Case(Eq, Lit, Lit))) \oplus Having(e))) : e \in Atoms}

QueryStatements ==
  {QueryStatement(h, q) : h \in {Empty, Hint}, q \in Queries}
  \cup {Statement(Query(With(List(Cte(p), Cte(q))), FromT, Empty)) : p, q \in Queries}
  \cup {Statement(Compound(UnionAll(SubQuery(q), UnionAll(SubQuery(Compound(UnionAll(SubQuery(q), One))), FromT)))) : q \in Queries}
  \cup {Statement(Query(Empty, FromT, OrderBy(Case(Eq, Lit, Scalar(q))))) : q \in Queries}

DmlStatements ==
  {Insert(<<"INSERT">> \o words, input, c) :
     words \in {<<>>, <<"INTO">>, <<"OR", "UPDATE", "INTO">>},
     input \in {Values, FromT}, c \in {Empty, OnConflict}}
  \cup {Update(List(SetItem(Lit), SetItem(e)), Where(c)) :
          e \in {Lit, Case(Eq, Lit, Lit), Scalar(FromT)},
          c \in {Eq, And(Eq, In(One)), Paren(Or(Eq, Eq))}}
  \cup {Delete(words, Where(e)) : words \in {<<"DELETE">>, <<"DELETE", "FROM">>},
                                  e \in {Eq, Paren(And(Eq, Eq)), Exists(Hint, FromT)}}

\* String literals with line breaks, before and inside the parts of a statement.
Texts == {Text(word) : word \in DOMAIN MultiLine}
TextStatements ==
  UNION {
    {Statement(Filtered(e)) : e \in
       {Paren(And(Eq, InOf(t, FromT))), And(InOf(t, One), Paren(Or(Eq, InOf(t, One)))),
        And(Bin("=", Name, t), Case(Eq, t, Case(InOf(t, One), Lit, Lit))),
        Bin("=", t, Case(Eq, Lit, Lit)), Not(Paren(And(Bin("=", t, Lit), In(Filtered(Paren(Or(Eq, Eq)))))))}}
    \cup {Statement(Select(List(Item(t), Item(y)), From(Table))) : y \in Items}
    \cup {Statement(Select(Item(Bin("+", t, Scalar(q))), From(Table) \oplus Where(Paren(And(Eq, Eq))))) : q \in Queries}
    \cup {Statement(Query(Empty, FromT, OrderBy(List(t, Case(Eq, Lit, Scalar(q)))))) : q \in Queries}
    \cup {Update(List(SetItem(t), SetItem(Case(Eq, Lit, Lit))), Where(Paren(Or(Bin("=", Name, t), Eq))))}
    : t \in Texts}

AllStatements ==
  SelectStatements \cup ConditionStatements \cup QueryStatements \cup DmlStatements \cup TextStatements

=============================================================================
