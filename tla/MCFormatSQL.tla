---------------------------- MODULE MCFormatSQL ----------------------------
(***************************************************************************)
(* FormatSQL on every statement of MCStatements, and on a few of them with *)
(* comments everywhere.                                                    *)
(***************************************************************************)
EXTENDS FormatSQL

S == INSTANCE MCStatements

\* At most two comments before one token and one before the next.
Kinds == [line : BOOLEAN, nl : BOOLEAN]
Comment(id, kind) == [id |-> id, line |-> kind.line, nl |-> kind.nl]
Before1 == {<<Comment(1, x)>> : x \in Kinds}
Before2 == Before1 \cup {<<Comment(1, x), Comment(2, y)>> : x, y \in Kinds}
After == {<<>>} \cup {<<Comment(3, x)>> : x \in Kinds}

CommentedStatements ==
  {S!Statement(S!Filtered(S!And(S!Eq, S!Paren(S!Or(S!Eq, S!In(S!One)))))),
   S!Statement(S!Select(S!Item(S!Call(S!Case(S!Eq, S!Lit, S!Lit))), S!From(S!Hinted))),
   S!Statement(S!Compound(S!UnionAll(S!SubQuery(S!One), S!One))),
   S!Statement(S!Filtered(S!And(S!Eq, S!InOf(S!Text("text7"), S!One)))),
   S!Statement(S!Query(S!With(S!List(S!Cte(S!One), S!Cte(S!One))), S!FromT,
                       S!OrderBy(S!Case(S!Eq, S!Lit, S!Case(S!Eq, S!Lit, S!Lit)))))}

NoComments(s) == {[k \in 1..(Len(s.toks) + 1) |-> <<>>]}

\* After a line comment, a comment is on a line of its own: the line break
\* belongs to the line comment, and nl to more of them.
Comments2(s) ==
  {[k \in 1..(Len(s.toks) + 1) |-> IF k = j THEN x ELSE IF k = j + 1 THEN y ELSE <<>>] :
     j \in 1..(Len(s.toks) + 1), x \in Before2, y \in After}

MCCommentsOf(s) == NoComments(s) \cup IF s \in CommentedStatements THEN Comments2(s) ELSE {}

MCInputs == S!AllStatements \cup CommentedStatements

InlineOffset ==
  {S!Statement(S!Select(S!Item(S!Name), S!From(f))) :
     f \in {S!Unnest, S!ParenTable(S!Join(<<"CROSS", "JOIN">>, S!Table, S!Empty, S!Unnest, S!Empty))}}
=============================================================================
