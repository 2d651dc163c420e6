------------------------------ MODULE MCGoFile ------------------------------
(***************************************************************************)
(* formatGoFile over files with one SQL field of any short text, and files *)
(* of every other shape with a few texts.                                  *)
(***************************************************************************)
EXTENDS GoFileTwice

\* Every text of up to 3 characters, and of 4 of those that matter to
\* sqlFieldExpr.
MCShort ==
  {<<>>} \cup UNION {[1..n -> Char] : n \in 1..3} \cup [1..4 -> {"WORD", "tick", "nl", "cr"}]

Upper(t) == [m \in DOMAIN t |-> IF t[m] = "word" THEN "WORD" ELSE t[m]]

\* The texts of MCValues.
MCPlain == <<"word", "nl">>
MCQuoted == <<"tick", "word", "tick">>

\* Joined texts too, and the line breaks of a first and a second pass.
MCTexts ==
  LET words  == {MCPlain \o MCQuoted, MCPlain \o MCQuoted \o <<"word">>, MCPlain \o MCQuoted \o MCPlain}
      joined == words \cup {Upper(t) : t \in words}
      once   == {InNewlines(t) : t \in MCShort \cup joined}
  IN  MCShort \cup joined \cup once \cup {InNewlines(t) : t \in once}

\* Not a text, but comparable with one.
MCFormatError == <<"FormatError">>

MCFormatSQL ==
  [t \in MCTexts |->
     IF t = <<>> \/ \E m \in DOMAIN t : t[m] = "error" THEN MCFormatError
     ELSE Upper(t)]

SpannerImport == Import(SpannerPath, "")
Statement(ident, fieldCells) == <<Open(ident, "Statement")>> \o fieldCells \o <<Close>>
SQLField(value) == <<Key("SQL")>> \o value
File(import, body) == <<import, Code("untidy")>> \o body \o <<Code("tidy")>>

MCLits == {lit \in {Lit(kind, t) : kind \in {"raw", "quoted"}, t \in MCShort} : ValidLit(lit)}

SingleFiles ==
  {File(SpannerImport, Statement("spanner", SQLField(<<lit>>))) : lit \in MCLits}

\* Values of an SQL field: literals, joined ones, and what is refused.
MCValues ==
  LET a == Lit("raw", MCPlain)
      b == Lit("quoted", MCQuoted)
      c == Code("tidy")
  IN  {<<a>>, <<b>>, <<Lit("raw", <<"error">>)>>, <<a, Plus, b>>, <<a, Plus, b, Plus, a>>,
       <<a, Plus, c>>, <<a, Plus, Comment, b>>, <<Comment, a, Comment>>, <<c>>,
       <<Open("call", ""), b, Close>>} \cup
      {Statement("spanner", SQLField(<<b>>))}

Params(inner) == <<Key("Params"), Open("call", "")>> \o inner \o <<Close>>

\* Two statements, one after the other or in the other's Params, before or after
\* its SQL field.
PairFiles ==
  UNION {LET s == Statement("spanner", SQLField(u)) IN
         {File(SpannerImport, body) : body \in
            {s \o <<Code("untidy")>> \o Statement("spanner", SQLField(v)),
             Statement("spanner", Params(s) \o <<Comma>> \o SQLField(v)),
             Statement("spanner", SQLField(v) \o <<Comma>> \o Params(s) \o <<Comma>>),
             Statement("spanner", <<Code("tidy"), Comma>> \o SQLField(v)) \o s}} :
           u \in MCValues, v \in MCValues}

\* Imports, other types, and a file that does not parse.
OtherFiles ==
  LET lit == <<Lit("raw", <<"word">>)>>
  IN  {File(import, Statement(ident, SQLField(lit))) :
         import \in {SpannerImport, Import(SpannerPath, "sp"), Import(SpannerPath, "."),
                     Import("other", "spanner")},
         ident \in {"spanner", "sp", "other"}} \cup
      {File(SpannerImport, <<import>> \o Statement("sp", SQLField(lit))) :
         import \in {Import(SpannerPath, "sp"), Bad}} \cup
      {File(SpannerImport, <<Open("spanner", "Mutation")>> \o SQLField(lit) \o <<Close>>),
       File(SpannerImport, Statement("spanner", <<Key("Params")>> \o lit)),
       File(SpannerImport, Statement("spanner", lit))}

MCFiles == SingleFiles \cup PairFiles \cup OtherFiles

=============================================================================
