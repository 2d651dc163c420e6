----------------------------- MODULE FormatSQL -----------------------------
(***************************************************************************)
(* formatter.go: FormatSQL.  A statement is parsed, printed according to   *)
(* its layout, gets its comments back, and is compared with the original   *)
(* before it is returned.  The printing is the module Printer.             *)
(***************************************************************************)
EXTENDS Layout, Comments

CONSTANTS
  Statements,         \* syntax trees of statements, as memefish makes them
  CommentsOf(_)       \* the comments a statement can have

VARIABLES
  source,             \* "sql", "graph" (a graph query) or "malformed"
  stmt,               \* the tree of the statement, if it has one
  phase,              \* what FormatSQL does next
  cms,                \* the comments of the statement
  formatted,          \* the formatted statement
  result              \* what FormatSQL returned: a statement or an error

VARIABLES in, i, hint, b, starts, ends, prev, suppressSpace, sc, outer

P == INSTANCE Printer WITH Inputs <- {BuildLayout(s) : s \in Statements}

\* What buildLayout makes of a statement is what the printer relies on.
ASSUME LayoutsWellFormed == \A s \in Statements : Len(s.toks) > 0 /\ P!WellFormed(BuildLayout(s))

\* Each token has the comments before it, and the end of input has the last ones.
ASSUME CommentsType ==
  \A s \in Statements : \A c \in CommentsOf(s) :
    c \in Seq(Seq(CommentRecord)) /\ Len(c) = Len(s.toks) + 1

printerVars == <<in, i, hint, b, starts, ends, prev, suppressSpace, sc, outer>>
vars == <<source, stmt, phase, cms, formatted, result, printerVars>>

Init ==
  /\ source \in {"sql", "graph", "malformed"}
  /\ stmt \in Statements
  /\ phase = "parse"
  /\ cms = <<>>
  /\ formatted = <<>>
  /\ result = "none"
  /\ in = BuildLayout(stmt)
  /\ P!Start

-----------------------------------------------------------------------------
Return(r) == phase' = "done" /\ result' = r

\* Mutant of Parse: the error of ParseStatement does not return.
ParseAnyway ==
  /\ phase = "parse"
  /\ CASE source = "malformed" -> phase' = "print" /\ result' = "syntax error"
       [] source = "graph"     -> Return("as written")
       [] source = "sql"       -> phase' = "print" /\ UNCHANGED result
  /\ UNCHANGED <<source, stmt, cms, formatted, printerVars>>

Parse ==
  /\ phase = "parse"
  /\ CASE source = "malformed" -> Return("syntax error")
       [] source = "graph"     -> Return("as written")
       [] source = "sql"       -> phase' = "print" /\ UNCHANGED result
  /\ UNCHANGED <<source, stmt, cms, formatted, printerVars>>

PrintToken ==
  /\ phase = "print"
  /\ P!Token
  /\ UNCHANGED <<source, stmt, phase, cms, formatted, result>>

\* The end of formatTokens.  The comments are chosen here, as nothing before
\* depends on them.
Place ==
  /\ phase = "print"
  /\ i > in.n
  /\ cms' \in CommentsOf(stmt)
  /\ formatted' = PlaceComments(b, in.kind, starts, ends, cms')
  /\ phase' = "verify"
  /\ UNCHANGED <<source, stmt, result, printerVars>>

\* verifyEquivalent: the formatted statement parses to the tree of the tokens
\* of the original, when these are the tokens in it.
Equivalent == Tokenize(formatted).toks = [k \in 1..in.n |-> k]

\* verifyComments
SameComments == CommentTexts(Tokenize(formatted).cms) = CommentTexts(cms)

Verify ==
  /\ phase = "verify"
  /\ Return(IF ~Equivalent THEN "meaning changed"
            ELSE IF ~SameComments THEN "comments changed"
            ELSE "formatted")
  /\ UNCHANGED <<source, stmt, cms, formatted, printerVars>>

\* The caller has the answer.
Done == phase = "done" /\ UNCHANGED vars

Next == Parse \/ PrintToken \/ Place \/ Verify \/ Done

Spec == Init /\ [][Next]_vars

-----------------------------------------------------------------------------
(***************************************************************************)
(* Properties.                                                             *)
(***************************************************************************)
TypeOK ==
  /\ source \in {"sql", "graph", "malformed"}
  /\ phase \in {"parse", "print", "verify", "done"}
  /\ result \in {"none", "syntax error", "as written", "meaning changed",
                 "comments changed", "formatted"}
  /\ result = "none" <=> phase # "done"
  /\ \A m \in DOMAIN formatted : formatted[m].k \in {"tok", "nl", "sp", "line", "block"}
  /\ Len(cms) \in {0, in.n + 1}
  /\ P!TypeOK

(***************************************************************************)
(* The errors "this is a fmt-sql bug" are never reported: no comment hides *)
(* a token or another comment, none is lost and none changes places.       *)
(***************************************************************************)
NeverReportsBug == result \notin {"meaning changed", "comments changed"}

(***************************************************************************)
(* Formatting a formatted statement again changes nothing, wherever its    *)
(* comments are.  The layout and the output of the printer depend on the   *)
(* tokens alone, so only the places of the comments could change.          *)
(***************************************************************************)
Idempotent ==
  result = "formatted" =>
    formatted = PlaceComments(b, in.kind, starts, ends, Tokenize(formatted).cms)

\* In b, the output without comments, a line starts with token k.
FirstOnLine(k) == k = in.n + 1 \/ (k > 1 /\ AtLineStart(b, starts[k]))

(***************************************************************************)
(* Before a token that starts a line, and at the end, a comment that       *)
(* follows a token stays on its line and one on its own line stays there.  *)
(***************************************************************************)
CommentsStay ==
  result = "formatted" =>
    LET after == Tokenize(formatted).cms
    IN  \A j \in 1..(in.n + 1) :
          FirstOnLine(j) =>
            \A k \in DOMAIN cms[j] : OnPrevLine(after[j], k) = OnPrevLine(cms[j], k)

(***************************************************************************)
(* docs/fmt-sql.md: "a comment on its own line stays on its own line".     *)
(***************************************************************************)
OwnLineKept ==
  result = "formatted" =>
    LET after == Tokenize(formatted).cms
    IN  \A j \in 2..(in.n + 1) : \A k \in DOMAIN cms[j] :
          cms[j][k].nl => after[j][k].nl \/ (k > 1 /\ cms[j][k - 1].line)

(***************************************************************************)
(* docs/fmt-sql.md: "Keywords normalized to uppercase".  The keywords of   *)
(* WITH OFFSET are two.                                                    *)
(***************************************************************************)
KeywordsUppercased ==
  result = "formatted" =>
    \A k \in NodesOf(stmt, {"WithOffset"}) :
      \A j \in Pos(stmt, k)..(End(stmt, k) - 1) : b[starts[j] + 1].up

-----------------------------------------------------------------------------
(* The layout against the tokens. *)

\* Every token layout.go looks for is found, and none has two roles of a kind.
RolesResolved == phase = "parse" => NoConflict(stmt)

Depth(k) == Cardinality({j \in 1..k : stmt.toks[j] = "("}) - Cardinality({j \in 1..(k - 1) : stmt.toks[j] = ")"})
Match(o) ==
  CHOOSE c \in (o + 1)..in.n : /\ stmt.toks[c] = ")" /\ Depth(c) = Depth(o)
                               /\ \A j \in (o + 1)..(c - 1) : ~(stmt.toks[j] = ")" /\ Depth(j) = Depth(o))
InnerWords(o, c) == {k \in (o + 1)..(c - 1) : Depth(k) = Depth(o)}

(***************************************************************************)
(* The parentheses of subqueries are those with a SELECT or set operator   *)
(* directly in them, and each is matched with its own ")".                 *)
(***************************************************************************)
SubqueriesAreParens ==
  phase = "parse" =>
    /\ DOMAIN in.subqueries =
         {o \in 1..in.n : stmt.toks[o] = "(" /\
            \E k \in InnerWords(o, Match(o)) : stmt.toks[k] \in {"SELECT", "UNION"}}
    /\ \A o \in DOMAIN in.subqueries : in.subqueries[o] = Match(o)

(***************************************************************************)
(* The AND and OR that start lines are those of a WHERE, ON or HAVING      *)
(* whose parentheses up to the clause are condition groups: never the AND  *)
(* of BETWEEN, of a call or of a CASE.                                     *)
(***************************************************************************)
Around(k) == {o \in 1..(k - 1) : stmt.toks[o] = "(" /\ k < Match(o)}
ClauseOf(k) ==
  {j \in DOMAIN in.clauseStarts : j < k /\ \A o \in Around(j) \cup {0} : o = 0 \/ o \in Around(k)}

CondOpsSeparate ==
  phase = "parse" => \A k \in in.condOps :
    LET clause == CHOOSE j \in ClauseOf(k) : \A x \in ClauseOf(k) : x <= j
        open(word) == Cardinality({j \in (clause + 1)..(k - 1) : stmt.toks[j] = word /\ Around(j) = Around(k)})
    IN  /\ stmt.toks[clause] \in {"WHERE", "ON", "HAVING"}
        /\ Around(k) \ Around(clause) \subseteq DOMAIN in.condGroups
        /\ open("CASE") = open("END")
        /\ stmt.toks[k] = "AND" =>
             open("BETWEEN") <= Cardinality({j \in (clause + 1)..(k - 1) :
                 stmt.toks[j] = "AND" /\ Around(j) = Around(k) /\ j \notin in.condOps})

=============================================================================
