------------------------------ MODULE Printer ------------------------------
(***************************************************************************)
(* formatter.go: formatTokens and the printer.                             *)
(*                                                                         *)
(* The printer goes over the tokens of a statement once.  The layout says  *)
(* what each token is; the printer writes it with the newlines and the     *)
(* indentation that role asks for, and keeps the open subqueries,          *)
(* condition groups and CASE expressions on stacks.  The output is a       *)
(* sequence of pieces: a token, a space, or a line break with the          *)
(* indentation of the line it starts.  Token indexes start at 1 and 0      *)
(* stands for the code's -1.                                               *)
(***************************************************************************)
EXTENDS Integers, Sequences, FiniteSets, Functions

CONSTANT Inputs     \* the layouts of statements, as Layout!BuildLayout makes them

VARIABLES
  in,               \* tokens and layout of the statement
  i,                \* the token to write next
  hint,             \* last token of the hint being written, or 0
  b,                \* the output
  starts, ends,     \* token k was written at b[starts[k]+1..ends[k]]
  prev,             \* the last written token
  suppressSpace,    \* the next token is written without a space
  sc,               \* the scope of the innermost open subquery
  outer             \* the scopes around it

vars == <<in, i, hint, b, starts, ends, prev, suppressSpace, sc, outer>>

Top(seq) == seq[Len(seq)]
Pop(seq) == SubSeq(seq, 1, Len(seq) - 1)

-----------------------------------------------------------------------------
(***************************************************************************)
(* What the parser and layout.go guarantee of a layout.  The bracketed     *)
(* parts of a statement (subqueries, condition groups, expanded CASE       *)
(* expressions and hints) are nested, a hint has no parts, and a WHEN or   *)
(* ELSE belongs to a CASE of the same scope.                               *)
(***************************************************************************)
SpansOf(f) == {<<o, f[o]>> : o \in DOMAIN f}

Spans(x) == SpansOf(x.subqueries) \cup SpansOf(x.condGroups)
            \cup SpansOf(x.caseEnd) \cup SpansOf(x.hints)

Nested(s, t) == s = t \/ s[2] < t[1] \/ t[2] < s[1]
                \/ (s[1] < t[1] /\ t[2] < s[2]) \/ (t[1] < s[1] /\ s[2] < t[2])

PartsNested(x) ==
  /\ \A s \in Spans(x) : s[1] \in 1..x.n /\ s[2] \in 1..x.n /\ s[1] < s[2]
  /\ \A s, t \in Spans(x) : Nested(s, t)
  /\ LET parts == <<x.subqueries, x.condGroups, x.caseEnd, x.hints>>
     IN  \A j, k \in 1..4 : j # k => DOMAIN parts[j] \cap DOMAIN parts[k] = {}

HintsFlat(x) ==
  \A h \in DOMAIN x.hints :
    \A k \in h..x.hints[h] :
      /\ k \notin DOMAIN x.cases
      /\ \A s \in Spans(x) : (k = s[1] \/ k = s[2]) => s = <<h, x.hints[h]>>

\* Token k is inside a span of f that was opened in the scope of k.
Within(x, f, k) ==
  \E o \in DOMAIN f :
    /\ o < k /\ k < f[o]
    /\ \A q \in DOMAIN x.subqueries : ~(o < q /\ q <= k /\ k <= x.subqueries[q])

CasesNested(x) ==
  /\ \A k \in DOMAIN x.cases : k \in DOMAIN x.caseEnd <=> x.cases[k] = "case"
  /\ \A k \in DOMAIN x.cases : k \in Range(x.caseEnd) <=> x.cases[k] = "end"
  /\ DOMAIN x.caseEnd \cup Range(x.caseEnd) \subseteq DOMAIN x.cases
  /\ \A k \in DOMAIN x.cases : x.cases[k] \in {"when", "else"} => Within(x, x.caseEnd, k)

LayoutType(x) ==
  /\ x.n \in Nat
  /\ DOMAIN x.kind = 1..x.n
  /\ x.reserved \subseteq 1..x.n
  /\ DOMAIN x.clauseStarts \cup DOMAIN x.clauseEnds \subseteq 1..x.n
  /\ DOMAIN x.cases \cup DOMAIN x.listSeps \cup x.condOps \subseteq 1..x.n
  /\ \A part \in Range(x.cases) : part \in {"case", "when", "else", "end"}
  /\ DOMAIN x.lastLine \subseteq 1..x.n
  /\ \A spaces \in Range(x.lastLine) : spaces \in Nat

(***************************************************************************)
(* Clauses, separators and operators.  No token has two roles.  They are   *)
(* not inside a CASE of their scope, and clauses and separators not inside *)
(* a group.  Parentheses and commas are what find looks for; in a hint, of *)
(* two tokens in a row one is a symbol, and the last is not a comma.  A    *)
(* literal with line breaks has no role, except to be in a hint.           *)
(***************************************************************************)
Symbol == {"(", ")", "[", "]", ",", ".", "@", "{", "}", "=", "+", "<", ">", ";"}

ClauseTokens(x) == DOMAIN x.clauseStarts \cup DOMAIN x.clauseEnds
EndsOf(f) == DOMAIN f \cup Range(f)
HintTokens(x) == UNION {h..x.hints[h] : h \in DOMAIN x.hints}

OneRole(x) ==
  LET roles == <<EndsOf(x.subqueries) \cup EndsOf(x.condGroups), DOMAIN x.cases,
                 DOMAIN x.listSeps, x.condOps, ClauseTokens(x), HintTokens(x)>>
  IN  \A j, k \in 1..6 : j # k => roles[j] \cap roles[k] = {}

LiteralsPlaced(x) ==
  DOMAIN x.lastLine
    \cap (EndsOf(x.subqueries) \cup EndsOf(x.condGroups) \cup DOMAIN x.cases
            \cup DOMAIN x.listSeps \cup x.condOps \cup ClauseTokens(x)) = {}

RolesPlaced(x) ==
  /\ \A k \in ClauseTokens(x) \cup DOMAIN x.listSeps \cup x.condOps \cup DOMAIN x.condGroups :
       ~Within(x, x.caseEnd, k)
  /\ \A k \in ClauseTokens(x) \cup DOMAIN x.listSeps : ~Within(x, x.condGroups, k)

SymbolsPlaced(x) ==
  /\ \A k \in DOMAIN x.subqueries \cup DOMAIN x.listSeps : x.kind[k] \in Symbol
  /\ \A h \in DOMAIN x.hints :
       /\ x.kind[h] \in Symbol /\ x.kind[x.hints[h]] # ","
       /\ \A k \in h..(x.hints[h] - 1) : x.kind[k] \in Symbol \/ x.kind[k + 1] \in Symbol

(***************************************************************************)
(* Bodies are not empty: after the keywords of a clause, a separator or    *)
(* the "(" of a group comes no clause, operator, closing token or further  *)
(* part of a CASE.  A subquery starts with a clause or with a subquery.    *)
(* A group, and a CASE that is not in another one, are in the body of a    *)
(* clause of their scope.                                                  *)
(***************************************************************************)
BodyBreaks(x) ==
  {k \in DOMAIN x.clauseEnds : x.clauseEnds[k] = "block"}
  \cup {k \in DOMAIN x.listSeps : x.listSeps[k] # "cte"}

BreaksAfter(x) == BodyBreaks(x) \cup DOMAIN x.listSeps \cup DOMAIN x.condGroups

BodiesStart(x) ==
  /\ \A k \in BreaksAfter(x) :
       /\ k + 1 \notin x.condOps \cup DOMAIN x.clauseStarts
                       \cup Range(x.subqueries) \cup Range(x.condGroups)
       /\ k + 1 \in DOMAIN x.cases => x.cases[k + 1] = "case"
  /\ \A q \in DOMAIN x.subqueries : q + 1 \in DOMAIN x.clauseStarts \cup DOMAIN x.subqueries

SameScope(x, j, k) ==
  \A q \in DOMAIN x.subqueries :
    (q < j /\ j <= x.subqueries[q]) <=> (q < k /\ k <= x.subqueries[q])

InBody(x, k) ==
  \E j \in BodyBreaks(x) :
    /\ j < k /\ SameScope(x, j, k)
    /\ \A c \in DOMAIN x.clauseStarts \cup (DOMAIN x.listSeps \ BodyBreaks(x)) :
         j < c /\ c < k => ~SameScope(x, c, k)

InBodies(x) ==
  /\ \A k \in DOMAIN x.condGroups : InBody(x, k)
  /\ \A k \in DOMAIN x.caseEnd : Within(x, x.caseEnd, k) \/ InBody(x, k)

WellFormed(x) ==
  /\ LayoutType(x) /\ PartsNested(x) /\ HintsFlat(x) /\ CasesNested(x)
  /\ OneRole(x) /\ LiteralsPlaced(x) /\ RolesPlaced(x) /\ SymbolsPlaced(x) /\ BodiesStart(x) /\ InBodies(x)

ASSUME InputsWellFormed == \A x \in Inputs : WellFormed(x)

-----------------------------------------------------------------------------
(* Output. *)

\* last: the leading spaces of the last line of a token with line breaks, or -1.
Tok(k, up) == [k |-> "tok", v |-> k, up |-> up,
               last |-> IF k \in DOMAIN in.lastLine THEN in.lastLine[k] ELSE -1]
Nl(indent) == [k |-> "nl", v |-> indent, up |-> FALSE, last |-> -1]
Sp         == [k |-> "sp", v |-> 0, up |-> FALSE, last |-> -1]

\* The last piece with a line break in it, or 0.
BreaksLine(piece) == piece.k = "nl" \/ piece.last >= 0
LastBreakAt(out) ==
  LET breaks == {m \in 1..Len(out) : BreaksLine(out[m])}
  IN  IF breaks = {} THEN 0 ELSE CHOOSE m \in breaks : \A x \in breaks : x <= m

\* lineIndent: the line can start inside of a literal.  A space never follows
\* a line break (Separated).
LineIndent(out) ==
  IF LastBreakAt(out) = 0 THEN 0
  ELSE LET piece == out[LastBreakAt(out)]
       IN  IF piece.k = "nl" THEN piece.v ELSE piece.last

NoSpaceBefore == {".", ",", ")", "]", ";"}
NoSpaceAfter == {".", "(", "["}
FuncKeywords == {"CAST", "EXTRACT", "ARRAY", "STRUCT", "UNNEST", "IF"}

NeedsSpace(p, c) ==
  /\ p \notin NoSpaceAfter
  /\ c \notin NoSpaceBefore
  /\ ~(c = "(" /\ p \in {"ident"} \cup FuncKeywords)
  /\ ~(c = "@" /\ p = "ident")
  /\ ~(c = "[" /\ p \in {"ident", "param", ")", "]"})

\* Mutant of Space: with prev off by one.
SpaceAfterFirst == IF ~suppressSpace /\ prev > 1 /\ NeedsSpace(in.kind[prev], in.kind[i])
                   THEN <<Sp>> ELSE <<>>

\* space: the space before token i, if it needs one.
Space == IF ~suppressSpace /\ prev > 0 /\ NeedsSpace(in.kind[prev], in.kind[i])
         THEN <<Sp>> ELSE <<>>

\* upper: keywords are written in upper case, other tokens as they are.
Upper(k) == Tok(k, k \in in.reserved \cup in.keywords)

\* Mutant of Write: the start is taken before the space.
WriteFromSpace(lead, text, trail) ==
  /\ b' = b \o lead \o text \o trail
  /\ starts' = [starts EXCEPT ![i] = Len(b)]
  /\ ends' = [ends EXCEPT ![i] = Len(b) + Len(lead) + Len(text)]
  /\ prev' = i
  /\ suppressSpace' = (trail # <<>>)
  /\ i' = i + 1

\* write of token i, after the pieces lead and before the pieces trail.
Write(lead, text, trail) ==
  /\ b' = b \o lead \o text \o trail
  /\ starts' = [starts EXCEPT ![i] = Len(b) + Len(lead)]
  /\ ends' = [ends EXCEPT ![i] = Len(b) + Len(lead) + Len(text)]
  /\ prev' = i
  /\ suppressSpace' = (trail # <<>>)
  /\ i' = i + 1

-----------------------------------------------------------------------------
(* Scopes.  The code has neither open nor caseEnds: they are history, the   *)
(* index of the "(" and the indexes of the END of the open cases.          *)

Scope(open, close, indent) ==
  [open |-> open, close |-> close, clauseIndent |-> indent,
   condGroups |-> <<>>, cases |-> <<>>, caseEnds |-> <<>>]

BodyIndent(s) == s.clauseIndent + 2
CondIndent(s) == BodyIndent(s) + 2 * Len(s.condGroups)

(***************************************************************************)
(* The role of token i, in the order token tests for it.                   *)
(***************************************************************************)
Role ==
  IF i \in DOMAIN in.hints THEN "hint"
  ELSE IF i \in DOMAIN in.subqueries THEN "openSubquery"
  ELSE IF i \in DOMAIN in.condGroups THEN "openCondGroup"
  ELSE IF i = sc.close THEN "closeSubquery"
  ELSE IF sc.condGroups # <<>> /\ i = Top(sc.condGroups) THEN "closeCondGroup"
  ELSE IF i \in DOMAIN in.cases THEN in.cases[i]
  ELSE IF i \in DOMAIN in.listSeps THEN "listSep"
  ELSE IF i \in in.condOps THEN "condOp"
  ELSE "plain"

\* The printer is at a token with this role, outside the loop over a hint.
At(role) == hint = 0 /\ i <= in.n /\ Role = role

Start ==
  /\ i = 1
  /\ hint = 0
  /\ b = <<>>
  /\ starts = [k \in 1..in.n |-> 0]
  /\ ends = [k \in 1..in.n |-> 0]
  /\ prev = 0
  /\ suppressSpace = FALSE
  /\ sc = Scope(0, 0, 0)
  /\ outer = <<>>

Init == in \in Inputs /\ Start

-----------------------------------------------------------------------------
\* Mutant of StartHint: the loop goes one token too far.
StartHintPastEnd ==
  /\ At("hint")
  /\ b' = b \o Space
  /\ hint' = in.hints[i] + 1
  /\ UNCHANGED <<in, i, starts, ends, prev, suppressSpace, sc, outer>>

\* hint, before its loop.
StartHint ==
  /\ At("hint")
  /\ b' = b \o Space
  /\ hint' = in.hints[i]
  /\ UNCHANGED <<in, i, starts, ends, prev, suppressSpace, sc, outer>>

\* One iteration of the loop of hint.
HintToken ==
  /\ hint # 0
  /\ Write(<<>>, IF in.kind[i] = "," THEN <<Tok(i, FALSE), Sp>> ELSE <<Tok(i, FALSE)>>, <<>>)
  /\ hint' = IF i = hint THEN 0 ELSE hint
  /\ UNCHANGED <<in, sc, outer>>

OpenSubquery ==
  /\ At("openSubquery")
  /\ LET lead == IF prev \in DOMAIN in.subqueries THEN <<Nl(sc.clauseIndent)>> ELSE Space
     IN  /\ b' = b \o lead \o <<Tok(i, FALSE)>>
         /\ starts' = [starts EXCEPT ![i] = Len(b) + Len(lead)]
         /\ ends' = [ends EXCEPT ![i] = Len(b) + Len(lead) + 1]
  /\ prev' = i
  /\ i' = i + 1
  /\ outer' = Append(outer, sc)
  /\ sc' = Scope(i, in.subqueries[i], LineIndent(b') + 2)
  /\ suppressSpace' = TRUE
  /\ UNCHANGED <<in, hint>>

CloseSubquery ==
  /\ At("closeSubquery")
  /\ Write(<<Nl(sc.clauseIndent - 2)>>, <<Tok(i, FALSE)>>, <<>>)
  /\ sc' = Top(outer)
  /\ outer' = Pop(outer)
  /\ UNCHANGED <<in, hint>>

\* Mutant of OpenCondGroup: the indentation is taken before the group is pushed.
OpenCondGroupLate ==
  /\ At("openCondGroup")
  /\ sc' = [sc EXCEPT !.condGroups = Append(@, in.condGroups[i])]
  /\ Write(Space, <<Tok(i, FALSE)>>, <<Nl(CondIndent(sc))>>)
  /\ UNCHANGED <<in, hint, outer>>

OpenCondGroup ==
  /\ At("openCondGroup")
  /\ sc' = [sc EXCEPT !.condGroups = Append(@, in.condGroups[i])]
  /\ Write(Space, <<Tok(i, FALSE)>>, <<Nl(CondIndent(sc'))>>)
  /\ UNCHANGED <<in, hint, outer>>

\* Mutants of CloseCondGroup: the indentation is taken before the group is
\* popped; the group is not popped.
CloseCondGroupLate ==
  /\ At("closeCondGroup")
  /\ sc' = [sc EXCEPT !.condGroups = Pop(@)]
  /\ Write(<<Nl(CondIndent(sc))>>, <<Tok(i, FALSE)>>, <<>>)
  /\ UNCHANGED <<in, hint, outer>>

CloseCondGroupKeep ==
  /\ At("closeCondGroup")
  /\ Write(<<Nl(CondIndent(sc) - 2)>>, <<Tok(i, FALSE)>>, <<>>)
  /\ UNCHANGED <<in, hint, sc, outer>>

CloseCondGroup ==
  /\ At("closeCondGroup")
  /\ sc' = [sc EXCEPT !.condGroups = Pop(@)]
  /\ Write(<<Nl(CondIndent(sc'))>>, <<Tok(i, FALSE)>>, <<>>)
  /\ UNCHANGED <<in, hint, outer>>

(***************************************************************************)
(* casePart.  A nested CASE starts on its own line.  A WHEN, ELSE or END   *)
(* with no open CASE would panic: it has no step.                          *)
(***************************************************************************)
CaseIndent == Top(sc.cases)

OpenCase ==
  /\ At("case")
  /\ LET nested == sc.cases # <<>>
         indent == IF nested THEN CaseIndent + 4 ELSE CondIndent(sc)
     IN  /\ sc' = [sc EXCEPT !.cases = Append(@, indent), !.caseEnds = Append(@, in.caseEnd[i])]
         /\ Write(IF nested THEN <<Nl(indent)>> ELSE Space, <<Upper(i)>>, <<>>)
  /\ UNCHANGED <<in, hint, outer>>

CaseBranch ==
  /\ At("when") \/ At("else")
  /\ sc.cases # <<>>
  /\ Write(<<Nl(CaseIndent + 2)>>, <<Upper(i)>>, <<>>)
  /\ UNCHANGED <<in, hint, sc, outer>>

\* Mutant of CloseCase: the stack is cut to its start.
CloseCaseAll ==
  /\ At("end")
  /\ sc.cases # <<>>
  /\ sc' = [sc EXCEPT !.cases = <<>>, !.caseEnds = <<>>]
  /\ Write(<<Nl(CaseIndent)>>, <<Upper(i)>>, <<>>)
  /\ UNCHANGED <<in, hint, outer>>

CloseCase ==
  /\ At("end")
  /\ sc.cases # <<>>
  /\ sc' = [sc EXCEPT !.cases = Pop(@), !.caseEnds = Pop(@)]
  /\ Write(<<Nl(CaseIndent)>>, <<Upper(i)>>, <<>>)
  /\ UNCHANGED <<in, hint, outer>>

-----------------------------------------------------------------------------
ListSep ==
  /\ At("listSep")
  /\ Write(<<>>, <<Tok(i, FALSE)>>,
           <<Nl(IF in.listSeps[i] = "cte" THEN sc.clauseIndent ELSE BodyIndent(sc))>>)
  /\ UNCHANGED <<in, hint, sc, outer>>

CondOp ==
  /\ At("condOp")
  /\ Write(<<Nl(CondIndent(sc))>>, <<Upper(i)>>, <<>>)
  /\ UNCHANGED <<in, hint, sc, outer>>

\* A token in a clause: a set operator has a blank line before it, a clause
\* starts a line and the body of a block clause starts another.
Plain ==
  /\ At("plain")
  /\ LET starting == i \in DOMAIN in.clauseStarts
         setOp == starting /\ in.clauseStarts[i] = "setop"
         lead == IF ~starting THEN Space
                 ELSE IF setOp THEN <<Nl(0), Nl(sc.clauseIndent)>>
                 ELSE IF b # <<>> THEN <<Nl(sc.clauseIndent)>>
                 ELSE <<>>
         block == i \in DOMAIN in.clauseEnds /\ in.clauseEnds[i] = "block"
     IN  Write(lead, <<Upper(i)>>, IF block THEN <<Nl(BodyIndent(sc))>> ELSE <<>>)
  /\ UNCHANGED <<in, hint, sc, outer>>

Token ==
  \/ StartHint \/ HintToken
  \/ OpenSubquery \/ CloseSubquery
  \/ OpenCondGroup \/ CloseCondGroup
  \/ OpenCase \/ CaseBranch \/ CloseCase
  \/ ListSep \/ CondOp \/ Plain

Spec == Init /\ [][Token]_vars

-----------------------------------------------------------------------------
(***************************************************************************)
(* Properties.                                                             *)
(***************************************************************************)
Piece == [k : {"tok"}, v : Nat, up : BOOLEAN, last : Nat \cup {-1}]
         \cup [k : {"nl"}, v : Int, up : {FALSE}, last : {-1}]
         \cup [k : {"sp"}, v : {0}, up : {FALSE}, last : {-1}]

Scopes ==
  [open : Nat, close : Nat, clauseIndent : Int,
   condGroups : Seq(Nat), cases : Seq(Int), caseEnds : Seq(Nat)]

\* The state of the printer between two calls of token (token in formatter.go).
TypeOK ==
  /\ LayoutType(in)
  /\ i \in 1..(in.n + 1)
  /\ hint \in 0..in.n
  /\ b \in Seq(Piece)
  /\ starts \in [1..in.n -> Nat]
  /\ ends \in [1..in.n -> Nat]
  /\ prev \in 0..in.n
  /\ suppressSpace \in BOOLEAN
  /\ sc \in Scopes
  /\ outer \in Seq(Scopes)

(***************************************************************************)
(* The output has every token written so far exactly once, in order, and   *)
(* starts and ends say where, which placeComments relies on.               *)
(***************************************************************************)
WrittenOnce ==
  /\ \A k \in 1..(i - 1) :
       /\ starts[k] < ends[k] /\ ends[k] <= Len(b)
       /\ b[starts[k] + 1].k = "tok" /\ b[starts[k] + 1].v = k
       /\ k > 1 => ends[k - 1] <= starts[k]
  /\ \A m \in 1..Len(b) :
       b[m].k = "tok" => b[m].v \in 1..(i - 1) /\ m = starts[b[m].v] + 1

(***************************************************************************)
(* The stacks of the printer are the parts of the statement that are open  *)
(* at token i: the scopes are the open subqueries, outermost first, and    *)
(* each has the groups and CASE expressions opened in it, innermost last.  *)
(***************************************************************************)
OpenAt(f, o, p) == o < p /\ p <= f[o]

\* Level k of n is the scope of the subquery that opens at O[k] and closes at E[k];
\* level 1 is the statement.
ScopesOpen(f, O, E, n, p) ==
  /\ O[1] = 0 /\ E[1] = 0
  /\ \A k \in 2..n : O[k] \in DOMAIN f /\ E[k] = f[O[k]] /\ OpenAt(f, O[k], p)
  /\ \A k, l \in 1..n : k < l => O[k] < O[l]
  /\ \A o \in DOMAIN f : OpenAt(f, o, p) => \E k \in 2..n : O[k] = o

\* Level k of n starts at O[k] and has the stack C[k] of closers: at p, those of
\* the open spans of f that start at that level.
Closers(f, C, O, n, p) ==
  \A k \in 1..n : \A m \in 1..Len(C[k]) :
    \E o \in DOMAIN f :
      f[o] = C[k][m] /\ O[k] < o /\ (k < n => o < O[k + 1]) /\ OpenAt(f, o, p)

Decreasing(C, n) == \A k \in 1..n : \A m, x \in 1..Len(C[k]) : m < x => C[k][x] < C[k][m]

AllOpen(f, C, n, p) ==
  \A o \in DOMAIN f : OpenAt(f, o, p) => \E k \in 1..n : \E m \in 1..Len(C[k]) : C[k][m] = f[o]

Tracked(f, C, O, n, p) == Closers(f, C, O, n, p) /\ Decreasing(C, n) /\ AllOpen(f, C, n, p)

Stack == Append(outer, sc)
Opens == [k \in DOMAIN Stack |-> Stack[k].open]
Closes == [k \in DOMAIN Stack |-> Stack[k].close]
GroupStacks == [k \in DOMAIN Stack |-> Stack[k].condGroups]
CaseStacks == [k \in DOMAIN Stack |-> Stack[k].caseEnds]

StacksMatch ==
  /\ ScopesOpen(in.subqueries, Opens, Closes, Len(Stack), i)
  /\ Tracked(in.condGroups, GroupStacks, Opens, Len(Stack), i)
  /\ Tracked(in.caseEnd, CaseStacks, Opens, Len(Stack), i)
  /\ \A k \in DOMAIN Stack : Len(Stack[k].cases) = Len(Stack[k].caseEnds)

\* The parts of a CASE find it on the stack, and a ")" finds the scope around
\* its subquery: token never reads before the start of a stack, a panic.
NoPanic ==
  /\ (\E part \in {"when", "else", "end"} : At(part)) => sc.cases # <<>>
  /\ At("closeSubquery") => outer # <<>>

\* Every subquery, condition group and CASE is closed at the end.
AllClosed ==
  i > in.n => outer = <<>> /\ sc.close = 0 /\ sc.condGroups = <<>> /\ sc.cases = <<>>

-----------------------------------------------------------------------------
(* The shape of the output. *)

IndentAt(k) == LineIndent(SubSeq(b, 1, starts[k]))
StartsLine(k) == starts[k] > 0 /\ b[starts[k]].k = "nl"
Bracketed == SpansOf(in.subqueries) \cup SpansOf(in.condGroups) \cup SpansOf(in.caseEnd)

(***************************************************************************)
(* A literal with line breaks moves the start of its line, on which the    *)
(* code goes on: what opens there is laid out in columns that do not fit   *)
(* that line.  Token k is on its own line when, in its scope, the printer  *)
(* started one after the last such literal.                                *)
(***************************************************************************)
StartLines(x) == BodyBreaks(x) \cup x.condOps \cup EndsOf(x.condGroups)

OnOwnLine(x, k) ==
  \A j \in DOMAIN x.lastLine :
    j < k /\ SameScope(x, j, k) =>
      \E c \in StartLines(x) : j < c /\ c < k /\ SameScope(x, c, k)

\* A subquery is laid out from its line whatever that line is.
Steady(s) == s \in SpansOf(in.subqueries) \/ OnOwnLine(in, s[1])

(***************************************************************************)
(* The token that closes a subquery, a condition group or a CASE starts a  *)
(* line, with the indentation of the line of the token that opened it; for *)
(* a group or a CASE, if no literal moved that line.                       *)
(***************************************************************************)
CloseAligned ==
  \A s \in Bracketed :
    s[2] < i => StartsLine(s[2]) /\ (Steady(s) => IndentAt(s[2]) = IndentAt(s[1]))

\* A line break before a set operator is doubled.
BlankLine(m) ==
  /\ b[m].k = "nl" /\ b[m].v = 0 /\ m + 2 <= Len(b)
  /\ b[m + 1].k = "nl" /\ b[m + 2].k = "tok"
  /\ LET k == b[m + 2].v
     IN  k \in DOMAIN in.clauseStarts /\ in.clauseStarts[k] = "setop"

\* Token k is in the operand of the CASE o, before its first WHEN.
InOperand(o, k) ==
  o \in DOMAIN in.caseEnd /\ \A j \in DOMAIN in.cases : o < j /\ j <= k => ~SameScope(in, o, j)

(***************************************************************************)
(* The lines between the tokens that open and close a subquery, a group or *)
(* a CASE are at least one level deeper than those two, if no literal in   *)
(* between has line breaks.  The operand of a CASE stays on its line, so a *)
(* subquery in it closes at the same level.                                *)
(***************************************************************************)
BodyDeeper ==
  \A s \in Bracketed :
    s[2] < i /\ Steady(s) /\ (s[1]..s[2]) \cap DOMAIN in.lastLine = {} =>
      \A m \in (starts[s[1]] + 1)..(starts[s[2]] - 1) :
        b[m].k = "nl" =>
          \/ b[m].v >= IndentAt(s[1]) + 2 \/ BlankLine(m)
          \/ b[m].v = IndentAt(s[1]) /\ InOperand(s[1], b[m + 1].v)

(***************************************************************************)
(* What is between two tokens: one space, line breaks, or nothing, but not *)
(* nothing between two words, which the lexer would read as one token, and *)
(* no space next to a line break, which would move what follows it.  The   *)
(* only blank lines are those before set operators.                        *)
(***************************************************************************)
Separated ==
  \A m \in 1..(Len(b) - 1) :
    /\ b[m].k = "tok" /\ b[m + 1].k = "tok" =>
         in.kind[b[m].v] \in Symbol \/ in.kind[b[m + 1].v] \in Symbol
    /\ b[m].k = "nl" => b[m + 1].k # "sp"
    /\ b[m].k = "sp" => b[m + 1].k = "tok"
    /\ b[m].k = "nl" /\ b[m + 1].k = "nl" => BlankLine(m)

=============================================================================
