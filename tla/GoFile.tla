------------------------------- MODULE GoFile -------------------------------
(***************************************************************************)
(* fmt.go: formatGoFile, and the part of spannerutil.go it uses.           *)
(*                                                                         *)
(* The SQL fields of a Go file are collected, formatted one after the      *)
(* other and written back as new literals between copies of the rest of    *)
(* the file.  FormatSQL is a function here.                                *)
(***************************************************************************)
EXTENDS GoSource

CONSTANTS
  Files,            \* Go sources
  Texts,            \* SQL texts
  FormatSQL,        \* the formatted text, or FormatError
  FormatError

VARIABLES
  file,             \* the source
  pc,               \* what formatGoFile does next
  node,             \* ast.Inspect has visited the literals up to this cell
  values,           \* the values of the SQL fields, as [from, to]
  k,                \* the next of them, or the next of fields
  errs,             \* values that are no string literals or have a comment
  fields,           \* the other values
  syntaxErrors,     \* fields that FormatSQL rejects
  text,             \* sqlFieldExpr: what the new expression evaluates to
  at,               \* what of it is left: text[at..]
  parts,            \* the literals so far: text[from..(to-1)], raw or quoted
  segs,             \* the output: copies of file[from..(to-1)], and what
                    \* replaces it
  prev,             \* what of file is left: file[prev..]
  result,           \* what formatGoFile returned
  out               \* the new source

expr == <<text, at, parts>>
collected == <<node, values, errs, fields>>
output == <<segs, prev, result, out>>
vars == <<file, pc, k, syntaxErrors, collected, expr, output>>

-----------------------------------------------------------------------------
(* spannerutil.go *)

SpannerPath == "cloud.google.com/go/spanner"

\* spannerLocalName: the name of the first import of the package, or "".
SpannerLocalName(c) ==
  LET imports == {i \in DOMAIN c : c[i].k = "import" /\ c[i].v = SpannerPath}
  IN  IF imports = {} THEN ""
      ELSE IF c[FirstOf(imports)].w # "" THEN c[FirstOf(imports)].w
      ELSE "spanner"

\* spannerStatementLit
SpannerStatementLit(c, i) ==
  c[i].k = "open" /\ c[i].w = "Statement" /\ c[i].v = SpannerLocalName(c)

\* concatStringLits succeeds, and its result.
IsConcat(c, v) == \A i \in v.from..(v.to - 1) : c[i].k \in {"lit", "plus", "comment"}
ConcatStringLits(c, v) ==
  FlattenSeq([m \in 1..(v.to - v.from) |->
    IF c[v.from + m - 1].k = "lit" THEN Unquote(c[v.from + m - 1]) ELSE <<>>])

-----------------------------------------------------------------------------
\* commentInExpr
CommentInExpr(c, v) == \E i \in v.from..(v.to - 1) : c[i].k = "comment"

\* The SQL values of the literal at cell i, in order.
SQLValues(c, i) ==
  LET keys == {j \in KeysOf(c, i) : c[j].v = "SQL"}
      Nth(m) == CHOOSE j \in keys : Cardinality({x \in keys : x <= j}) = m
  IN  [m \in 1..Cardinality(keys) |-> ValueOf(c, Nth(m))]

AllValues(c) ==
  UNION {Range(SQLValues(c, i)) : i \in {i \in DOMAIN c : SpannerStatementLit(c, i)}}

\* strings.TrimSpace
Ink(t) == {m \in DOMAIN t : t[m] \notin {"nl", "cr"}}
TrimSpace(t) ==
  SubSeq(t, IF Ink(t) = {} THEN 1 ELSE FirstOf(Ink(t)),
            IF Ink(t) = {} THEN 0 ELSE LastOf(Ink(t)))

FieldText(c, v) == TrimSpace(ConcatStringLits(c, v))
InNewlines(t) == <<"nl">> \o t \o <<"nl">>

\* A selector has a package; the values of two fields are nested or apart, and what
\* is nested in a value is in a literal, so that the value is no string literal.
WellFormed(c) ==
  /\ \A i \in DOMAIN c : c[i].k = "open" /\ c[i].w # "" => c[i].v # ""
  /\ \A v \in AllValues(c) :
       /\ v \in [from : 1..Len(c), to : 1..Len(c)] /\ v.from < v.to
       /\ IsConcat(c, v) => FieldText(c, v) \in Texts
  /\ \A u, v \in AllValues(c) :
       /\ u.from = v.from => u = v
       /\ u.from < v.from => u.to <= v.from \/ ~IsConcat(c, u)

ASSUME FilesWellFormed == \A c \in Files : c \in Seq(Range(c)) /\ WellFormed(c)

ASSUME FormatSQLType ==
  /\ Texts \subseteq Seq(Char) /\ FormatError \notin Texts
  /\ FormatSQL \in [Texts -> Texts \cup {FormatError}]

-----------------------------------------------------------------------------
Init ==
  /\ file \in Files
  /\ pc = "parse"
  /\ node = 0 /\ values = <<>> /\ errs = <<>> /\ fields = <<>>
  /\ k = 1
  /\ syntaxErrors = <<>>
  /\ text = <<>> /\ at = 1 /\ parts = <<>>
  /\ segs = <<>> /\ prev = 1
  /\ result = "none" /\ out = <<>>

Return(r, c) == pc' = "done" /\ result' = r /\ out' = c
Continue(next) == pc' = next /\ UNCHANGED <<result, out>>

Parse ==
  /\ pc = "parse"
  /\ IF \E i \in DOMAIN file : file[i].k = "bad" THEN Return("error", <<>>)
     ELSE IF SpannerLocalName(file) = "" THEN Return("ok", file)
     ELSE Continue("inspect")
  /\ UNCHANGED <<file, k, syntaxErrors, collected, expr, segs, prev>>

(***************************************************************************)
(* collectSpannerSQLFields.  ast.Inspect visits a literal before those in  *)
(* it, so that the values are not in the order of the file.                *)
(***************************************************************************)
Inspect ==
  /\ pc = "inspect"
  /\ LET rest == {i \in (node + 1)..Len(file) : file[i].k = "open"}
     IN  IF rest = {} THEN Continue("sort") /\ UNCHANGED <<node, values>>
         ELSE /\ node' = FirstOf(rest)
              /\ values' = values \o (IF SpannerStatementLit(file, node')
                                        THEN SQLValues(file, node') ELSE <<>>)
              /\ UNCHANGED <<pc, result, out>>
  /\ UNCHANGED <<file, k, syntaxErrors, errs, fields, expr, segs, prev>>

Ascending(vs) == \A m, x \in DOMAIN vs : m < x => vs[m].from < vs[x].from

\* Mutant of Sort: the values stay in the order they were visited in.
SortNot ==
  /\ pc = "sort"
  /\ Continue("collect")
  /\ UNCHANGED <<file, k, syntaxErrors, collected, expr, segs, prev>>

Sort ==
  /\ pc = "sort"
  /\ \E vs \in [DOMAIN values -> Range(values)] :
       Range(vs) = Range(values) /\ Ascending(vs) /\ values' = vs
  /\ Continue("collect")
  /\ UNCHANGED <<file, k, syntaxErrors, node, errs, fields, expr, segs, prev>>

\* Mutant of Accepted: comments are not looked for.
AcceptedComment(v) == IsConcat(file, v)

Accepted(v) == IsConcat(file, v) /\ ~CommentInExpr(file, v)

Collect ==
  /\ pc = "collect" /\ k <= Len(values)
  /\ IF Accepted(values[k])
       THEN fields' = Append(fields, values[k]) /\ UNCHANGED errs
       ELSE errs' = Append(errs, values[k]) /\ UNCHANGED fields
  /\ k' = k + 1
  /\ UNCHANGED <<file, pc, syntaxErrors, node, values, expr, output>>

\* Mutant of Collected: the loop over the fields starts where this one ended.
CollectedKeep ==
  /\ pc = "collect" /\ k > Len(values)
  /\ IF errs # <<>> THEN Return("error", <<>>)
     ELSE IF fields = <<>> THEN Return("ok", file)
     ELSE Continue("field")
  /\ UNCHANGED <<file, k, syntaxErrors, collected, expr, segs, prev>>

Collected ==
  /\ pc = "collect" /\ k > Len(values)
  /\ IF errs # <<>> THEN Return("error", <<>>)
     ELSE IF fields = <<>> THEN Return("ok", file)
     ELSE Continue("field")
  /\ k' = 1
  /\ UNCHANGED <<file, syntaxErrors, collected, expr, segs, prev>>

-----------------------------------------------------------------------------
(* The loop over the fields. *)

Formatted == FormatSQL[FieldText(file, fields[k])]

\* Mutant of FormatField: the text is not trimmed.
FormatFieldUntrimmed ==
  /\ pc = "field" /\ k <= Len(fields)
  /\ LET formatted == FormatSQL[ConcatStringLits(file, fields[k])]
     IN  IF formatted = FormatError
           THEN /\ syntaxErrors' = Append(syntaxErrors, fields[k])
                /\ k' = k + 1
                /\ UNCHANGED <<pc, expr>>
           ELSE /\ text' = InNewlines(formatted) /\ at' = 1 /\ parts' = <<>>
                /\ pc' = "cut"
                /\ UNCHANGED <<k, syntaxErrors>>
  /\ UNCHANGED <<file, collected, output>>

\* Mutant of FormatField: the loop of sqlFieldExpr goes on where it ended.
FormatFieldKeep ==
  /\ pc = "field" /\ k <= Len(fields)
  /\ IF Formatted = FormatError
       THEN /\ syntaxErrors' = Append(syntaxErrors, fields[k])
            /\ k' = k + 1
            /\ UNCHANGED <<pc, expr>>
       ELSE /\ text' = InNewlines(Formatted) /\ parts' = <<>>
            /\ pc' = "cut"
            /\ UNCHANGED <<k, syntaxErrors, at>>
  /\ UNCHANGED <<file, collected, output>>

FormatField ==
  /\ pc = "field" /\ k <= Len(fields)
  /\ IF Formatted = FormatError
       THEN /\ syntaxErrors' = Append(syntaxErrors, fields[k])
            /\ k' = k + 1
            /\ UNCHANGED <<pc, expr>>
       ELSE /\ text' = InNewlines(Formatted) /\ at' = 1 /\ parts' = <<>>
            /\ pc' = "cut"
            /\ UNCHANGED <<k, syntaxErrors>>
  /\ UNCHANGED <<file, collected, output>>

(***************************************************************************)
(* sqlFieldExpr: one round of its loop.  indexNotRaw finds the next        *)
(* character that a raw string cannot hold; a quoted identifier is written *)
(* as one literal.                                                         *)
(***************************************************************************)
\* Mutant of NotRaw: only backticks are looked for.
NotRawTick == {"tick"}

NotRaw == {"tick", "cr", "nul"}
Hits == {m \in at..Len(text) : text[m] \in NotRaw}

\* The quoted literal that starts at m ends before this.
QuotedEnd(m) ==
  LET stops == {x \in (m + 1)..Len(text) : text[x] \in {"tick", "nl"}}
  IN  IF text[m] = "tick" /\ stops # {} /\ text[FirstOf(stops)] = "tick"
        THEN FirstOf(stops) + 1 ELSE m + 1

Part(kind, from, to) == [kind |-> kind, from |-> from, to |-> to]

\* Mutants of CutNext: a backtick alone is written as an empty literal; the text
\* before the character is lost at the start of the rest.
CutNextEmpty ==
  /\ pc = "cut" /\ Hits # {}
  /\ LET i == FirstOf(Hits)
         end == IF QuotedEnd(i) = i + 1 THEN i ELSE QuotedEnd(i)
     IN  /\ parts' = parts \o (IF i > at THEN <<Part("raw", at, i)>> ELSE <<>>)
                           \o <<Part("quoted", i, end)>>
         /\ at' = end
  /\ UNCHANGED <<file, pc, k, syntaxErrors, collected, text, output>>

CutNextSkip ==
  /\ pc = "cut" /\ Hits # {}
  /\ LET i == FirstOf(Hits)
     IN  /\ parts' = parts \o (IF i > at + 1 THEN <<Part("raw", at, i)>> ELSE <<>>)
                           \o <<Part("quoted", i, QuotedEnd(i))>>
         /\ at' = QuotedEnd(i)
  /\ UNCHANGED <<file, pc, k, syntaxErrors, collected, text, output>>

CutNext ==
  /\ pc = "cut" /\ Hits # {}
  /\ LET i == FirstOf(Hits)
     IN  /\ parts' = parts \o (IF i > at THEN <<Part("raw", at, i)>> ELSE <<>>)
                           \o <<Part("quoted", i, QuotedEnd(i))>>
         /\ at' = QuotedEnd(i)
  /\ UNCHANGED <<file, pc, k, syntaxErrors, collected, text, output>>

CutLast ==
  /\ pc = "cut" /\ Hits = {}
  /\ parts' = Append(parts, Part("raw", at, Len(text) + 1))
  /\ at' = Len(text) + 1
  /\ pc' = "verify"
  /\ UNCHANGED <<file, k, syntaxErrors, collected, text, output>>

\* The new expression, as the Go parser reads it.
PartLit(p) == Lit(p.kind, SubSeq(text, p.from, p.to - 1))
NewExpr ==
  [m \in 1..(2 * Len(parts) - 1) |->
     IF m % 2 = 1 THEN PartLit(parts[(m + 1) \div 2]) ELSE Plus]

Copy(from, to) == [new |-> FALSE, from |-> from, to |-> to, cells |-> SubSeq(file, from, to - 1)]
Replace(v, cells) == [new |-> TRUE, from |-> v.from, to |-> v.to, cells |-> cells]

\* verifySQLFieldExpr
Verified ==
  /\ \A m \in DOMAIN parts : ValidLit(PartLit(parts[m]))
  /\ ConcatStringLits(NewExpr, [from |-> 1, to |-> Len(NewExpr) + 1]) = text

\* Mutant of WriteField: prev stays before the field.
WriteFieldTwice ==
  /\ pc = "verify"
  /\ IF Verified
       THEN /\ segs' = segs \o <<Copy(prev, fields[k].from), Replace(fields[k], NewExpr)>>
            /\ prev' = fields[k].from
            /\ k' = k + 1
            /\ Continue("field")
       ELSE Return("bug", <<>>) /\ UNCHANGED <<segs, prev, k>>
  /\ UNCHANGED <<file, syntaxErrors, collected, expr>>

WriteField ==
  /\ pc = "verify"
  /\ IF Verified
       THEN /\ segs' = segs \o <<Copy(prev, fields[k].from), Replace(fields[k], NewExpr)>>
            /\ prev' = fields[k].to
            /\ k' = k + 1
            /\ Continue("field")
       ELSE Return("bug", <<>>) /\ UNCHANGED <<segs, prev, k>>
  /\ UNCHANGED <<file, syntaxErrors, collected, expr>>

Finish ==
  /\ pc = "field" /\ k > Len(fields)
  /\ segs' = Append(segs, Copy(prev, Len(file) + 1))
  /\ prev' = Len(file) + 1
  /\ IF syntaxErrors # <<>> THEN Return("error", <<>>)
     ELSE Return("ok", Tidy(FlattenSeq([m \in DOMAIN segs' |-> segs'[m].cells])))
  /\ UNCHANGED <<file, k, syntaxErrors, collected, expr>>

Next ==
  \/ Parse \/ Inspect \/ Sort \/ Collect \/ Collected
  \/ FormatField \/ CutNext \/ CutLast \/ WriteField \/ Finish

Spec == Init /\ [][Next]_vars

-----------------------------------------------------------------------------
(***************************************************************************)
(* Properties.                                                             *)
(***************************************************************************)
Spans == [from : Nat, to : Nat]

\* The state of formatGoFile between two of its calls.
TypeOK ==
  /\ pc \in {"parse", "inspect", "sort", "collect", "field", "cut", "verify", "done"}
  /\ node \in 0..Len(file)
  /\ values \in Seq(Spans) /\ fields \in Seq(Spans) /\ errs \in Seq(Spans)
  /\ syntaxErrors \in Seq(Spans)
  /\ k \in 1..(Len(values) + 1)
  /\ text \in Seq(Char)
  /\ at \in 1..(Len(text) + 1)
  /\ parts \in Seq([kind : {"raw", "quoted"}, from : Nat, to : Nat])
  /\ prev \in 1..(Len(file) + 1)
  /\ result \in {"none", "ok", "error", "bug"}
  /\ result = "none" <=> pc # "done"
  /\ pc \in {"cut", "verify"} => k \in DOMAIN fields

(***************************************************************************)
(* The output so far is the file up to prev: every cell of it is copied    *)
(* once, in order, or is in a field that is replaced (the splice of        *)
(* formatGoFile).                                                          *)
(***************************************************************************)
Spliced ==
  /\ \A m \in DOMAIN segs :
       /\ segs[m].from <= segs[m].to
       /\ segs[m].from = IF m = 1 THEN 1 ELSE segs[m - 1].to
       /\ segs[m].new => [from |-> segs[m].from, to |-> segs[m].to] \in Range(fields)
  /\ prev = IF segs = <<>> THEN 1 ELSE segs[Len(segs)].to
  /\ result = "ok" /\ fields # <<>> => prev = Len(file) + 1

(***************************************************************************)
(* sqlFieldExpr cuts the text into literals without a gap, and no raw one  *)
(* has a character it cannot hold.                                         *)
(***************************************************************************)
PartsCover ==
  /\ \A m \in DOMAIN parts :
       /\ parts[m].from <= parts[m].to /\ parts[m].to <= Len(text) + 1
       /\ parts[m].from = IF m = 1 THEN 1 ELSE parts[m - 1].to
       /\ parts[m].kind = "raw" =>
            \A x \in parts[m].from..(parts[m].to - 1) : text[x] \notin NotRaw
  /\ at = IF parts = <<>> THEN 1 ELSE parts[Len(parts)].to

\* Every round of the loop of sqlFieldExpr takes something from the text, so
\* that it ends.
CutsAdvance == [][pc = "cut" /\ pc' = "cut" => at' > at]_vars

(***************************************************************************)
(* A file is rewritten only when every SQL field is a string literal       *)
(* without comments, in SQL that can be formatted: one bad field is enough *)
(* for an error, and nothing else is.                                      *)
(***************************************************************************)
AllOrNothing ==
  pc = "done" =>
    (result = "ok" <=>
       /\ \A i \in DOMAIN file : file[i].k # "bad"
       /\ \A v \in AllValues(file) :
            /\ \A i \in v.from..(v.to - 1) : file[i].k \in {"lit", "plus"}
            /\ FormatSQL[FieldText(file, v)] # FormatError)

\* Errors are reported in the order of the file (collectSpannerSQLFields).
ErrorsInOrder == Ascending(errs) /\ Ascending(syntaxErrors)

ValuesInOrder(c) == SetToSortSeq(AllValues(c), LAMBDA u, v : u.from < v.from)
Outside(c) ==
  SelectSeq([i \in DOMAIN c |-> IF \E v \in AllValues(c) : i \in v.from..(v.to - 1) THEN Plus ELSE c[i]],
            LAMBDA cell : cell.k # "plus")

(***************************************************************************)
(* A rewritten file has the fields of the original, in their order, with   *)
(* the formatted SQL between line breaks; go/format apart, nothing else is *)
(* different.                                                              *)
(***************************************************************************)
FieldsFormatted ==
  result = "ok" /\ fields # <<>> =>
    LET old == ValuesInOrder(file)
        new == ValuesInOrder(out)
    IN  /\ Len(new) = Len(old)
        /\ \A m \in DOMAIN old :
             ConcatStringLits(out, new[m]) = InNewlines(FormatSQL[FieldText(file, old[m])])
        /\ Outside(out) = Tidy(Outside(file))

=============================================================================
