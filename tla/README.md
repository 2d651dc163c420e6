# A verification project for go-spantool

go-spantool is a command with three subcommands for Go programs that use Cloud
Spanner: `fmt-sql` formats the SQL in `spanner.Statement{SQL: ...}` literals,
`lint-mutation` checks mutations against the DDL, and `lint-scan` checks the
destinations of a row against the columns of its query. This directory has TLA+
models of it, the TLC configurations that check them, and theorems that TLAPS
proves.

## The system

All of it is sequential; what makes it hard is the state it carries over a long
pass (the printer), positions it looks up in a token sequence (the layout), text
it inserts into what it printed (the comments), and files it rewrites in place.

| Component | State | Operations | Correct when |
|---|---|---|---|
| layout builder (`layout.go`) | nine maps from token index to role | `walk`, `clause`, `cond`, `expandCase`, `find` | every role is given to the token it is meant for, and to one |
| printer (`formatter.go`) | output, range of each token, `prev`, `suppressSpace`, stack of scopes with their condition groups and CASEs | `token` and what it calls | every token is written once, in order; stacks match the nesting; no panic; brackets line up; words stay apart |
| comment placement (`comments.go`) | list of insertions | `placeComments`, `verifyComments` | comments survive in order, hide no token, and stay put when formatted again |
| `FormatSQL` (`formatter.go`) | the statement in the pipeline | parse, print, verify | returns an equivalent statement or an error, and never has to report its own bug |
| `fmt-sql` (`fmt.go`) | files on disk, what is left on standard input, exit code | `fmtSQLMain`, `processFile` | see `FmtPromise` below |
| SQL fields of a Go file (`fmt.go`, `spannerutil.go`) | the fields, the text written so far | `formatGoFile`, `collectSpannerSQLFields`, `sqlFieldExpr` | each field is replaced by an expression with the formatted SQL, and nothing else changes |
| `lint-mutation` (`lint.go`, `ddlparser.go`) | schema, diagnostics | `ParseDDL`, `AnalyzeFile` | reports what Spanner would refuse, and only that; its rules can all be met |
| `lint-scan` (`lintscan.go`) | the calls being followed, diagnostics | `AnalyzeScanFile`, `analyzeFuncBody`, `matchParams`, `matchColumns` | the first use of the row is judged, rightly, or reported as not found; every analysis ends |
| runs of the linters (`runLintMutation`, `AnalyzeFiles`, `runLintScan`, `AnalyzeScanFiles`), `main.go` | list of diagnostics, exit code | dispatch, read, sort, print | see `LintPromise` below |

`fmt-sql` calls `formatGoFile` for each file, that calls `FormatSQL` for each SQL
field, and that runs parser, layout builder, printer and comment placement one
after the other, each on the result of the one before. The two linters share
only `spannerutil.go` with it.

## Modules

| Module | Models |
|---|---|
| `SqlAst`, `Grammar` | the syntax trees memefish makes (external), as fragments that are put together |
| `Layout` | `layout.go`: from a tree to the roles of its tokens |
| `Printer` | `formatter.go`: `formatTokens` and the printer, one action per branch of `token` |
| `Comments` | `comments.go`, and how the lexer reads a text with comments |
| `FormatSQL` | `FormatSQL`: composes `Layout`, `Printer` (`INSTANCE`) and `Comments` |
| `GoSource` | Go sources as go/parser and strconv see them (external) |
| `GoFile` | `formatGoFile`, with what it uses of `spannerutil.go` |
| `GoFileTwice` | `GoFile`, and `GoFile` again on its output |
| `FmtPromise` | abstract: what a user of `fmt-sql` can rely on |
| `FmtMain` | `fmtSQLMain` and `processFile`, one action per call that can fail; refines `FmtPromise` |
| `LintPromise` | abstract: what a user of the linters can rely on |
| `LintRun` | `main.go` and the runs of both linters over their files; refines `LintPromise` |
| `Mutation` | `ddlparser.go`, and `AnalyzeFile` of `lint.go` on one file, followed by a developer who repairs it |
| `ScanSource` | a Go file as `lintscan.go` sees it, and where it looks for a struct |
| `Scan` | `AnalyzeScanFile` on one file, with the recursion of `analyzeFuncBody` |
| `PrinterProofs`, `ShapeProofs` | proofs about `Printer`: its stacks and its state, the shape of its output |
| `FormatProofs` | proofs about `Comments` and `FormatSQL` |
| `FmtProofs`, `GoFileProofs` | proofs about `FmtMain` and `GoFile` |
| `LintProofs`, `MutationProofs`, `ScanProofs` | proofs about `LintRun`, `Mutation` and `Scan` |
| `MCStatements` | the statements the checks run on |
| `MCPrinter`, `MCFormatSQL`, `MCGoFile`, `MCFmtMain`, `MCLintRun`, `MCMutation`, `MCScan` | the instances for TLC |

**Layout.** A statement is a sequence of token words and a tree in preorder whose
nodes have the indexes of their first token and of the token after their last.
`walk` fills maps while it goes over the tree; here each map is a set of (token,
value) pairs, defined by a property of the nodes that write it (`InClause`: `clause`
is called for the node; `IsCond`: `cond` is; `ExpandedCases`: `expandCase` is). The
order of the walk matters only if two nodes write one key, and `NoConflict`, part
of `RolesResolved`, says that none do. Token indexes start at 1, and 0 is the
code's -1.

**Printer.** The variables are the fields of `printer`. The output is a sequence of
pieces (a token, a space, a line break with the indentation after it) instead of
characters; `starts` and `ends` are positions in it. A triple-quoted string can hold
line breaks: it is one token, and `last` is the indentation of the last line of its
text, because `lineIndent` reads the characters and the current line can start inside
of the literal. An action is one call of
`token`, except that the loop of `hint` is one action per token. The order of the
tests in `token` is `Role`. A pop of an empty stack has no step, so a panic of the
code is a state that `NoPanic` excludes. Two fields of a scope, `open` and
`caseEnds`, are history that the code does not keep: they name the parts that are
open. `BodyDeeper` has one exception: `casePart` keeps the operand of a CASE on the
line of the CASE, so that a subquery in the operand closes at the level of the CASE
itself.

A literal with line breaks is what limits `CloseAligned` and `BodyDeeper`. A group or a
CASE is closed at the level of its scope, wherever its line starts: in
`ORDER BY """x<newline>y""", CASE WHEN c THEN 1 END` on one line, the END is at 2 and
the line of the CASE, which starts with `y"""`, at 0. Both properties ask of a group or
a CASE that it be on its own line (`OnOwnLine`): since the last such literal in its
scope, the printer has started a line. A subquery is laid out from the line it opens
on, so it is always closed at that level; but after a literal within a group it can
be laid out less deep than the group
(`(a = 1 AND """x<newline>y""" IN (SELECT 1))`: at 0 and 2 in a group opened at 2), and
`BodyDeeper` is for parts without such a literal in them. docs/fmt-sql.md:65 speaks of
the line that opens a subquery and of its closing parenthesis, which is what
`CloseAligned` asks of every subquery, with or without such strings; of groups and
CASEs no document says where they close. All other properties, that every token is written, the
statement stays equivalent and formatting is idempotent among them, are for statements
with such strings too.

**Comments.** A comment is a line or a block comment, with or without a line break
before it. `Tokenize` is the lexer on the output: what follows a line comment on
its line is not seen. `verifyEquivalent` compares trees; here it compares the
tokens the lexer sees, since the same tokens have the same tree.

**GoFile.** A source is a sequence of cells: brackets, keys, commas, string literals,
comments, imports and the rest of the code. Offsets are cell indexes. An action is
one step of `ast.Inspect`, the sort, one round of a loop, or what follows a loop.
`FormatSQL` is a constant function with errors, and a text is a sequence of
character classes: those `indexNotRaw` and `TrimSpace` tell apart, a word to
format, a formatted word and a syntax error. The output is kept as `segs`, so that
`Spliced` can say where each part of it came from. An expression in parentheses, a
variable and a call are all "other code" and refused, as in `concatStringLits`.
`WellFormed` is what the Go grammar gives: the spans of two values are nested or
apart, and nothing is nested in a string literal. `GoFileTwice` runs the whole on
its own output, which is what the assumption `FormatIdempotent` of `FmtMain` needs.

**FmtMain.** An action is a call that touches something outside the program (read,
print, stat, truncate, write). Every call can fail; the program can be killed
between any two; other programs can save or remove a file at any time.
`os.WriteFile` is two calls, as it is in the system, with a cut-off file between
them. `formatGoFile` is the constant function `Format`.

**FmtPromise.** The promise has no calls: an argument is taken, and it succeeds or
fails. If it succeeds under `-w`, the file has the formatted form of what was
taken, unless somebody saved it meanwhile. Only a failed write or a crash can damage
a file, and only the one being written. The mapping hides the writing: until
`processFile` returns, the disk of the promise is `kept`, the disk without what it
wrote, and a crash makes what is on the disk visible.

**LintRun.** What a linter finds in a file is the constant function `Diagnose`, which
`Mutation` and `Scan` are the models of: a list of diagnostics, a syntax error, or a
panic, as `FindNilBody` shows of lint-scan. A panic ends the process with 2, and what was
found in the files before it is lost. A diagnostic is a pair of an argument and
a place in the list of its file, so that equal diagnostics of a file given twice
stay two. `sort.Slice` is not stable: `Sort` takes any permutation that agrees with
the comparison. Files can be missing, unparsable, or saved while the linter runs.

**LintPromise.** All files are analyzed or none is reported on. If all are, every
diagnostic is printed once, in the order of files and lines, and the exit code is 1 if
one of them is an error and else 0. If not, it is 1, and 2 only if the analysis of
the next file panics. The mapping is the
identity except for the program counter: `taken` and `printed` are variables of
both.

**Mutation.** One action per DDL statement and per call. A table is a set of columns
and a key; a Go expression is a quoted literal, a raw literal or something else, with
the value Go gives it. `Accepts` is what Spanner does with the call, defined from the
DDL alone and not from the schema. `Repair` is not in the code: it is the loop
"write code -> lint -> fix" of README.md:23, which changes what the diagnostics name
and nothing else, and starts over.

**Scan.** A body is the sequence of its declarations and calls in the order of
`ast.Inspect`, where the items of a callback follow its call. The recursion of
`analyzeFuncBody` is a stack of frames (block, name of the row in it, item): `Enter`
is the recursive call, `Return` the end of a body without a use, `Found` sets
`result`, which ends every call in progress. `Reached` and `Earlier` say without the
search where a row can get to and in which order; `GoTypes` and `OwnRow` say what Go
makes of a name. What memefish makes of the SQL is in the record of the statement.

## Runs

| Run | Question |
|---|---|
| `MCPrinter` | Does the printer write every statement completely, aligned and without gluing words? |
| `MCFormatSQL` | Does every role go to the token it is meant for; do comments survive, in order and in place, wherever they are; is formatting idempotent? |
| `MCGoFile` | Are all SQL fields of a file replaced, and nothing else, or none; and does a second pass change nothing? |
| `MCFmtMain` | Does `fmt-sql` keep its promise with faults, crashes and concurrent saves, and does it end? |
| `MCLintRun` | Do both linters keep their promise, with failing reads, concurrent saves and an unstable sort? |
| `MCMutation` | Is the schema that of the last tables; is a mutation reported if and only if Spanner refuses it; do repairs come to an end? |
| `MCScan` | Is the first use of the row found and judged rightly, are parameters checked everywhere, and does the recursion end? |
| `FindOwnLine` | (violated) docs/fmt-sql.md: a comment on its own line stays on its own line |
| `FindUppercase` | (violated) docs/fmt-sql.md: keywords normalized to uppercase |
| `FindColumnKey` | (violated) docs/lint-mutation.md: primary key columns must be included |
| `FindNilBody` | (violated) docs/lint-scan.md: a use that cannot be detected is reported |
| `FindNestedRow` | (violated) docs/lint-scan.md: the scan usage in the associated callback |

**Bounds.** `MCStatements` has 395 statements: each construct that `layout.go`
gives a role to, alone, next to another one and inside another one, to a depth of
three subqueries, groups or CASE expressions. The printer's reaction to a token
depends on the tops of its stacks, the previous token and its kind, so pairs of
constructs reach every combination it can tell apart. 62 of them have a string with
line breaks, with a last line that starts at 0 or deeper than what is around it,
before and inside groups, CASEs and subqueries. Five more statements, one
for each kind of line the printer makes and one with such a string, carry comments: up to two before one
token and one before the next. The tests of `placeComments` look at one token's
comments and the text around its start; two tokens are needed because the end of
one and the start of the next can be the same place. `MCGoFile` has a field with
every text of up to three characters of the seven classes, and every text of four
of those that matter to `sqlFieldExpr`: a quoted identifier has at least three
characters, the fourth is what precedes or follows it. Two fields stand one after
the other or one in the `Params` of the other, before or after its SQL, with eleven
kinds of values each: that is every order in which `ast.Inspect` can meet them and
every way `concatStringLits` and `commentInExpr` can answer. `MCFmtMain` has two files and
standard input, three contents (one that changes, one that does not, one that is no
Go source), at most two arguments, and one save by another program (`MaxSaves`).
One save between two calls is enough to invalidate any single thing the program
knows.

`MCLintRun` has two files, five contents (no diagnostics, errors on two lines, a
warning, no Go source, one whose analysis panics in lint-scan) and up to three arguments, with repetition: the least in
which the sort has to move a diagnostic across a file and has a choice within one.
`MCMutation` has two tables with every kind of column, in eight DDLs (no table, a
table of another schema, a later ALTER, keys at a column or generated), every kind
of table name, map and key in one call, and pairs of calls. `MaxRepairs` is one more than `Converges` allows. `MCScan` has four
helpers, so that rows go one call deeper than `maxScanDepth` and around in circles; a
variable and its type declared in each scope or in two; and statements with every
kind of `Params`, in a method too, with and without `nolint`.

**Fairness.** `FmtMain` has `WF_vars(Step)`: the program is one thread that runs until
it stops, and a system call returns or fails.
`Scan` has `WF_vars(Next)` for the same reason. `Crash` and `Save` have none.
`Printer`, `Mutation` and `LintRun` need none: their loops count to the length of a list, and
`Converges` bounds the repairs. `GoFile` needs none: that the loop of `sqlFieldExpr`
ends is `CutsAdvance`, and the other loops count to the length of a list.
`CHECK_DEADLOCK FALSE` is set where the program stops: after the last token, after
`formatGoFile` returned, and after exit.

**Findings.** `FindOwnLine`: a comment on a line of its own, before a token that the
printer keeps on the line of its predecessor, is put into that line, and a block
comment stays there (comments.go:72). `FindUppercase`: inside a parenthesized JOIN
`clause` is not called, so the `OFFSET` of `WITH OFFSET`, an identifier to the
lexer, is not marked as a keyword (layout.go:125).

`FindColumnKey`: PRIMARY KEY at a column is not read (ddlparser.go:75), and an
UpdateMap without the key is not reported. `FindNilBody`: a helper without a body is
a nil pointer to `ast.Inspect` (lintscan.go:463), and lint-scan panics.
`FindNestedRow`: rows are told apart by their name only (lintscan.go:425), so that the
row.Columns of a nested callback is compared with the SELECT of the outer one.

**What the preconditions leave out.** `Verdict` of `Mutation` is for a `PlainDDL` and
quoted literals, because only CREATE TABLE is read (ddlparser.go:55), tables of two
schemas share a name (ddlparser.go:60), and raw literals keep their backticks
(lint.go:104). `Converges` is for `KeysWritable`: a generated column of a key must not
be written (lint.go:143) and must be there (lint.go:176). `Verdict` of `Scan` is for a
row that is used once, because only the first use is judged (lintscan.go:415) and
helpers are followed to depth 3 (lintscan.go:456), and for a `Plain` file, because
names are looked up in lists of statements and not in scopes: those of a helper in
the function with the callback (lintscan.go:507), those of blocks around the callback
nowhere (lintscan.go:530), and fields with the tag `-` count under their own name
(lintscan.go:614). For the same reason it is for a variable and a type that are
`DeclaredAround`: what is declared in a nested callback or a deeper block is not
found, and reported as unresolved. An embedded field without a tag has no name of its
own (lintscan.go:628), so `Plain` asks for a tag there. SQL that does not parse is reported only with a callback
(lintscan.go:307), which is why `ParamsChecked` is for SQL that does.

`InputsWellFormed` is what `Printer` takes from the parser and the layout. One part of it
is not the grammar's: a hint has no two words in a row. memefish reads an
expression as the value of a hint, and `hint` writes it without spaces (formatter.go:286):
`verifyEquivalent` then refuses the statement. `LiteralsPlaced` says only that a string
is no parenthesis, keyword or separator.

The trees of `Grammar` have one hint, without a parenthesis in its values. In
`EXISTS@{k=(1)}(SELECT 1)` the search for the "(" of the subquery (layout.go:107) would
find the one in the hint; what `SubqueriesAreParens` then says is not checked.

`ListsRewritten` does not say that every file in the list was rewritten: the path is
printed before the write (fmt.go:106), which can fail, but then an error is printed too
and the exit code is 1.

## Theorems

`PrinterProofs` proves for every set `Inputs` of layouts that satisfies
`InputsWellFormed`: `TypeOK`, `StacksMatch`, `NoPanic`, `AllClosed` and `WrittenOnce`;
`ShapeProofs` proves `Separated`, `CloseAligned` and `BodyDeeper`.

- The assumption is what memefish and `layout.go` guarantee: the bracketed parts
  (subqueries, condition groups, expanded CASEs, hints) are properly nested, a hint
  contains no other part, and a WHEN or ELSE lies in a CASE of its own scope; no token
  has two roles (`OneRole`), clauses, separators and operators are not inside a CASE
  of their scope (`RolesPlaced`), what a parenthesis or a comma is looked up by is a
  symbol (`SymbolsPlaced`), no body is empty (`BodiesStart`), and a group or an outermost
  CASE is in the body of a clause (`InBodies`). TLC evaluates it on the layouts `Layout`
  computes for all 395 statements.
- `StacksMatch` is nearly inductive: what it lacks is that a hint being written was
  entered at its start (`HintInv`), so that its tokens are no parts. The stacks are
  described by functions from levels to positions, and the first lemmas of
  `PrinterProofs` say, without the printer, what a push, a pop or a step over a token does to a
  stack that matches a set of nested spans: after a part's last token its closer is
  on top, because everything opened later is inside and closed.
- `NoPanic` and `AllClosed` follow from it, and `AllClosed` needs no run of its own: a
  WHEN, ELSE or END lies in an open CASE of the current scope; at the end nothing is
  open.
- `WrittenOnce` is inductive under `TypeOK`: every step that writes appends blank
  pieces, token `i` and blank pieces (`Writes`), and one lemma (`WritesOnce`) says
  that this keeps it. `CutAt` says what is where in the longer output.
- `Separated` is about neighbours in the output, and the newest of them is where the
  last step stopped. `Ended` says what can be there: a line break only after a token
  that asks for one (`BreaksAfter`), a space only in a hint, and a token that
  suppresses the space only if it is the "(" of a subquery, a symbol. The roles of
  that token and of token `i` then exclude each bad pair, because bodies are not
  empty and no token has two roles: a second line break is never written after a
  first, except before a set operator, and two words never meet without `space`.
- `CloseAligned` compares the line of a closing token with that of its opener, which
  may be far back in the output. The scopes do not store those lines, only what the
  code computes from them; `ScopeLine` says what follows: a CASE or a group of a scope
  was opened on the line its stack entry stands for, the CASEs of a scope are 4 apart,
  and in the body of a clause, outside its CASEs, the current line has the indentation
  of the innermost group. `TopLine` says it of the current scope and `OuterLines` of
  each suspended one, at its subquery's parenthesis. Each action is reduced to the
  indentation it leaves at token `i` and behind it (`WritesLine`); then the stacks say
  which opener a closer meets. What a literal with line breaks adds is `Settled`: since the
  last one in the scope a line was started, and only then has the current line the
  indentation of the innermost group. A token that is `OnOwnLine` is in a settled place,
  and so is what follows a part that is closed (`PartClosed`), because the literals in
  its subqueries are in other scopes (`SettledOver`).
- `BodyDeeper` is about the lines of a part that is closed, so it is kept for each open
  part while it is written (`OpenDeeper`), and `ClosedDeeper` takes it over. A line
  break goes where the innermost group, CASE or clause of the scope says, which is
  deeper than the opener of every open part (`BelowOpen`): the scopes around it are at
  most at the line of its own "(", because each "(" is deeper than what was open when
  it was written (`SubqueriesDeep`). That in turn needs `TopDeep`: a token that stays
  on the current line, as the "(" may, is deeper than the openers of all open parts,
  with two exceptions. In the operand of a CASE it is on the line of the CASE, and
  right after the "(" of a subquery nothing has broken the line yet, but then a clause
  or another "(" follows and breaks it. All of this is about `Calm` parts, without a
  literal with line breaks so far.

`FormatProofs` proves for every set of statements and comments: `TypeOK`,
`NeverReportsBug`, `Idempotent` and `CommentsStay`. The assumptions are `LayoutsWellFormed`
(a statement has a token, and its layout is what the printer takes; TLC evaluates it on
all statements) and `CommentsType` (the comments of a statement are a list before each token
and one at the end, of any length). The last part of the module is about the state: the
printer inside `FormatSQL` is the instance `PP` of `PrinterProofs` over the same variables,
every step of `FormatSQL` is one of its steps or leaves it alone, and so `WrittenOnce`
holds of its output when the comments are put back (`AllPrinted`). The invariant `FInv`
adds only that `formatted` is then what `placeComments` makes. Everything else is about
the pure operators of `Comments`, for any output in which the tokens are in order
(`Printed`) and any comments (`CommentsFor`), in five steps:

- `Flattened`, `SpliceMerges`: `FlattenSeq` of the community modules is a fold. A sequence
  with given parts at given offsets exists and is the only one, so `FlattenSeq` is that
  sequence; from this follows where `Splice` puts each piece and each insertion.
- `InsertionsAre`, `SplicedPlaced`: each comment has one insertion. `Placed` says
  what the result is: tokens and comments rise in the order of the statement with
  nothing else among them; every line comment is followed by a line break before the next
  of them, or by nothing; and before a token that starts a line, the comments of the line before
  are on that line and the first other one is not.
- `TrimPlaced`: `TrimSpace` shifts the positions and keeps `Placed`.
- `Reading`: in a text that is `Placed` nothing is hidden, so that `Items` are the tokens and
  comments (`SameOrder`: two rising enumerations of a set are equal), the bounds of
  `Group` are the tokens, and each comment is read back before the token it was put before.
- `CommentsReadBack`: hence the tokens and the texts are those of the statement
  (`NeverReportsBug`); `onPrevLine` has the same answer where it matters, which is before a token that
  starts a line and at the end (`CommentsStay`); and so the insertions of a second run are the same
  (`SameInsertions`, `Idempotent`).

`FmtProofs` proves for every set of files, contents and arguments, and any number of
saves: `TypeOK`, `Promised`, that `FmtMain` implements `FmtPromise`, `StdinOnce`,
`QuietMeansFormatted`, `AllFormatted` and `RewrittenOnce`, from the assumption
`Values` alone. The inductive invariant adds to
`TypeOK`: after `FormatGoFile` the content has a formatted form (`FormatInv`); the
calls that write are reached only under `-w` with a changed file (`WriteInv`);
`disk` and `kept` differ at most in the file being written, and after the write it
has the formatted content if nobody saved it (`KeptInv`); the exit code is 1 if and
only if a file failed (`ExitInv`). Each action is shown to be one step of
`FmtPromise` or none. For the other three the steps are sorted by what they do to the
list of outcomes (`Returns`, `GoesOn`, `Takes`, `Turns`, `Disturbs`), and each has an
invariant about the files done and one about the current file: `DoneInv` and
`CurrentInv` for what was reported, `FormattedInv` and `AloneInv` for what is on disk
as long as nobody else saves, `SettledInv` and `PrintedInv` for a file that comes a
second time.

`GoFileProofs` proves for every set of files and texts and every function
`FormatSQL`: `TypeOK`, `Spliced`, `PartsCover`, `CutsAdvance`, `ErrorsInOrder`,
`AllOrNothing` and `NeverBug`. The assumptions are `FilesWellFormed` and `FormatSQLType`, which TLC evaluates on 1393
files. The inductive invariant adds `Order`: the fields are in ascending order (given by
`Sort`, kept by `Collect`), and `prev` has not passed the next one; with
`FilesWellFormed`, ascending fields do not overlap, so that each copy of
`WriteField` has a length of at least zero and starts where the last segment ended.
`CutNext` is sound because the first character that is not for a raw string is the
least element of a set of numbers (`NextHit`). `ErrorsInOrder` adds that the errors so
far lie before the field that is looked at (`ErrsInv`). `AllOrNothing` needs to know of
every SQL field where it is now: among the fields or the errors when it has been
visited (`Visited`, `Sorted`), formatted or a syntax error when it has been written
(`Written`), and what the counts of the two mean for the result (`Returned`). That
nothing but a bad field is an error needs `NeverBug`: the literals of `sqlFieldExpr`
always join to the text they were cut from, because each cut is what
`verifySQLFieldExpr` reads back (`CutIsVerified`) and joining goes literal by literal
(`FlattenIs`).

`LintProofs` proves `TypeOK` and `Promised`, that `LintRun` implements `LintPromise`,
from the assumptions `Values` and `MutationErrors` (`lint.go` sets no severity, and
the zero value is an error). The inductive invariant adds that what is printed and
what is left to print are together all diagnostics of the files taken, and that what
is left is sorted, so that its head is a diagnostic no other one precedes.

`MutationProofs` proves `TypeOK`, `SchemaIsLast`, `Verdict` and `Converges` for every DDL
and every file, from `Inputs`, `DistinctColumns` and `KeyColumns`. `SchemaIsLast` is inductive; `Spec_Found`
says that the diagnostics are those of the calls inspected so far, each by the whole
schema. `Verdict` follows: in a plain DDL the last table of a name is its only one,
so the table of the schema is the table Spanner has, and each condition of `Accepts`
is the absence of one kind of diagnostic. `Converges` is a race that the repairs win:
each one moves every mutation at least one stage on, from a table that can be read
(`Named`) over one in the schema (`Known`), a map that can be read (`Literal`) and one
with all the columns it needs (`Complete`) to one without a wrong column (`Clean`),
and none back. Adding a missing key column may add nothing that another rule forbids
(`KeysWritable`), removing a column may not remove a key, and a column that is added
has its name in the table (`KeyColumns`). After five repairs every mutation is
`Clean`, and a clean mutation is not reported.

`ScanProofs` proves `TypeOK`, `FirstUse`, `ParamsChecked` and `Verdict` for every file,
from `Inputs`, `Nesting`, `DistinctFunctions` and `Absent`. The invariant behind `FirstUse`: the stack is
linked (each frame is a callee of the item of the frame under it, so the stack is in
`Reached`), and no use in `Reached` is earlier than the stack (`NoneEarlier`).
`Found` then finds a first one. `Pass` keeps it because an item that neither scans nor
is entered has no use in or under it, `Return` because a use under the item just left
would be earlier than the end of its body; the two meet in the lemma that a use
earlier than the advanced stack, but not than the stack, goes through its item.
For `ParamsChecked` the diagnostics are those of the calls visited so far (`Checked`,
`ParamInv`), and `matchParams` at one call reports what `Faulty` says.

`Verdict` adds what the diagnostics say of each callback already judged (`ScanInv`): by
`FirstUse` its one use is the one that was found, or none was. Where the use is a
`ToStruct`, the lemmas on `StructTags` say that a search through lists of statements
finds what Go resolves: each name is declared once (`Plain`) in one of the lists that
are searched (`DeclaredAround`), so the first declaration found is the only one.

Only model-checked: the layout against the tokens (`RolesResolved`, `SubqueriesAreParens`,
`CondOpsSeparate`: they are about the finite set of trees in `MCStatements`, and for all
trees they would need an induction over the grammar, as would `LayoutsWellFormed`);
that `-l -w` lists what it rewrites (`ListsRewritten`); that the new literals evaluate to the SQL (`FieldsFormatted`) and that a second pass over a
file changes nothing (`GoFileTwice`), where `Unquote` and `Outside` filter with `SelectSeq`,
which is recursive and which the prover cannot expand; and the liveness properties
`Terminates` (of `Scan`) and `Ends`, which the prover does not handle.

## Not modelled

- memefish, go/parser and go/format: external. What the program uses of their results
  is in `SqlAst`, `Grammar` and `GoSource`, and in the constants of `Mutation` and
  `ScanSource`.
- The texts of messages, the computation of diffs, and the order of diagnostics that
  `AnalyzeFile` and `AnalyzeScanFile` find in one file: they are sorted by line later
  (`LintRun`), and here a set.
- Which parameter of a helper the row is passed to: a helper is searched with its first
  row parameter (lintscan.go:486), whichever argument the row was. `RowParam` is the
  same, and `Reached` follows it, so that no property tells the two apart.
- Identity columns, and names that differ only in case, which Spanner takes for equal:
  `Mutation` compares names as they are written, like the code. Fields with the tag
  `-` are left out by `Plain` (see the preconditions).
