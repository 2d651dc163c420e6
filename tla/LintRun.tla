------------------------------ MODULE LintRun ------------------------------
(***************************************************************************)
(* main.go, and the runs of the two linters over their files: lint.go,     *)
(* runLintMutation and AnalyzeFiles, and lintscan.go, runLintScan and      *)
(* AnalyzeScanFiles.  What a linter finds in one file is the function      *)
(* Diagnose; the models of it are Mutation and Scan.                       *)
(***************************************************************************)
EXTENDS Naturals, Sequences, Functions

CONSTANTS
  Paths, Contents, Diagnose, SyntaxError, Panic, None,    \* as in LintPromise
  ArgLists,             \* the lists of files that are given
  MaxSaves              \* bound: how often other programs save a file

Linters == {"lint-mutation", "lint-scan"}
Diagnostics == [line : Nat, severity : {"error", "warning"}]

Failures == {SyntaxError, Panic}

ASSUME Values ==
  /\ Paths \subseteq Nat /\ ArgLists \subseteq Seq(Paths)
  /\ None \notin Contents /\ MaxSaves \in Nat
  /\ Failures \cap Seq(Diagnostics) = {}
  /\ Diagnose \in [Linters -> [Contents -> Seq(Diagnostics) \cup Failures]]

\* lint.go sets no severity, and that is SeverityError.
ASSUME MutationErrors ==
  \A c \in Contents : Diagnose["lint-mutation"][c] \notin Failures =>
    \A i \in DOMAIN Diagnose["lint-mutation"][c] :
      Diagnose["lint-mutation"][c][i].severity = "error"

VARIABLES
  linter,               \* os.Args[1]
  args,                 \* the files to analyze
  disk,                 \* the content of each file
  pc,                   \* the next step
  taken,                \* the contents of the files analyzed so far
  diags,                \* allDiags, then what is left to print of it
  printed,              \* the diagnostics printed
  exitCode,
  saves                 \* how often other programs saved a file

given == <<linter, args>>
files == <<disk, saves>>
vars == <<given, files, pc, taken, diags, printed, exitCode>>

Diag(o) == Diagnose[linter][taken[o[1]]][o[2]]

-----------------------------------------------------------------------------
Init ==
  /\ linter \in Linters \cup {"fmt-sql", "unknown"}
  /\ args \in ArgLists
  /\ disk \in [Paths -> Contents \cup {None}]
  /\ pc = "main"
  /\ taken = <<>> /\ diags = <<>> /\ printed = <<>>
  /\ exitCode = 0 /\ saves = 0

Stop(code) == pc' = "exited" /\ exitCode' = code
Continue(next) == pc' = next /\ UNCHANGED exitCode

\* main; fmt-sql goes on in FmtMain.
Main ==
  /\ pc = "main"
  /\ CASE linter \in Linters -> Continue("flags")
       [] linter = "fmt-sql" -> Continue("fmt-sql")
       [] OTHER              -> pc' = "usage" /\ exitCode' = 1
  /\ UNCHANGED <<given, files, taken, diags, printed>>

\* fs.Parse: -h exits with 0, a bad flag with 2.  Without files, or without
\* the path of the DDL, which only lint-mutation asks for, the usage is printed.
ParseFlags ==
  /\ pc = "flags"
  /\ \/ pc' = "usage" /\ exitCode' \in {0, 2}
     \/ (args = <<>> \/ linter = "lint-mutation") /\ pc' = "usage" /\ exitCode' = 1
     \/ args # <<>> /\ Continue(IF linter = "lint-mutation" THEN "ddl" ELSE "file")
  /\ UNCHANGED <<given, files, taken, diags, printed>>

\* os.ReadFile and ParseDDL succeed, or one of them fails.
LoadDDL ==
  /\ pc = "ddl"
  /\ Continue("file") \/ Stop(1)
  /\ UNCHANGED <<given, files, taken, diags, printed>>

AtFile == pc = "file" /\ Len(taken) < Len(args)
Content == disk[args[Len(taken) + 1]]
Parses == Content # None /\ Diagnose[linter][Content] # SyntaxError
Panics == Diagnose[linter][Content] = Panic

\* AnalyzeFile or AnalyzeScanFile on the next file, if it returns.
Analyze ==
  /\ taken' = Append(taken, Content)
  /\ diags' = diags \o [i \in DOMAIN Diagnose[linter][Content] |-> <<Len(taken) + 1, i>>]

\* Mutant of ParseFile: after an error, what was found so far is printed.
ParseFileOrPrint ==
  /\ AtFile
  /\ \/ Parses /\ ~Panics /\ Analyze /\ Continue("file")
     \/ Continue("print") /\ UNCHANGED <<taken, diags>>
  /\ UNCHANGED <<given, files, printed>>

\* parser.ParseFile reads the file, which can fail, and parses it.  A panic in
\* the analysis ends the process with 2: what was found so far is lost.
ParseFile ==
  /\ AtFile
  /\ \/ Parses /\ ~Panics /\ Analyze /\ Continue("file")
     \/ Parses /\ Panics /\ Stop(2) /\ UNCHANGED <<taken, diags>>
     \/ Stop(1) /\ UNCHANGED <<taken, diags>>
  /\ UNCHANGED <<given, files, printed>>

Less(o, p) ==
  \/ args[o[1]] < args[p[1]]
  \/ args[o[1]] = args[p[1]] /\ Diag(o).line < Diag(p).line

Elements(s) == {s[j] : j \in DOMAIN s}

\* sort.Slice is not stable: any order that agrees with Less.
Sortings(s) ==
  {t \in {[j \in DOMAIN s |-> s[p[j]]] : p \in Bijection(DOMAIN s, DOMAIN s)} :
     \A j, m \in DOMAIN s : j < m => ~Less(t[m], t[j])}

Sort ==
  /\ pc = "file" /\ args # <<>> /\ Len(taken) = Len(args)
  /\ diags' \in Sortings(diags)
  /\ Continue("print")
  /\ UNCHANGED <<given, files, taken, printed>>

\* Mutant of PrintDiag: the diagnostics stay in the list.
PrintDiagKeep ==
  /\ pc = "print" /\ diags # <<>> /\ Len(printed) < Len(diags)
  /\ printed' = Append(printed, Head(diags))
  /\ UNCHANGED <<given, files, pc, taken, diags, exitCode>>

PrintDiag ==
  /\ pc = "print" /\ diags # <<>>
  /\ printed' = Append(printed, Head(diags))
  /\ diags' = Tail(diags)
  /\ UNCHANGED <<given, files, pc, taken, exitCode>>

\* lint-mutation fails if there are diagnostics, lint-scan if one is an error.
Failed ==
  \/ linter = "lint-mutation" /\ printed # <<>>
  \/ linter = "lint-scan" /\ \E j \in DOMAIN printed : Diag(printed[j]).severity = "error"

Exit ==
  /\ pc = "print" /\ diags = <<>>
  /\ Stop(IF Failed THEN 1 ELSE 0)
  /\ UNCHANGED <<given, files, taken, diags, printed>>

-----------------------------------------------------------------------------
Running == pc \notin {"usage", "exited", "fmt-sql"}

\* Another program saves or removes a file.
Save(f, c) ==
  /\ Running /\ saves < MaxSaves
  /\ disk' = [disk EXCEPT ![f] = c]
  /\ saves' = saves + 1
  /\ UNCHANGED <<given, pc, taken, diags, printed, exitCode>>

Step == Main \/ ParseFlags \/ LoadDDL \/ ParseFile \/ Sort \/ PrintDiag \/ Exit

Next == Step \/ \E f \in Paths, c \in Contents \cup {None} : Save(f, c)

Spec == Init /\ [][Next]_vars

-----------------------------------------------------------------------------
(***************************************************************************)
(* Properties.                                                             *)
(***************************************************************************)
\* The state of a run: what is collected are diagnostics of files that were
\* taken, and no diagnostic is both printed and left to print.
TypeOK ==
  /\ linter \in Linters \cup {"fmt-sql", "unknown"}
  /\ args \in Seq(Paths)
  /\ disk \in [Paths -> Contents \cup {None}]
  /\ pc \in {"main", "flags", "ddl", "file", "print", "usage", "exited", "fmt-sql"}
  /\ taken \in Seq(Contents) /\ Len(taken) <= Len(args)
  /\ exitCode \in 0..2 /\ saves \in 0..MaxSaves
  /\ linter \in Linters => \A k \in DOMAIN taken : Diagnose[linter][taken[k]] \notin Failures
  /\ \A s \in {diags, printed} : s \in Seq((1..Len(taken)) \X (Nat \ {0}))
  /\ \A o \in Elements(diags) \cup Elements(printed) : o[2] \in DOMAIN Diagnose[linter][taken[o[1]]]
  /\ Elements(diags) \cap Elements(printed) = {}

Promise ==
  INSTANCE LintPromise WITH
    phase <- CASE pc = "exited" -> "exited" [] pc \in {"usage", "fmt-sql"} -> "usage" [] OTHER -> "running"

\* The two linters do what LintPromise says: all files or none, every
\* diagnostic once and in order, and the exit code that belongs to them, also
\* when a file cannot be parsed or its analysis panics.
Promised == Promise!Spec
=============================================================================
