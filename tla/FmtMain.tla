------------------------------ MODULE FmtMain ------------------------------
(***************************************************************************)
(* fmt.go: fmtSQLMain and processFile.                                     *)
(*                                                                         *)
(* One action per call that reads or changes something outside the         *)
(* program: other programs save files between any two of them, each can    *)
(* fail, and the program can be killed.  os.WriteFile is two calls, one    *)
(* that truncates the file and one that writes it.  formatGoFile is the    *)
(* function Format.                                                        *)
(***************************************************************************)
EXTENDS Naturals, Sequences

CONSTANTS
  Paths, Contents, Format, FormatError, Stdin, None,    \* as in FmtPromise
  Torn,                 \* a content that is only partly written, or not at all
  ArgLists,             \* the lists of files that are given
  MaxSaves              \* bound: how often other programs save a file

ASSUME Values ==
  /\ Torn \in Contents /\ None \notin Contents /\ FormatError \notin Contents
  /\ Format \in [Contents -> Contents \cup {FormatError}]
  /\ Stdin \notin Paths
  /\ ArgLists \subseteq Seq(Paths \cup {Stdin})
  /\ MaxSaves \in Nat

\* FormatSQL and go/format change nothing in what they formatted: Idempotent of
\* MCFormatSQL and of GoFileTwice.
ASSUME FormatIdempotent ==
  \A c \in Contents : Format[c] # FormatError => Format[Format[c]] = Format[c]

VARIABLES
  opt,                  \* the flags -w, -l and -d
  args,                 \* the files to format
  disk,                 \* the content of each file
  stdin,                \* what is left on standard input
  pc,                   \* the next call
  src,                  \* the content read, from the read on, else None
  outcome,              \* what processFile returned for each file so far
  report,               \* what was printed for each file
  exitCode,
  saves,                \* how often other programs saved a file
  \* History:
  kept,                 \* the disk without what processFile wrote so far
  touched,              \* somebody saved the current file since it was read
  readAs,               \* the content of each file as it was read
  orig                  \* the disk at the start

results == <<src, outcome, exitCode, kept>>
files == <<disk, stdin>>
fixed == <<opt, args, orig>>
vars == <<fixed, pc, results, report, readAs, files, touched, saves>>

Options == [write : BOOLEAN, list : BOOLEAN, diff : BOOLEAN]

Name == args[Len(outcome) + 1]
Out == Format[src]
Changed == Out # src

-----------------------------------------------------------------------------
Init ==
  /\ opt \in Options
  /\ \E paths \in ArgLists : args = IF paths = <<>> THEN <<Stdin>> ELSE paths
  /\ disk \in [Paths -> Contents \cup {None}]
  /\ stdin \in Contents \cup {None}
  /\ pc = "flags"
  /\ src = None
  /\ outcome = <<>>
  /\ report = [k \in DOMAIN args |-> {}]
  /\ exitCode = 0
  /\ saves = 0
  /\ kept = disk
  /\ touched = FALSE
  /\ readAs = [k \in DOMAIN args |-> None]
  /\ orig = disk

\* fs.Parse: -h exits with 0, a bad flag with 2.
ParseFlags ==
  /\ pc = "flags"
  /\ \/ pc' = "file" /\ UNCHANGED exitCode
     \/ pc' = "exited" /\ exitCode' \in {0, 2}
  /\ UNCHANGED <<fixed, src, outcome, kept, report, readAs, files, touched, saves>>

\* Mutants of ReturnWith: the source is kept; the exit code is that of the last
\* file; a file that failed is tried again.
ReturnKeepSource(result, d) ==
  /\ outcome' = Append(outcome, result)
  /\ exitCode' = IF result = "failed" THEN 1 ELSE exitCode
  /\ kept' = d
  /\ pc' = "file" /\ UNCHANGED src

ReturnLastCode(result, d) ==
  /\ outcome' = Append(outcome, result)
  /\ exitCode' = IF result = "failed" THEN 1 ELSE 0
  /\ src' = None /\ kept' = d
  /\ pc' = "file"

ReturnRetry(result, d) ==
  /\ outcome' = IF result = "failed" THEN outcome ELSE Append(outcome, result)
  /\ exitCode' = IF result = "failed" THEN 1 ELSE exitCode
  /\ src' = None /\ kept' = d
  /\ pc' = "file"

\* processFile returns, without or with an error, and leaves the files as in d.
ReturnWith(result, d) ==
  /\ outcome' = Append(outcome, result)
  /\ exitCode' = IF result = "failed" THEN 1 ELSE exitCode
  /\ src' = None
  /\ kept' = d
  /\ pc' = "file"

Return(result) == ReturnWith(result, disk)

\* processFile goes on with its next call.
Continue(next) == pc' = next /\ UNCHANGED results

-----------------------------------------------------------------------------
AtFile == pc = "file" /\ Len(outcome) < Len(args)

Take(content) ==
  /\ src' = content
  /\ readAs' = [readAs EXCEPT ![Len(outcome) + 1] = content]
  /\ touched' = FALSE
  /\ pc' = "format"
  /\ UNCHANGED <<outcome, exitCode, kept>>

CannotRead == Return("failed") /\ UNCHANGED <<readAs, touched>>

ReadFile ==
  /\ AtFile /\ Name # Stdin
  /\ (disk[Name] # None /\ Take(disk[Name])) \/ CannotRead
  /\ UNCHANGED <<fixed, report, files, saves>>

\* -w is an error, and so is an empty input.  Reading to the end leaves nothing.
ReadStdin ==
  /\ AtFile /\ Name = Stdin
  /\ IF opt.write
       THEN CannotRead /\ UNCHANGED stdin
       ELSE \/ stdin # None /\ Take(stdin) /\ stdin' = None
            \/ CannotRead /\ stdin' \in {stdin, None}
  /\ UNCHANGED <<fixed, report, disk, saves>>

\* Mutant of FormatGoFile: an error is taken for "nothing to format".
FormatGoFileQuiet ==
  /\ pc = "format"
  /\ IF Out = FormatError THEN Return("ok") ELSE Continue("list")
  /\ UNCHANGED <<fixed, report, readAs, files, touched, saves>>

FormatGoFile ==
  /\ pc = "format"
  /\ IF Out = FormatError THEN Return("failed") ELSE Continue("list")
  /\ UNCHANGED <<fixed, report, readAs, files, touched, saves>>

-----------------------------------------------------------------------------
(* Output.  A print to standard output is done or fails. *)

Printing(what) == report' = [report EXCEPT ![Len(outcome) + 1] = @ \cup {what}]
CannotPrint == Return("failed") /\ UNCHANGED report

\* Mutants of List: files that did not change are listed too; an error of the
\* print is not returned.
ListAll ==
  /\ pc = "list"
  /\ IF opt.list
       THEN (Printing("path") /\ Continue("diff")) \/ CannotPrint
       ELSE Continue("diff") /\ UNCHANGED report
  /\ UNCHANGED <<fixed, readAs, files, touched, saves>>

ListQuiet ==
  /\ pc = "list"
  /\ \/ opt.list /\ Changed /\ Printing("path")
     \/ UNCHANGED report
  /\ Continue("diff")
  /\ UNCHANGED <<fixed, readAs, files, touched, saves>>

List ==
  /\ pc = "list"
  /\ IF opt.list /\ Changed
       THEN (Printing("path") /\ Continue("diff")) \/ CannotPrint
       ELSE Continue("diff") /\ UNCHANGED report
  /\ UNCHANGED <<fixed, readAs, files, touched, saves>>

Diff ==
  /\ pc = "diff"
  /\ IF opt.diff /\ Changed
       THEN (Printing("diff") /\ Continue("stat")) \/ CannotPrint
       ELSE Continue("stat") /\ UNCHANGED report
  /\ UNCHANGED <<fixed, readAs, files, touched, saves>>

\* Mutant of Stat: its error is not returned.
StatQuiet ==
  /\ pc = "stat"
  /\ IF opt.write /\ Changed
       THEN (disk[Name] # None /\ Continue("truncate")) \/ Return("ok")
       ELSE Continue("print")
  /\ UNCHANGED <<fixed, report, readAs, files, touched, saves>>

Stat ==
  /\ pc = "stat"
  /\ IF opt.write /\ Changed
       THEN (disk[Name] # None /\ Continue("truncate")) \/ Return("failed")
       ELSE Continue("print")
  /\ UNCHANGED <<fixed, report, readAs, files, touched, saves>>

\* os.WriteFile opens the file with O_CREATE and O_TRUNC.
Truncate ==
  /\ pc = "truncate"
  /\ \/ disk' = [disk EXCEPT ![Name] = Torn] /\ Continue("write")
     \/ UNCHANGED disk /\ Return("failed")
  /\ UNCHANGED <<fixed, report, readAs, stdin, touched, saves>>

(***************************************************************************)
(* The content of the file after content is written.  When somebody else   *)
(* saved it after the truncation, the two mix, or the write goes to a file *)
(* that was replaced or removed.                                           *)
(***************************************************************************)
Written(content) ==
  CASE disk[Name] = Torn -> {content}
    [] disk[Name] = None -> {None}
    [] OTHER             -> {content, Torn, disk[Name]}

WriteFile ==
  /\ pc = "write"
  /\ \/ (\E c \in Written(Out) : disk' = [disk EXCEPT ![Name] = c]) /\ Continue("print")
     \/ (\E c \in Written(Torn) : disk' = [disk EXCEPT ![Name] = c]) /\ ReturnWith("failed", disk')
  /\ UNCHANGED <<fixed, report, readAs, stdin, touched, saves>>

\* Without flags, a file is printed when it changed, after a header, and
\* standard input always.
PrintHeader ==
  /\ pc = "print"
  /\ IF opt.list \/ opt.diff \/ opt.write \/ (Name # Stdin /\ ~Changed)
       THEN Return("ok") /\ UNCHANGED report
     ELSE IF Name # Stdin
       THEN (Printing("header") /\ Continue("source")) \/ CannotPrint
     ELSE Continue("source") /\ UNCHANGED report
  /\ UNCHANGED <<fixed, readAs, files, touched, saves>>

PrintSource ==
  /\ pc = "source"
  /\ (Printing("source") /\ Return("ok")) \/ CannotPrint
  /\ UNCHANGED <<fixed, readAs, files, touched, saves>>

Exit ==
  /\ pc = "file" /\ Len(outcome) = Len(args)
  /\ Continue("exited")
  /\ UNCHANGED <<fixed, report, readAs, files, touched, saves>>

-----------------------------------------------------------------------------
Running == pc \notin {"exited", "crashed"}

\* The program is killed, or the machine stops.
Crash ==
  /\ Running
  /\ Continue("crashed")
  /\ UNCHANGED <<fixed, report, readAs, files, touched, saves>>

\* Another program saves or removes a file.
Save(f, c) ==
  /\ Running /\ saves < MaxSaves
  /\ disk' = [disk EXCEPT ![f] = c]
  /\ kept' = [kept EXCEPT ![f] = c]
  /\ touched' = (touched \/ (src # None /\ f = Name))
  /\ saves' = saves + 1
  /\ UNCHANGED <<fixed, pc, src, outcome, exitCode, report, readAs, stdin>>

Step ==
  \/ ParseFlags \/ ReadFile \/ ReadStdin \/ FormatGoFile
  \/ List \/ Diff \/ Stat \/ Truncate \/ WriteFile \/ PrintHeader \/ PrintSource \/ Exit

Next == Step \/ Crash \/ \E f \in Paths, c \in Contents \cup {None} : Save(f, c)

Spec == Init /\ [][Next]_vars /\ WF_vars(Step)

-----------------------------------------------------------------------------
(***************************************************************************)
(* Properties.                                                             *)
(***************************************************************************)
\* The state of fmtSQLMain between two calls, and the contents of the files.
TypeOK ==
  /\ opt \in Options
  /\ args \in Seq(Paths \cup {Stdin}) \ {<<>>}
  /\ disk \in [Paths -> Contents \cup {None}]
  /\ kept \in [Paths -> Contents \cup {None}]
  /\ orig \in [Paths -> Contents \cup {None}]
  /\ stdin \in Contents \cup {None}
  /\ outcome \in Seq({"ok", "failed"}) /\ Len(outcome) <= Len(args)
  /\ report \in [DOMAIN args -> SUBSET {"path", "diff", "header", "source"}]
  /\ readAs \in [DOMAIN args -> Contents \cup {None}]
  /\ exitCode \in 0..2
  /\ saves \in 0..MaxSaves
  /\ touched \in BOOLEAN
  /\ pc \in {"flags", "file", "format", "list", "diff", "stat", "truncate", "write",
             "print", "source", "exited", "crashed"}
  /\ pc \in {"flags", "file", "exited"} => src = None
  /\ pc \notin {"flags", "file", "exited", "crashed"} =>
       src \in Contents /\ Len(outcome) < Len(args)

\* The run went over all files and reported no error.
Succeeded == pc = "exited" /\ exitCode = 0 /\ outcome # <<>>

(***************************************************************************)
(* A run without errors leaves, under -w, every file given to it formatted *)
(* and the others as they were; without -w it changes none.  This is for   *)
(* files nobody else saves meanwhile; a file can be given twice.           *)
(***************************************************************************)
AllFormatted ==
  Succeeded /\ saves = 0 =>
    \A f \in Paths :
      disk[f] = IF opt.write /\ \E k \in DOMAIN args : args[k] = f THEN Format[orig[f]] ELSE orig[f]

(***************************************************************************)
(* The check of docs/fmt-sql.md for CI: when -l succeeds and prints        *)
(* nothing, every file was formatted when it was read.                     *)
(***************************************************************************)
QuietMeansFormatted ==
  Succeeded /\ opt.list /\ (\A k \in DOMAIN args : report[k] = {}) =>
    \A k \in DOMAIN args : readAs[k] # None /\ Format[readAs[k]] = readAs[k]

\* Standard input is formatted at most once: a second "-" has nothing to read.
StdinOnce ==
  \A j, k \in DOMAIN args :
    j < k /\ args[j] = Stdin /\ args[k] = Stdin => readAs[j] = None \/ readAs[k] = None

\* A file that was rewritten is neither listed nor diffed when it is given again.
RewrittenOnce ==
  \A j, k \in DOMAIN outcome :
    j < k /\ args[j] = args[k] /\ opt.write /\ outcome[j] = "ok" /\ saves = 0 => report[k] = {}

(***************************************************************************)
(* docs/fmt-sql.md: "-l -w lists the files it rewrites".  When nobody else *)
(* saves, a file that was changed, if only by a write that failed, is in   *)
(* the list; and a file in the list has been rewritten, unless an error    *)
(* was reported for it.                                                    *)
(***************************************************************************)
ListsRewritten ==
  pc = "exited" /\ opt.list /\ opt.write /\ saves = 0 =>
    \A f \in Paths :
      LET given == {k \in DOMAIN args : args[k] = f}
          listed == \E k \in given : "path" \in report[k]
      IN  /\ disk[f] # orig[f] => listed
          /\ listed /\ (\A k \in given : outcome[k] = "ok") =>
               disk[f] = Format[orig[f]] /\ disk[f] # orig[f]

\* Every run ends: no fault keeps the program from its next file.
Ends == <>(pc \in {"exited", "crashed"})

\* The steps of processFile are those FmtPromise allows: the file it writes
\* counts as unchanged until it returns.
Promise ==
  INSTANCE FmtPromise WITH
    disk     <- IF pc = "crashed" THEN disk ELSE kept,
    taken    <- src,
    phase    <- IF Running THEN "running" ELSE pc,
    exitCode <- IF pc = "exited" THEN exitCode ELSE 0

\* fmtSQLMain does what FmtPromise says.
Promised == Promise!Spec
=============================================================================
