---------------------------- MODULE LintPromise ----------------------------
(***************************************************************************)
(* What a user of lint-mutation and lint-scan can rely on, without the     *)
(* steps they take.                                                        *)
(*                                                                         *)
(* All files are analyzed, or the program stops and reports nothing: with  *)
(* exit code 1 if a file cannot be read or parsed, and with 2, that of a   *)
(* panic, only if the next file is one whose analysis panics.  What it     *)
(* reports are the diagnostics of every file given, each one once, in the  *)
(* order of files and lines.  The exit code is then 1 if one of them is    *)
(* an error and 0 if none is.                                              *)
(*                                                                         *)
(* A diagnostic is a pair of an argument and a place in the list of the    *)
(* diagnostics of its file.                                                *)
(***************************************************************************)
EXTENDS Naturals, Sequences

CONSTANTS
  Paths,          \* names of files, as numbers in their alphabetical order
  Contents,       \* contents of files
  Diagnose,       \* for each linter and content, the diagnostics or one of
  SyntaxError,    \*   these: the file does not parse,
  Panic,          \*   or its analysis panics
  None            \* no file

VARIABLES
  linter,         \* the command
  args,           \* the files to analyze
  disk,           \* the content of each file
  taken,          \* the contents of the arguments that were analyzed
  printed,        \* the diagnostics reported so far
  phase,          \* "running", "exited", or "usage" when nothing is analyzed
  exitCode        \* 0 until the program exits

vars == <<linter, args, disk, taken, printed, phase, exitCode>>

Diag(o) == Diagnose[linter][taken[o[1]]][o[2]]
All == UNION {{<<k, i>> : i \in DOMAIN Diagnose[linter][taken[k]]} : k \in DOMAIN taken}
Left == All \ {printed[j] : j \in DOMAIN printed}

Precedes(o, p) ==
  \/ args[o[1]] < args[p[1]]
  \/ args[o[1]] = args[p[1]] /\ Diag(o).line < Diag(p).line

Failures == {SyntaxError, Panic}

Pending == phase = "running" /\ linter \in DOMAIN Diagnose /\ Len(taken) < Len(args)
AllTaken == Len(taken) = Len(args)

Init ==
  /\ args \in Seq(Paths)
  /\ disk \in [Paths -> Contents \cup {None}]
  /\ taken = <<>> /\ printed = <<>>
  /\ phase = "running" /\ exitCode = 0

\* An unknown command, -h, flags that cannot be parsed, no files.
Usage ==
  /\ phase = "running" /\ taken = <<>>
  /\ phase' = "usage" /\ exitCode' \in 0..2
  /\ UNCHANGED <<linter, args, disk, taken, printed>>

Content == disk[args[Len(taken) + 1]]

Take ==
  /\ Pending
  /\ Content # None /\ Diagnose[linter][Content] \notin Failures
  /\ taken' = Append(taken, Content)
  /\ UNCHANGED <<linter, args, disk, printed, phase, exitCode>>

Refuse ==
  /\ Pending
  /\ phase' = "exited"
  /\ \/ exitCode' = 1
     \/ exitCode' = 2 /\ Content # None /\ Diagnose[linter][Content] = Panic
  /\ UNCHANGED <<linter, args, disk, taken, printed>>

Report(o) ==
  /\ phase = "running" /\ AllTaken
  /\ o \in Left /\ \A p \in Left : ~Precedes(p, o)
  /\ printed' = Append(printed, o)
  /\ UNCHANGED <<linter, args, disk, taken, phase, exitCode>>

Exit ==
  /\ phase = "running" /\ args # <<>> /\ AllTaken /\ Left = {}
  /\ phase' = "exited"
  /\ exitCode' = IF \E o \in All : Diag(o).severity = "error" THEN 1 ELSE 0
  /\ UNCHANGED <<linter, args, disk, taken, printed>>

\* Somebody saves or removes a file.
Save ==
  /\ phase = "running"
  /\ \E f \in Paths, c \in Contents \cup {None} : disk' = [disk EXCEPT ![f] = c]
  /\ UNCHANGED <<linter, args, taken, printed, phase, exitCode>>

Next == Usage \/ Take \/ Refuse \/ (\E o \in All : Report(o)) \/ Exit \/ Save

Spec == Init /\ [][Next]_vars
=============================================================================
