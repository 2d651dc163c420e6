----------------------------- MODULE FmtPromise -----------------------------
(***************************************************************************)
(* What a user of fmt-sql can rely on (fmt.go: fmtSQLMain), without the    *)
(* steps it takes.                                                         *)
(*                                                                         *)
(* The arguments are taken one after the other, whatever becomes of the    *)
(* ones before.  An argument that is handled without an error has, under   *)
(* -w, the formatted form of the content that was taken, unless somebody   *)
(* else saved the file in between.  Only a write that fails, or a crash,   *)
(* can leave something else in the file, and only in the file being        *)
(* written.  The exit code tells whether an argument failed.               *)
(***************************************************************************)
EXTENDS Naturals, Sequences

CONSTANTS
  Paths,          \* names of files
  Contents,       \* contents of a file, or of standard input
  Format,         \* the formatted content, or FormatError
  FormatError,
  Stdin,          \* the argument "-"
  None            \* no file; nothing (left) on standard input

VARIABLES
  opt,            \* the flags -w, -l and -d
  args,           \* the files to format
  disk,           \* the content of each file
  stdin,          \* what is left on standard input
  taken,          \* the content of the current argument, or None
  touched,        \* somebody saved the current file since it was taken
  outcome,        \* "ok" or "failed", for each argument handled
  phase,          \* "running", "exited" or "crashed"
  exitCode        \* 0 until the program exits

vars == <<opt, args, disk, stdin, taken, touched, outcome, phase, exitCode>>

Options == [write : BOOLEAN, list : BOOLEAN, diff : BOOLEAN]
Sources == Paths \cup {Stdin}
Current == args[Len(outcome) + 1]
Pending == phase = "running" /\ Len(outcome) < Len(args)

\* The current file is one that -w writes.
Rewrites ==
  /\ opt.write
  /\ Current \in Paths
  /\ taken # None
  /\ Format[taken] \notin {taken, FormatError}

Damaged == {[disk EXCEPT ![Current] = c] : c \in Contents \cup {None}}

Init ==
  /\ opt \in Options
  /\ args \in Seq(Sources) \ {<<>>}
  /\ disk \in [Paths -> Contents \cup {None}]
  /\ stdin \in Contents \cup {None}
  /\ taken = None
  /\ touched = FALSE
  /\ outcome = <<>>
  /\ phase = "running"
  /\ exitCode = 0

\* -h, and flags that cannot be parsed.
Usage ==
  /\ phase = "running" /\ outcome = <<>> /\ taken = None
  /\ phase' = "exited" /\ exitCode' \in {0, 2}
  /\ UNCHANGED <<opt, args, disk, stdin, taken, touched, outcome>>

Take ==
  /\ Pending /\ taken = None
  /\ IF Current = Stdin
       THEN taken' = stdin /\ stdin' = None
       ELSE taken' = disk[Current] /\ UNCHANGED stdin
  /\ taken' # None
  /\ touched' = FALSE
  /\ UNCHANGED <<opt, args, disk, outcome, phase, exitCode>>

Succeed ==
  /\ Pending /\ taken # None /\ Format[taken] # FormatError
  /\ IF ~Rewrites THEN disk' = disk
     ELSE IF touched THEN disk' \in Damaged
     ELSE disk' = [disk EXCEPT ![Current] = Format[taken]]
  /\ outcome' = Append(outcome, "ok")
  /\ taken' = None
  /\ UNCHANGED <<opt, args, stdin, touched, phase, exitCode>>

Fail ==
  /\ Pending
  /\ disk' = disk \/ (Rewrites /\ disk' \in Damaged)
  /\ stdin' = stdin \/ (Current = Stdin /\ stdin' = None)
  /\ outcome' = Append(outcome, "failed")
  /\ taken' = None
  /\ UNCHANGED <<opt, args, touched, phase, exitCode>>

Exit ==
  /\ phase = "running" /\ Len(outcome) = Len(args)
  /\ phase' = "exited"
  /\ exitCode' = IF \E k \in DOMAIN outcome : outcome[k] = "failed" THEN 1 ELSE 0
  /\ UNCHANGED <<opt, args, disk, stdin, taken, touched, outcome>>

Crash ==
  /\ phase = "running"
  /\ phase' = "crashed"
  /\ disk' = disk \/ (Pending /\ Rewrites /\ disk' \in Damaged)
  /\ UNCHANGED <<opt, args, stdin, taken, touched, outcome, exitCode>>

\* Somebody else saves or removes a file.
Save(f, c) ==
  /\ phase = "running"
  /\ disk' = [disk EXCEPT ![f] = c]
  /\ touched' = (touched \/ (Pending /\ taken # None /\ f = Current))
  /\ UNCHANGED <<opt, args, stdin, taken, outcome, phase, exitCode>>

Next ==
  \/ Usage \/ Take \/ Succeed \/ Fail \/ Exit \/ Crash
  \/ \E f \in Paths, c \in Contents \cup {None} : Save(f, c)

Spec == Init /\ [][Next]_vars
=============================================================================
