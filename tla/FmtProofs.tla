----------------------------- MODULE FmtProofs -----------------------------
(***************************************************************************)
(* fmtSQLMain, for all files, contents, arguments and interleavings with   *)
(* other programs: its types, and that it does what FmtPromise says.       *)
(***************************************************************************)
EXTENDS FmtMain, SequenceTheorems, TLAPS

-----------------------------------------------------------------------------
(***************************************************************************)
(* The inductive invariant: what processFile knows between two calls.      *)
(***************************************************************************)
Rewriting == pc \in {"write", "print"} /\ opt.write /\ Changed

\* The source was formatted before anything was printed or written.
FormatInv ==
  pc \in {"list", "diff", "stat", "truncate", "write", "print", "source"} => Out # FormatError

\* Only files are written, only with -w, and only when they change.
WriteInv ==
  /\ src # None /\ opt.write => Name # Stdin
  /\ pc \in {"truncate", "write"} => opt.write /\ Changed
  /\ pc = "source" => ~opt.write

\* kept differs from the disk only in the file that is being rewritten, and that
\* file is as processFile left it unless somebody saved it.
KeptInv ==
  /\ ~Rewriting /\ pc # "crashed" => kept = disk
  /\ Rewriting =>
       /\ disk = [kept EXCEPT ![Name] = disk[Name]]
       /\ ~touched => disk[Name] = IF pc = "write" THEN Torn ELSE Out

ExitInv ==
  /\ pc = "flags" => outcome = <<>>
  /\ pc # "exited" => exitCode = IF \E k \in DOMAIN outcome : outcome[k] = "failed" THEN 1 ELSE 0

Inv == TypeOK /\ FormatInv /\ WriteInv /\ KeptInv /\ ExitInv

-----------------------------------------------------------------------------
(* Facts about the state. *)

LEMMA Current ==
  ASSUME TypeOK, Len(outcome) < Len(args)
  PROVE  /\ Len(outcome) \in Nat /\ Len(args) \in Nat
         /\ Len(outcome) + 1 \in DOMAIN args
         /\ Name \in Paths \cup {Stdin}
BY DEF TypeOK, Name

LEMMA OutType == ASSUME src \in Contents PROVE Out \in Contents \cup {FormatError}
BY Values DEF Out

\* What a return does to the types and to the exit code.
LEMMA Returning ==
  ASSUME TypeOK, ExitInv, pc # "exited", Len(outcome) < Len(args),
         NEW result \in {"ok", "failed"}, NEW d, ReturnWith(result, d)
  PROVE  /\ outcome' \in Seq({"ok", "failed"}) /\ Len(outcome') <= Len(args)
         /\ exitCode' \in 0..2 /\ src' = None /\ kept' = d /\ pc' = "file"
         /\ exitCode' = IF \E k \in DOMAIN outcome' : outcome'[k] = "failed" THEN 1 ELSE 0
<1>1. /\ outcome \in Seq({"ok", "failed"}) /\ Len(outcome) \in Nat
      /\ outcome' = Append(outcome, result) /\ Len(args) \in Nat
  BY DEF TypeOK, ReturnWith
<1>2. /\ outcome' \in Seq({"ok", "failed"}) /\ Len(outcome') = Len(outcome) + 1
      /\ \A k \in 1..Len(outcome) : outcome'[k] = outcome[k]
      /\ outcome'[Len(outcome) + 1] = result
  BY <1>1, AppendProperties
<1>3. DOMAIN outcome = 1..Len(outcome) /\ DOMAIN outcome' = 1..(Len(outcome) + 1)
  BY <1>1, <1>2
<1>4. (\E k \in DOMAIN outcome' : outcome'[k] = "failed")
        <=> (result = "failed" \/ \E k \in DOMAIN outcome : outcome[k] = "failed")
  BY <1>1, <1>2, <1>3
<1>5. exitCode = IF \E k \in DOMAIN outcome : outcome[k] = "failed" THEN 1 ELSE 0
  BY DEF ExitInv
<1>6. exitCode' = IF result = "failed" THEN 1 ELSE exitCode
  BY DEF ReturnWith
<1>7. CASE result = "failed"
  BY <1>1, <1>2, <1>4, <1>6, <1>7, SMT DEF ReturnWith
<1>8. CASE result # "failed"
  BY <1>1, <1>2, <1>4, <1>5, <1>6, <1>8, SMT DEF ReturnWith
<1> QED
  BY <1>7, <1>8

\* The part of the types that all steps of the program keep.
Kept ==
  /\ opt' = opt /\ args' = args /\ orig' = orig /\ saves' = saves
  /\ touched' \in BOOLEAN
  /\ stdin' \in Contents \cup {None}
  /\ report' \in [DOMAIN args -> SUBSET {"path", "diff", "header", "source"}]
  /\ readAs' \in [DOMAIN args -> Contents \cup {None}]

\* A step that returns from processFile, with the files as on the disk.
LEMMA ReturnStep ==
  ASSUME Inv, pc \notin {"flags", "exited", "crashed"}, Len(outcome) < Len(args),
         NEW result \in {"ok", "failed"}, ReturnWith(result, disk'),
         Kept, disk' \in [Paths -> Contents \cup {None}]
  PROVE  Inv'
<1>1. /\ outcome' \in Seq({"ok", "failed"}) /\ Len(outcome') <= Len(args)
      /\ exitCode' \in 0..2 /\ src' = None /\ kept' = disk' /\ pc' = "file"
      /\ exitCode' = IF \E k \in DOMAIN outcome' : outcome'[k] = "failed" THEN 1 ELSE 0
  BY Returning DEF Inv
<1>2. TypeOK'
  BY <1>1 DEF Inv, TypeOK, Kept
<1>3. FormatInv' /\ WriteInv' /\ KeptInv'
  BY <1>1 DEF FormatInv, WriteInv, KeptInv, Rewriting
<1>4. ExitInv'
  BY <1>1 DEF ExitInv
<1> QED
  BY <1>2, <1>3, <1>4 DEF Inv

\* A step from one call of processFile to the next.
LEMMA ContinueStep ==
  ASSUME Inv, src \in Contents, Len(outcome) < Len(args), pc # "flags", pc # "exited",
         NEW next \in {"list", "diff", "stat", "truncate", "write", "print", "source"},
         Continue(next), Kept, disk' \in [Paths -> Contents \cup {None}], Out # FormatError,
         next \in {"truncate", "write"} => opt.write /\ Changed,
         next = "source" => ~opt.write
  PROVE  TypeOK' /\ FormatInv' /\ WriteInv' /\ ExitInv'
<1>1. pc' = next /\ src' = src /\ outcome' = outcome /\ exitCode' = exitCode /\ kept' = kept
  BY DEF Continue, results
<1>2. opt' = opt /\ args' = args /\ Name' = Name /\ Out' = Out /\ Changed' = Changed
  BY <1>1 DEF Kept, Name, Out, Changed
<1>3. TypeOK'
  BY <1>1 DEF Inv, TypeOK, Kept
<1>4. FormatInv' /\ WriteInv'
  BY <1>1, <1>2 DEF Inv, FormatInv, WriteInv
<1>5. ExitInv'
  BY <1>1 DEF Inv, ExitInv
<1> QED
  BY <1>3, <1>4, <1>5
-----------------------------------------------------------------------------
(***************************************************************************)
(* The steps keep the invariant.                                           *)
(***************************************************************************)
LEMMA InitInv == Init => Inv
<1> SUFFICES ASSUME Init PROVE Inv
  OBVIOUS
<1>1. args \in Seq(Paths \cup {Stdin}) \ {<<>>}
  BY Values DEF Init
<1>2. outcome \in Seq({"ok", "failed"}) /\ Len(outcome) = 0 /\ Len(args) \in Nat
  BY <1>1 DEF Init
<1>3. /\ report \in [DOMAIN args -> SUBSET {"path", "diff", "header", "source"}]
      /\ readAs \in [DOMAIN args -> Contents \cup {None}]
  BY DEF Init
<1>4. saves \in 0..MaxSaves /\ exitCode \in 0..2
  BY Values DEF Init
<1>5. /\ opt \in Options /\ disk \in [Paths -> Contents \cup {None}]
      /\ kept = disk /\ orig = disk /\ stdin \in Contents \cup {None}
      /\ pc = "flags" /\ src = None /\ touched = FALSE
  BY DEF Init
<1>6. Len(outcome) <= Len(args)
  BY <1>2
<1>7. touched \in BOOLEAN
  BY <1>5
<1> HIDE DEF Options
<1>8. TypeOK
  BY <1>1, <1>2, <1>3, <1>4, <1>5, <1>6, <1>7 DEF TypeOK
<1> QED
  BY <1>8 DEF Init, Inv, FormatInv, WriteInv, KeptInv, Rewriting, ExitInv

\* What the calls of processFile leave alone.
LEMMA StaysKept ==
  ASSUME TypeOK, UNCHANGED <<fixed, readAs, files, touched, saves>>,
         report' \in [DOMAIN args -> SUBSET {"path", "diff", "header", "source"}]
  PROVE  Kept /\ disk' = disk /\ disk' \in [Paths -> Contents \cup {None}]
BY DEF TypeOK, Kept, fixed, files

LEMMA PrintingType ==
  ASSUME TypeOK, NEW what \in {"path", "diff", "header", "source"}, Printing(what) \/ UNCHANGED report
  PROVE  report' \in [DOMAIN args -> SUBSET {"path", "diff", "header", "source"}]
<1> DEFINE S == {"path", "diff", "header", "source"}
           k == Len(outcome) + 1
<1>1. report \in [DOMAIN args -> SUBSET S]
  BY DEF TypeOK
<1>2. \A j \in DOMAIN args : report[j] \cup {what} \in SUBSET S
  BY <1>1
<1>3. report' = [report EXCEPT ![k] = report[k] \cup {what}] \/ report' = report
  BY DEF Printing
<1> HIDE DEF S, k
<1>4. report' \in [DOMAIN args -> SUBSET S]
  BY <1>1, <1>2, <1>3
<1> QED
  BY <1>4 DEF S

\* The calls between the read and the write: the disk stays as it is.
LEMMA CallStep ==
  ASSUME Inv, pc \in {"format", "list", "diff", "stat", "print", "source"}, kept = disk,
         UNCHANGED <<fixed, readAs, files, touched, saves>>,
         NEW what \in {"path", "diff", "header", "source"}, Printing(what) \/ UNCHANGED report,
         NEW next \in {"list", "diff", "stat", "truncate", "print", "source"},
         \/ Continue(next) /\ Out # FormatError
            /\ (next = "truncate" => opt.write /\ Changed)
            /\ (next = "source" => ~opt.write)
            /\ (next = "print" => ~(opt.write /\ Changed))
         \/ Return("ok") \/ Return("failed")
  PROVE  Inv'
<1>1. src \in Contents /\ Len(outcome) < Len(args)
  BY DEF Inv, TypeOK
<1>2. Kept /\ disk' = disk /\ disk' \in [Paths -> Contents \cup {None}]
  BY PrintingType, StaysKept DEF Inv
<1>3. CASE Return("ok")
  BY <1>1, <1>2, <1>3, ReturnStep DEF Return
<1>4. CASE Return("failed")
  BY <1>1, <1>2, <1>4, ReturnStep DEF Return
<1>5. ASSUME Continue(next), Out # FormatError, next = "truncate" => opt.write /\ Changed,
             next = "source" => ~opt.write, next = "print" => ~(opt.write /\ Changed)
      PROVE  Inv'
  <2>1. TypeOK' /\ FormatInv' /\ WriteInv' /\ ExitInv'
    BY <1>1, <1>2, <1>5, ContinueStep
  <2>2. kept' = disk' /\ pc' = next /\ opt' = opt /\ Changed' = Changed
    BY <1>2, <1>5 DEF Continue, results, Kept, Changed, Out
  <2>3. KeptInv'
    BY <1>5, <2>2 DEF KeptInv, Rewriting
  <2> QED
    BY <2>1, <2>3 DEF Inv
<1> QED
  BY <1>3, <1>4, <1>5

LEMMA KeptBefore ==
  ASSUME Inv, pc \in {"flags", "file", "format", "list", "diff", "stat", "truncate", "source"}
  PROVE  kept = disk
BY DEF Inv, KeptInv, Rewriting

LEMMA StepFormatGoFile == Inv /\ FormatGoFile => Inv'
<1> SUFFICES ASSUME Inv, FormatGoFile PROVE Inv'
  OBVIOUS
<1> QED
  BY KeptBefore, CallStep DEF FormatGoFile

LEMMA StepList == Inv /\ List => Inv'
<1> SUFFICES ASSUME Inv, List PROVE Inv'
  OBVIOUS
<1>1. Out # FormatError
  BY DEF Inv, FormatInv, List
<1> QED
  BY <1>1, KeptBefore, CallStep DEF List, CannotPrint

LEMMA StepDiff == Inv /\ Diff => Inv'
<1> SUFFICES ASSUME Inv, Diff PROVE Inv'
  OBVIOUS
<1>1. Out # FormatError
  BY DEF Inv, FormatInv, Diff
<1> QED
  BY <1>1, KeptBefore, CallStep DEF Diff, CannotPrint

LEMMA StepStat == Inv /\ Stat => Inv'
<1> SUFFICES ASSUME Inv, Stat PROVE Inv'
  OBVIOUS
<1>1. Out # FormatError
  BY DEF Inv, FormatInv, Stat
<1> QED
  BY <1>1, KeptBefore, CallStep DEF Stat

LEMMA StepPrintSource == Inv /\ PrintSource => Inv'
<1> SUFFICES ASSUME Inv, PrintSource PROVE Inv'
  OBVIOUS
<1> QED
  BY KeptBefore, CallStep DEF PrintSource, CannotPrint

LEMMA StepParseFlags == Inv /\ ParseFlags => Inv'
<1> SUFFICES ASSUME Inv, ParseFlags PROVE Inv'
  OBVIOUS
<1>1. /\ pc = "flags" /\ pc' \in {"file", "exited"} /\ src' = src /\ src = None /\ kept' = kept
      /\ outcome' = outcome /\ exitCode' \in 0..2 /\ disk' = disk /\ kept = disk
      /\ (pc' = "file" => exitCode' = exitCode)
  BY KeptBefore DEF Inv, TypeOK, ParseFlags, files
<1>2. TypeOK'
  BY <1>1 DEF ParseFlags, Inv, TypeOK, fixed, files
<1>3. FormatInv' /\ WriteInv' /\ KeptInv'
  BY <1>1 DEF FormatInv, WriteInv, KeptInv, Rewriting
<1>4. ExitInv'
  BY <1>1 DEF Inv, ExitInv
<1> QED
  BY <1>2, <1>3, <1>4 DEF Inv

LEMMA TakeStep ==
  ASSUME Inv, AtFile, NEW content \in Contents, Take(content),
         UNCHANGED <<fixed, report, disk, saves>>, stdin' \in Contents \cup {None},
         opt.write => Name # Stdin
  PROVE  Inv'
<1>1. /\ pc = "file" /\ Len(outcome) < Len(args) /\ kept = disk
      /\ pc' = "format" /\ src' = content /\ outcome' = outcome /\ exitCode' = exitCode
      /\ kept' = kept /\ disk' = disk /\ opt' = opt /\ args' = args /\ touched' = FALSE
  BY KeptBefore DEF AtFile, Take, fixed
<1>2. readAs' \in [DOMAIN args -> Contents \cup {None}]
  BY DEF Inv, TypeOK, Take
<1>3. TypeOK'
  BY <1>1, <1>2 DEF Inv, TypeOK, fixed
<1>4. FormatInv' /\ WriteInv' /\ KeptInv'
  BY <1>1 DEF FormatInv, WriteInv, KeptInv, Rewriting, Name
<1>5. ExitInv'
  BY <1>1 DEF Inv, ExitInv
<1> QED
  BY <1>3, <1>4, <1>5 DEF Inv

LEMMA CannotReadStep ==
  ASSUME Inv, AtFile, CannotRead,
         UNCHANGED <<fixed, report, disk, saves>>, stdin' \in Contents \cup {None}
  PROVE  Inv'
<1>1. pc = "file" /\ Len(outcome) < Len(args) /\ disk' = disk
  BY DEF AtFile
<1>2. Kept /\ disk' \in [Paths -> Contents \cup {None}]
  BY DEF Inv, TypeOK, Kept, fixed, CannotRead
<1>3. ReturnWith("failed", disk')
  BY <1>1 DEF CannotRead, Return
<1> QED
  BY <1>1, <1>2, <1>3, ReturnStep

LEMMA StepReadFile == Inv /\ ReadFile => Inv'
<1> SUFFICES ASSUME Inv, ReadFile PROVE Inv'
  OBVIOUS
<1>1. /\ AtFile /\ Name # Stdin /\ stdin' \in Contents \cup {None}
      /\ UNCHANGED <<fixed, report, disk, saves>>
  BY DEF ReadFile, Inv, TypeOK, files
<1>2. CASE CannotRead
  BY <1>1, <1>2, CannotReadStep
<1>3. CASE disk[Name] # None /\ Take(disk[Name])
  <2>1. Name \in Paths
    BY <1>1, Current DEF Inv, AtFile
  <2>2. disk[Name] \in Contents
    BY <1>3, <2>1 DEF Inv, TypeOK
  <2> QED
    BY <1>1, <1>3, <2>2, TakeStep
<1> QED
  BY <1>2, <1>3 DEF ReadFile

LEMMA StepReadStdin == Inv /\ ReadStdin => Inv'
<1> SUFFICES ASSUME Inv, ReadStdin PROVE Inv'
  OBVIOUS
<1>1. /\ AtFile /\ UNCHANGED <<fixed, report, disk, saves>>
      /\ stdin \in Contents \cup {None} /\ stdin' \in {stdin, None}
  BY DEF ReadStdin, Inv, TypeOK
<1>2. CASE CannotRead
  BY <1>1, <1>2, CannotReadStep
<1>3. CASE ~opt.write /\ stdin # None /\ Take(stdin)
  BY <1>1, <1>3, TakeStep
<1> QED
  BY <1>2, <1>3 DEF ReadStdin

LEMMA NameIsFile ==
  ASSUME Inv, pc \in {"truncate", "write"}
  PROVE  /\ src \in Contents /\ Len(outcome) < Len(args) /\ src # None
         /\ Name \in Paths /\ opt.write /\ Changed /\ Out # FormatError /\ Out \in Contents
<1>1. src \in Contents /\ Len(outcome) < Len(args) /\ src # None
  BY Values DEF Inv, TypeOK
<1>2. Name \in Paths
  BY <1>1, Current DEF Inv, WriteInv
<1> QED
  BY <1>1, <1>2, OutType DEF Inv, WriteInv, FormatInv

LEMMA StepTruncate == Inv /\ Truncate => Inv'
<1> SUFFICES ASSUME Inv, Truncate PROVE Inv'
  OBVIOUS
<1>1. /\ pc = "truncate" /\ kept = disk /\ src \in Contents /\ Len(outcome) < Len(args)
      /\ Name \in Paths /\ opt.write /\ Changed /\ Out # FormatError
  BY KeptBefore, NameIsFile DEF Truncate
<1>2. /\ Kept /\ touched' = touched
      /\ disk \in [Paths -> Contents \cup {None}]
  BY DEF Truncate, Kept, Inv, TypeOK, fixed
<1>3. CASE disk' = disk /\ Return("failed")
  BY <1>1, <1>2, <1>3, ReturnStep DEF Return
<1>4. CASE disk' = [disk EXCEPT ![Name] = Torn] /\ Continue("write")
  <2>1. disk' \in [Paths -> Contents \cup {None}] /\ disk'[Name] = Torn
    BY <1>1, <1>2, <1>4, Values
  <2>2. TypeOK' /\ FormatInv' /\ WriteInv' /\ ExitInv'
    BY <1>1, <1>2, <1>4, <2>1, ContinueStep
  <2>3. /\ pc' = "write" /\ kept' = kept /\ src' = src /\ outcome' = outcome /\ args' = args
        /\ opt' = opt /\ Name' = Name /\ Changed' = Changed
    BY <1>2, <1>4 DEF Continue, results, Kept, Name, Changed, Out
  <2>4. disk' = [kept' EXCEPT ![Name'] = disk'[Name']] /\ disk'[Name'] = Torn
    BY <1>1, <1>2, <1>4, <2>1, <2>3
  <2>5. KeptInv'
    BY <1>1, <2>3, <2>4 DEF KeptInv, Rewriting
  <2> QED
    BY <2>2, <2>5 DEF Inv
<1> QED
  BY <1>3, <1>4 DEF Truncate

LEMMA WrittenType ==
  ASSUME Inv, pc = "write", NEW content \in Contents
  PROVE  /\ Written(content) \subseteq Contents \cup {None}
         /\ ~touched => Written(content) = {content}
<1>1. /\ Name \in Paths /\ disk \in [Paths -> Contents \cup {None}] /\ Rewriting
  BY NameIsFile DEF Inv, TypeOK, Rewriting
<1>2. disk[Name] \in Contents \cup {None} /\ Torn \in Contents /\ None # Torn
  BY <1>1, Values
<1>3. ~touched => disk[Name] = Torn
  BY <1>1 DEF Inv, KeptInv
<1>4. CASE disk[Name] = Torn
  BY <1>2, <1>4 DEF Written
<1>5. CASE disk[Name] = None
  BY <1>2, <1>3, <1>5 DEF Written
<1>6. CASE disk[Name] # Torn /\ disk[Name] # None
  BY <1>2, <1>3, <1>6 DEF Written
<1> QED
  BY <1>4, <1>5, <1>6

LEMMA StepWriteFile == Inv /\ WriteFile => Inv'
<1> SUFFICES ASSUME Inv, WriteFile PROVE Inv'
  OBVIOUS
<1>1. /\ pc = "write" /\ src \in Contents /\ Len(outcome) < Len(args)
      /\ Name \in Paths /\ opt.write /\ Changed /\ Out # FormatError /\ Out \in Contents
  BY NameIsFile DEF WriteFile
<1>2. /\ Kept /\ touched' = touched
      /\ disk \in [Paths -> Contents \cup {None}] /\ kept \in [Paths -> Contents \cup {None}]
  BY DEF WriteFile, Kept, Inv, TypeOK, fixed
<1>3. ASSUME NEW c \in Written(Torn), disk' = [disk EXCEPT ![Name] = c], ReturnWith("failed", disk')
      PROVE  Inv'
  <2>1. disk' \in [Paths -> Contents \cup {None}]
    BY <1>1, <1>2, <1>3, WrittenType, Values
  <2> QED
    BY <1>1, <1>2, <1>3, <2>1, ReturnStep
<1>4. ASSUME NEW c \in Written(Out), disk' = [disk EXCEPT ![Name] = c], Continue("print")
      PROVE  Inv'
  <2>1. disk' \in [Paths -> Contents \cup {None}] /\ disk'[Name] = c /\ (~touched => c = Out)
    BY <1>1, <1>2, <1>4, WrittenType
  <2>2. TypeOK' /\ FormatInv' /\ WriteInv' /\ ExitInv'
    BY <1>1, <1>2, <1>4, <2>1, ContinueStep
  <2>3. /\ pc' = "print" /\ kept' = kept /\ src' = src /\ outcome' = outcome /\ args' = args
        /\ opt' = opt /\ Name' = Name /\ Out' = Out /\ Changed' = Changed
    BY <1>2, <1>4 DEF Continue, results, Kept, Name, Changed, Out
  <2>4. disk = [kept EXCEPT ![Name] = disk[Name]]
    BY <1>1 DEF Inv, KeptInv, Rewriting
  <2>5. disk' = [kept EXCEPT ![Name] = disk'[Name]]
    BY <1>1, <1>2, <1>4, <2>1, <2>4
  <2>6. disk' = [kept' EXCEPT ![Name'] = disk'[Name']] /\ (~touched' => disk'[Name'] = Out')
    BY <1>2, <2>1, <2>3, <2>5
  <2>7. KeptInv'
    BY <1>1, <2>3, <2>6 DEF KeptInv, Rewriting
  <2> QED
    BY <2>2, <2>7 DEF Inv
<1> QED
  BY <1>3, <1>4 DEF WriteFile

LEMMA StepPrint == Inv /\ PrintHeader => Inv'
<1> SUFFICES ASSUME Inv, PrintHeader PROVE Inv'
  OBVIOUS
<1>1. /\ pc = "print" /\ src \in Contents /\ Len(outcome) < Len(args) /\ Out # FormatError
      /\ UNCHANGED <<fixed, readAs, files, touched, saves>>
  BY DEF PrintHeader, Inv, TypeOK, FormatInv
<1>2. CASE opt.write
  <2>1. Return("ok") /\ UNCHANGED report
    BY <1>2 DEF PrintHeader
  <2>2. Kept /\ disk' = disk /\ disk' \in [Paths -> Contents \cup {None}]
    BY <1>1, <2>1, PrintingType, StaysKept DEF Inv
  <2> QED
    BY <1>1, <2>1, <2>2, ReturnStep DEF Return
<1>3. CASE ~opt.write
  <2>1. kept = disk
    BY <1>1, <1>3 DEF Inv, KeptInv, Rewriting
  <2> QED
    BY <1>1, <1>3, <2>1, CallStep DEF PrintHeader, CannotPrint
<1> QED
  BY <1>2, <1>3

LEMMA StepExit == Inv /\ Exit => Inv'
<1> SUFFICES ASSUME Inv, Exit PROVE Inv'
  OBVIOUS
<1>1. /\ pc = "file" /\ pc' = "exited" /\ kept = disk /\ kept' = kept /\ disk' = disk
      /\ src = None /\ src' = src /\ outcome' = outcome /\ exitCode' = exitCode
  BY KeptBefore DEF Exit, Inv, TypeOK, Continue, results, files
<1>2. TypeOK'
  BY <1>1 DEF Exit, Inv, TypeOK, fixed, files
<1> QED
  BY <1>1, <1>2 DEF Inv, FormatInv, WriteInv, KeptInv, Rewriting, ExitInv

LEMMA StepCrash == Inv /\ Crash => Inv'
<1> SUFFICES ASSUME Inv, Crash PROVE Inv'
  OBVIOUS
<1>1. /\ pc' = "crashed" /\ pc # "exited" /\ kept' = kept /\ disk' = disk /\ opt' = opt
      /\ args' = args /\ src' = src /\ outcome' = outcome /\ exitCode' = exitCode
  BY DEF Crash, Running, Continue, results, files, fixed
<1>2. TypeOK'
  BY <1>1 DEF Crash, Inv, TypeOK, fixed, files
<1> QED
  BY <1>1, <1>2 DEF Inv, FormatInv, WriteInv, KeptInv, Rewriting, ExitInv, Name

LEMMA StepSave ==
  ASSUME Inv, NEW f \in Paths, NEW c \in Contents \cup {None}, Save(f, c)
  PROVE  Inv'
<1>1. /\ pc' = pc /\ src' = src /\ outcome' = outcome /\ exitCode' = exitCode /\ opt' = opt
      /\ args' = args /\ Name' = Name /\ Out' = Out /\ Changed' = Changed /\ Running
      /\ disk' = [disk EXCEPT ![f] = c] /\ kept' = [kept EXCEPT ![f] = c]
      /\ touched' = (touched \/ (src # None /\ f = Name)) /\ saves' \in 0..MaxSaves
  BY Values DEF Save, results, fixed, Name, Out, Changed, Inv, TypeOK
<1>2. disk' \in [Paths -> Contents \cup {None}] /\ kept' \in [Paths -> Contents \cup {None}]
  BY <1>1 DEF Inv, TypeOK
<1>3. TypeOK'
  BY <1>1, <1>2 DEF Save, Inv, TypeOK, fixed
<1>4. ASSUME Rewriting
      PROVE  /\ disk' = [kept' EXCEPT ![Name] = disk'[Name]]
             /\ ~touched' => disk'[Name] = IF pc = "write" THEN Torn ELSE Out
  <2>1. src \in Contents /\ src # None /\ opt.write /\ Len(outcome) < Len(args)
    BY <1>4, Values DEF Inv, TypeOK, Rewriting
  <2>2. Name \in Paths
    BY <2>1, Current DEF Inv, WriteInv
  <2>3. /\ disk = [kept EXCEPT ![Name] = disk[Name]]
        /\ ~touched => disk[Name] = IF pc = "write" THEN Torn ELSE Out
    BY <1>4 DEF Inv, KeptInv
  <2>4. disk \in [Paths -> Contents \cup {None}] /\ kept \in [Paths -> Contents \cup {None}]
    BY DEF Inv, TypeOK
  <2>5. CASE f = Name
    BY <1>1, <2>1, <2>2, <2>4, <2>3, <2>5
  <2>6. CASE f # Name
    BY <1>1, <2>2, <2>4, <2>3, <2>6
  <2> QED
    BY <2>5, <2>6
<1>5. Rewriting' <=> Rewriting
  BY <1>1 DEF Rewriting
<1>6. KeptInv'
  BY <1>1, <1>4, <1>5 DEF Inv, KeptInv
<1> QED
  BY <1>1, <1>3, <1>6 DEF Inv, FormatInv, WriteInv, ExitInv

LEMMA NextInv == Inv /\ [Next]_vars => Inv'
<1>1. Inv /\ UNCHANGED vars => Inv'
  BY DEF vars, fixed, results, files, Inv, TypeOK, FormatInv, WriteInv, KeptInv, Rewriting,
         ExitInv, Name, Out, Changed
<1> QED
  BY <1>1, StepParseFlags, StepReadFile, StepReadStdin, StepFormatGoFile, StepList, StepDiff,
     StepStat, StepTruncate, StepWriteFile, StepPrint, StepPrintSource, StepExit, StepCrash,
     StepSave DEF Next, Step

LEMMA SpecInv == Spec => []Inv
BY InitInv, NextInv, PTL DEF Spec

\* The types of the state of fmtSQLMain, in every state of every run.
THEOREM Spec_TypeOK == Spec => []TypeOK
<1>1. Inv => TypeOK
  BY DEF Inv
<1> QED
  BY <1>1, SpecInv, PTL

-----------------------------------------------------------------------------
(***************************************************************************)
(* The steps are those of FmtPromise, or stutter.                          *)
(***************************************************************************)
LEMMA InitPromise == Init => Promise!Init
<1> SUFFICES ASSUME Init PROVE Promise!Init
  OBVIOUS
<1>1. TypeOK
  BY InitInv DEF Inv
<1> QED
  BY <1>1 DEF Init, TypeOK, Running, Promise!Init, Promise!Options, Options, Promise!Sources

\* A return with an error, from a file that is as it was before or is being written.
LEMMA FailPromise ==
  ASSUME Inv, Running, Len(outcome) < Len(args), ReturnWith("failed", disk'),
         opt' = opt, args' = args, touched' = touched,
         stdin' = stdin \/ (Name = Stdin /\ stdin' = None),
         \/ disk' = kept
         \/ /\ opt.write /\ Name \in Paths /\ src # None /\ Out \notin {src, FormatError}
            /\ \E c \in Contents \cup {None} : disk' = [kept EXCEPT ![Name] = c]
  PROVE  Promise!Fail
<1>1. /\ outcome' = Append(outcome, "failed") /\ src' = None /\ kept' = disk' /\ pc' = "file"
  BY DEF ReturnWith
<1>2. pc # "crashed" /\ pc # "exited"
  BY DEF Running
<1> QED
  BY <1>1, <1>2 DEF Promise!Fail, Promise!Pending, Promise!Current, Promise!Rewrites,
                    Promise!Damaged, Running, Name, Out

\* A return without an error.
LEMMA SucceedPromise ==
  ASSUME Inv, Running, Len(outcome) < Len(args), ReturnWith("ok", disk'),
         opt' = opt, args' = args, touched' = touched, stdin' = stdin,
         src # None, Out # FormatError,
         IF ~(opt.write /\ Name \in Paths /\ Out # src) THEN disk' = kept
         ELSE IF touched THEN \E c \in Contents \cup {None} : disk' = [kept EXCEPT ![Name] = c]
         ELSE disk' = [kept EXCEPT ![Name] = Out]
  PROVE  Promise!Succeed
<1>1. /\ outcome' = Append(outcome, "ok") /\ src' = None /\ kept' = disk' /\ pc' = "file"
  BY DEF ReturnWith
<1>2. pc # "crashed" /\ pc # "exited"
  BY DEF Running
<1>3. Promise!Rewrites <=> opt.write /\ Name \in Paths /\ Out # src
  BY DEF Promise!Rewrites, Promise!Current, Name, Out
<1>4. exitCode' = exitCode
  BY DEF ReturnWith
<1> QED
  BY <1>1, <1>2, <1>3 DEF Promise!Succeed, Promise!Pending, Promise!Current,
                          Promise!Damaged, Running, Name, Out

\* A step to the next call.
LEMMA ContinuePromise ==
  ASSUME Running, NEW next, next \notin {"exited", "crashed"}, Continue(next),
         opt' = opt, args' = args, touched' = touched, stdin' = stdin
  PROVE  UNCHANGED Promise!vars
BY DEF Continue, results, Running, Promise!vars

\* The calls that leave the disk alone, before the write.
LEMMA CallPromise ==
  ASSUME Inv, pc \in {"format", "list", "diff", "stat", "print", "source"}, kept = disk,
         UNCHANGED <<fixed, readAs, files, touched, saves>>,
         NEW next, next \notin {"exited", "crashed"},
         \/ Continue(next) \/ Return("failed")
         \/ Return("ok") /\ ~(opt.write /\ Changed) /\ Out # FormatError
  PROVE  [Promise!Next]_(Promise!vars)
<1>1. /\ Running /\ Len(outcome) < Len(args) /\ src # None
      /\ opt' = opt /\ args' = args /\ touched' = touched /\ stdin' = stdin /\ disk' = disk
  BY Values DEF Inv, TypeOK, Running, fixed, files
<1>2. CASE Continue(next)
  BY <1>1, <1>2, ContinuePromise
<1>3. CASE Return("failed")
  BY <1>1, <1>3, FailPromise DEF Return, Promise!Next
<1>4. CASE Return("ok") /\ ~(opt.write /\ Changed) /\ Out # FormatError
  <2>1. ~(opt.write /\ Name \in Paths /\ Out # src)
    BY <1>4 DEF Changed
  <2> QED
    BY <1>1, <1>4, <2>1, SucceedPromise DEF Return, Promise!Next
<1> QED
  BY <1>2, <1>3, <1>4

LEMMA PromiseFormatGoFile == Inv /\ FormatGoFile => [Promise!Next]_(Promise!vars)
<1> SUFFICES ASSUME Inv, FormatGoFile PROVE [Promise!Next]_(Promise!vars)
  OBVIOUS
<1> QED
  BY KeptBefore, CallPromise DEF FormatGoFile

LEMMA PromiseList == Inv /\ List => [Promise!Next]_(Promise!vars)
<1> SUFFICES ASSUME Inv, List PROVE [Promise!Next]_(Promise!vars)
  OBVIOUS
<1> QED
  BY KeptBefore, CallPromise DEF List, CannotPrint

LEMMA PromiseDiff == Inv /\ Diff => [Promise!Next]_(Promise!vars)
<1> SUFFICES ASSUME Inv, Diff PROVE [Promise!Next]_(Promise!vars)
  OBVIOUS
<1> QED
  BY KeptBefore, CallPromise DEF Diff, CannotPrint

LEMMA PromiseStat == Inv /\ Stat => [Promise!Next]_(Promise!vars)
<1> SUFFICES ASSUME Inv, Stat PROVE [Promise!Next]_(Promise!vars)
  OBVIOUS
<1> QED
  BY KeptBefore, CallPromise DEF Stat

LEMMA PromisePrintSource == Inv /\ PrintSource => [Promise!Next]_(Promise!vars)
<1> SUFFICES ASSUME Inv, PrintSource PROVE [Promise!Next]_(Promise!vars)
  OBVIOUS
<1>1. ~opt.write /\ Out # FormatError
  BY DEF Inv, WriteInv, FormatInv, PrintSource
<1> QED
  BY <1>1, KeptBefore, CallPromise DEF PrintSource, CannotPrint

LEMMA PromisePrint == Inv /\ PrintHeader => [Promise!Next]_(Promise!vars)
<1> SUFFICES ASSUME Inv, PrintHeader PROVE [Promise!Next]_(Promise!vars)
  OBVIOUS
<1>1. /\ pc = "print" /\ src \in Contents /\ src # None /\ Len(outcome) < Len(args)
      /\ Out # FormatError /\ Running
      /\ UNCHANGED <<fixed, readAs, files, touched, saves>>
  BY Values DEF PrintHeader, Inv, TypeOK, FormatInv, Running
<1>2. CASE opt.write /\ Changed
  <2>1. Return("ok") /\ disk' = disk
    BY <1>1, <1>2 DEF PrintHeader, files
  <2>2. Name \in Paths
    BY <1>1, <1>2, Current DEF Inv, WriteInv
  <2>3. /\ disk = [kept EXCEPT ![Name] = disk[Name]]
        /\ ~touched => disk[Name] = Out
    BY <1>1, <1>2 DEF Inv, KeptInv, Rewriting
  <2>4. disk[Name] \in Contents \cup {None}
    BY <2>2 DEF Inv, TypeOK
  <2>5. IF touched THEN \E c \in Contents \cup {None} : disk' = [kept EXCEPT ![Name] = c]
                   ELSE disk' = [kept EXCEPT ![Name] = Out]
    BY <2>1, <2>3, <2>4
  <2>6. IF ~(opt.write /\ Name \in Paths /\ Out # src) THEN disk' = kept
        ELSE IF touched THEN \E c \in Contents \cup {None} : disk' = [kept EXCEPT ![Name] = c]
        ELSE disk' = [kept EXCEPT ![Name] = Out]
    BY <1>2, <2>2, <2>5 DEF Changed
  <2>7. opt' = opt /\ args' = args /\ touched' = touched /\ stdin' = stdin /\ ReturnWith("ok", disk')
    BY <1>1, <2>1 DEF fixed, files, Return
  <2> QED
    BY <1>1, <2>6, <2>7, SucceedPromise DEF Promise!Next
<1>3. CASE ~(opt.write /\ Changed)
  <2>1. kept = disk
    BY <1>1, <1>3 DEF Inv, KeptInv, Rewriting
  <2>2. Continue("source") \/ Return("failed") \/ Return("ok")
    BY DEF PrintHeader, CannotPrint
  <2>3. CASE Continue("source")
    BY <1>1, <2>1, <2>3, CallPromise
  <2>4. CASE Return("failed")
    BY <1>1, <2>1, <2>4, CallPromise
  <2>5. CASE Return("ok")
    BY <1>1, <1>3, <2>1, <2>5, CallPromise
  <2> QED
    BY <2>2, <2>3, <2>4, <2>5
<1> QED
  BY <1>2, <1>3

LEMMA PromiseTruncate == Inv /\ Truncate => [Promise!Next]_(Promise!vars)
<1> SUFFICES ASSUME Inv, Truncate PROVE [Promise!Next]_(Promise!vars)
  OBVIOUS
<1>1. /\ pc = "truncate" /\ kept = disk /\ Running /\ Len(outcome) < Len(args)
      /\ opt' = opt /\ args' = args /\ touched' = touched /\ stdin' = stdin
  BY KeptBefore, NameIsFile DEF Truncate, Running, fixed
<1>2. CASE disk' = disk /\ Return("failed")
  BY <1>1, <1>2, FailPromise DEF Return, Promise!Next
<1>3. CASE Continue("write")
  BY <1>1, <1>3, ContinuePromise
<1> QED
  BY <1>2, <1>3 DEF Truncate

LEMMA PromiseWriteFile == Inv /\ WriteFile => [Promise!Next]_(Promise!vars)
<1> SUFFICES ASSUME Inv, WriteFile PROVE [Promise!Next]_(Promise!vars)
  OBVIOUS
<1>1. /\ pc = "write" /\ Running /\ Len(outcome) < Len(args) /\ src # None
      /\ Name \in Paths /\ opt.write /\ Out \notin {src, FormatError}
      /\ opt' = opt /\ args' = args /\ touched' = touched /\ stdin' = stdin
      /\ disk = [kept EXCEPT ![Name] = disk[Name]]
      /\ kept \in [Paths -> Contents \cup {None}]
  BY NameIsFile DEF WriteFile, Running, fixed, Changed, Inv, KeptInv, Rewriting, TypeOK
<1>2. ASSUME NEW c \in Written(Torn), disk' = [disk EXCEPT ![Name] = c], ReturnWith("failed", disk')
      PROVE  Promise!Fail
  <2>1. c \in Contents \cup {None}
    BY <1>1, WrittenType, Values
  <2>2. disk' = [kept EXCEPT ![Name] = c]
    BY <1>1, <1>2
  <2>3. \E x \in Contents \cup {None} : disk' = [kept EXCEPT ![Name] = x]
    BY <2>1, <2>2
  <2> QED
    BY <1>1, <1>2, <2>3, FailPromise
<1>3. CASE Continue("print")
  BY <1>1, <1>3, ContinuePromise
<1> QED
  BY <1>2, <1>3 DEF WriteFile, Promise!Next

LEMMA PromiseParseFlags == Inv /\ ParseFlags => [Promise!Next]_(Promise!vars)
<1> SUFFICES ASSUME Inv, ParseFlags PROVE [Promise!Next]_(Promise!vars)
  OBVIOUS
<1>1. /\ pc = "flags" /\ outcome = <<>> /\ src = None /\ kept = disk
      /\ UNCHANGED <<opt, args, kept, disk, stdin, src, touched, outcome>>
  BY KeptBefore DEF ParseFlags, Inv, TypeOK, ExitInv, fixed, files
<1>2. CASE pc' = "file"
  BY <1>1, <1>2 DEF Promise!vars, Running
<1>3. CASE pc' = "exited" /\ exitCode' \in {0, 2}
  BY <1>1, <1>3 DEF Promise!Next, Promise!Usage, Running
<1> QED
  BY <1>2, <1>3 DEF ParseFlags

LEMMA PromiseReadFile == Inv /\ ReadFile => [Promise!Next]_(Promise!vars)
<1> SUFFICES ASSUME Inv, ReadFile PROVE [Promise!Next]_(Promise!vars)
  OBVIOUS
<1>1. /\ pc = "file" /\ Running /\ Len(outcome) < Len(args) /\ Name # Stdin /\ src = None
      /\ kept = disk /\ opt' = opt /\ args' = args /\ stdin' = stdin /\ disk' = disk
  BY KeptBefore DEF ReadFile, AtFile, Running, fixed, files, Inv, TypeOK
<1>2. CASE CannotRead
  BY <1>1, <1>2, FailPromise DEF CannotRead, Return, Promise!Next
<1>3. CASE disk[Name] # None /\ Take(disk[Name])
  <2>1. Promise!Take
    BY <1>1, <1>3 DEF Take, Running, Name, Promise!Take, Promise!Pending, Promise!Current
  <2> QED
    BY <2>1 DEF Promise!Next
<1> QED
  BY <1>2, <1>3 DEF ReadFile

LEMMA PromiseReadStdin == Inv /\ ReadStdin => [Promise!Next]_(Promise!vars)
<1> SUFFICES ASSUME Inv, ReadStdin PROVE [Promise!Next]_(Promise!vars)
  OBVIOUS
<1>1. /\ pc = "file" /\ Running /\ Len(outcome) < Len(args) /\ Name = Stdin /\ src = None
      /\ kept = disk /\ opt' = opt /\ args' = args /\ disk' = disk
  BY KeptBefore DEF ReadStdin, AtFile, Running, fixed, Inv, TypeOK
<1>2. CASE CannotRead /\ stdin' \in {stdin, None}
  BY <1>1, <1>2, FailPromise DEF CannotRead, Return, Promise!Next
<1>3. CASE stdin # None /\ Take(stdin) /\ stdin' = None
  <2>1. Promise!Take
    BY <1>1, <1>3 DEF Take, Running, Name, Promise!Take, Promise!Pending, Promise!Current
  <2> QED
    BY <2>1 DEF Promise!Next
<1> QED
  BY <1>2, <1>3 DEF ReadStdin

LEMMA PromiseExit == Inv /\ Exit => [Promise!Next]_(Promise!vars)
<1> SUFFICES ASSUME Inv, Exit PROVE [Promise!Next]_(Promise!vars)
  OBVIOUS
<1>1. /\ pc = "file" /\ pc' = "exited" /\ Len(outcome) = Len(args)
      /\ UNCHANGED <<opt, args, kept, disk, stdin, src, touched, outcome, exitCode>>
  BY DEF Exit, Continue, results, fixed, files
<1>2. exitCode = IF \E k \in DOMAIN outcome : outcome[k] = "failed" THEN 1 ELSE 0
  BY <1>1 DEF Inv, ExitInv
<1>3. Promise!Exit
  BY <1>1, <1>2 DEF Promise!Exit, Running
<1> QED
  BY <1>3 DEF Promise!Next

LEMMA PromiseCrash == Inv /\ Crash => [Promise!Next]_(Promise!vars)
<1> SUFFICES ASSUME Inv, Crash PROVE [Promise!Next]_(Promise!vars)
  OBVIOUS
<1>1. /\ Running /\ pc' = "crashed"
      /\ UNCHANGED <<opt, args, kept, disk, stdin, src, touched, outcome, exitCode>>
  BY DEF Crash, Continue, results, fixed, files
<1>2. CASE Rewriting
  <2>1. src # None /\ src \in Contents /\ Len(outcome) < Len(args) /\ opt.write
    BY <1>2, Values DEF Inv, TypeOK, Rewriting
  <2>2. Name \in Paths /\ Out \notin {src, FormatError}
    BY <1>2, <2>1, Current DEF Inv, WriteInv, FormatInv, Rewriting, Changed
  <2>3. disk = [kept EXCEPT ![Name] = disk[Name]] /\ disk[Name] \in Contents \cup {None}
    BY <1>2, <2>2 DEF Inv, KeptInv, TypeOK
  <2>4. \E c \in Contents \cup {None} : disk = [kept EXCEPT ![Name] = c]
    BY <2>3
  <2>5. Promise!Crash
    BY <1>1, <2>1, <2>2, <2>4 DEF Promise!Crash, Promise!Pending, Promise!Rewrites,
                                  Promise!Current, Promise!Damaged, Running, Name, Out
  <2> QED
    BY <2>5 DEF Promise!Next
<1>3. CASE ~Rewriting
  <2>1. kept = disk
    BY <1>1, <1>3 DEF Inv, KeptInv, Running
  <2>2. Promise!Crash
    BY <1>1, <2>1 DEF Promise!Crash, Running
  <2> QED
    BY <2>2 DEF Promise!Next
<1> QED
  BY <1>2, <1>3

LEMMA PromiseSave ==
  ASSUME Inv, NEW f \in Paths, NEW c \in Contents \cup {None}, Save(f, c)
  PROVE  [Promise!Next]_(Promise!vars)
<1>1. /\ Running /\ UNCHANGED <<pc, opt, args, stdin, src, outcome, exitCode>>
      /\ kept' = [kept EXCEPT ![f] = c]
      /\ touched' = (touched \/ (src # None /\ f = Name))
  BY DEF Save, fixed
<1>2. src # None => Len(outcome) < Len(args)
  BY <1>1 DEF Inv, TypeOK, Running
<1>3. Promise!Pending /\ src # None /\ f = Promise!Current <=> src # None /\ f = Name
  BY <1>1, <1>2 DEF Promise!Pending, Promise!Current, Name, Running
<1>4. touched' = (touched \/ (Promise!Pending /\ src # None /\ f = Promise!Current))
  BY <1>1, <1>3, Zenon
<1>5. Promise!Save(f, c)
  BY <1>1, <1>4 DEF Promise!Save, Running
<1> QED
  BY <1>5 DEF Promise!Next

LEMMA NextPromise == Inv /\ [Next]_vars => [Promise!Next]_(Promise!vars)
<1>1. UNCHANGED vars => UNCHANGED Promise!vars
  BY DEF vars, fixed, results, files, Promise!vars, Running
<1> QED
  BY <1>1, PromiseParseFlags, PromiseReadFile, PromiseReadStdin, PromiseFormatGoFile,
     PromiseList, PromiseDiff, PromiseStat, PromiseTruncate, PromiseWriteFile, PromisePrint,
     PromisePrintSource, PromiseExit, PromiseCrash, PromiseSave DEF Next, Step

\* fmtSQLMain does what FmtPromise says.
THEOREM Spec_Promised == Spec => Promised
BY InitPromise, NextPromise, SpecInv, PTL DEF Spec, Promised, Promise!Spec

-----------------------------------------------------------------------------
\* Once standard input was taken, nothing is left on it.
StdinInv ==
  \A j \in DOMAIN args : args[j] = Stdin /\ readAs[j] # None => stdin = None

LEMMA StdinStep == Inv /\ StdinInv /\ StdinOnce /\ [Next]_vars => StdinInv' /\ StdinOnce'
<1> SUFFICES ASSUME Inv, StdinInv, StdinOnce, [Next]_vars PROVE StdinInv' /\ StdinOnce'
  OBVIOUS
<1>1. args' = args
  BY DEF Next, Step, vars, fixed, ParseFlags, ReadFile, ReadStdin, FormatGoFile, List, Diff, Stat,
         Truncate, WriteFile, PrintHeader, PrintSource, Exit, Crash, Save
<1>2. CASE readAs' = readAs /\ stdin' \in {stdin, None}
  BY <1>1, <1>2 DEF StdinInv, StdinOnce
<1>3. CASE ReadFile
  BY <1>1, <1>3 DEF StdinInv, StdinOnce, ReadFile, AtFile, Take, CannotRead, Name, Inv, TypeOK,
                    files
<1>4. CASE ReadStdin
  BY <1>1, <1>4 DEF StdinInv, StdinOnce, ReadStdin, AtFile, Take, CannotRead, Name, Inv, TypeOK
<1>5. \/ readAs' = readAs /\ stdin' \in {stdin, None}
      \/ ReadFile \/ ReadStdin
  BY DEF Next, Step, vars, files, ParseFlags, FormatGoFile, List, Diff, Stat,
         Truncate, WriteFile, PrintHeader, PrintSource, Exit, Crash, Save
<1> QED
  BY <1>2, <1>3, <1>4, <1>5

\* Of several "-" arguments, at most one is formatted.
THEOREM Spec_StdinOnce == Spec => []StdinOnce
<1>1. Init => StdinInv /\ StdinOnce
  BY DEF Init, StdinInv, StdinOnce
<1> QED
  BY <1>1, StdinStep, SpecInv, PTL DEF Spec
-----------------------------------------------------------------------------
(***************************************************************************)
(* The five shapes of a step, for the properties that relate the reports,  *)
(* the outcomes and the contents that were read.                           *)
(***************************************************************************)
Reports == {"path", "diff", "header", "source"}
AfterList == {"diff", "stat", "truncate", "write", "print", "source"}

\* processFile returns.
Returns(result) ==
  /\ pc \notin {"flags", "exited", "crashed"} /\ Len(outcome) < Len(args)
  /\ outcome' = Append(outcome, result) /\ src' = None /\ pc' = "file"
  /\ UNCHANGED <<fixed, readAs, touched, saves>>
  /\ report' = report \/ (~opt.write /\ Printing("source"))
  /\ result = "ok" =>
       /\ src \in Contents /\ Out # FormatError /\ pc \in AfterList
       /\ ~(opt.write /\ Changed) => kept' = kept
       /\ opt.write /\ Changed /\ ~touched => kept' = [kept EXCEPT ![Name] = Out]
  /\ result = "failed" =>
       \/ kept' = kept
       \/ /\ src \in Contents /\ opt.write /\ Changed
          /\ \E c \in Contents \cup {None} : kept' = [kept EXCEPT ![Name] = c]

\* processFile goes on; what it prints under -w is about a change.
GoesOn ==
  /\ src \in Contents /\ Len(outcome) < Len(args) /\ pc' \in AfterList \cup {"list"}
  /\ UNCHANGED <<fixed, src, outcome, kept, readAs, touched, saves>>
  /\ \/ report' = report
     \/ (opt.write => Changed) /\ \E what \in Reports : Printing(what)
  /\ opt.list /\ Changed /\ pc' \in AfterList /\ pc \notin AfterList => \E what \in Reports : Printing(what)

\* A file, or standard input, was read.
Takes ==
  /\ AtFile /\ pc' = "format"
  /\ UNCHANGED <<fixed, outcome, kept, report, saves>>
  /\ \E content \in Contents :
       /\ src' = content /\ readAs' = [readAs EXCEPT ![Len(outcome) + 1] = content]
       /\ opt.write => Name \in Paths /\ content = kept[Name]
  /\ touched' = FALSE

\* The run begins, or ends.
Turns ==
  /\ UNCHANGED <<fixed, src, outcome, kept, report, readAs, touched, saves>>
  /\ \/ pc' = "file"
     \/ pc' = "crashed"
     \/ pc' = "exited" /\ (outcome = <<>> \/ (exitCode' = exitCode /\ pc = "file" /\ Len(outcome) = Len(args)))

\* Another program saved a file.
Disturbs ==
  /\ UNCHANGED <<fixed, pc, src, outcome, exitCode, report, readAs>>
  /\ saves' # 0

LEMMA ShapeOfCall ==
  ASSUME Inv, pc \in {"format", "list", "diff", "stat", "print", "source"}, kept = disk,
         UNCHANGED <<fixed, readAs, files, touched, saves>>,
         NEW next \in AfterList \cup {"list"},
         \/ /\ Continue(next)
            /\ \/ report' = report
               \/ (opt.write => Changed) /\ \E what \in Reports : Printing(what)
            /\ opt.list /\ Changed /\ next \in AfterList /\ pc \notin AfterList =>
                 \E what \in Reports : Printing(what)
         \/ /\ Return("ok") /\ pc \in AfterList /\ ~(opt.write /\ Changed)
            /\ report' = report \/ (~opt.write /\ Printing("source"))
         \/ Return("failed") /\ report' = report
  PROVE  GoesOn \/ Returns("ok") \/ Returns("failed")
<1>1. src \in Contents /\ Len(outcome) < Len(args) /\ pc \notin {"flags", "exited", "crashed"}
  BY DEF Inv, TypeOK
<1>2. pc \in AfterList => Out # FormatError
  BY DEF AfterList, Inv, FormatInv
<1>3. disk' = disk
  BY DEF files
<1>4. CASE Continue(next) /\ (\/ report' = report
                              \/ (opt.write => Changed) /\ \E what \in Reports : Printing(what))
           /\ (opt.list /\ Changed /\ next \in AfterList /\ pc \notin AfterList =>
                 \E what \in Reports : Printing(what))
  BY <1>1, <1>4 DEF GoesOn, Continue, results
<1>5. CASE /\ Return("ok") /\ pc \in AfterList /\ ~(opt.write /\ Changed)
           /\ report' = report \/ (~opt.write /\ Printing("source"))
  BY <1>1, <1>2, <1>3, <1>5 DEF Returns, Return, ReturnWith
<1>6. CASE Return("failed") /\ report' = report
  BY <1>1, <1>3, <1>6 DEF Returns, Return, ReturnWith
<1> QED
  BY <1>4, <1>5, <1>6

LEMMA ShapeOfOutput ==
  ASSUME Inv, FormatGoFile \/ List \/ Diff \/ Stat \/ PrintSource
  PROVE  GoesOn \/ Returns("ok") \/ Returns("failed")
<1>1. pc \in {"format", "list", "diff", "stat", "source"} /\ kept = disk
      /\ UNCHANGED <<fixed, readAs, files, touched, saves>>
  BY KeptBefore DEF FormatGoFile, List, Diff, Stat, PrintSource
<1>2. CASE FormatGoFile
  BY <1>1, <1>2, ShapeOfCall DEF FormatGoFile, AfterList
<1>3. CASE List
  BY <1>1, <1>3, ShapeOfCall DEF List, AfterList, Reports, CannotPrint
<1>4. CASE Diff
  BY <1>1, <1>4, ShapeOfCall DEF Diff, AfterList, Reports, CannotPrint
<1>5. CASE Stat
  BY <1>1, <1>5, ShapeOfCall DEF Stat, AfterList
<1>6. CASE PrintSource
  <2>1. ~opt.write
    BY <1>6 DEF PrintSource, Inv, WriteInv
  <2> QED
    BY <1>1, <1>6, <2>1, ShapeOfCall DEF PrintSource, AfterList, CannotPrint
<1> QED
  BY <1>2, <1>3, <1>4, <1>5, <1>6

LEMMA ShapeOfPrint ==
  ASSUME Inv, PrintHeader
  PROVE  GoesOn \/ Returns("ok") \/ Returns("failed")
<1>1. /\ pc = "print" /\ pc \in AfterList /\ UNCHANGED <<fixed, readAs, files, touched, saves>>
      /\ src \in Contents /\ src # None /\ Len(outcome) < Len(args) /\ Out # FormatError
  BY Values DEF PrintHeader, AfterList, Inv, TypeOK, FormatInv
<1>2. CASE opt.write /\ Changed
  <2>1. Return("ok") /\ report' = report /\ disk' = disk
    BY <1>1, <1>2 DEF PrintHeader, files
  <2>2. ~touched => disk = [kept EXCEPT ![Name] = Out]
    BY <1>1, <1>2 DEF Inv, KeptInv, Rewriting
  <2> QED
    BY <1>1, <1>2, <2>1, <2>2 DEF Returns, Return, ReturnWith
<1>3. CASE ~(opt.write /\ Changed)
  <2>1. kept = disk
    BY <1>1, <1>3 DEF Inv, KeptInv, Rewriting
  <2>2. \/ /\ Continue("source") /\ ~opt.write
           /\ report' = report \/ Printing("header")
        \/ Return("ok") /\ report' = report
        \/ Return("failed") /\ report' = report
    BY DEF PrintHeader, CannotPrint
  <2> QED
    BY <1>1, <1>3, <2>1, <2>2, ShapeOfCall DEF AfterList, Reports
<1> QED
  BY <1>2, <1>3

LEMMA ShapeOfWrite ==
  ASSUME Inv, Truncate \/ WriteFile
  PROVE  GoesOn \/ Returns("failed")
<1>1. /\ pc \in {"truncate", "write"} /\ UNCHANGED <<fixed, readAs, touched, saves>> /\ report' = report
      /\ src \in Contents /\ Len(outcome) < Len(args) /\ opt.write /\ Changed /\ Name \in Paths
  BY NameIsFile DEF Truncate, WriteFile
<1>2. ASSUME NEW next \in {"write", "print"}, Continue(next)
      PROVE  GoesOn
  BY <1>1, <1>2 DEF GoesOn, Continue, results, AfterList
<1>3. CASE Truncate /\ Return("failed") /\ disk' = disk
  <2>1. kept = disk
    BY <1>3, KeptBefore DEF Truncate
  <2> QED
    BY <1>1, <1>3, <2>1 DEF Returns, Return, ReturnWith
<1>4. ASSUME WriteFile, NEW c \in Written(Torn), disk' = [disk EXCEPT ![Name] = c],
             ReturnWith("failed", disk')
      PROVE  Returns("failed")
  <2>1. pc = "write" /\ c \in Contents \cup {None}
    BY <1>4, WrittenType, Values DEF WriteFile
  <2>2. disk = [kept EXCEPT ![Name] = disk[Name]] /\ kept \in [Paths -> Contents \cup {None}]
    BY <1>1, <2>1 DEF Inv, KeptInv, Rewriting, TypeOK
  <2>3. disk' = [kept EXCEPT ![Name] = c]
    BY <1>1, <1>4, <2>2
  <2> QED
    BY <1>1, <1>4, <2>1, <2>3 DEF Returns, ReturnWith
<1> QED
  BY <1>2, <1>3, <1>4 DEF Truncate, WriteFile

LEMMA ShapeOfRead ==
  ASSUME Inv, ReadFile \/ ReadStdin
  PROVE  Takes \/ Returns("failed")
<1>1. /\ AtFile /\ UNCHANGED <<fixed, report, saves>> /\ disk' = disk /\ kept = disk
      /\ pc \notin {"flags", "exited", "crashed"} /\ Len(outcome) < Len(args)
  BY KeptBefore DEF ReadFile, ReadStdin, AtFile, files
<1>2. CASE CannotRead
  BY <1>1, <1>2 DEF CannotRead, Returns, Return, ReturnWith
<1>3. CASE ReadFile /\ disk[Name] # None /\ Take(disk[Name])
  <2>1. Name \in Paths
    BY <1>1, <1>3, Current DEF Inv, ReadFile
  <2>2. disk[Name] \in Contents
    BY <1>3, <2>1 DEF Inv, TypeOK
  <2> QED
    BY <1>1, <1>3, <2>1, <2>2 DEF Takes, Take
<1>4. CASE ReadStdin /\ ~opt.write /\ stdin # None /\ Take(stdin)
  <2>1. stdin \in Contents
    BY <1>4 DEF Inv, TypeOK
  <2> QED
    BY <1>1, <1>4, <2>1 DEF Takes, Take
<1> QED
  BY <1>2, <1>3, <1>4 DEF ReadFile, ReadStdin

LEMMA ShapeOfSave ==
  ASSUME Inv, NEW f \in Paths, NEW c \in Contents \cup {None}, Save(f, c)
  PROVE  Disturbs
<1>1. saves \in Nat
  BY Values DEF Inv, TypeOK
<1>2. saves' # 0
  BY <1>1 DEF Save
<1> QED
  BY <1>2 DEF Save, Disturbs

LEMMA Shapes ==
  ASSUME Inv, [Next]_vars
  PROVE  \/ UNCHANGED vars \/ GoesOn \/ Returns("ok") \/ Returns("failed")
         \/ Takes \/ Turns \/ Disturbs
<1>1. ParseFlags \/ Exit \/ Crash => Turns
  BY DEF ParseFlags, Exit, Crash, Continue, results, Turns, Inv, ExitInv, Running
<1> QED
  BY <1>1, ShapeOfOutput, ShapeOfPrint, ShapeOfWrite, ShapeOfRead, ShapeOfSave DEF Next, Step
-----------------------------------------------------------------------------
\* A finished run went over all files; without errors, all of them succeeded.
DoneInv ==
  pc = "exited" /\ outcome # <<>> =>
    Len(outcome) = Len(args) /\ (exitCode = 0 => \A k \in DOMAIN outcome : outcome[k] = "ok")

\* What returned last is appended.
LEMMA Appended ==
  ASSUME Inv, NEW result \in {"ok", "failed"}, Returns(result)
  PROVE  /\ Len(outcome) \in Nat /\ DOMAIN outcome = 1..Len(outcome) /\ args' = args
         /\ DOMAIN outcome' = 1..(Len(outcome) + 1) /\ Len(outcome') = Len(outcome) + 1
         /\ \A k \in DOMAIN outcome : outcome'[k] = outcome[k]
         /\ outcome'[Len(outcome) + 1] = result
         /\ Len(outcome) + 1 \in DOMAIN args
         /\ DOMAIN outcome \subseteq DOMAIN args
<1>1. outcome \in Seq({"ok", "failed"}) /\ Len(outcome) < Len(args) /\ args \in Seq(Paths \cup {Stdin})
  BY DEF Inv, TypeOK, Returns
<1>2. outcome' = Append(outcome, result) /\ args' = args
  BY DEF Returns, fixed
<1> QED
  BY <1>1, <1>2, AppendProperties

LEMMA DoneStep == Inv /\ DoneInv /\ [Next]_vars => DoneInv'
<1> SUFFICES ASSUME Inv, DoneInv, [Next]_vars PROVE DoneInv'
  OBVIOUS
<1>1. CASE UNCHANGED vars
  BY <1>1 DEF vars, fixed, results, DoneInv
<1>2. CASE GoesOn \/ Takes \/ Returns("ok") \/ Returns("failed")
  BY <1>2 DEF GoesOn, AfterList, Takes, Returns, DoneInv
<1>3. CASE Turns
  <2>1. outcome' = outcome /\ args' = args
    BY <1>3 DEF Turns, fixed
  <2>2. CASE pc' = "exited" /\ outcome # <<>>
    <3>1. exitCode' = exitCode /\ pc = "file" /\ Len(outcome) = Len(args)
      BY <1>3, <2>2 DEF Turns
    <3>2. exitCode = IF \E k \in DOMAIN outcome : outcome[k] = "failed" THEN 1 ELSE 0
      BY <3>1 DEF Inv, ExitInv
    <3>3. \A k \in DOMAIN outcome : outcome[k] \in {"ok", "failed"}
      BY DEF Inv, TypeOK
    <3> QED
      BY <2>1, <3>1, <3>2, <3>3 DEF DoneInv
  <2> QED
    BY <2>1, <2>2 DEF DoneInv
<1>4. CASE Disturbs
  BY <1>4 DEF Disturbs, fixed, DoneInv
<1> QED
  BY <1>1, <1>2, <1>3, <1>4, Shapes

LEMMA InitDone == Init => DoneInv
BY DEF Init, DoneInv

-----------------------------------------------------------------------------
(***************************************************************************)
(* QuietMeansFormatted: with -l, a file whose source changes is reported   *)
(* before anything else can happen to it.                                  *)
(***************************************************************************)
CurrentInv ==
  /\ src # None => Len(outcome) + 1 \in DOMAIN args /\ readAs[Len(outcome) + 1] = src
  /\ opt.list /\ src # None /\ Changed /\ pc \in AfterList => report[Len(outcome) + 1] # {}

ReportInv ==
  opt.list => \A k \in DOMAIN outcome :
    outcome[k] = "ok" /\ report[k] = {} => readAs[k] # None /\ Format[readAs[k]] = readAs[k]

LEMMA PrintedThen ==
  ASSUME Inv, Len(outcome) + 1 \in DOMAIN args, NEW what, Printing(what)
  PROVE  /\ report' # report => report'[Len(outcome) + 1] # {}
         /\ what \in report'[Len(outcome) + 1]
         /\ \A k \in DOMAIN args : k # Len(outcome) + 1 => report'[k] = report[k]
BY DEF Inv, TypeOK, Printing

LEMMA QuietReturn ==
  ASSUME Inv, CurrentInv, ReportInv, NEW result \in {"ok", "failed"}, Returns(result)
  PROVE  CurrentInv' /\ ReportInv'
<1>1. /\ Len(outcome) \in Nat /\ DOMAIN outcome = 1..Len(outcome)
      /\ DOMAIN outcome' = 1..(Len(outcome) + 1)
      /\ \A k \in DOMAIN outcome : outcome'[k] = outcome[k]
      /\ outcome'[Len(outcome) + 1] = result
      /\ Len(outcome) + 1 \in DOMAIN args /\ DOMAIN outcome \subseteq DOMAIN args
  BY Appended
<1>2. src' = None /\ readAs' = readAs /\ opt' = opt
  BY DEF Returns, fixed
<1>3. CurrentInv'
  BY <1>2 DEF CurrentInv
<1>4. \A k \in DOMAIN outcome : report'[k] = report[k]
  <2>1. CASE Printing("source")
    <3>1. \A k \in DOMAIN args : k # Len(outcome) + 1 => report'[k] = report[k]
      BY <1>1, <2>1, PrintedThen
    <3> QED
      BY <1>1, <3>1
  <2> QED
    BY <2>1 DEF Returns
<1>5. report'[Len(outcome) + 1] = {} => report[Len(outcome) + 1] = {}
  BY <1>1, PrintedThen DEF Returns
<1>6. ASSUME opt.list, result = "ok", report'[Len(outcome) + 1] = {}
      PROVE  readAs[Len(outcome) + 1] # None
             /\ Format[readAs[Len(outcome) + 1]] = readAs[Len(outcome) + 1]
  <2>1. src \in Contents /\ src # None /\ pc \in AfterList
    BY <1>6, Values DEF Returns
  <2>2. readAs[Len(outcome) + 1] = src /\ ~Changed
    BY <1>5, <1>6, <2>1 DEF CurrentInv
  <2> QED
    BY <2>1, <2>2 DEF Changed, Out
<1>7. ASSUME opt'.list, NEW k \in DOMAIN outcome', outcome'[k] = "ok", report'[k] = {}
      PROVE  readAs'[k] # None /\ Format[readAs'[k]] = readAs'[k]
  <2>1. CASE k \in DOMAIN outcome
    BY <1>1, <1>2, <1>4, <1>7, <2>1 DEF ReportInv
  <2>2. CASE k = Len(outcome) + 1
    BY <1>1, <1>2, <1>6, <1>7, <2>2
  <2> QED
    BY <1>1, <2>1, <2>2
<1> QED
  BY <1>3, <1>7 DEF ReportInv

LEMMA QuietGoesOn ==
  ASSUME Inv, CurrentInv, ReportInv, GoesOn
  PROVE  CurrentInv' /\ ReportInv'
<1>1. /\ outcome' = outcome /\ src' = src /\ readAs' = readAs /\ opt' = opt /\ args' = args
      /\ Changed' = Changed /\ src # None
  BY Values DEF GoesOn, fixed, Changed, Out
<1>2. Len(outcome) + 1 \in DOMAIN args /\ Len(outcome) \in Nat /\ DOMAIN outcome = 1..Len(outcome)
      /\ DOMAIN outcome \subseteq DOMAIN args
  BY <1>1, Current DEF CurrentInv, Inv, TypeOK, GoesOn
<1>3. /\ \A k \in DOMAIN args : k # Len(outcome) + 1 => report'[k] = report[k]
      /\ report[Len(outcome) + 1] # {} => report'[Len(outcome) + 1] # {}
      /\ (\E what \in Reports : Printing(what)) => report'[Len(outcome) + 1] # {}
  BY <1>2, PrintedThen DEF GoesOn
<1>4. CurrentInv'
  BY <1>1, <1>2, <1>3 DEF CurrentInv, GoesOn
<1>5. \A k \in DOMAIN outcome : report'[k] = report[k]
  BY <1>2, <1>3
<1> QED
  BY <1>1, <1>4, <1>5 DEF ReportInv

LEMMA QuietTakes ==
  ASSUME Inv, CurrentInv, ReportInv, Takes
  PROVE  CurrentInv' /\ ReportInv'
<1>1. /\ outcome' = outcome /\ opt' = opt /\ args' = args /\ report' = report
      /\ pc' = "format" /\ Len(outcome) < Len(args)
  BY DEF Takes, fixed, AtFile
<1>2. Len(outcome) + 1 \in DOMAIN args /\ Len(outcome) \in Nat /\ DOMAIN outcome = 1..Len(outcome)
  BY <1>1, Current DEF Inv, TypeOK
<1>3. readAs \in [DOMAIN args -> Contents \cup {None}]
  BY DEF Inv, TypeOK
<1>4. readAs'[Len(outcome) + 1] = src' /\ \A k \in DOMAIN outcome : readAs'[k] = readAs[k]
  BY <1>2, <1>3 DEF Takes
<1> QED
  BY <1>1, <1>2, <1>4 DEF CurrentInv, ReportInv, AfterList

LEMMA QuietStep == Inv /\ CurrentInv /\ ReportInv /\ [Next]_vars => CurrentInv' /\ ReportInv'
<1> SUFFICES ASSUME Inv, CurrentInv, ReportInv, [Next]_vars PROVE CurrentInv' /\ ReportInv'
  OBVIOUS
<1>1. CASE UNCHANGED vars
  BY <1>1 DEF vars, fixed, results, CurrentInv, ReportInv, Changed, Out
<1>2. CASE Turns \/ Disturbs
  <2>1. /\ UNCHANGED <<fixed, src, outcome, report, readAs>>
        /\ pc' \in AfterList => pc \in AfterList
    BY <1>2 DEF Turns, Disturbs, AfterList
  <2> QED
    BY <2>1 DEF fixed, CurrentInv, ReportInv, Changed, Out
<1> QED
  BY <1>1, <1>2, Shapes, QuietReturn, QuietGoesOn, QuietTakes

\* When -l succeeds and prints nothing, every file was formatted when it was read.
THEOREM Spec_QuietMeansFormatted == Spec => []QuietMeansFormatted
<1>1. Init => CurrentInv /\ ReportInv
  BY DEF Init, CurrentInv, ReportInv
<1>2. Inv /\ DoneInv /\ ReportInv => QuietMeansFormatted
  <2> SUFFICES ASSUME Inv, DoneInv, ReportInv, Succeeded, opt.list,
                      \A k \in DOMAIN args : report[k] = {}, NEW k \in DOMAIN args
               PROVE  readAs[k] # None /\ Format[readAs[k]] = readAs[k]
    BY DEF QuietMeansFormatted
  <2>1. Len(outcome) = Len(args) /\ \A j \in DOMAIN outcome : outcome[j] = "ok"
    BY DEF Succeeded, DoneInv
  <2>2. DOMAIN outcome = DOMAIN args
    BY <2>1 DEF Inv, TypeOK
  <2> QED
    BY <2>1, <2>2 DEF ReportInv
<1> QED
  BY <1>1, <1>2, InitDone, DoneStep, QuietStep, SpecInv, PTL DEF Spec
-----------------------------------------------------------------------------
(***************************************************************************)
(* AllFormatted and RewrittenOnce: as long as nobody saves a file, the     *)
(* content that was read under -w is that of the disk, and a file that     *)
(* succeeded stays as it was left.                                         *)
(***************************************************************************)
AloneInv ==
  saves = 0 => ~touched /\ (src # None /\ opt.write => Name \in Paths /\ src = kept[Name])

LEMMA AloneStep == Inv /\ AloneInv /\ [Next]_vars => AloneInv'
<1> SUFFICES ASSUME Inv, AloneInv, [Next]_vars PROVE AloneInv'
  OBVIOUS
<1>1. CASE UNCHANGED vars
  BY <1>1 DEF vars, fixed, results, AloneInv, Name
<1>2. CASE GoesOn \/ Turns
  BY <1>2 DEF GoesOn, Turns, fixed, AloneInv, Name
<1>3. CASE Returns("ok") \/ Returns("failed")
  BY <1>3 DEF Returns, AloneInv
<1>4. CASE Takes
  BY <1>4 DEF Takes, fixed, AloneInv, Name
<1>5. CASE Disturbs
  BY <1>5 DEF Disturbs, AloneInv
<1> QED
  BY <1>1, <1>2, <1>3, <1>4, <1>5, Shapes

LEMMA InitAlone == Init => AloneInv
BY DEF Init, AloneInv

\* How a return without an error leaves the files.
LEMMA ReturnsAlone ==
  ASSUME Inv, AloneInv, saves = 0, Returns("ok")
  PROVE  /\ src \in Contents /\ Out \in Contents
         /\ ~opt.write => kept' = kept
         /\ opt.write => Name \in Paths /\ src = kept[Name] /\ kept' = [kept EXCEPT ![Name] = Out]
<1>1. src \in Contents /\ src # None /\ Out # FormatError /\ ~touched
  BY Values DEF Returns, AloneInv
<1>2. Out \in Contents
  BY <1>1, OutType
<1>3. ~opt.write => kept' = kept
  BY DEF Returns
<1>4. ASSUME opt.write
      PROVE  Name \in Paths /\ src = kept[Name] /\ kept' = [kept EXCEPT ![Name] = Out]
  <2>1. Name \in Paths /\ src = kept[Name]
    BY <1>1, <1>4 DEF AloneInv
  <2>2. kept \in [Paths -> Contents \cup {None}]
    BY DEF Inv, TypeOK
  <2>3. CASE Changed
    BY <1>1, <1>4, <2>1, <2>3 DEF Returns
  <2>4. CASE ~Changed
    BY <1>1, <1>4, <2>1, <2>2, <2>4 DEF Returns, Changed
  <2> QED
    BY <2>1, <2>3, <2>4
<1> QED
  BY <1>1, <1>2, <1>3, <1>4

\* As long as no file failed, the files that were given are rewritten and the
\* others are not.
Given(f) == \E k \in DOMAIN outcome : args[k] = f
NoFailure == \A k \in DOMAIN outcome : outcome[k] = "ok"

FormattedInv ==
  saves = 0 /\ NoFailure =>
    \A f \in Paths :
      IF opt.write /\ Given(f)
        THEN orig[f] \in Contents /\ kept[f] \in Contents /\ kept[f] = Format[orig[f]]
        ELSE kept[f] = orig[f]

LEMMA FormattedReturn ==
  ASSUME Inv, AloneInv, FormattedInv, NEW result \in {"ok", "failed"}, Returns(result)
  PROVE  FormattedInv'
<1>1. /\ Len(outcome) \in Nat /\ DOMAIN outcome = 1..Len(outcome) /\ args' = args
      /\ DOMAIN outcome' = 1..(Len(outcome) + 1)
      /\ \A k \in DOMAIN outcome : outcome'[k] = outcome[k]
      /\ outcome'[Len(outcome) + 1] = result
  BY Appended
<1>2. opt' = opt /\ orig' = orig /\ saves' = saves
  BY DEF Returns, fixed
<1> SUFFICES ASSUME saves = 0, NoFailure', NEW f \in Paths
             PROVE  IF opt.write /\ Given(f)'
                      THEN orig[f] \in Contents /\ kept'[f] \in Contents /\ kept'[f] = Format[orig[f]]
                      ELSE kept'[f] = orig[f]
  BY <1>2 DEF FormattedInv
<1>3. result = "ok" /\ NoFailure
  BY <1>1 DEF NoFailure
<1>4. Given(f)' <=> Given(f) \/ Name = f
  BY <1>1 DEF Given, Name
<1>5. IF opt.write /\ Given(f)
        THEN orig[f] \in Contents /\ kept[f] \in Contents /\ kept[f] = Format[orig[f]]
        ELSE kept[f] = orig[f]
  BY <1>3 DEF FormattedInv
<1>6. /\ src \in Contents /\ Out \in Contents
      /\ ~opt.write => kept' = kept
      /\ opt.write => Name \in Paths /\ src = kept[Name] /\ kept' = [kept EXCEPT ![Name] = Out]
  BY <1>3, ReturnsAlone
<1>7. kept \in [Paths -> Contents \cup {None}]
  BY DEF Inv, TypeOK
<1>8. CASE ~opt.write
  BY <1>5, <1>6, <1>8
<1>9. CASE opt.write /\ f # Name
  BY <1>4, <1>5, <1>6, <1>7, <1>9
<1>10. CASE opt.write /\ f = Name
  <2>1. kept'[f] = Format[kept[f]] /\ kept[f] \in Contents /\ kept'[f] \in Contents
    BY <1>6, <1>7, <1>10 DEF Out
  <2>2. CASE Given(f)
    <3>1. kept[f] # FormatError
      BY <2>1, Values
    <3> QED
      BY <1>4, <1>5, <1>10, <2>1, <2>2, <3>1, FormatIdempotent
  <2>3. CASE ~Given(f)
    BY <1>4, <1>5, <1>10, <2>1, <2>3
  <2> QED
    BY <2>2, <2>3
<1> QED
  BY <1>8, <1>9, <1>10

LEMMA FormattedStep == Inv /\ AloneInv /\ FormattedInv /\ [Next]_vars => FormattedInv'
<1> SUFFICES ASSUME Inv, AloneInv, FormattedInv, [Next]_vars PROVE FormattedInv'
  OBVIOUS
<1>1. CASE UNCHANGED vars \/ GoesOn \/ Turns \/ Takes
  <2>1. UNCHANGED <<opt, args, orig, outcome, kept, saves>>
    BY <1>1 DEF vars, fixed, results, GoesOn, Turns, Takes
  <2> QED
    BY <2>1 DEF FormattedInv, NoFailure, Given
<1>2. CASE Disturbs
  BY <1>2 DEF Disturbs, FormattedInv
<1> QED
  BY <1>1, <1>2, Shapes, FormattedReturn

\* A run without errors leaves, under -w, the given files formatted and the others
\* as they were; without -w it changes none.
THEOREM Spec_AllFormatted == Spec => []AllFormatted
<1>1. Init => FormattedInv
  BY DEF Init, FormattedInv, Given
<1>2. Inv /\ DoneInv /\ FormattedInv => AllFormatted
  <2> SUFFICES ASSUME Inv, DoneInv, FormattedInv, Succeeded, saves = 0, NEW f \in Paths
               PROVE  disk[f] = IF opt.write /\ \E k \in DOMAIN args : args[k] = f
                                  THEN Format[orig[f]] ELSE orig[f]
    BY DEF AllFormatted
  <2>1. Len(outcome) = Len(args) /\ NoFailure
    BY DEF Succeeded, DoneInv, NoFailure
  <2>2. DOMAIN outcome = DOMAIN args
    BY <2>1 DEF Inv, TypeOK
  <2>3. kept = disk
    BY DEF Succeeded, Inv, KeptInv, Rewriting
  <2> QED
    BY <2>1, <2>2, <2>3 DEF FormattedInv, Given
<1> QED
  BY <1>1, <1>2, InitDone, DoneStep, InitAlone, AloneStep, FormattedStep, SpecInv, PTL DEF Spec

-----------------------------------------------------------------------------
\* A file that succeeded under -w is formatted, and it stays so.
SettledInv ==
  saves = 0 /\ opt.write =>
    \A j \in DOMAIN outcome :
      outcome[j] = "ok" => /\ args[j] \in Paths /\ kept[args[j]] \in Contents
                           /\ Format[kept[args[j]]] = kept[args[j]]

\* What is printed under -w is about the current file, and only when it changes.
PrintedInv ==
  \A k \in DOMAIN args :
    /\ k > Len(outcome) + 1 => report[k] = {}
    /\ k = Len(outcome) + 1 /\ opt.write /\ report[k] # {} => src # None /\ Changed

LEMMA OnceReturn ==
  ASSUME Inv, AloneInv, SettledInv, PrintedInv, RewrittenOnce,
         NEW result \in {"ok", "failed"}, Returns(result)
  PROVE  SettledInv' /\ PrintedInv' /\ RewrittenOnce'
<1>1. /\ Len(outcome) \in Nat /\ DOMAIN outcome = 1..Len(outcome) /\ args' = args
      /\ DOMAIN outcome' = 1..(Len(outcome) + 1) /\ Len(outcome') = Len(outcome) + 1
      /\ \A k \in DOMAIN outcome : outcome'[k] = outcome[k]
      /\ outcome'[Len(outcome) + 1] = result
      /\ Len(outcome) + 1 \in DOMAIN args /\ DOMAIN outcome \subseteq DOMAIN args
  BY Appended
<1>2. opt' = opt /\ saves' = saves /\ src' = None
  BY DEF Returns, fixed
<1>3. DOMAIN args \subseteq Nat
  BY DEF Inv, TypeOK
<1>4. \A k \in DOMAIN args : k # Len(outcome) + 1 => report'[k] = report[k]
  BY <1>1, PrintedThen DEF Returns
<1>5. opt.write => report' = report
  BY DEF Returns
<1>6. PrintedInv'
  BY <1>1, <1>2, <1>3, <1>4 DEF PrintedInv
<1>7. kept \in [Paths -> Contents \cup {None}]
  BY DEF Inv, TypeOK

\* A file that was left formatted is not among those that are written.
<1>8. ASSUME saves = 0, opt.write, NEW j \in DOMAIN outcome, outcome[j] = "ok"
      PROVE  /\ args[j] \in Paths /\ kept'[args[j]] \in Contents
             /\ Format[kept'[args[j]]] = kept'[args[j]]
  <2>1. args[j] \in Paths /\ kept[args[j]] \in Contents /\ Format[kept[args[j]]] = kept[args[j]]
    BY <1>8 DEF SettledInv
  <2>2. CASE result = "ok"
    <3>1. /\ src \in Contents /\ Out \in Contents /\ Name \in Paths /\ src = kept[Name]
          /\ kept' = [kept EXCEPT ![Name] = Out]
      BY <1>8, <2>2, ReturnsAlone
    <3>2. CASE args[j] = Name
      BY <1>7, <2>1, <3>1, <3>2 DEF Out
    <3>3. CASE args[j] # Name
      BY <1>7, <2>1, <3>1, <3>3
    <3> QED
      BY <3>2, <3>3
  <2>3. CASE result = "failed" /\ kept' = kept
    BY <2>1, <2>3
  <2>4. CASE result = "failed" /\ kept' # kept
    <3>1. /\ src \in Contents /\ Changed
          /\ \E c \in Contents \cup {None} : kept' = [kept EXCEPT ![Name] = c]
      BY <2>4 DEF Returns
    <3>2. src # None /\ src = kept[Name] /\ Name \in Paths
      BY <1>8, <3>1, Values DEF AloneInv
    <3>3. args[j] # Name
      BY <2>1, <3>1, <3>2 DEF Changed, Out
    <3>4. kept'[args[j]] = kept[args[j]]
      BY <1>7, <2>1, <3>1, <3>3
    <3> QED
      BY <2>1, <3>4
  <2> QED
    BY <2>2, <2>3, <2>4
<1>9. ASSUME saves = 0, opt.write, result = "ok"
      PROVE  /\ Name \in Paths /\ kept'[Name] \in Contents /\ Format[kept'[Name]] = kept'[Name]
  <2>1. /\ src \in Contents /\ Out \in Contents /\ Name \in Paths
        /\ kept' = [kept EXCEPT ![Name] = Out]
    BY <1>9, ReturnsAlone
  <2>2. kept'[Name] = Out /\ Out # FormatError
    BY <1>7, <2>1, Values
  <2> QED
    BY <2>1, <2>2, FormatIdempotent DEF Out
<1>10. ASSUME saves' = 0, opt'.write, NEW j \in DOMAIN outcome', outcome'[j] = "ok"
       PROVE  /\ args'[j] \in Paths /\ kept'[args'[j]] \in Contents
              /\ Format[kept'[args'[j]]] = kept'[args'[j]]
  <2>1. CASE j \in DOMAIN outcome
    BY <1>1, <1>2, <1>8, <1>10, <2>1
  <2>2. CASE j = Len(outcome) + 1
    BY <1>1, <1>2, <1>9, <1>10, <2>2 DEF Name
  <2> QED
    BY <1>1, <2>1, <2>2
<1>11. SettledInv'
  BY <1>10 DEF SettledInv
<1>12. ASSUME NEW j \in DOMAIN outcome', NEW k \in DOMAIN outcome',
              j < k, args'[j] = args'[k], opt'.write, outcome'[j] = "ok", saves' = 0
       PROVE  report'[k] = {}
  <2>1. j \in DOMAIN outcome /\ outcome[j] = "ok" /\ report'[k] = report[k]
    BY <1>1, <1>2, <1>5, <1>12
  <2>2. CASE k \in DOMAIN outcome
    BY <1>1, <1>2, <1>12, <2>1, <2>2 DEF RewrittenOnce
  <2>3. CASE k = Len(outcome) + 1
    <3>1. SUFFICES ASSUME report[k] # {} PROVE FALSE
      BY <2>1
    <3>2. src # None /\ Changed
      BY <1>1, <1>2, <1>12, <2>3, <3>1 DEF PrintedInv
    <3>3. src = kept[Name] /\ Name = args[j]
      BY <1>1, <1>2, <1>12, <2>3, <3>2 DEF AloneInv, Name
    <3>4. Format[kept[args[j]]] = kept[args[j]]
      BY <1>2, <1>12, <2>1 DEF SettledInv
    <3> QED
      BY <3>2, <3>3, <3>4 DEF Changed, Out
  <2> QED
    BY <1>1, <2>2, <2>3
<1>13. RewrittenOnce'
  BY <1>12 DEF RewrittenOnce
<1> QED
  BY <1>6, <1>11, <1>13

LEMMA OnceGoesOn ==
  ASSUME Inv, PrintedInv, RewrittenOnce, GoesOn
  PROVE  PrintedInv' /\ RewrittenOnce'
<1>1. /\ outcome' = outcome /\ src' = src /\ opt' = opt /\ args' = args /\ saves' = saves
      /\ Changed' = Changed /\ src # None
  BY Values DEF GoesOn, fixed, Changed, Out
<1>2. Len(outcome) + 1 \in DOMAIN args /\ Len(outcome) \in Nat /\ DOMAIN outcome = 1..Len(outcome)
      /\ DOMAIN outcome \subseteq DOMAIN args /\ DOMAIN args \subseteq Nat
  BY Current DEF Inv, TypeOK, GoesOn
<1>3. /\ \A k \in DOMAIN args : k # Len(outcome) + 1 => report'[k] = report[k]
      /\ report' = report \/ (opt.write => Changed)
  BY <1>2, PrintedThen DEF GoesOn
<1>4. PrintedInv'
  BY <1>1, <1>2, <1>3 DEF PrintedInv
<1>5. \A k \in DOMAIN outcome : report'[k] = report[k]
  BY <1>2, <1>3
<1> QED
  BY <1>1, <1>4, <1>5 DEF RewrittenOnce

LEMMA OnceStep ==
  Inv /\ AloneInv /\ SettledInv /\ PrintedInv /\ RewrittenOnce /\ [Next]_vars
    => SettledInv' /\ PrintedInv' /\ RewrittenOnce'
<1> SUFFICES ASSUME Inv, AloneInv, SettledInv, PrintedInv, RewrittenOnce, [Next]_vars
             PROVE  SettledInv' /\ PrintedInv' /\ RewrittenOnce'
  OBVIOUS
<1>1. CASE UNCHANGED vars \/ Turns
  <2>1. UNCHANGED <<opt, args, src, outcome, kept, report, saves>>
    BY <1>1 DEF vars, fixed, results, Turns
  <2> QED
    BY <2>1 DEF SettledInv, PrintedInv, RewrittenOnce, Changed, Out
<1>2. CASE GoesOn
  <2>1. UNCHANGED <<opt, args, outcome, kept, saves>>
    BY <1>2 DEF GoesOn, fixed
  <2> QED
    BY <1>2, <2>1, OnceGoesOn DEF SettledInv
<1>3. CASE Takes
  <2>1. UNCHANGED <<opt, args, outcome, kept, report, saves>> /\ src = None
    BY <1>3 DEF Takes, fixed, AtFile, Inv, TypeOK
  <2> QED
    BY <2>1 DEF SettledInv, PrintedInv, RewrittenOnce
<1>4. CASE Disturbs
  <2>1. UNCHANGED <<opt, args, src, outcome, report>> /\ saves' # 0
    BY <1>4 DEF Disturbs, fixed
  <2> QED
    BY <2>1 DEF SettledInv, PrintedInv, RewrittenOnce, Changed, Out
<1> QED
  BY <1>1, <1>2, <1>3, <1>4, Shapes, OnceReturn

\* A file that was rewritten is neither listed nor diffed when it is given again.
THEOREM Spec_RewrittenOnce == Spec => []RewrittenOnce
<1>1. Init => SettledInv /\ PrintedInv /\ RewrittenOnce
  <2> SUFFICES ASSUME Init PROVE SettledInv /\ PrintedInv /\ RewrittenOnce
    OBVIOUS
  <2>1. DOMAIN outcome = {} /\ \A k \in DOMAIN args : report[k] = {}
    BY DEF Init
  <2> QED
    BY <2>1 DEF SettledInv, PrintedInv, RewrittenOnce
<1> QED
  BY <1>1, InitAlone, AloneStep, OnceStep, SpecInv, PTL DEF Spec
=============================================================================
