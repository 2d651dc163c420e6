---------------------------- MODULE GoFileTwice ----------------------------
(***************************************************************************)
(* formatGoFile, and formatGoFile again on what it wrote: fmt-sql run on a *)
(* file that is formatted already (FormatIdempotent of FmtMain).           *)
(***************************************************************************)
EXTENDS GoFile

VARIABLE
  first             \* what the first pass wrote, <<>> before

twiceVars == <<vars, first>>

\* FormatSQL changes nothing in its own output, which starts and ends with ink:
\* Idempotent and Separated of MCPrinter.
ASSUME FormatSQLIdempotent ==
  \A t \in Texts :
    t = TrimSpace(t) /\ FormatSQL[t] # FormatError =>
      /\ FormatSQL[t] = TrimSpace(FormatSQL[t])
      /\ FormatSQL[FormatSQL[t]] = FormatSQL[t]

InitTwice == Init /\ first = <<>>

Again ==
  /\ pc = "done" /\ result = "ok" /\ first = <<>> /\ out # <<>>
  /\ first' = out
  /\ file' = out
  /\ pc' = "parse"
  /\ node' = 0 /\ values' = <<>> /\ errs' = <<>> /\ fields' = <<>>
  /\ k' = 1
  /\ syntaxErrors' = <<>>
  /\ text' = <<>> /\ at' = 1 /\ parts' = <<>>
  /\ segs' = <<>> /\ prev' = 1
  /\ result' = "none" /\ out' = <<>>

NextTwice == (Next /\ UNCHANGED first) \/ Again

SpecTwice == InitTwice /\ [][NextTwice]_twiceVars

(***************************************************************************)
(* A second pass finds the same fields and writes the same file: the       *)
(* literals joined by sqlFieldExpr are read back by concatStringLits, and  *)
(* TrimSpace drops the line breaks that sqlFieldExpr adds.                 *)
(***************************************************************************)
Idempotent == pc = "done" /\ first # <<>> => result = "ok" /\ out = first

=============================================================================
