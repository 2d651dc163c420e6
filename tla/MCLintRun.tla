----------------------------- MODULE MCLintRun -----------------------------
(***************************************************************************)
(* The linters on at most three arguments: two files, of which one can be  *)
(* given twice, with contents that are clean, do not parse, have errors on *)
(* two lines, or a warning for lint-scan, or make lint-scan panic as the   *)
(* run FindNilBody shows.                                                  *)
(***************************************************************************)
EXTENDS LintRun

CONSTANTS clean, bad, twice, star, nilBody, error, panic

At(line, severity) == [line |-> line, severity |-> severity]

MCDiagnose ==
  [l \in Linters |->
    [c \in {clean, bad, twice, star, nilBody} |->
      CASE c = clean -> <<>>
        [] c = bad   -> error
        [] c = twice -> <<At(2, "error"), At(1, "error")>>
        [] c = nilBody -> IF l = "lint-scan" THEN panic ELSE <<>>
        [] c = star  -> IF l = "lint-scan" THEN <<At(1, "warning")>> ELSE <<At(1, "error")>>]]

MCArgLists == {<<>>, <<1>>, <<2, 1>>, <<1, 1>>, <<2, 1, 2>>}
=============================================================================
