----------------------------- MODULE MCFmtMain -----------------------------
(***************************************************************************)
(* fmt-sql on at most two arguments, with a content that changes, one that *)
(* is formatted, one that is cut off (and is no Go source) and two files.  *)
(***************************************************************************)
EXTENDS FmtMain

CONSTANTS a, b, raw, done, torn, error

MCFormat == [c \in {raw, done, torn} |-> IF c = torn THEN error ELSE done]

MCArgLists ==
  {<<>>, <<a>>, <<a, a>>, <<a, b>>, <<Stdin>>, <<Stdin, Stdin>>, <<Stdin, a>>, <<a, Stdin>>}
=============================================================================
