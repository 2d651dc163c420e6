----------------------------- MODULE MCPrinter -----------------------------
(***************************************************************************)
(* The printer on the layouts of every statement of MCStatements.          *)
(***************************************************************************)
EXTENDS Printer

L == INSTANCE Layout
S == INSTANCE MCStatements

MCInputs == {L!BuildLayout(s) : s \in S!AllStatements}
=============================================================================
