------------------------------- MODULE SqlAst -------------------------------
(***************************************************************************)
(* What the memefish parser hands to fmt-sql: the tokens of a statement    *)
(* and its syntax tree.  memefish is not part of this repository; only the *)
(* fields layout.go reads are kept.                                        *)
(*                                                                         *)
(* A statement is a record [toks, nodes].  toks is the sequence of token   *)
(* words.  nodes is the tree in preorder (a parent comes before its        *)
(* children): node k has a type, the index pos of its first token, the     *)
(* index end of the first token after it, the index par of its parent (0   *)
(* for the root) and the operator op of the types that have one.  Byte     *)
(* offsets are abstracted to token indexes: layout.go only compares the    *)
(* positions of tokens.                                                    *)
(***************************************************************************)
EXTENDS Naturals, Sequences

(***************************************************************************)
(* Lexical kinds.  A word of SoftKeywords is a keyword to the grammar, but *)
(* memefish lexes it as an identifier; every other upper-case word is a    *)
(* reserved keyword, in token.KeywordsMap.                                 *)
(***************************************************************************)
Symbols == {"(", ")", "[", "]", ",", ".", "@", "{", "}", "=", "+"}
SoftKeywords == {"OFFSET", "INSERT", "UPDATE", "DELETE", "VALUES", "DO"}
Operands == {"ident", "param", "lit"}

\* Triple-quoted strings with line breaks: the leading spaces of their last line.
MultiLine == [text0 |-> 0, text7 |-> 7]

LexKind(word) ==
  IF word \in SoftKeywords THEN "ident" ELSE IF word \in DOMAIN MultiLine THEN "lit" ELSE word
IsReserved(word) == word \notin Symbols \cup SoftKeywords \cup Operands \cup DOMAIN MultiLine

-----------------------------------------------------------------------------
(***************************************************************************)
(* Fragments of a statement, put together left to right and wrapped in     *)
(* nodes, with positions relative to the fragment.                         *)
(***************************************************************************)
T(word) == [toks |-> <<word>>, nodes |-> <<>>]
Words(words) == [toks |-> words, nodes |-> <<>>]
Empty == Words(<<>>)

\* The nodes of frag as they are after dp more tokens and dn more nodes,
\* with roots put under the node root.
ShiftNodes(frag, dp, dn, root) ==
  [k \in DOMAIN frag.nodes |->
     LET m == frag.nodes[k]
     IN  [m EXCEPT !.pos = @ + dp, !.end = @ + dp,
                   !.par = IF @ = 0 THEN root ELSE @ + dn]]

x \oplus y ==
  [toks  |-> x.toks \o y.toks,
   nodes |-> x.nodes \o ShiftNodes(y, Len(x.toks), Len(x.nodes), 0)]

NodeOp(type, op, frag) ==
  [toks  |-> frag.toks,
   nodes |-> <<[type |-> type, op |-> op, par |-> 0,
                pos |-> 1, end |-> Len(frag.toks) + 1]>>
             \o ShiftNodes(frag, 0, 1, 1)]

Node(type, frag) == NodeOp(type, "", frag)

=============================================================================
