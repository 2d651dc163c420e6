------------------------------ MODULE Comments ------------------------------
(***************************************************************************)
(* comments.go: the comments of the statement, put back into the output of *)
(* the printer, and how the lexer reads the result.                        *)
(*                                                                         *)
(* The comments of token k, and of the end of input (k = n + 1), are a     *)
(* sequence cms[k] of records [id, line, nl]: line tells a `--` or `#`     *)
(* comment, which runs to the end of its line, from a block comment; nl    *)
(* says that a line break comes before it.  The line break that ends a     *)
(* line comment is part of it and does not count.                          *)
(***************************************************************************)
EXTENDS Integers, Sequences, FiniteSets

Seqs == INSTANCE SequencesExt

\* The id stands for the text of the comment.
CommentRecord == [id : Nat, line : BOOLEAN, nl : BOOLEAN]

\* Pieces of the output, as in Printer, and comments.
NlPiece(indent) == [k |-> "nl", v |-> indent, up |-> FALSE, last |-> -1]
SpPiece == [k |-> "sp", v |-> 0, up |-> FALSE, last |-> -1]
CommentPiece(c) == [k |-> IF c.line THEN "line" ELSE "block", v |-> c.id, up |-> FALSE, last |-> -1]

-----------------------------------------------------------------------------
\* Mutant of OnPrevLine: the first loop stops before k.
OnPrevLineShort(cs, k) == (\A j \in 1..(k - 1) : ~cs[j].nl) /\ (\A j \in 1..(k - 1) : ~cs[j].line)

(***************************************************************************)
(* onPrevLine: cs[k] is on the line of the token before the comments.      *)
(***************************************************************************)
OnPrevLine(cs, k) == (\A j \in 1..k : ~cs[j].nl) /\ (\A j \in 1..(k - 1) : ~cs[j].line)

\* The last of some positions, or 0.
LastOf(positions) ==
  IF positions = {} THEN 0 ELSE CHOOSE m \in positions : \A x \in positions : x <= m

\* lineIndent up to p: the line can start inside of a literal.
IndentOf(out, p) ==
  LET start == LastOf({m \in 1..p : out[m].k = "nl" \/ out[m].last >= 0})
  IN  IF start = 0 THEN 0 ELSE IF out[start].k = "nl" THEN out[start].v ELSE out[start].last

\* There is nothing but spaces before p on its line.  The last line of a literal
\* has its closing quotes on it.
LineStart(out, p) == LastOf({m \in 1..p : out[m].k = "nl"})
AtLineStart(out, p) == \A m \in (LineStart(out, p) + 1)..p : out[m].k = "sp"

\* The character before p is one of " (\n", or there is none.
SpacedBefore(out, p, kind) ==
  p = 0 \/ out[p].k \in {"sp", "nl"} \/ (out[p].k = "tok" /\ kind[out[p].v] = "(")

\* Mutants of Insertion: a line comment in the middle of a line does not break
\* it; a comment after the last token of a line goes to a line of its own.
InsertionInLine(out, kind, ends, c, j, p, prevLine) ==
  IF j > Len(ends)
    THEN [at |-> ends[Len(ends)],
          text |-> <<IF prevLine THEN SpPiece ELSE NlPiece(0), CommentPiece(c)>>]
  ELSE IF j > 1 /\ AtLineStart(out, p) /\ prevLine
    THEN [at |-> ends[j - 1], text |-> <<SpPiece, CommentPiece(c)>>]
  ELSE IF AtLineStart(out, p)
    THEN [at |-> p, text |-> <<CommentPiece(c), NlPiece(IndentOf(out, p))>>]
  ELSE [at |-> p, text |-> <<SpPiece, CommentPiece(c), SpPiece>>]

InsertionOwnLine(out, kind, ends, c, j, p, prevLine) ==
  IF j > Len(ends)
    THEN [at |-> ends[Len(ends)],
          text |-> <<IF prevLine THEN SpPiece ELSE NlPiece(0), CommentPiece(c)>>]
  ELSE [at |-> p, text |-> <<CommentPiece(c), NlPiece(IndentOf(out, p))>>]

(***************************************************************************)
(* placeComments, the insertion of a comment c of token j, which starts at *)
(* p: where, and what.  prevLine tells that c is on the previous line.     *)
(***************************************************************************)
Insertion(out, kind, ends, c, j, p, prevLine) ==
  IF j > Len(ends)
    THEN [at |-> ends[Len(ends)],
          text |-> <<IF prevLine THEN SpPiece ELSE NlPiece(0), CommentPiece(c)>>]
  ELSE IF j > 1 /\ AtLineStart(out, p) /\ prevLine
    THEN [at |-> ends[j - 1], text |-> <<SpPiece, CommentPiece(c)>>]
  ELSE IF AtLineStart(out, p)
    THEN [at |-> p, text |-> <<CommentPiece(c), NlPiece(IndentOf(out, p))>>]
  ELSE [at |-> p,
        text |-> (IF SpacedBefore(out, p, kind) THEN <<>> ELSE <<SpPiece>>)
                 \o <<CommentPiece(c), IF c.line THEN NlPiece(IndentOf(out, p)) ELSE SpPiece>>]

Insertions(out, kind, starts, ends, cms) ==
  Seqs!FlattenSeq([j \in 1..Len(cms) |->
                [k \in DOMAIN cms[j] |->
                   Insertion(out, kind, ends, cms[j][k], j,
                             IF j > Len(starts) THEN 0 ELSE starts[j], OnPrevLine(cms[j], k))]])

\* The text inserted at q: sort.SliceStable keeps the order of the insertions.
TextAt(ins, q) == Seqs!FlattenSeq([k \in DOMAIN ins |-> IF ins[k].at = q THEN ins[k].text ELSE <<>>])

Splice(out, ins) ==
  Seqs!FlattenSeq([q \in 1..Len(out) |-> TextAt(ins, q - 1) \o <<out[q]>>]) \o TextAt(ins, Len(out))

\* strings.TrimSpace
TrimTo(out, ink) ==
  IF ink = {} THEN <<>>
  ELSE SubSeq(out, CHOOSE m \in ink : \A x \in ink : m <= x, CHOOSE m \in ink : \A x \in ink : x <= m)
TrimSpace(out) == TrimTo(out, {m \in DOMAIN out : out[m].k \notin {"sp", "nl"}})

PlaceComments(out, kind, starts, ends, cms) ==
  TrimSpace(Splice(out, Insertions(out, kind, starts, ends, cms)))

-----------------------------------------------------------------------------
(***************************************************************************)
(* tokenize, on the output: a line comment hides what follows it on the    *)
(* line.  The result is the tokens left, each with the comments before it, *)
(* and the comments before the end of input.                               *)
(***************************************************************************)
Hidden(out, m) == \E l \in 1..(m - 1) : out[l].k = "line" /\ \A x \in l..m : out[x].k # "nl"

\* The numbers of S up to n, in order.
InOrder(n, S) == Seqs!FlattenSeq([m \in 1..n |-> IF m \in S THEN <<m>> ELSE <<>>])

\* The positions of the tokens and comments the lexer sees.
Items(out) ==
  InOrder(Len(out), {m \in DOMAIN out : out[m].k \in {"tok", "line", "block"} /\ ~Hidden(out, m)})

\* A line break between the positions p and m, other than the end of a line comment.
BreakBetween(out, p, m) ==
  Cardinality({x \in (p + 1)..m : out[x].k = "nl"})
    > (IF p > 0 /\ out[p].k = "line" THEN 1 ELSE 0)

\* The comments among the items from x to y.
CommentsAmong(out, items, x, y) ==
  [k \in 1..(y - x + 1) |->
     LET m == x + k - 1
     IN  [id |-> out[items[m]].v, line |-> out[items[m]].k = "line",
          nl |-> BreakBetween(out, IF m = 1 THEN 0 ELSE items[m - 1], items[m])]]

\* bounds: the items that are tokens, between 0 and the number of items plus one.
Group(out, items, bounds) ==
  [toks |-> [j \in 1..(Len(bounds) - 2) |-> out[items[bounds[j + 1]]].v],
   cms  |-> [j \in 1..(Len(bounds) - 1) |->
               CommentsAmong(out, items, bounds[j] + 1, bounds[j + 1] - 1)]]

GroupByToken(out, items) ==
  Group(out, items,
        <<0>> \o InOrder(Len(items), {x \in DOMAIN items : out[items[x]].k = "tok"})
              \o <<Len(items) + 1>>)

Tokenize(out) == GroupByToken(out, Items(out))

\* commentTexts: the comments of cms, in order.
CommentTexts(cms) ==
  Seqs!FlattenSeq([j \in DOMAIN cms |-> [k \in DOMAIN cms[j] |-> [id |-> cms[j][k].id, line |-> cms[j][k].line]]])

=============================================================================
