------------------------------ MODULE GoSource ------------------------------
(***************************************************************************)
(* Go source as go/parser and strconv see it.  The Go toolchain is not     *)
(* part of this repository; only what fmt-sql looks at is kept.            *)
(*                                                                         *)
(* A source is a sequence of cells, records [k, v, w, text]:               *)
(*   "import"    of the path v under the name w ("" for none)              *)
(*   "open"      the "{" of a literal of type v.w, or the "(" of a call    *)
(*   "close"     the ")" or "}" of an "open"                               *)
(*   "key"       the key v and the ":" of a field of a literal             *)
(*   "comma"     between two fields                                        *)
(*   "lit"       a string literal, v is "raw" or "quoted"                  *)
(*   "plus", "comment"                                                     *)
(*   "code"      any other code, v is "tidy" if go/format leaves it as is  *)
(*   "bad"       a syntax error                                            *)
(* Byte offsets are abstracted to cell indexes.  The text of a string is a *)
(* sequence of characters, of the classes fmt-sql tells apart.             *)
(***************************************************************************)
EXTENDS SequencesExt

Cell(k, v, w, text) == [k |-> k, v |-> v, w |-> w, text |-> text]
Import(path, name) == Cell("import", path, name, <<>>)
Open(ident, sel) == Cell("open", ident, sel, <<>>)
Close == Cell("close", "", "", <<>>)
Key(name) == Cell("key", name, "", <<>>)
Comma == Cell("comma", "", "", <<>>)
Lit(kind, text) == Cell("lit", kind, "", text)
Plus == Cell("plus", "", "", <<>>)
Comment == Cell("comment", "", "", <<>>)
Code(v) == Cell("code", v, "", <<>>)
Bad == Cell("bad", "", "", <<>>)

\* Characters: words to format and formatted ones, a backtick, line breaks,
\* what a raw string drops, what no Go source can hold, and a syntax error.
Char == {"word", "WORD", "tick", "nl", "cr", "nul", "error"}

-----------------------------------------------------------------------------
\* How many "open" are not closed before cell i.
Level(c, i) ==
  Cardinality({j \in 1..(i - 1) : c[j].k = "open"}) - Cardinality({j \in 1..(i - 1) : c[j].k = "close"})

FirstOf(S) == CHOOSE i \in S : \A j \in S : i <= j
LastOf(S) == CHOOSE i \in S : \A j \in S : j <= i

CloseOf(c, o) == FirstOf({j \in (o + 1)..Len(c) : c[j].k = "close" /\ Level(c, j) = Level(c, o) + 1})

\* The keys of the literal that opens at o, and the value of the key at j: the
\* cells from .from up to .to, without the comments around it.
KeysOf(c, o) ==
  {j \in DOMAIN c : o < j /\ j < CloseOf(c, o) /\ c[j].k = "key" /\ Level(c, j) = Level(c, o) + 1}
ValueOf(c, j) ==
  LET end   == FirstOf({m \in (j + 1)..Len(c) : c[m].k \in {"comma", "close"} /\ Level(c, m) = Level(c, j)})
      cells == {m \in (j + 1)..(end - 1) : c[m].k # "comment"}
  IN  [from |-> FirstOf(cells), to |-> LastOf(cells) + 1]

\* strconv.Unquote: a raw string loses its carriage returns, if it has one.
Unquote(lit) ==
  IF lit.v = "raw" /\ \E m \in DOMAIN lit.text : lit.text[m] = "cr"
    THEN SelectSeq(lit.text, LAMBDA ch : ch # "cr") ELSE lit.text

\* A literal the parser accepts.
ValidLit(lit) == lit.v = "raw" => \A m \in DOMAIN lit.text : lit.text[m] \notin {"tick", "nul"}

\* go/format
Tidy(c) == [i \in DOMAIN c |-> IF c[i].k = "code" THEN Code("tidy") ELSE c[i]]

=============================================================================
