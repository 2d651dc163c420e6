---------------------------- MODULE GoFileProofs ----------------------------
(***************************************************************************)
(* formatGoFile splices the new literals into the file without losing or   *)
(* repeating anything, whatever the file, and rewrites all of its SQL      *)
(* fields or none; sqlFieldExpr cuts any text into literals without a gap, *)
(* and ends, and verifySQLFieldExpr agrees with it.                        *)
(***************************************************************************)
EXTENDS GoFile, SequenceTheorems, FiniteSetTheorems, WellFoundedInduction, TLAPS

\* The values that can be fields of the file.
Literals(c) == {v \in AllValues(c) : IsConcat(c, v)}

\* Before a loop over the fields: nothing is written.
Collecting == {"parse", "inspect", "sort", "collect"}
Writing == {"field", "cut", "verify"}

\* The fields are apart and in the order of the file, and prev has not passed the
\* next of them.
Order ==
  /\ file \in Files
  /\ values \in Seq(AllValues(file))
  /\ fields \in Seq(Literals(file))
  /\ Ascending(fields)
  /\ pc \in Collecting => segs = <<>> /\ prev = 1
  /\ pc \in {"parse", "inspect", "sort"} => k = 1 /\ fields = <<>>
  /\ pc = "collect" =>
       /\ Ascending(values) /\ Len(fields) < k
       /\ \A m \in DOMAIN fields : k <= Len(values) => fields[m].from < values[k].from
  /\ pc \in Writing =>
       /\ k <= Len(fields) + 1 /\ Len(fields) <= Len(values)
       /\ fields # <<>>
       /\ k <= Len(fields) => prev <= fields[k].from

SegsSeq == segs \in Seq(Range(segs))

Inv == TypeOK /\ Order /\ SegsSeq /\ Spliced /\ PartsCover

-----------------------------------------------------------------------------
(* Lemmas about the operators of the model. *)

\* The first of a set of cells or characters is one of them.
LEMMA FirstOfLeast ==
  ASSUME NEW S, S \subseteq Nat, S # {}
  PROVE  FirstOf(S) \in S /\ \A j \in S : FirstOf(S) <= j
<1>1. PICK x \in S : \A y \in S : ~ (<<y, x>> \in OpToRel(<, Nat))
  BY WFMin, NatLessThanWellFounded, Zenon
<1>2. \A y \in S : x <= y
  <2> SUFFICES ASSUME NEW y \in S PROVE x <= y
    OBVIOUS
  <2>1. x \in Nat /\ y \in Nat
    OBVIOUS
  <2>2. ~ (y < x)
    BY <1>1, <2>1 DEF OpToRel
  <2> QED
    BY <2>1, <2>2
<1> QED
  BY <1>2 DEF FirstOf

\* A field is a literal of the file, in its bounds, with a text to format; two of
\* them are apart.
LEMMA LiteralsApart ==
  ASSUME NEW c \in Files
  PROVE  /\ Len(c) \in Nat /\ DOMAIN c = 1..Len(c)
         /\ \A v \in AllValues(c) : v \in [from : 1..Len(c), to : 1..Len(c)] /\ v.from < v.to
         /\ \A v \in Literals(c) : v \in AllValues(c) /\ FieldText(c, v) \in Texts
         /\ \A u, v \in Literals(c) : u.from < v.from => u.to <= v.from
<1>1. c \in Seq(Range(c)) /\ WellFormed(c)
  BY FilesWellFormed
<1>2. Len(c) \in Nat /\ DOMAIN c = 1..Len(c)
  BY <1>1, LenProperties
<1> QED
  BY <1>1, <1>2 DEF WellFormed, Literals

LEMMA SQLValuesType ==
  ASSUME NEW c \in Files, NEW i \in DOMAIN c, SpannerStatementLit(c, i)
  PROVE  SQLValues(c, i) \in Seq(AllValues(c))
<1> DEFINE keys == {j \in KeysOf(c, i) : c[j].v = "SQL"}
           n == Cardinality(keys)
           s == SQLValues(c, i)
<1>1. IsFiniteSet(keys)
  <2>1. keys \subseteq 1..Len(c)
    BY LiteralsApart DEF KeysOf
  <2>2. IsFiniteSet(1..Len(c))
    BY LiteralsApart, FS_Interval
  <2> QED
    BY <2>1, <2>2, FS_Subset
<1>2. n \in Nat
  BY <1>1, FS_CardinalityType
<1>3. DOMAIN s = 1..n /\ s \in [1..n -> Range(s)]
  BY DEF SQLValues, Range
<1>4. Range(s) \subseteq AllValues(c)
  BY DEF AllValues
<1> HIDE DEF n, s
<1> QED
  BY <1>2, <1>3, <1>4 DEF s

-----------------------------------------------------------------------------
(* Runs of spans without a gap: segs and parts. *)

Chained(s, end) ==
  /\ \A m \in DOMAIN s : s[m].from = IF m = 1 THEN 1 ELSE s[m - 1].to
  /\ end = IF s = <<>> THEN 1 ELSE s[Len(s)].to

\* What is appended to a run, and what is in it after.
LEMMA AppendFacts ==
  ASSUME NEW S, NEW s \in Seq(S), NEW e \in S
  PROVE  /\ Append(s, e) \in Seq(S) /\ Append(s, e) # <<>>
         /\ Len(Append(s, e)) = Len(s) + 1 /\ Len(s) \in Nat
         /\ DOMAIN Append(s, e) = 1..(Len(s) + 1) /\ DOMAIN s = 1..Len(s)
         /\ \A m \in 1..Len(s) : Append(s, e)[m] = s[m]
         /\ Append(s, e)[Len(s) + 1] = e
         /\ s = <<>> <=> Len(s) = 0
  OBVIOUS

LEMMA ChainedAppend ==
  ASSUME NEW S, NEW s \in Seq(S), NEW e \in S, NEW end, Chained(s, end), e.from = end
  PROVE  Chained(Append(s, e), e.to)
<1> DEFINE t == Append(s, e)
<1>1. /\ t # <<>> /\ Len(t) = Len(s) + 1 /\ Len(s) \in Nat
      /\ DOMAIN t = 1..(Len(s) + 1) /\ DOMAIN s = 1..Len(s)
      /\ \A m \in 1..Len(s) : t[m] = s[m]
      /\ t[Len(s) + 1] = e /\ (s = <<>> <=> Len(s) = 0)
  BY AppendFacts
<1> HIDE DEF t
<1>2. ASSUME NEW m \in DOMAIN t
      PROVE  t[m].from = IF m = 1 THEN 1 ELSE t[m - 1].to
  <2>1. CASE m \in 1..Len(s)
    BY <1>1, <2>1 DEF Chained
  <2>2. CASE m = Len(s) + 1
    BY <1>1, <2>2 DEF Chained
  <2> QED
    BY <1>1, <2>1, <2>2
<1> QED
  BY <1>1, <1>2 DEF Chained, t

-----------------------------------------------------------------------------
(* The loop of sqlFieldExpr. *)

Parts == [kind : {"raw", "quoted"}, from : Nat, to : Nat]

\* A literal of the text: a raw one has only what a raw string can hold.
Sound(p) ==
  /\ p.from <= p.to /\ p.to <= Len(text) + 1
  /\ p.kind = "raw" => \A x \in p.from..(p.to - 1) : text[x] \notin NotRaw

LEMMA PartsCoverChained ==
  PartsCover <=> Chained(parts, at) /\ \A m \in DOMAIN parts : Sound(parts[m])
BY DEF PartsCover, Chained, Sound

\* One more literal.
LEMMA AppendPart ==
  ASSUME NEW ps \in Seq(Parts), NEW end \in Nat, NEW kind \in {"raw", "quoted"}, NEW to \in Nat,
         Chained(ps, end), \A m \in DOMAIN ps : Sound(ps[m]), Sound(Part(kind, end, to))
  PROVE  LET qs == ps \o <<Part(kind, end, to)>>
         IN  /\ qs \in Seq(Parts) /\ Chained(qs, to)
             /\ \A m \in DOMAIN qs : Sound(qs[m])
<1> DEFINE p == Part(kind, end, to)
           qs == ps \o <<p>>
<1>1. p \in Parts /\ p.from = end /\ p.to = to
  BY DEF Part, Parts
<1> HIDE DEF p
<1>2. qs = Append(ps, p)
  BY <1>1, AppendIsConcat
<1>3. qs \in Seq(Parts) /\ \A m \in DOMAIN qs : Sound(qs[m])
  <2>1. Sound(p)
    BY DEF p
  <2> QED
    BY <1>1, <1>2, <2>1, AppendFacts
<1>4. Chained(qs, to)
  BY <1>1, <1>2, ChainedAppend
<1> QED
  BY <1>3, <1>4 DEF p

\* The next character that is not for a raw string, and the literal for it.
LEMMA NextHit ==
  ASSUME TypeOK, Hits # {}
  PROVE  LET i == FirstOf(Hits)
         IN  /\ i \in at..Len(text) /\ \A x \in at..(i - 1) : text[x] \notin NotRaw
             /\ QuotedEnd(i) \in (i + 1)..(Len(text) + 1)
<1> DEFINE i == FirstOf(Hits)
           stops == {x \in (i + 1)..Len(text) : text[x] \in {"tick", "nl"}}
<1>1. at \in Nat /\ at >= 1 /\ Len(text) \in Nat
  BY LenProperties DEF TypeOK
<1>2. Hits \subseteq Nat
  BY <1>1 DEF Hits
<1>3. i \in Hits /\ \A j \in Hits : i <= j
  BY <1>2, FirstOfLeast
<1> HIDE DEF i
<1>4. i \in at..Len(text) /\ \A x \in at..(i - 1) : text[x] \notin NotRaw
  BY <1>1, <1>3 DEF Hits
<1>5. stops # {} => FirstOf(stops) \in stops
  <2>1. stops \subseteq Nat
    BY <1>1, <1>4
  <2> HIDE DEF stops
  <2> QED
    BY <2>1, FirstOfLeast
<1>6. QuotedEnd(i) = i + 1 \/ (stops # {} /\ QuotedEnd(i) = FirstOf(stops) + 1)
  BY DEF QuotedEnd
<1>7. QuotedEnd(i) \in (i + 1)..(Len(text) + 1)
  BY <1>1, <1>4, <1>5, <1>6
<1> QED
  BY <1>4, <1>7 DEF i

\* A step inside the loop leaves the rest of the invariant as it is.
LEMMA StaysWriting ==
  ASSUME Inv, pc \in Writing, pc' \in Writing,
         UNCHANGED <<file, k, collected, segs, prev, result>>
  PROVE  Order' /\ SegsSeq' /\ Spliced'
<1>1. Order'
  BY DEF Inv, Order, collected, Collecting, Writing, Ascending
<1>2. SegsSeq'
  BY DEF Inv, SegsSeq
<1>3. Spliced'
  BY DEF Inv, Spliced, collected
<1> QED
  BY <1>1, <1>2, <1>3

LEMMA StepCutNext == Inv /\ CutNext => Inv'
<1> SUFFICES ASSUME Inv, CutNext PROVE Inv'
  OBVIOUS
<1> DEFINE i == FirstOf(Hits)
           raw == IF i > at THEN <<Part("raw", at, i)>> ELSE <<>>
           mid == parts \o raw
<1>1. /\ Hits # {} /\ pc = "cut"
      /\ parts' = mid \o <<Part("quoted", i, QuotedEnd(i))>>
      /\ at' = QuotedEnd(i)
      /\ UNCHANGED <<file, pc, k, syntaxErrors, collected, text, output>>
  BY DEF CutNext
<1>2. TypeOK /\ parts \in Seq(Parts) /\ at \in Nat /\ Len(text) \in Nat
  BY LenProperties DEF Inv, TypeOK, Parts
<1>3. Chained(parts, at) /\ \A m \in DOMAIN parts : Sound(parts[m])
  BY PartsCoverChained DEF Inv
<1>4. /\ i \in at..Len(text) /\ \A x \in at..(i - 1) : text[x] \notin NotRaw
      /\ QuotedEnd(i) \in (i + 1)..(Len(text) + 1)
  BY <1>1, <1>2, NextHit
<1> HIDE DEF i
<1>5. mid \in Seq(Parts) /\ Chained(mid, i) /\ \A m \in DOMAIN mid : Sound(mid[m])
  <2>1. CASE i > at
    <3>1. Sound(Part("raw", at, i))
      BY <1>2, <1>4, <2>1 DEF Sound, Part
    <3> QED
      BY <1>2, <1>3, <1>4, <2>1, <3>1, AppendPart
  <2>2. CASE ~ (i > at)
    <3>1. i = at /\ mid = parts
      BY <1>2, <1>4, <2>2, ConcatEmptySeq
    <3> QED
      BY <1>2, <1>3, <3>1
  <2> QED
    BY <2>1, <2>2
<1> HIDE DEF mid
<1>6. Sound(Part("quoted", i, QuotedEnd(i)))
  BY <1>2, <1>4 DEF Sound, Part
<1>7. i \in Nat /\ QuotedEnd(i) \in Nat
  BY <1>2, <1>4
<1>8. parts' \in Seq(Parts) /\ Chained(parts', at') /\ \A m \in DOMAIN parts' : Sound(parts'[m])
  BY <1>1, <1>5, <1>6, <1>7, AppendPart
<1>9. PartsCover'
  BY <1>1, <1>8 DEF PartsCover, Chained, Sound, NotRaw
<1>10. TypeOK'
  <2>1. at' \in 1..(Len(text) + 1)
    <3>1. at >= 1
      BY <1>2 DEF TypeOK
    <3>2. i \in Nat /\ i >= 1 /\ QuotedEnd(i) \in (i + 1)..(Len(text) + 1)
      BY <1>2, <1>4, <3>1
    <3> QED
      BY <1>1, <1>2, <3>2
  <2>2. parts' \in Seq([kind : {"raw", "quoted"}, from : Nat, to : Nat])
    BY <1>8 DEF Parts
  <2> QED
    BY <1>1, <1>2, <2>1, <2>2 DEF TypeOK, collected, output
<1>11. Order' /\ SegsSeq' /\ Spliced'
  BY <1>1, StaysWriting DEF Writing, output
<1> QED
  BY <1>9, <1>10, <1>11 DEF Inv

LEMMA StepCutLast == Inv /\ CutLast => Inv'
<1> SUFFICES ASSUME Inv, CutLast PROVE Inv'
  OBVIOUS
<1> DEFINE end == Len(text) + 1
<1>1. /\ Hits = {} /\ pc = "cut" /\ pc' = "verify"
      /\ parts' = Append(parts, Part("raw", at, end))
      /\ at' = end
      /\ UNCHANGED <<file, k, syntaxErrors, collected, text, output>>
  BY DEF CutLast
<1>2. TypeOK /\ parts \in Seq(Parts) /\ at \in 1..end /\ Len(text) \in Nat
  BY LenProperties DEF Inv, TypeOK, Parts
<1>3. Chained(parts, at) /\ \A m \in DOMAIN parts : Sound(parts[m])
  BY PartsCoverChained DEF Inv
<1>4. Sound(Part("raw", at, end))
  BY <1>1, <1>2 DEF Sound, Part, Hits
<1>5. parts' = parts \o <<Part("raw", at, end)>>
  <2>1. Part("raw", at, end) \in Parts
    BY <1>2 DEF Part, Parts
  <2> QED
    BY <1>1, <1>2, <2>1, AppendIsConcat
<1>6. parts' \in Seq(Parts) /\ Chained(parts', at') /\ \A m \in DOMAIN parts' : Sound(parts'[m])
  <2>1. at \in Nat /\ end \in Nat
    BY <1>2
  <2> QED
    BY <1>1, <1>2, <1>3, <1>4, <1>5, <2>1, AppendPart
<1>7. PartsCover'
  BY <1>1, <1>6 DEF PartsCover, Chained, Sound, NotRaw
<1>8. TypeOK'
  <2>1. at' \in 1..(Len(text) + 1)
    BY <1>1, <1>2
  <2> QED
    BY <1>1, <1>2, <1>6, <2>1 DEF TypeOK, Parts, collected, output
<1>9. Order' /\ SegsSeq' /\ Spliced'
  BY <1>1, StaysWriting DEF Writing, output
<1> QED
  BY <1>7, <1>8, <1>9 DEF Inv

-----------------------------------------------------------------------------
(* The loop over the fields. *)

LEMMA InvTypes ==
  ASSUME Inv
  PROVE  /\ fields \in Seq(Literals(file)) /\ Len(fields) \in Nat /\ DOMAIN fields = 1..Len(fields)
         /\ Len(values) \in Nat /\ DOMAIN values = 1..Len(values)
         /\ k \in Nat /\ k >= 1 /\ prev \in Nat /\ prev >= 1
         /\ file \in Files
BY LenProperties DEF Inv, TypeOK, Order

\* The next field is in bounds, and prev has not passed it; neither has it passed
\* the field after it.
LEMMA NextField ==
  ASSUME Inv, pc \in Writing, k <= Len(fields)
  PROVE  /\ fields[k] \in [from : 1..Len(file), to : 1..Len(file)]
         /\ prev <= fields[k].from /\ fields[k].from < fields[k].to
         /\ k + 1 <= Len(fields) =>
              /\ fields[k + 1].from \in Nat /\ fields[k].from < fields[k + 1].from
              /\ fields[k].to <= fields[k + 1].from
         /\ FieldText(file, fields[k]) \in Texts
<1>1. /\ fields \in Seq(Literals(file)) /\ Len(fields) \in Nat /\ DOMAIN fields = 1..Len(fields)
      /\ k \in Nat /\ k >= 1 /\ file \in Files
  BY InvTypes
<1>2. fields[k] \in Literals(file) /\ (k + 1 <= Len(fields) => fields[k + 1] \in Literals(file))
  BY <1>1
<1>3. k + 1 <= Len(fields) => fields[k].from < fields[k + 1].from
  BY <1>1 DEF Inv, Order, Ascending
<1>4. prev <= fields[k].from
  BY DEF Inv, Order
<1> QED
  BY <1>1, <1>2, <1>3, <1>4, LiteralsApart

LEMMA StepFormatField == Inv /\ FormatField => Inv'
<1> SUFFICES ASSUME Inv, FormatField PROVE Inv'
  OBVIOUS
<1>1. /\ pc = "field" /\ k <= Len(fields)
      /\ UNCHANGED <<file, collected, output>>
  BY DEF FormatField
<1>2. /\ fields[k] \in [from : 1..Len(file), to : 1..Len(file)]
      /\ prev <= fields[k].from /\ (k + 1 <= Len(fields) =>
           fields[k + 1].from \in Nat /\ fields[k].from < fields[k + 1].from)
      /\ FieldText(file, fields[k]) \in Texts
  BY <1>1, NextField DEF Writing
<1>3. /\ Len(fields) \in Nat /\ DOMAIN fields = 1..Len(fields) /\ k \in Nat /\ k >= 1
      /\ Len(values) \in Nat /\ prev \in Nat /\ Len(file) \in Nat
  BY InvTypes, LiteralsApart
<1>4. SegsSeq' /\ Spliced'
  BY <1>1 DEF Inv, SegsSeq, Spliced, output, collected
<1>5. CASE Formatted = FormatError
  <2>1. /\ syntaxErrors' = Append(syntaxErrors, fields[k]) /\ k' = k + 1
        /\ UNCHANGED <<pc, text, at, parts>>
    BY <1>5 DEF FormatField, expr
  <2>2. PartsCover'
    BY <2>1 DEF Inv, PartsCover
  <2>3. Order'
    <3>1. k' <= Len(fields) => prev <= fields[k'].from
      BY <1>2, <1>3, <2>1
    <3> QED
      BY <1>1, <1>3, <2>1, <3>1 DEF Inv, Order, collected, output, Collecting, Writing, Ascending
  <2>4. TypeOK'
    <3>1. syntaxErrors' \in Seq(Spans)
      <4>1. fields[k] \in Spans
        BY <1>2, <1>3 DEF Spans
      <4> QED
        BY <2>1, <4>1, AppendFacts DEF Inv, TypeOK
    <3>2. k' \in 1..(Len(values) + 1)
      BY <1>1, <1>3, <2>1 DEF Inv, Order, Writing
    <3> QED
      BY <1>1, <2>1, <3>1, <3>2 DEF Inv, TypeOK, collected, output
  <2> QED
    BY <1>4, <2>2, <2>3, <2>4 DEF Inv
<1>6. CASE Formatted # FormatError
  <2>1. /\ text' = InNewlines(Formatted) /\ at' = 1 /\ parts' = <<>> /\ pc' = "cut"
        /\ UNCHANGED <<k, syntaxErrors>>
    BY <1>6 DEF FormatField
  <2>2. text' \in Seq(Char)
    <3>1. Formatted \in Seq(Char)
      BY <1>2, <1>6, FormatSQLType DEF Formatted
    <3>2. <<"nl">> \in Seq(Char)
      BY DEF Char
    <3> HIDE DEF Formatted
    <3> QED
      BY <2>1, <3>1, <3>2, ConcatProperties DEF InNewlines
  <2>3. PartsCover'
    BY <2>1 DEF PartsCover
  <2>4. TypeOK'
    <3>1. at' \in 1..(Len(text') + 1)
      BY <2>1, <2>2, LenProperties
    <3>2. parts' \in Seq(Parts)
      BY <2>1
    <3>3. k \in DOMAIN fields
      BY <1>1, <1>3
    <3> QED
      BY <1>1, <2>1, <2>2, <3>1, <3>2, <3>3 DEF Inv, TypeOK, Parts, collected, output
  <2>5. Order'
    BY <1>1, <2>1, StaysWriting DEF Writing, output
  <2> QED
    BY <1>4, <2>3, <2>4, <2>5 DEF Inv
<1> QED
  BY <1>5, <1>6

\* A segment of the output: a copy, or one of the fields.
Segment(g) == g.from <= g.to /\ (g.new => [from |-> g.from, to |-> g.to] \in Range(fields))

LEMMA SplicedChained ==
  Spliced <=> /\ Chained(segs, prev) /\ \A m \in DOMAIN segs : Segment(segs[m])
              /\ result = "ok" /\ fields # <<>> => prev = Len(file) + 1
BY DEF Spliced, Chained, Segment

\* One more segment.
LEMMA AppendSegment ==
  ASSUME NEW ss, ss \in Seq(Range(ss)), NEW end, NEW g, Chained(ss, end), g.from = end, Segment(g),
         \A m \in DOMAIN ss : Segment(ss[m])
  PROVE  /\ Append(ss, g) \in Seq(Range(Append(ss, g))) /\ Chained(Append(ss, g), g.to)
         /\ \A m \in DOMAIN Append(ss, g) : Segment(Append(ss, g)[m])
<1> DEFINE S == Range(ss) \cup {g}
<1>1. ss \in Seq(S) /\ g \in S
  BY SeqMonotonic
<1> HIDE DEF S
<1>2. Append(ss, g) \in Seq(S) /\ Chained(Append(ss, g), g.to)
  BY <1>1, AppendFacts, ChainedAppend
<1>3. \A m \in DOMAIN Append(ss, g) : Segment(Append(ss, g)[m])
  BY <1>1, AppendFacts
<1> QED
  BY <1>2, <1>3, SeqOfRange

\* formatGoFile has returned, the splice as it is.
LEMMA StaysReturned ==
  ASSUME Inv, pc' = "done", result' # "none", result' \in {"ok", "error", "bug"}, at' = at,
         text' = text, parts' = parts, k' \in 1..(Len(values) + 1),
         UNCHANGED <<file, syntaxErrors, collected>>, prev' \in 1..(Len(file) + 1)
  PROVE  TypeOK' /\ Order' /\ PartsCover'
<1>1. TypeOK'
  BY DEF Inv, TypeOK, collected
<1>2. Order'
  BY DEF Inv, Order, Collecting, Writing, collected, Ascending
<1>3. PartsCover'
  BY DEF Inv, PartsCover
<1> QED
  BY <1>1, <1>2, <1>3

LEMMA StepWriteField == Inv /\ WriteField => Inv'
<1> SUFFICES ASSUME Inv, WriteField PROVE Inv'
  OBVIOUS
<1> DEFINE f == fields[k]
<1>1. /\ k \in DOMAIN fields /\ Len(fields) \in Nat /\ DOMAIN fields = 1..Len(fields)
      /\ Len(values) \in Nat /\ k \in Nat /\ k >= 1
      /\ prev \in Nat /\ prev >= 1 /\ Len(file) \in Nat /\ pc = "verify"
  BY InvTypes, LiteralsApart DEF Inv, TypeOK, WriteField
<1>2. /\ f \in [from : 1..Len(file), to : 1..Len(file)]
      /\ prev <= f.from /\ f.from < f.to
      /\ k + 1 <= Len(fields) => f.to <= fields[k + 1].from
  BY <1>1, NextField DEF Writing
<1>3. UNCHANGED <<file, syntaxErrors, collected, expr>>
  BY DEF WriteField
<1>4. CASE Verified
  <2> DEFINE a == Copy(prev, f.from)
             b == Replace(f, NewExpr)
  <2>1. /\ segs' = segs \o <<a, b>>
        /\ prev' = f.to /\ k' = k + 1 /\ pc' = "field" /\ UNCHANGED <<result, out>>
    BY <1>4 DEF WriteField, Continue
  <2>2. /\ a.from = prev /\ a.to = f.from /\ a.new = FALSE
        /\ b.from = f.from /\ b.to = f.to /\ b.new = TRUE
    BY DEF Copy, Replace
  <2> HIDE DEF a, b
  <2>3. segs' = Append(Append(segs, a), b)
    <3>1. segs \in Seq(Range(segs) \cup {a, b})
      BY SeqMonotonic DEF Inv, SegsSeq
    <3> QED
      BY <2>1, <3>1
  <2>4. Segment(a) /\ Segment(b)
    <3>1. [from |-> f.from, to |-> f.to] = f
      BY <1>2
    <3>2. f \in Range(fields)
      BY <1>1 DEF Range
    <3> QED
      BY <1>2, <2>2, <3>1, <3>2 DEF Segment
  <2>5. /\ segs \in Seq(Range(segs)) /\ Chained(segs, prev)
        /\ \A m \in DOMAIN segs : Segment(segs[m])
    BY SplicedChained DEF Inv, SegsSeq
  <2>6. /\ Append(segs, a) \in Seq(Range(Append(segs, a))) /\ Chained(Append(segs, a), f.from)
        /\ \A m \in DOMAIN Append(segs, a) : Segment(Append(segs, a)[m])
    BY <2>2, <2>4, <2>5, AppendSegment
  <2>7. /\ segs' \in Seq(Range(segs')) /\ Chained(segs', prev')
        /\ \A m \in DOMAIN segs' : Segment(segs'[m])
    BY <2>1, <2>2, <2>3, <2>4, <2>6, AppendSegment
  <2>8. TypeOK'
    <3>1. prev' \in 1..(Len(file) + 1)
      BY <1>1, <1>2, <2>1
    <3>2. k' \in 1..(Len(values) + 1)
      BY <1>1, <2>1 DEF Inv, Order, Writing
    <3> QED
      BY <1>1, <1>3, <2>1, <3>1, <3>2 DEF Inv, TypeOK, collected, expr
  <2>9. Order'
    <3>1. k' <= Len(fields) => prev' <= fields[k'].from
      BY <1>1, <1>2, <2>1
    <3> QED
      BY <1>1, <1>3, <2>1, <3>1 DEF Inv, Order, collected, Collecting, Writing, Ascending
  <2>10. Spliced'
    <3>1. result # "ok"
      BY <1>1 DEF Inv, TypeOK
    <3> QED
      BY <1>3, <2>1, <2>7, <3>1 DEF Spliced, Chained, Segment, collected
  <2>11. PartsCover'
    BY <1>3 DEF Inv, PartsCover, expr
  <2> QED
    BY <2>7, <2>8, <2>9, <2>10, <2>11 DEF Inv, SegsSeq
<1>5. CASE ~Verified
  <2>1. pc' = "done" /\ result' = "bug" /\ UNCHANGED <<segs, prev, k>>
    BY <1>5 DEF WriteField, Return
  <2>2. TypeOK' /\ Order' /\ PartsCover'
    BY <1>3, <2>1, StaysReturned DEF expr, Inv, TypeOK
  <2>3. SegsSeq' /\ Spliced'
    BY <1>3, <2>1 DEF Inv, SegsSeq, Spliced, collected
  <2> QED
    BY <2>2, <2>3 DEF Inv
<1> QED
  BY <1>4, <1>5

LEMMA StepFinish == Inv /\ Finish => Inv'
<1> SUFFICES ASSUME Inv, Finish PROVE Inv'
  OBVIOUS
<1> DEFINE end == Len(file) + 1
           a == Copy(prev, end)
<1>1. /\ segs' = Append(segs, a) /\ prev' = end /\ pc' = "done" /\ result' \in {"ok", "error"}
      /\ UNCHANGED <<file, k, syntaxErrors, collected, expr>>
  BY DEF Finish, Return
<1>2. Len(file) \in Nat /\ prev \in 1..end
  BY InvTypes, LiteralsApart DEF Inv, TypeOK
<1>3. a.from = prev /\ a.to = end /\ Segment(a)
  BY <1>2 DEF Copy, Segment
<1> HIDE DEF a
<1>4. /\ segs \in Seq(Range(segs)) /\ Chained(segs, prev)
      /\ \A m \in DOMAIN segs : Segment(segs[m])
  BY SplicedChained DEF Inv, SegsSeq
<1>5. /\ segs' \in Seq(Range(segs')) /\ Chained(segs', prev')
      /\ \A m \in DOMAIN segs' : Segment(segs'[m])
  BY <1>1, <1>3, <1>4, AppendSegment
<1>6. Spliced'
  BY <1>1, <1>5 DEF Spliced, Chained, Segment, collected
<1>7. TypeOK' /\ Order' /\ PartsCover'
  <2>1. prev' \in 1..(Len(file) + 1)
    BY <1>1, <1>2
  <2>2. k' \in 1..(Len(values) + 1)
    BY <1>1 DEF Inv, TypeOK
  <2> QED
    BY <1>1, <2>1, <2>2, StaysReturned DEF expr
<1> QED
  BY <1>5, <1>6, <1>7 DEF Inv, SegsSeq

-----------------------------------------------------------------------------
(* Before the fields. *)

\* Nothing is written while the fields are collected.
LEMMA StaysEmpty ==
  ASSUME Inv, pc \in Collecting, UNCHANGED <<file, fields, expr, segs, prev>>,
         result' # "ok" \/ fields = <<>>
  PROVE  SegsSeq' /\ Spliced' /\ PartsCover'
BY DEF Inv, Order, SegsSeq, Spliced, PartsCover, expr

LEMMA StepParse == Inv /\ Parse => Inv'
<1> SUFFICES ASSUME Inv, Parse PROVE Inv'
  OBVIOUS
<1>1. /\ pc = "parse" /\ fields = <<>> /\ segs = <<>> /\ prev = 1
      /\ UNCHANGED <<file, k, syntaxErrors, collected, expr, segs, prev>>
      /\ (pc' = "done" /\ result' \in {"ok", "error"}) \/ (pc' = "inspect" /\ result' = result)
  BY DEF Inv, Order, Parse, Return, Continue, Collecting
<1>2. TypeOK'
  BY <1>1 DEF Inv, TypeOK, collected, expr
<1>3. Order'
  BY <1>1 DEF Inv, Order, collected, Collecting, Writing, Ascending
<1>4. SegsSeq' /\ Spliced' /\ PartsCover'
  BY <1>1, StaysEmpty DEF Collecting, collected
<1> QED
  BY <1>2, <1>3, <1>4 DEF Inv

LEMMA StepInspect == Inv /\ Inspect => Inv'
<1> SUFFICES ASSUME Inv, Inspect PROVE Inv'
  OBVIOUS
<1> DEFINE rest == {i \in (node + 1)..Len(file) : file[i].k = "open"}
<1>1. /\ pc = "inspect" /\ fields = <<>> /\ segs = <<>> /\ prev = 1 /\ k = 1
      /\ UNCHANGED <<file, k, syntaxErrors, errs, fields, expr, segs, prev, result>>
  BY DEF Inv, Order, Inspect, Continue, Collecting
<1>2. file \in Files /\ Len(file) \in Nat /\ DOMAIN file = 1..Len(file) /\ node \in 0..Len(file)
  BY LiteralsApart DEF Inv, Order, TypeOK
<1>3. /\ pc' \in {"inspect", "sort"} /\ node' \in 0..Len(file)
      /\ values' \in Seq(AllValues(file))
  <2>1. CASE rest = {}
    BY <1>2, <2>1 DEF Inspect, Continue, Inv, Order
  <2>2. CASE rest # {}
    <3>1. rest \subseteq Nat
      BY <1>2
    <3>2. FirstOf(rest) \in rest
      BY <2>2, <3>1, FirstOfLeast
    <3>3. node' = FirstOf(rest) /\ pc' = pc
      BY <2>2 DEF Inspect
    <3>4. node' \in DOMAIN file
      BY <1>2, <3>2, <3>3
    <3>5. values' = values \o (IF SpannerStatementLit(file, node') THEN SQLValues(file, node') ELSE <<>>)
      BY <2>2 DEF Inspect
    <3>6. values \in Seq(AllValues(file))
      BY DEF Inv, Order
    <3>7. CASE SpannerStatementLit(file, node')
      <4>1. SQLValues(file, node') \in Seq(AllValues(file))
        BY <1>2, <3>4, <3>7, SQLValuesType
      <4>2. values' \in Seq(AllValues(file))
        BY <3>5, <3>6, <3>7, <4>1, ConcatProperties
      <4> QED
        BY <1>1, <1>2, <3>3, <3>4, <4>2
    <3>8. CASE ~SpannerStatementLit(file, node')
      BY <1>1, <1>2, <3>3, <3>4, <3>5, <3>6, <3>8, ConcatEmptySeq
    <3> QED
      BY <3>7, <3>8
  <2> QED
    BY <2>1, <2>2
<1> HIDE DEF rest
<1>4. TypeOK'
  <2>1. values' \in Seq(Spans)
    <3>1. AllValues(file) \subseteq Spans
      BY <1>2, LiteralsApart DEF Spans
    <3> QED
      BY <1>3, <3>1, SeqMonotonic
  <2>2. Len(values') \in Nat
    BY <1>3, LenProperties
  <2> QED
    BY <1>1, <1>3, <2>1, <2>2 DEF Inv, TypeOK, expr
<1>5. Order'
  BY <1>1, <1>3 DEF Inv, Order, Collecting, Writing, Ascending
<1>6. SegsSeq' /\ Spliced' /\ PartsCover'
  BY <1>1, StaysEmpty DEF Collecting
<1> QED
  BY <1>4, <1>5, <1>6 DEF Inv

LEMMA StepSort == Inv /\ Sort => Inv'
<1> SUFFICES ASSUME Inv, Sort PROVE Inv'
  OBVIOUS
<1>1. /\ pc = "sort" /\ pc' = "collect" /\ fields = <<>> /\ segs = <<>> /\ prev = 1 /\ k = 1
      /\ UNCHANGED <<file, k, syntaxErrors, node, errs, fields, expr, segs, prev, result>>
      /\ values' \in [DOMAIN values -> Range(values)] /\ Ascending(values')
  BY DEF Inv, Order, Sort, Continue, Collecting
<1>2. /\ values \in Seq(AllValues(file)) /\ Len(values) \in Nat /\ DOMAIN values = 1..Len(values)
      /\ file \in Files
  BY LenProperties DEF Inv, Order
<1>3. values' \in Seq(AllValues(file)) /\ Len(values') = Len(values)
  <2>1. Range(values) \subseteq AllValues(file)
    BY <1>2 DEF Range
  <2> QED
    BY <1>1, <1>2, <2>1
<1>4. TypeOK'
  <2>1. AllValues(file) \subseteq Spans
    BY <1>2, LiteralsApart DEF Spans
  <2>2. values' \in Seq(Spans)
    BY <1>3, <2>1, SeqMonotonic
  <2> QED
    BY <1>1, <1>2, <1>3, <2>2 DEF Inv, TypeOK, expr
<1>5. Order'
  BY <1>1, <1>3 DEF Inv, Order, Collecting, Writing, Ascending
<1>6. SegsSeq' /\ Spliced' /\ PartsCover'
  BY <1>1, StaysEmpty DEF Collecting
<1> QED
  BY <1>4, <1>5, <1>6 DEF Inv

LEMMA StepCollect == Inv /\ Collect => Inv'
<1> SUFFICES ASSUME Inv, Collect PROVE Inv'
  OBVIOUS
<1> DEFINE v == values[k]
<1>1. /\ pc = "collect" /\ k <= Len(values) /\ k' = k + 1 /\ segs = <<>> /\ prev = 1
      /\ UNCHANGED <<file, pc, syntaxErrors, node, values, expr, segs, prev, result, out>>
  BY DEF Inv, Order, Collect, Collecting, output
<1>2. /\ k \in DOMAIN values /\ Len(values) \in Nat /\ DOMAIN values = 1..Len(values) /\ k \in Nat
      /\ Len(fields) \in Nat /\ DOMAIN fields = 1..Len(fields) /\ file \in Files
  BY <1>1, InvTypes
<1>3. v \in AllValues(file) /\ v \in Spans
  <2>1. v \in AllValues(file)
    BY <1>2 DEF Inv, Order
  <2> QED
    BY <1>2, <2>1, LiteralsApart DEF Spans
<1>4. \A m \in DOMAIN fields : fields[m].from < v.from
  BY <1>1 DEF Inv, Order
<1>5. k' <= Len(values) => v.from < values[k'].from
  BY <1>1, <1>2 DEF Inv, Order, Ascending
<1>6. k' <= Len(values) => values[k'].from \in Nat
  <2>1. k' <= Len(values) => values[k'] \in AllValues(file)
    BY <1>1, <1>2 DEF Inv, Order
  <2> QED
    BY <1>2, <2>1, LiteralsApart
<1>7. \A m \in DOMAIN fields : fields[m].from \in Nat
  BY <1>2, LiteralsApart DEF Inv, Order
<1>8. k' \in 1..(Len(values) + 1)
  BY <1>1, <1>2
<1>9. CASE Accepted(v)
  <2>1. fields' = Append(fields, v) /\ errs' = errs
    BY <1>9 DEF Collect
  <2>2. v \in Literals(file)
    BY <1>3, <1>9 DEF Accepted, Literals
  <2>3. fields' \in Seq(Literals(file))
    BY <2>1, <2>2, AppendFacts DEF Inv, Order
  <2>4. /\ Len(fields') = Len(fields) + 1 /\ DOMAIN fields' = 1..(Len(fields) + 1)
        /\ \A m \in 1..Len(fields) : fields'[m] = fields[m]
        /\ fields'[Len(fields) + 1] = v
    BY <2>1, <2>2, AppendFacts DEF Inv, Order
  <2>5. Ascending(fields')
    <3> SUFFICES ASSUME NEW m \in DOMAIN fields', NEW x \in DOMAIN fields', m < x
                 PROVE  fields'[m].from < fields'[x].from
      BY DEF Ascending
    <3>1. CASE x \in DOMAIN fields
      <4>1. m \in DOMAIN fields
        BY <1>2, <2>4, <3>1
      <4> QED
        BY <1>2, <2>4, <3>1, <4>1 DEF Inv, Order, Ascending
    <3>2. CASE x = Len(fields) + 1
      <4>1. m \in DOMAIN fields
        BY <1>2, <2>4, <3>2
      <4> QED
        BY <1>2, <1>4, <2>4, <3>2, <4>1
    <3> QED
      BY <1>2, <2>4, <3>1, <3>2
  <2>6. \A m \in DOMAIN fields' : k' <= Len(values) => fields'[m].from < values[k'].from
    <3> SUFFICES ASSUME NEW m \in DOMAIN fields', k' <= Len(values)
                 PROVE  fields'[m].from < values[k'].from
      OBVIOUS
    <3>1. v.from \in Nat
      BY <1>3 DEF Spans
    <3>2. CASE m \in DOMAIN fields
      BY <1>2, <1>4, <1>5, <1>6, <1>7, <2>4, <3>1, <3>2
    <3>3. CASE m = Len(fields) + 1
      BY <1>5, <2>4, <3>3
    <3> QED
      BY <1>2, <2>4, <3>2, <3>3
  <2>7. Order'
    <3>1. Len(fields') < k'
      BY <1>1, <1>2, <2>4 DEF Inv, Order
    <3> QED
      BY <1>1, <2>3, <2>5, <2>6, <3>1 DEF Inv, Order, Collecting, Writing, Ascending
  <2>8. TypeOK'
    <3>1. fields' \in Seq(Spans)
      BY <1>3, <2>1, AppendFacts DEF Inv, TypeOK
    <3> QED
      BY <1>1, <1>8, <2>1, <3>1 DEF Inv, TypeOK, expr
  <2>9. SegsSeq' /\ Spliced' /\ PartsCover'
    <3>1. result # "ok"
      BY <1>1 DEF Inv, TypeOK
    <3> QED
      BY <1>1, <3>1 DEF Inv, SegsSeq, Spliced, PartsCover, expr
  <2> QED
    BY <2>7, <2>8, <2>9 DEF Inv
<1>10. CASE ~Accepted(v)
  <2>1. errs' = Append(errs, v) /\ fields' = fields
    BY <1>10 DEF Collect
  <2>2. \A m \in DOMAIN fields : k' <= Len(values) => fields[m].from < values[k'].from
    <3>1. v.from \in Nat
      BY <1>3 DEF Spans
    <3> QED
      BY <1>4, <1>5, <1>6, <1>7, <3>1
  <2>3. Order'
    <3>1. Len(fields') < k'
      BY <1>1, <1>2, <2>1 DEF Inv, Order
    <3> QED
      BY <1>1, <2>1, <2>2, <3>1 DEF Inv, Order, Collecting, Writing, Ascending
  <2>4. TypeOK'
    <3>1. errs' \in Seq(Spans)
      BY <1>3, <2>1, AppendFacts DEF Inv, TypeOK
    <3> QED
      BY <1>1, <1>8, <2>1, <3>1 DEF Inv, TypeOK, expr
  <2>5. SegsSeq' /\ Spliced' /\ PartsCover'
    BY <1>1, <2>1 DEF Inv, SegsSeq, Spliced, PartsCover, expr
  <2> QED
    BY <2>3, <2>4, <2>5 DEF Inv
<1> QED
  BY <1>9, <1>10

LEMMA StepCollected == Inv /\ Collected => Inv'
<1> SUFFICES ASSUME Inv, Collected PROVE Inv'
  OBVIOUS
<1>1. /\ pc = "collect" /\ k > Len(values) /\ k' = 1 /\ segs = <<>> /\ prev = 1
      /\ UNCHANGED <<file, syntaxErrors, collected, expr, segs, prev>>
      /\ \/ pc' = "done" /\ result' = "error"
         \/ pc' = "done" /\ result' = "ok" /\ fields = <<>>
         \/ pc' = "field" /\ result' = result /\ fields # <<>>
  BY DEF Inv, Order, Collected, Return, Continue, Collecting
<1>2. /\ Len(values) \in Nat /\ Len(fields) \in Nat /\ DOMAIN fields = 1..Len(fields) /\ k \in Nat
      /\ file \in Files /\ k <= Len(values) + 1
  BY InvTypes DEF Inv, TypeOK
<1>3. TypeOK'
  BY <1>1, <1>2 DEF Inv, TypeOK, collected, expr
<1>4. Order'
  <2>1. Len(fields) <= Len(values)
    BY <1>1, <1>2 DEF Inv, Order
  <2>2. 1 <= Len(fields) => prev <= fields[1].from
    BY <1>1, <1>2, LiteralsApart DEF Inv, Order
  <2> QED
    BY <1>1, <1>2, <2>1, <2>2 DEF Inv, Order, collected, Collecting, Writing, Ascending
<1>5. SegsSeq' /\ Spliced' /\ PartsCover'
  <2>1. result' # "ok" \/ fields = <<>>
    BY <1>1 DEF Inv, TypeOK
  <2> QED
    BY <1>1, <2>1, StaysEmpty DEF collected, Collecting
<1> QED
  BY <1>3, <1>4, <1>5 DEF Inv

-----------------------------------------------------------------------------
(* The theorems. *)

LEMMA InitInv == Init => Inv
<1> SUFFICES ASSUME Init PROVE Inv
  OBVIOUS
<1>1. Len(file) \in Nat
  BY LiteralsApart DEF Init
<1>2. TypeOK
  BY <1>1 DEF Init, TypeOK
<1>3. Order
  BY DEF Init, Order, Collecting, Writing, Ascending
<1>4. SegsSeq /\ Spliced /\ PartsCover
  BY DEF Init, SegsSeq, Spliced, PartsCover
<1> QED
  BY <1>2, <1>3, <1>4 DEF Inv

LEMMA NextInv == Inv /\ [Next]_vars => Inv'
<1> SUFFICES ASSUME Inv, [Next]_vars PROVE Inv'
  OBVIOUS
<1>1. CASE UNCHANGED vars
  <2>1. TypeOK'
    BY <1>1 DEF Inv, TypeOK, vars, collected, expr, output
  <2>2. Order'
    BY <1>1 DEF Inv, Order, Ascending, vars, collected, expr, output
  <2>3. SegsSeq' /\ Spliced' /\ PartsCover'
    BY <1>1 DEF Inv, SegsSeq, Spliced, PartsCover, vars, collected, expr, output
  <2> QED
    BY <2>1, <2>2, <2>3 DEF Inv
<1>2. CASE Next
  BY <1>2, StepParse, StepInspect, StepSort, StepCollect, StepCollected, StepFormatField,
     StepCutNext, StepCutLast, StepWriteField, StepFinish DEF Next
<1> QED
  BY <1>1, <1>2

LEMMA SpecInv == Spec => []Inv
BY InitInv, NextInv, PTL DEF Spec

\* The variables of formatGoFile keep their types, whatever the files.
THEOREM Spec_TypeOK == Spec => []TypeOK
<1>1. Inv => TypeOK
  BY DEF Inv
<1> QED
  BY <1>1, SpecInv, PTL

\* Whatever the files and whatever FormatSQL does, formatGoFile copies or replaces
\* every cell of the file once, in order.
THEOREM Spec_Spliced == Spec => []Spliced
<1>1. Inv => Spliced
  BY DEF Inv
<1> QED
  BY <1>1, SpecInv, PTL

\* Whatever the text, the literals that sqlFieldExpr cuts it into have no gap, and
\* the raw ones only what a raw string can hold.
THEOREM Spec_PartsCover == Spec => []PartsCover
<1>1. Inv => PartsCover
  BY DEF Inv
<1> QED
  BY <1>1, SpecInv, PTL

\* Whatever the text, every round of the loop of sqlFieldExpr takes something from
\* it.
THEOREM Spec_CutsAdvance == Spec => CutsAdvance
<1>1. Inv /\ [Next]_vars => [pc = "cut" /\ pc' = "cut" => at' > at]_vars
  <2> SUFFICES ASSUME Inv, Next, pc = "cut", pc' = "cut" PROVE at' > at
    BY DEF vars
  <2>1. CutNext
    BY DEF Next, Parse, Inspect, Sort, Collect, Collected, FormatField, CutLast, WriteField, Finish
  <2>2. TypeOK /\ Hits # {} /\ at' = QuotedEnd(FirstOf(Hits)) /\ at \in Nat /\ Len(text) \in Nat
    BY <2>1, LenProperties DEF CutNext, Inv, TypeOK
  <2> QED
    BY <2>2, NextHit
<1> QED
  BY <1>1, SpecInv, PTL DEF Spec, CutsAdvance

-----------------------------------------------------------------------------
(***************************************************************************)
(* The errors are in order because the values, and the fields, are: what   *)
(* was reported comes before what is looked at next.                       *)
(***************************************************************************)
Before(vs, next) == \A m \in DOMAIN vs : vs[m].from < next.from

ErrsInv ==
  /\ pc \in {"parse", "inspect", "sort"} => errs = <<>>
  /\ pc = "collect" /\ k <= Len(values) => Before(errs, values[k])

SyntaxInv ==
  /\ pc \in Collecting => syntaxErrors = <<>>
  /\ pc \in Writing /\ k <= Len(fields) => Before(syntaxErrors, fields[k])

LEMMA FromType ==
  /\ \A v \in Spans : v.from \in Nat
  /\ \A vs \in Seq(Spans) : \A m \in DOMAIN vs : vs[m].from \in Nat
<1>1. \A v \in Spans : v.from \in Nat
  BY DEF Spans
<1>2. \A vs \in Seq(Spans) : \A m \in DOMAIN vs : vs[m] \in Spans
  OBVIOUS
<1> QED
  BY <1>1, <1>2

LEMMA AscendingAppend ==
  ASSUME NEW vs \in Seq(Spans), Ascending(vs), NEW v \in Spans, Before(vs, v)
  PROVE  /\ Ascending(Append(vs, v))
         /\ \A next \in Spans : v.from < next.from => Before(Append(vs, v), next)
<1> DEFINE ws == Append(vs, v)
<1>1. /\ Len(vs) \in Nat /\ DOMAIN vs = 1..Len(vs) /\ DOMAIN ws = 1..(Len(vs) + 1)
      /\ \A m \in 1..Len(vs) : ws[m] = vs[m]
      /\ ws[Len(vs) + 1] = v
  BY AppendFacts
<1>2. v.from \in Nat /\ \A m \in DOMAIN vs : vs[m].from \in Nat
  BY FromType
<1> HIDE DEF ws
<1>3. ASSUME NEW m \in DOMAIN ws PROVE ws[m].from \in Nat /\ ws[m].from <= v.from
  <2>1. CASE m \in DOMAIN vs
    BY <1>1, <1>2, <2>1 DEF Before
  <2>2. CASE m = Len(vs) + 1
    BY <1>1, <1>2, <2>2
  <2> QED
    BY <1>1, <2>1, <2>2
<1>4. ASSUME NEW m \in DOMAIN ws, NEW x \in DOMAIN ws, m < x PROVE ws[m].from < ws[x].from
  <2>1. m \in DOMAIN vs
    BY <1>1, <1>4
  <2>2. CASE x \in DOMAIN vs
    BY <1>1, <1>4, <2>1, <2>2 DEF Ascending
  <2>3. CASE x = Len(vs) + 1
    BY <1>1, <2>1, <2>3 DEF Before
  <2> QED
    BY <1>1, <2>2, <2>3
<1>5. ASSUME NEW next \in Spans, v.from < next.from PROVE Before(ws, next)
  <2>1. next.from \in Nat
    BY DEF Spans
  <2> QED
    BY <1>2, <1>3, <1>5, <2>1 DEF Before
<1>6. Ascending(ws)
  BY <1>4 DEF Ascending
<1> QED
  BY <1>5, <1>6 DEF ws

\* What comes before one value comes before the next.
LEMMA BeforeNext ==
  ASSUME NEW vs \in Seq(Spans), NEW v \in Spans, NEW next \in Spans, Before(vs, v), v.from < next.from
  PROVE  Before(vs, next)
<1>1. v.from \in Nat /\ next.from \in Nat /\ \A m \in DOMAIN vs : vs[m].from \in Nat
  BY FromType
<1> QED
  BY <1>1 DEF Before

\* The value at k and, if there is one, the next.
LEMMA ValuesAt ==
  ASSUME Inv, pc = "collect", k <= Len(values)
  PROVE  /\ k \in DOMAIN values /\ values[k] \in Spans
         /\ k + 1 <= Len(values) => values[k + 1] \in Spans /\ values[k].from < values[k + 1].from
<1>1. k \in Nat \ {0} /\ values \in Seq(Spans) /\ Len(values) \in Nat /\ DOMAIN values = 1..Len(values)
  BY DEF Inv, TypeOK
<1>2. Ascending(values)
  BY DEF Inv, Order
<1> QED
  BY <1>1, <1>2 DEF Ascending

LEMMA FieldsAt ==
  ASSUME Inv, k <= Len(fields)
  PROVE  /\ k \in DOMAIN fields /\ fields[k] \in Spans
         /\ k + 1 <= Len(fields) => fields[k + 1] \in Spans /\ fields[k].from < fields[k + 1].from
<1>1. k \in Nat \ {0} /\ fields \in Seq(Spans) /\ Len(fields) \in Nat /\ DOMAIN fields = 1..Len(fields)
  BY DEF Inv, TypeOK
<1>2. Ascending(fields)
  BY DEF Inv, Order
<1> QED
  BY <1>1, <1>2 DEF Ascending

LEMMA ErrsCollect ==
  ASSUME Inv, ErrsInv, Ascending(errs), Collect
  PROVE  ErrsInv' /\ Ascending(errs')
<1>1. pc = "collect" /\ pc' = "collect" /\ k <= Len(values) /\ k' = k + 1 /\ values' = values
  BY DEF Collect
<1>2. values[k] \in Spans
      /\ (k' <= Len(values) => values[k'] \in Spans /\ values[k].from < values[k'].from)
  BY <1>1, ValuesAt
<1>3. Before(errs, values[k]) /\ errs \in Seq(Spans)
  BY <1>1 DEF ErrsInv, Inv, TypeOK
<1>4. CASE errs' = errs
  <2>1. k' <= Len(values) => Before(errs, values[k'])
    BY <1>2, <1>3, BeforeNext
  <2> QED
    BY <1>1, <1>4, <2>1 DEF ErrsInv, Ascending, Before
<1>5. CASE errs' = Append(errs, values[k])
  <2>1. Ascending(errs') /\ (k' <= Len(values) => Before(errs', values[k']))
    BY <1>2, <1>3, <1>5, AscendingAppend
  <2> QED
    BY <1>1, <2>1 DEF ErrsInv, Before
<1> QED
  BY <1>4, <1>5 DEF Collect

LEMMA ErrsStep == Inv /\ ErrsInv /\ Ascending(errs) /\ [Next]_vars => ErrsInv' /\ Ascending(errs')
<1> SUFFICES ASSUME Inv, ErrsInv, Ascending(errs), [Next]_vars PROVE ErrsInv' /\ Ascending(errs')
  OBVIOUS
<1>1. CASE errs' = errs /\ values' = values /\ k' = k /\ (pc' = pc \/ pc' \notin {"inspect", "sort", "collect"})
           /\ (pc' = "parse" => pc = "parse")
  BY <1>1 DEF ErrsInv, Ascending, Before
<1>2. CASE errs' = errs /\ pc \in {"parse", "inspect", "sort"} /\ pc' \in {"inspect", "sort", "collect", "done"}
  <2>1. errs' = <<>>
    BY <1>2 DEF ErrsInv
  <2> QED
    BY <2>1 DEF ErrsInv, Ascending, Before
<1>3. CASE errs' = errs /\ pc' \in {"field", "cut", "verify", "done"}
  BY <1>3 DEF ErrsInv, Ascending
<1>4. CASE UNCHANGED vars
  BY <1>1, <1>4 DEF vars, collected
<1>5. CASE Parse \/ Inspect \/ Sort
  BY <1>2, <1>5 DEF Parse, Inspect, Sort, Return, Continue, collected
<1>6. CASE Collected \/ FormatField \/ CutNext \/ CutLast \/ WriteField \/ Finish
  BY <1>3, <1>6 DEF Collected, FormatField, CutNext, CutLast, WriteField, Finish, Return, Continue, collected
<1> QED
  BY <1>4, <1>5, <1>6, ErrsCollect DEF Next

LEMMA SyntaxField ==
  ASSUME Inv, SyntaxInv, Ascending(syntaxErrors), FormatField
  PROVE  SyntaxInv' /\ Ascending(syntaxErrors')
<1>1. pc = "field" /\ k <= Len(fields) /\ fields' = fields
  BY DEF FormatField, collected
<1>2. fields[k] \in Spans
      /\ (k + 1 <= Len(fields) => fields[k + 1] \in Spans /\ fields[k].from < fields[k + 1].from)
  BY <1>1, FieldsAt
<1>3. Before(syntaxErrors, fields[k]) /\ syntaxErrors \in Seq(Spans)
  BY <1>1 DEF SyntaxInv, Writing, Inv, TypeOK
<1>4. CASE syntaxErrors' = Append(syntaxErrors, fields[k]) /\ k' = k + 1 /\ pc' = pc
  <2>1. Ascending(syntaxErrors') /\ (k' <= Len(fields) => Before(syntaxErrors', fields[k']))
    BY <1>2, <1>3, <1>4, AscendingAppend
  <2> QED
    BY <1>1, <1>4, <2>1 DEF SyntaxInv, Collecting, Before
<1>5. CASE syntaxErrors' = syntaxErrors /\ k' = k /\ pc' = "cut"
  BY <1>1, <1>3, <1>5 DEF SyntaxInv, Collecting, Ascending, Before
<1> QED
  BY <1>4, <1>5 DEF FormatField

LEMMA SyntaxWrite ==
  ASSUME Inv, SyntaxInv, Ascending(syntaxErrors), WriteField
  PROVE  SyntaxInv' /\ Ascending(syntaxErrors')
<1>1. pc = "verify" /\ fields' = fields /\ syntaxErrors' = syntaxErrors /\ k <= Len(fields)
  BY DEF WriteField, collected, Inv, TypeOK
<1>2. Before(syntaxErrors, fields[k]) /\ syntaxErrors \in Seq(Spans) /\ fields[k] \in Spans
  BY <1>1, FieldsAt DEF SyntaxInv, Writing, Inv, TypeOK
<1>3. k + 1 <= Len(fields) => Before(syntaxErrors, fields[k + 1])
  BY <1>1, <1>2, FieldsAt, BeforeNext
<1>4. pc' = "done" \/ (pc' = "field" /\ k' = k + 1)
  BY DEF WriteField, Return, Continue
<1> QED
  BY <1>1, <1>3, <1>4 DEF SyntaxInv, Collecting, Writing, Ascending, Before

LEMMA SyntaxStep ==
  Inv /\ SyntaxInv /\ Ascending(syntaxErrors) /\ [Next]_vars => SyntaxInv' /\ Ascending(syntaxErrors')
<1> SUFFICES ASSUME Inv, SyntaxInv, Ascending(syntaxErrors), [Next]_vars
             PROVE  SyntaxInv' /\ Ascending(syntaxErrors')
  OBVIOUS
<1>1. CASE UNCHANGED vars
  BY <1>1 DEF vars, collected, SyntaxInv, Ascending, Before
<1>2. CASE Parse \/ Inspect \/ Sort \/ Collect \/ Collected
  <2>1. pc \in Collecting /\ syntaxErrors' = syntaxErrors
    BY <1>2 DEF Collecting, Parse, Inspect, Sort, Collect, Collected
  <2>2. syntaxErrors' = <<>>
    BY <2>1 DEF SyntaxInv
  <2> QED
    BY <2>2 DEF SyntaxInv, Ascending, Before
<1>3. CASE CutNext \/ CutLast
  <2>1. /\ pc \in Writing /\ pc' \in Writing /\ pc' \notin Collecting
        /\ UNCHANGED <<syntaxErrors, k, fields>>
    BY <1>3 DEF CutNext, CutLast, Writing, Collecting, collected
  <2> QED
    BY <2>1 DEF SyntaxInv, Ascending, Before
<1>4. CASE Finish
  BY <1>4 DEF Finish, Return, SyntaxInv, Collecting, Writing, Ascending
<1> QED
  BY <1>1, <1>2, <1>3, <1>4, SyntaxField, SyntaxWrite DEF Next

ErrsOrder == ErrsInv /\ Ascending(errs)
SyntaxOrder == SyntaxInv /\ Ascending(syntaxErrors)

\* Whatever the file, both kinds of errors are reported in its order.
THEOREM Spec_ErrorsInOrder == Spec => []ErrorsInOrder
<1>1. Init => ErrsOrder /\ SyntaxOrder
  BY DEF Init, ErrsOrder, SyntaxOrder, ErrsInv, SyntaxInv, Writing, Ascending
<1>2. Inv /\ ErrsOrder /\ [Next]_vars => ErrsOrder'
  BY ErrsStep DEF ErrsOrder, Ascending
<1>3. Inv /\ SyntaxOrder /\ [Next]_vars => SyntaxOrder'
  BY SyntaxStep DEF SyntaxOrder, Ascending
<1>4. ErrsOrder /\ SyntaxOrder => ErrorsInOrder
  BY DEF ErrsOrder, SyntaxOrder, ErrorsInOrder
<1> QED
  BY <1>1, <1>2, <1>3, <1>4, SpecInv, PTL DEF Spec-----------------------------------------------------------------------------
(***************************************************************************)
(* verifySQLFieldExpr never fails: the literals that sqlFieldExpr cuts the *)
(* text into are valid, and joined they are the text again.                *)
(***************************************************************************)

\* What FlattenSeq makes of a sequence, from what it makes of its prefixes.
LEMMA FlattenIs ==
  ASSUME NEW s, Len(s) \in Nat, Len(s) # 0, NEW f, f = [i \in 1..Len(s) |-> f[i]],
         \A i \in 1..Len(s) : f[i] = IF i = 1 THEN s[i] ELSE f[i - 1] \o s[i]
  PROVE  FlattenSeq(s) = f[Len(s)]
<1> DEFINE n == Len(s)
           F(g) == g = [i \in 1..Len(s) |-> IF i = 1 THEN s[i] ELSE g[i - 1] \o s[i]]
           h == CHOOSE g : F(g)
           wrong == {i \in 1..n : h[i] # f[i]}
<1>1. F(f)
  OBVIOUS
<1>2. F(h)
  BY <1>1, Zenon
<1>3. FlattenSeq(s) = h[n]
  BY Zenon DEF FlattenSeq
<1>4. \A i \in 1..n : h[i] = IF i = 1 THEN s[i] ELSE h[i - 1] \o s[i]
  <2>1. \A g : F(g) => \A i \in 1..Len(s) : g[i] = IF i = 1 THEN s[i] ELSE g[i - 1] \o s[i]
    OBVIOUS
  <2> QED
    BY <1>2, <2>1, Zenon
<1> HIDE DEF F, h
<1>5. wrong = {}
  <2> SUFFICES ASSUME wrong # {} PROVE FALSE
    OBVIOUS
  <2>1. wrong \subseteq Nat
    OBVIOUS
  <2>2. PICK i \in wrong : \A j \in wrong : ~ (<<j, i>> \in OpToRel(<, Nat))
    BY <2>1, WFMin, NatLessThanWellFounded, Zenon
  <2>3. \A j \in wrong : ~ (j < i)
    BY <2>1, <2>2 DEF OpToRel
  <2>4. i \in 1..n /\ h[i] # f[i]
    OBVIOUS
  <2>5. CASE i = 1
    BY <1>4, <2>4, <2>5
  <2>6. CASE i # 1
    <3>1. i - 1 \in 1..n /\ i - 1 < i
      BY <2>4, <2>6
    <3>2. h[i - 1] = f[i - 1]
      BY <2>3, <3>1
    <3> QED
      BY <1>4, <2>4, <2>6, <3>2
  <2> QED
    BY <2>5, <2>6
<1>6. h[n] = f[n]
  <2>1. n \in 1..n
    OBVIOUS
  <2> QED
    BY <1>5, <2>1
<1> QED
  BY <1>3, <1>6

\* The text is cut: nothing of it is left.
Cut == PartsCover /\ parts \in Seq(Parts) /\ text \in Seq(Char) /\ parts # <<>> /\ at = Len(text) + 1

\* Up to where the text is in the first m literals.
LEMMA CutBounds ==
  ASSUME Cut
  PROVE  /\ Len(parts) \in Nat /\ Len(parts) >= 1 /\ DOMAIN parts = 1..Len(parts)
         /\ \A m \in 1..Len(parts) :
              /\ parts[m] \in Parts /\ parts[m].from \in Nat /\ parts[m].to \in Nat
              /\ parts[m].from >= 1 /\ parts[m].from <= parts[m].to /\ parts[m].to <= Len(text) + 1
              /\ parts[m].from = IF m = 1 THEN 1 ELSE parts[m - 1].to
         /\ parts[Len(parts)].to = Len(text) + 1
<1> DEFINE n == Len(parts)
           wrong == {m \in 1..n : ~ (parts[m].from >= 1)}
<1>1. n \in Nat /\ n >= 1 /\ DOMAIN parts = 1..n
  BY DEF Cut
<1>2. ASSUME NEW m \in 1..n
      PROVE  /\ parts[m] \in Parts /\ parts[m].from \in Nat /\ parts[m].to \in Nat
             /\ parts[m].from <= parts[m].to /\ parts[m].to <= Len(text) + 1
             /\ parts[m].from = IF m = 1 THEN 1 ELSE parts[m - 1].to
  <2>1. parts[m] \in Parts /\ m \in DOMAIN parts
    BY <1>1 DEF Cut
  <2>2. parts[m].from \in Nat /\ parts[m].to \in Nat
    BY <2>1 DEF Parts
  <2> QED
    BY <2>1, <2>2 DEF Cut, PartsCover
<1>3. parts[n].to = Len(text) + 1
  BY DEF Cut, PartsCover
<1> HIDE DEF n
<1>4. wrong = {}
  <2> SUFFICES ASSUME wrong # {} PROVE FALSE
    OBVIOUS
  <2>1. wrong \subseteq Nat
    BY <1>1
  <2>2. FirstOf(wrong) \in wrong /\ \A j \in wrong : FirstOf(wrong) <= j
    BY <2>1, FirstOfLeast
  <2>3. PICK m \in wrong : \A j \in wrong : m <= j
    BY <2>2
  <2>4. m \in 1..n /\ m # 1
    BY <1>2
  <2>5. m - 1 \in 1..n /\ m - 1 \notin wrong
    BY <1>1, <2>3, <2>4
  <2>6. parts[m - 1].from >= 1
    BY <2>5
  <2> QED
    BY <1>2, <2>4, <2>5, <2>6
<1>5. \A m \in 1..n : parts[m].from >= 1
  BY <1>4
<1> QED
  BY <1>1, <1>2, <1>3, <1>5 DEF n

\* A literal is what it was cut from.
LEMMA UnquotePart ==
  ASSUME Cut, NEW m \in DOMAIN parts
  PROVE  /\ ValidLit(PartLit(parts[m])) /\ PartLit(parts[m]).k = "lit"
         /\ Unquote(PartLit(parts[m])) = SubSeq(text, parts[m].from, parts[m].to - 1)
<1> DEFINE p == parts[m]
           t == SubSeq(text, p.from, p.to - 1)
<1>1. /\ p \in Parts /\ p.from \in Nat /\ p.to \in Nat /\ p.from >= 1
      /\ p.from <= p.to /\ p.to <= Len(text) + 1 /\ Len(text) \in Nat
  BY CutBounds, LenProperties DEF Cut
<1>2. p.kind = "raw" => \A x \in p.from..(p.to - 1) : text[x] \notin NotRaw
  BY DEF Cut, PartsCover
<1>3. PartLit(p).k = "lit" /\ PartLit(p).v = p.kind /\ PartLit(p).text = t
  BY DEF PartLit, Lit, Cell
<1>4. /\ DOMAIN t = 1..(p.to - p.from)
      /\ \A x \in 1..(p.to - p.from) : t[x] = text[p.from + x - 1]
  <2>1. \A x \in p.from..(p.to - 1) : text[x] \in Char
    BY <1>1 DEF Cut
  <2>2. /\ t \in Seq(Char) /\ Len(t) = IF p.from <= p.to - 1 THEN p.to - 1 - p.from + 1 ELSE 0
        /\ \A x \in 1..(p.to - 1 - p.from + 1) : t[x] = text[p.from + x - 1]
    <3>1. p.from \in Int /\ p.to - 1 \in Int
      BY <1>1
    <3> QED
      BY <2>1, <3>1, SubSeqProperties
  <2> HIDE DEF t
  <2>3. DOMAIN t = 1..Len(t) /\ Len(t) \in Nat
    BY <2>2, LenProperties
  <2> HIDE DEF p
  <2>4. Len(t) = p.to - p.from /\ p.to - 1 - p.from + 1 = p.to - p.from
    BY <1>1, <2>2
  <2> QED
    BY <2>2, <2>3, <2>4
<1>5. p.kind = "raw" => \A x \in DOMAIN t : t[x] \notin NotRaw
  <2> SUFFICES ASSUME p.kind = "raw", NEW x \in DOMAIN t PROVE t[x] \notin NotRaw
    OBVIOUS
  <2> HIDE DEF t
  <2>1. x \in 1..(p.to - p.from)
    BY <1>4
  <2>2. p.from + x - 1 \in p.from..(p.to - 1)
    BY <1>1, <2>1
  <2> QED
    BY <1>2, <1>4, <2>1, <2>2
<1> HIDE DEF p, t
<1> QED
  BY <1>3, <1>5 DEF ValidLit, Unquote, NotRaw, p, t

\* Joining a text up to a and from there up to b.
LEMMA JoinText ==
  ASSUME NEW t \in Seq(Char), NEW a \in Nat, NEW b \in Nat, 1 <= a, a <= b, b <= Len(t) + 1
  PROVE  SubSeq(t, 1, a - 1) \o SubSeq(t, a, b - 1) = SubSeq(t, 1, b - 1)
<1>1. Len(t) \in Nat
  BY LenProperties
<1>2. 1 \in 1..(Len(t) + 1) /\ a - 1 \in (1 - 1)..Len(t) /\ b - 1 \in (a - 1)..Len(t) /\ (a - 1) + 1 = a
  BY <1>1
<1> QED
  BY <1>2, ConcatAdjacentSubSeq

\* A prefix of the text with nothing joined to it.
LEMMA JoinEmpty ==
  ASSUME NEW t \in Seq(Char), NEW b \in Nat, 1 <= b, b <= Len(t) + 1
  PROVE  SubSeq(t, 1, b - 1) \o <<>> = SubSeq(t, 1, b - 1)
<1>1. Len(t) \in Nat
  BY LenProperties
<1>2. \A i \in 1..(b - 1) : t[i] \in Char
  BY <1>1
<1>3. SubSeq(t, 1, b - 1) \in Seq(Char)
  BY <1>2, SubSeqProperties
<1> QED
  BY <1>3, ConcatEmptySeq

\* Literals and the "+" between them take turns.
LEMMA Halves ==
  ASSUME NEW n \in Nat, NEW i \in 1..(2 * n - 1)
  PROVE  /\ (i + 1) \div 2 \in 1..n
         /\ i = 1 => (i + 1) \div 2 = 1
         /\ i % 2 = 1 /\ i # 1 => i - 1 \in 1..(2 * n - 1) /\ (i + 1) \div 2 - 1 = ((i - 1) + 1) \div 2
                                  /\ (i + 1) \div 2 # 1
         /\ i % 2 # 1 => i # 1 /\ i - 1 \in 1..(2 * n - 1) /\ (i + 1) \div 2 = ((i - 1) + 1) \div 2
OBVIOUS

LEMMA CutIsVerified ==
  ASSUME Cut
  PROVE  Verified
<1> DEFINE n == Len(parts)
           N == 2 * n - 1
           To(m) == parts[m].to
           f == [i \in 1..N |-> SubSeq(text, 1, To((i + 1) \div 2) - 1)]
           s == [m \in 1..N |-> IF NewExpr[m].k = "lit" THEN Unquote(NewExpr[m]) ELSE <<>>]
<1>1. /\ n \in Nat /\ n >= 1 /\ DOMAIN parts = 1..n
      /\ \A m \in 1..n :
           /\ parts[m].from \in Nat /\ To(m) \in Nat
           /\ parts[m].from >= 1 /\ parts[m].from <= To(m) /\ To(m) <= Len(text) + 1
           /\ parts[m].from = IF m = 1 THEN 1 ELSE To(m - 1)
      /\ To(n) = Len(text) + 1
  BY CutBounds
<1>2. text \in Seq(Char) /\ Len(text) \in Nat
  BY LenProperties DEF Cut
<1>3. \A m \in DOMAIN parts :
        /\ ValidLit(PartLit(parts[m])) /\ PartLit(parts[m]).k = "lit"
        /\ Unquote(PartLit(parts[m])) = SubSeq(text, parts[m].from, To(m) - 1)
  BY UnquotePart
<1>4. NewExpr = [m \in 1..N |-> IF m % 2 = 1 THEN PartLit(parts[(m + 1) \div 2]) ELSE Plus]
  BY DEF NewExpr
<1> HIDE DEF n
<1>5. N \in Nat /\ N >= 1
  BY <1>1
<1>6. Len(NewExpr) = N
  BY <1>4, <1>5
<1>7. Len(s) = N /\ DOMAIN s = 1..N
  BY <1>5
<1>8. ConcatStringLits(NewExpr, [from |-> 1, to |-> Len(NewExpr) + 1]) = FlattenSeq(s)
  <2>1. (N + 1) - 1 = N /\ \A m \in 1..N : 1 + m - 1 = m
    BY <1>5
  <2> HIDE DEF N
  <2>2. [m \in 1..((N + 1) - 1) |-> IF NewExpr[1 + m - 1].k = "lit" THEN Unquote(NewExpr[1 + m - 1]) ELSE <<>>] = s
    BY <2>1
  <2> QED
    BY <1>6, <2>2 DEF ConcatStringLits
<1>9. ASSUME NEW i \in 1..N
      PROVE  f[i] = IF i = 1 THEN s[i] ELSE f[i - 1] \o s[i]
  <2> DEFINE m == (i + 1) \div 2
  <2>1. /\ m \in 1..n /\ (i = 1 => m = 1)
        /\ i % 2 = 1 /\ i # 1 => i - 1 \in 1..N /\ m - 1 = ((i - 1) + 1) \div 2 /\ m # 1
        /\ i % 2 # 1 => i # 1 /\ i - 1 \in 1..N /\ m = ((i - 1) + 1) \div 2
    BY <1>1, Halves
  <2>2. f[i] = SubSeq(text, 1, To(m) - 1)
    OBVIOUS
  <2>3. i % 2 = 1 => s[i] = SubSeq(text, parts[m].from, To(m) - 1)
    <3>1. i % 2 = 1 => NewExpr[i] = PartLit(parts[m])
      BY <1>4
    <3> QED
      BY <1>1, <1>3, <2>1, <3>1
  <2>4. i % 2 # 1 => s[i] = <<>>
    BY <1>4 DEF Plus, Cell
  <2>5. CASE i = 1
    <3>1. i % 2 = 1 /\ parts[m].from = 1
      BY <1>1, <2>1, <2>5
    <3> QED
      BY <2>2, <2>3, <2>5, <3>1
  <2>6. CASE i # 1 /\ i % 2 = 1
    <3>1. f[i - 1] = SubSeq(text, 1, To(m - 1) - 1)
      BY <2>1, <2>6
    <3> HIDE DEF f, s, m
    <3>2. To(m - 1) = parts[m].from
      BY <1>1, <2>1, <2>6
    <3> HIDE DEF To
    <3>3. SubSeq(text, 1, parts[m].from - 1) \o SubSeq(text, parts[m].from, To(m) - 1) = SubSeq(text, 1, To(m) - 1)
      BY <1>1, <1>2, <2>1, JoinText
    <3> QED
      BY <2>2, <2>3, <2>6, <3>1, <3>2, <3>3
  <2>7. CASE i % 2 # 1
    <3>1. f[i - 1] = SubSeq(text, 1, To(m) - 1)
      BY <2>1, <2>7
    <3> HIDE DEF f, s, m, To
    <3>2. SubSeq(text, 1, To(m) - 1) \o <<>> = SubSeq(text, 1, To(m) - 1)
      BY <1>1, <1>2, <2>1, JoinEmpty
    <3> QED
      BY <2>1, <2>2, <2>4, <2>7, <3>1, <3>2
  <2> QED
    BY <2>5, <2>6, <2>7
<1>10. FlattenSeq(s) = f[N]
  <2>1. f = [i \in 1..N |-> f[i]]
    OBVIOUS
  <2>2. \A i \in 1..N : f[i] = IF i = 1 THEN s[i] ELSE f[i - 1] \o s[i]
    BY <1>9
  <2> HIDE DEF f, s, N
  <2>3. Len(s) \in Nat /\ Len(s) # 0
    BY <1>5, <1>7
  <2>4. /\ f = [i \in 1..Len(s) |-> f[i]]
        /\ \A i \in 1..Len(s) : f[i] = IF i = 1 THEN s[i] ELSE f[i - 1] \o s[i]
    BY <1>7, <2>1, <2>2, Zenon
  <2>5. FlattenSeq(s) = f[Len(s)]
    BY <2>3, <2>4, FlattenIs, Zenon
  <2> QED
    BY <1>7, <2>5
<1>11. f[N] = text
  <2>1. N \in 1..N /\ (N + 1) \div 2 = n
    BY <1>1, <1>5
  <2>2. f[N] = SubSeq(text, 1, To(n) - 1)
    BY <2>1
  <2>3. To(n) - 1 = Len(text)
    BY <1>1, <1>2
  <2> HIDE DEF f
  <2> QED
    BY <1>2, <2>2, <2>3, SubSeqFull
<1> HIDE DEF f, s, N
<1> QED
  BY <1>3, <1>8, <1>10, <1>11 DEF Verified-----------------------------------------------------------------------------
(***************************************************************************)
(* All or nothing.  The values are those of all statements; an error is    *)
(* reported for one of them that is no field, or that cannot be formatted, *)
(* and without an error every value is a field that can.                   *)
(***************************************************************************)
Parses(c) == \A i \in DOMAIN c : c[i].k # "bad"

Formats(v) == FormatSQL[FieldText(file, v)] # FormatError

\* ast.Inspect has been at the statement that the value is in.
Seen(v) == \E i \in 1..node : SpannerStatementLit(file, i) /\ v \in Range(SQLValues(file, i))

Visited ==
  /\ pc = "parse" => node = 0 /\ values = <<>>
  /\ pc = "inspect" => Range(values) = {v \in AllValues(file) : Seen(v)}
  /\ pc \in {"sort", "collect"} => Range(values) = AllValues(file)
  /\ pc \notin {"parse", "done"} => Parses(file)

\* The values before k are fields or have an error.
Sorted ==
  /\ errs # <<>> => \E v \in AllValues(file) : ~Accepted(v)
  /\ \A v \in Range(fields) : Accepted(v)
  /\ pc = "collect" /\ errs = <<>> => \A m \in 1..(k - 1) : values[m] \in Range(fields)

\* The fields before k can be formatted or have an error; every one is a value.
Written ==
  /\ syntaxErrors # <<>> => \E v \in AllValues(file) : ~Formats(v)
  /\ pc \in Writing =>
       /\ Range(fields) = AllValues(file)
       /\ syntaxErrors = <<>> => \A m \in 1..(k - 1) : Formats(fields[m])
  /\ pc \in {"cut", "verify"} => Formats(fields[k])
  /\ pc = "verify" => parts # <<>> /\ at = Len(text) + 1

\* Every value is a field that can be formatted.
Good == Parses(file) /\ \A v \in AllValues(file) : Accepted(v) /\ Formats(v)
Returned == result # "bug" /\ (pc = "done" => (result = "ok" <=> Good))

AllInv == Visited /\ Sorted /\ Written /\ Returned

LEMMA InRange ==
  ASSUME NEW s, NEW v
  PROVE  v \in Range(s) <=> \E m \in DOMAIN s : v = s[m]
BY DEF Range

LEMMA RangeAppend ==
  ASSUME NEW S, NEW s \in Seq(S), NEW e \in S
  PROVE  Range(Append(s, e)) = Range(s) \cup {e}
<1> DEFINE t == Append(s, e)
<1>1. /\ Len(s) \in Nat /\ DOMAIN s = 1..Len(s) /\ DOMAIN t = 1..(Len(s) + 1)
      /\ \A m \in 1..Len(s) : t[m] = s[m]
      /\ t[Len(s) + 1] = e
  BY AppendFacts
<1> HIDE DEF t
<1>2. DOMAIN t = DOMAIN s \cup {Len(s) + 1}
  BY <1>1
<1>3. \A m \in DOMAIN s : t[m] = s[m]
  BY <1>1
<1>4. \A v : v \in Range(t) <=> \E m \in DOMAIN t : v = t[m]
  BY InRange
<1>5. \A v : v \in Range(s) <=> \E m \in DOMAIN s : v = s[m]
  BY InRange
<1>6. ASSUME NEW v, v \in Range(t) PROVE v \in Range(s) \cup {e}
  <2>1. PICK m \in DOMAIN t : v = t[m]
    BY <1>4, <1>6
  <2> QED
    BY <1>1, <1>2, <1>3, <1>5, <2>1
<1>7. ASSUME NEW v, v \in Range(s) PROVE v \in Range(t)
  <2>1. PICK m \in DOMAIN s : v = s[m]
    BY <1>5, <1>7
  <2>2. m \in DOMAIN t /\ t[m] = v
    BY <1>2, <1>3, <2>1
  <2> QED
    BY <1>4, <2>2
<1>8. e \in Range(t)
  BY <1>1, <1>2, <1>4
<1> QED
  BY <1>6, <1>7, <1>8 DEF t

LEMMA ReturnedIs == Returned => AllOrNothing
<1>1. ASSUME NEW v
      PROVE  Accepted(v) <=> \A i \in v.from..(v.to - 1) : file[i].k \in {"lit", "plus"}
  BY DEF Accepted, IsConcat, CommentInExpr
<1> QED
  BY <1>1 DEF Returned, AllOrNothing, Good, Parses, Formats

\* A file without the package has no statement of it.
LEMMA NoStatement ==
  ASSUME NEW c \in Files, SpannerLocalName(c) = ""
  PROVE  AllValues(c) = {}
<1>1. \A i \in DOMAIN c : c[i].k = "open" /\ c[i].w # "" => c[i].v # ""
  BY FilesWellFormed DEF WellFormed
<1>2. "Statement" # ""
  OBVIOUS
<1>3. \A i \in DOMAIN c : ~SpannerStatementLit(c, i)
  BY <1>1, <1>2, Zenon DEF SpannerStatementLit
<1>4. {i \in DOMAIN c : SpannerStatementLit(c, i)} = {}
  BY <1>3, Zenon
<1> QED
  BY <1>4 DEF AllValues

\* The values of the literals up to the last cell are all values.
LEMMA SeenAll ==
  ASSUME NEW c \in Files, NEW n \in 0..Len(c), {i \in (n + 1)..Len(c) : c[i].k = "open"} = {}, NEW v
  PROVE  v \in AllValues(c) <=> \E i \in 1..n : SpannerStatementLit(c, i) /\ v \in Range(SQLValues(c, i))
<1>1. Len(c) \in Nat /\ DOMAIN c = 1..Len(c)
  BY LiteralsApart
<1>2. \A i \in DOMAIN c : SpannerStatementLit(c, i) => i \in 1..n
  <2> SUFFICES ASSUME NEW i \in DOMAIN c, SpannerStatementLit(c, i) PROVE i \in 1..n
    OBVIOUS
  <2>1. c[i].k = "open"
    BY DEF SpannerStatementLit
  <2>2. i \notin (n + 1)..Len(c)
    BY <2>1
  <2> QED
    BY <1>1, <2>2
<1>3. v \in AllValues(c) <=> \E i \in DOMAIN c : SpannerStatementLit(c, i) /\ v \in Range(SQLValues(c, i))
  BY Zenon DEF AllValues
<1>4. 1..n \subseteq DOMAIN c
  BY <1>1
<1> QED
  BY <1>2, <1>3, <1>4, Zenon

-----------------------------------------------------------------------------
LEMMA AllParse == Inv /\ AllInv /\ Parse => AllInv'
<1> SUFFICES ASSUME Inv, AllInv, Parse PROVE AllInv'
  OBVIOUS
<1>1. /\ pc = "parse" /\ result = "none" /\ node = 0 /\ values = <<>> /\ file \in Files
      /\ UNCHANGED <<file, k, syntaxErrors, node, values, errs, fields>>
  BY InvTypes DEF Inv, TypeOK, AllInv, Visited, Parse, collected
<1>2. Sorted'
  <2>1. pc' # "collect"
    BY <1>1 DEF Parse, Return, Continue
  <2> QED
    BY <1>1, <2>1 DEF AllInv, Sorted, Accepted, IsConcat, CommentInExpr
<1>3. Written'
  <2>1. pc' \notin Writing /\ pc' # "cut" /\ pc' # "verify"
    BY <1>1 DEF Parse, Return, Continue, Writing
  <2> QED
    BY <1>1, <2>1 DEF AllInv, Written, Formats
<1>4. CASE ~Parses(file)
  <2>1. pc' = "done" /\ result' = "error"
    BY <1>4 DEF Parses, Parse, Return
  <2> QED
    BY <1>1, <1>2, <1>3, <1>4, <2>1 DEF AllInv, Visited, Returned, Good, Parses
<1>5. CASE Parses(file) /\ SpannerLocalName(file) = ""
  <2>1. pc' = "done" /\ result' = "ok"
    BY <1>5, Zenon DEF Parses, Parse, Return
  <2>2. AllValues(file) = {}
    BY <1>1, <1>5, NoStatement, Zenon
  <2>3. Parses(file)
    BY <1>5
  <2>4. Visited'
    BY <2>1 DEF Visited
  <2>5. Returned'
    BY <1>1, <2>1, <2>2, <2>3 DEF Returned, Good, Parses
  <2> QED
    BY <1>2, <1>3, <2>4, <2>5, Zenon DEF AllInv
<1>6. CASE Parses(file) /\ SpannerLocalName(file) # ""
  <2>1. pc' = "inspect" /\ UNCHANGED result
    BY <1>6, Zenon DEF Parses, Parse, Continue
  <2>2. Range(<<>>) = {} /\ 1..0 = {}
    BY DEF Range
  <2>3. Parses(file)
    BY <1>6
  <2>4. Visited'
    BY <1>1, <2>1, <2>2, <2>3 DEF Visited, Seen, Parses
  <2>5. Returned'
    BY <1>1, <2>1 DEF Returned
  <2> QED
    BY <1>2, <1>3, <2>4, <2>5, Zenon DEF AllInv
<1> QED
  BY <1>4, <1>5, <1>6, Zenon

LEMMA AllInspect == Inv /\ AllInv /\ Inspect => AllInv'
<1> SUFFICES ASSUME Inv, AllInv, Inspect PROVE AllInv'
  OBVIOUS
<1> DEFINE rest == {i \in (node + 1)..Len(file) : file[i].k = "open"}
           new == IF SpannerStatementLit(file, node') THEN SQLValues(file, node') ELSE <<>>
<1>1. /\ pc = "inspect" /\ result = "none" /\ file \in Files
      /\ UNCHANGED <<file, k, syntaxErrors, errs, fields, result>>
      /\ Range(values) = {v \in AllValues(file) : Seen(v)} /\ Parses(file)
  BY InvTypes DEF Inv, TypeOK, AllInv, Visited, Inspect, Continue
<1>2. /\ Len(file) \in Nat /\ DOMAIN file = 1..Len(file) /\ node \in 0..Len(file)
      /\ values \in Seq(AllValues(file))
  BY <1>1, LiteralsApart DEF Inv, TypeOK, Order
<1>3. CASE rest = {}
  <2>1. pc' = "sort" /\ UNCHANGED <<node, values>>
    BY <1>3 DEF Inspect, Continue
  <2>2. \A v : v \in AllValues(file) => Seen(v)
    <3>1. ASSUME NEW v, v \in AllValues(file)
          PROVE  \E i \in 1..node : SpannerStatementLit(file, i) /\ v \in Range(SQLValues(file, i))
      BY <1>1, <1>2, <1>3, <3>1, SeenAll
    <3> QED
      BY <3>1 DEF Seen
  <2>3. Range(values) = AllValues(file)
    BY <1>1, <2>2, Zenon
  <2>4. Visited'
    BY <1>1, <2>1, <2>3 DEF Visited, Parses
  <2>5. Sorted'
    BY <1>1, <2>1 DEF AllInv, Sorted, Accepted, IsConcat, CommentInExpr
  <2>6. Written' /\ Returned'
    BY <1>1, <2>1 DEF AllInv, Written, Returned, Formats, Writing
  <2> QED
    BY <2>4, <2>5, <2>6 DEF AllInv
<1>4. CASE rest # {}
  <2>1. node' = FirstOf(rest) /\ pc' = pc /\ values' = values \o new
    BY <1>4 DEF Inspect
  <2>2. rest \subseteq Nat
    BY <1>2
  <2>3. node' \in rest /\ \A j \in rest : node' <= j
    BY <1>4, <2>1, <2>2, FirstOfLeast
  <2>4. node' \in 1..Len(file) /\ node < node' /\ node' \in Nat
    BY <1>2, <2>3
  <2>5. new \in Seq(AllValues(file))
    <3>1. CASE SpannerStatementLit(file, node')
      BY <1>1, <1>2, <2>4, <3>1, SQLValuesType
    <3>2. CASE ~SpannerStatementLit(file, node')
      BY <3>2
    <3> QED
      BY <3>1, <3>2
  <2>6. Range(values') = Range(values) \cup Range(new)
    <3> HIDE DEF new
    <3>1. Range(values \o new) = Range(values) \cup Range(new)
      BY <1>2, <2>5, RangeConcatenation
    <3> QED
      BY <2>1, <3>1
  <2>7. \A i \in 1..node' : SpannerStatementLit(file, i) => i \in 1..node \/ i = node'
    <3> SUFFICES ASSUME NEW i \in 1..node', SpannerStatementLit(file, i), i # node'
                 PROVE  i \in 1..node
      OBVIOUS
    <3>1. file[i].k = "open"
      BY DEF SpannerStatementLit
    <3>2. i \notin rest
      BY <1>2, <2>3, <2>4
    <3>3. i \notin (node + 1)..Len(file)
      BY <3>1, <3>2
    <3> QED
      BY <1>2, <2>4, <3>3
  <2>8. 1..node \subseteq 1..node' /\ node' \in 1..node'
    BY <1>2, <2>4
  <2>9. \A v : v \in Range(new) <=> SpannerStatementLit(file, node') /\ v \in Range(SQLValues(file, node'))
    <3>1. Range(<<>>) = {}
      BY DEF Range
    <3> QED
      BY <3>1, Zenon
  <2>10. Range(new) \subseteq AllValues(file)
    BY <2>5, RangeOfSeq
  <2> HIDE DEF rest, new
  <2>11. \A v : (\E i \in 1..node' : SpannerStatementLit(file, i) /\ v \in Range(SQLValues(file, i)))
                <=> Seen(v) \/ v \in Range(new)
    BY <2>7, <2>8, <2>9, Zenon DEF Seen
  <2>12. \A v : Seen(v)' <=> Seen(v) \/ v \in Range(new)
    <3>1. file' = file
      BY <1>1
    <3> QED
      BY <2>11, <3>1 DEF Seen
  <2>13. Visited'
    <3>1. Range(values') = {v \in AllValues(file) : Seen(v)'}
      BY <1>1, <2>6, <2>10, <2>12, Zenon
    <3> QED
      BY <1>1, <2>1, <3>1 DEF Visited, Parses
  <2>14. Sorted'
    BY <1>1, <2>1 DEF AllInv, Sorted, Accepted, IsConcat, CommentInExpr
  <2>15. Written' /\ Returned'
    BY <1>1, <2>1 DEF AllInv, Written, Returned, Formats, Writing
  <2> QED
    BY <2>13, <2>14, <2>15 DEF AllInv
<1> QED
  BY <1>3, <1>4

LEMMA AllSort == Inv /\ AllInv /\ Sort => AllInv'
<1> SUFFICES ASSUME Inv, AllInv, Sort PROVE AllInv'
  OBVIOUS
<1>1. /\ pc = "sort" /\ pc' = "collect" /\ result = "none" /\ k = 1
      /\ UNCHANGED <<file, k, syntaxErrors, errs, fields, result>>
      /\ Range(values) = AllValues(file) /\ Range(values') = Range(values) /\ Parses(file)
  BY DEF Inv, TypeOK, Order, AllInv, Visited, Sort, Continue
<1>2. Visited'
  BY <1>1 DEF Visited, Parses
<1>3. Sorted'
  BY <1>1 DEF AllInv, Sorted, Accepted, IsConcat, CommentInExpr
<1>4. Written' /\ Returned'
  BY <1>1 DEF AllInv, Written, Returned, Formats, Writing
<1> QED
  BY <1>2, <1>3, <1>4 DEF AllInv

LEMMA AllCollect == Inv /\ AllInv /\ Collect => AllInv'
<1> SUFFICES ASSUME Inv, AllInv, Collect PROVE AllInv'
  OBVIOUS
<1> DEFINE v == values[k]
<1>1. /\ pc = "collect" /\ result = "none" /\ k <= Len(values) /\ k' = k + 1
      /\ UNCHANGED <<file, pc, syntaxErrors, node, values, result>>
      /\ Range(values) = AllValues(file) /\ Parses(file)
  BY DEF Inv, TypeOK, AllInv, Visited, Collect, output
<1>2. k \in DOMAIN values /\ k \in Nat /\ fields \in Seq(Spans) /\ errs \in Seq(Spans) /\ v \in Spans
  BY <1>1, ValuesAt, InvTypes DEF Inv, TypeOK
<1>3. v \in AllValues(file)
  BY <1>1, <1>2 DEF Range
<1>4. Visited'
  BY <1>1 DEF Visited, Parses
<1>5. Written' /\ Returned'
  BY <1>1 DEF AllInv, Written, Returned, Formats, Writing
<1>6. \A u : Accepted(u)' <=> Accepted(u)
  BY <1>1 DEF Accepted, IsConcat, CommentInExpr
<1> HIDE DEF v
<1>7. CASE Accepted(v)
  <2>1. fields' = Append(fields, v) /\ errs' = errs
    BY <1>7 DEF Collect, v
  <2>2. Range(fields') = Range(fields) \cup {v}
    BY <1>2, <2>1, RangeAppend
  <2>3. \A u \in Range(fields') : Accepted(u)
    BY <1>7, <2>2 DEF AllInv, Sorted
  <2>4. errs = <<>> => \A m \in 1..k : values[m] \in Range(fields')
    <3> SUFFICES ASSUME errs = <<>>, NEW m \in 1..k PROVE values[m] \in Range(fields')
      OBVIOUS
    <3>1. CASE m = k
      BY <2>2, <3>1 DEF v
    <3>2. CASE m # k
      <4>1. m \in 1..(k - 1)
        BY <1>2, <3>2
      <4> QED
        BY <1>1, <2>2, <4>1 DEF AllInv, Sorted
    <3> QED
      BY <3>1, <3>2
  <2>5. (k + 1) - 1 = k
    BY <1>2
  <2>6. Sorted'
    BY <1>1, <1>6, <2>1, <2>3, <2>4, <2>5 DEF AllInv, Sorted
  <2> QED
    BY <1>4, <1>5, <2>6 DEF AllInv
<1>8. CASE ~Accepted(v)
  <2>1. errs' = Append(errs, v) /\ fields' = fields
    BY <1>8 DEF Collect, v
  <2>2. errs' # <<>>
    BY <1>2, <2>1, AppendFacts
  <2>3. Sorted'
    BY <1>1, <1>3, <1>6, <1>8, <2>1, <2>2 DEF AllInv, Sorted
  <2> QED
    BY <1>4, <1>5, <2>3 DEF AllInv
<1> QED
  BY <1>7, <1>8

LEMMA AllCollected == Inv /\ SyntaxInv /\ AllInv /\ Collected => AllInv'
<1> SUFFICES ASSUME Inv, SyntaxInv, AllInv, Collected PROVE AllInv'
  OBVIOUS
<1>1. /\ pc = "collect" /\ result = "none" /\ k > Len(values) /\ k' = 1
      /\ UNCHANGED <<file, syntaxErrors, node, values, errs, fields>>
      /\ Range(values) = AllValues(file) /\ Parses(file)
  BY DEF Inv, TypeOK, AllInv, Visited, Collected, collected
<1>2. syntaxErrors = <<>>
  BY <1>1 DEF SyntaxInv, Collecting
<1>3. \A u : Accepted(u)' <=> Accepted(u)
  BY <1>1 DEF Accepted, IsConcat, CommentInExpr
<1>4. pc' \in {"done", "field"} /\ result' # "bug"
  BY <1>1 DEF Collected, Return, Continue
<1>5. Visited' /\ Sorted'
  BY <1>1, <1>3, <1>4 DEF AllInv, Visited, Sorted, Parses
<1>6. CASE errs # <<>>
  <2>1. pc' = "done" /\ result' = "error"
    BY <1>6 DEF Collected, Return
  <2>2. ~Good'
    BY <1>1, <1>3, <1>6 DEF AllInv, Sorted, Good
  <2>3. Written'
    BY <1>1, <1>2, <2>1 DEF Written, Writing
  <2> QED
    BY <1>5, <2>1, <2>2, <2>3 DEF AllInv, Returned
<1>7. CASE errs = <<>>
  <2>1. Range(fields) = AllValues(file)
    <3>1. \A m \in DOMAIN values : m \in 1..(k - 1)
      BY <1>1, InvTypes
    <3>2. \A m \in DOMAIN values : values[m] \in Range(fields)
      BY <1>1, <1>7, <3>1 DEF AllInv, Sorted
    <3>3. Range(fields) \subseteq AllValues(file)
      <4>1. Range(fields) \subseteq Literals(file)
        BY InvTypes, RangeOfSeq
      <4> QED
        BY <4>1 DEF Literals
    <3>4. Range(values) \subseteq Range(fields)
      BY <3>2 DEF Range
    <3> QED
      BY <1>1, <3>3, <3>4
  <2>2. CASE fields = <<>>
    <3>1. pc' = "done" /\ result' = "ok"
      BY <1>7, <2>2 DEF Collected, Return
    <3>2. AllValues(file) = {}
      BY <2>1, <2>2 DEF Range
    <3>3. Good'
      BY <1>1, <3>2 DEF Good, Parses
    <3>4. Written'
      BY <1>1, <1>2, <3>1 DEF Written, Writing
    <3> QED
      BY <1>5, <3>1, <3>3, <3>4 DEF AllInv, Returned
  <2>3. CASE fields # <<>>
    <3>1. pc' = "field" /\ result' = result
      BY <1>7, <2>3 DEF Collected, Continue
    <3>2. Written'
      BY <1>1, <1>2, <2>1, <3>1 DEF Written, Writing
    <3> QED
      BY <1>1, <1>5, <3>1, <3>2 DEF AllInv, Returned
  <2> QED
    BY <2>2, <2>3
<1> QED
  BY <1>6, <1>7

\* What a step of the loop over the fields leaves as it is.
LEMMA StaysAll ==
  ASSUME Inv, AllInv, pc \in Writing, UNCHANGED <<file, node, values, errs, fields>>,
         pc' \notin Collecting
  PROVE  /\ Visited' /\ Sorted'
         /\ \A v : (Accepted(v)' <=> Accepted(v)) /\ (Formats(v)' <=> Formats(v))
         /\ Good' <=> Good
         /\ pc # "done" /\ pc # "parse" /\ Range(fields) = AllValues(file)
         /\ Parses(file) /\ \A v \in AllValues(file) : Accepted(v)
<1>1. pc # "done" /\ pc # "parse" /\ pc' # "parse" /\ pc' # "inspect" /\ pc' # "sort" /\ pc' # "collect"
  BY DEF Writing, Collecting
<1>2. \A v : (Accepted(v)' <=> Accepted(v)) /\ (Formats(v)' <=> Formats(v))
  BY DEF Accepted, IsConcat, CommentInExpr, Formats
<1>3. Parses(file) /\ Range(fields) = AllValues(file)
  BY <1>1 DEF AllInv, Visited, Written
<1>4. Visited'
  BY <1>1, <1>3 DEF Visited, Parses
<1>5. Sorted'
  BY <1>1, <1>2 DEF AllInv, Sorted
<1>6. \A v \in AllValues(file) : Accepted(v)
  BY <1>3 DEF AllInv, Sorted
<1>7. Good' <=> Good
  BY <1>2 DEF Good, Parses
<1> QED
  BY <1>1, <1>2, <1>3, <1>4, <1>5, <1>6, <1>7

LEMMA AllFormatField == Inv /\ AllInv /\ FormatField => AllInv'
<1> SUFFICES ASSUME Inv, AllInv, FormatField PROVE AllInv'
  OBVIOUS
<1>1. /\ pc = "field" /\ result = "none" /\ k <= Len(fields)
      /\ UNCHANGED <<file, node, values, errs, fields, result>>
      /\ k \in DOMAIN fields /\ k \in Nat /\ syntaxErrors \in Seq(Spans) /\ fields[k] \in Spans
  BY InvTypes, FieldsAt DEF Inv, TypeOK, FormatField, collected, output
<1>2. pc' \in {"field", "cut"}
  BY <1>1 DEF FormatField
<1>3. /\ Visited' /\ Sorted' /\ Range(fields) = AllValues(file)
      /\ \A v : Formats(v)' <=> Formats(v)
  BY <1>1, <1>2, StaysAll DEF Writing, Collecting
<1>4. Returned'
  BY <1>1, <1>2 DEF Returned
<1>5. CASE Formatted = FormatError
  <2>1. syntaxErrors' = Append(syntaxErrors, fields[k]) /\ k' = k + 1 /\ pc' = pc
    BY <1>5 DEF FormatField
  <2>2. syntaxErrors' # <<>>
    BY <1>1, <2>1, AppendFacts
  <2>3. ~Formats(fields[k]) /\ fields[k] \in AllValues(file)
    BY <1>1, <1>3, <1>5 DEF Formats, Formatted, Range
  <2>4. Written'
    BY <1>1, <1>3, <2>1, <2>2, <2>3 DEF Written, Writing
  <2> QED
    BY <1>3, <1>4, <2>4 DEF AllInv
<1>6. CASE Formatted # FormatError
  <2>1. pc' = "cut" /\ UNCHANGED <<k, syntaxErrors>>
    BY <1>6 DEF FormatField
  <2>2. Formats(fields[k])
    BY <1>6 DEF Formats, Formatted
  <2>3. Written'
    BY <1>1, <1>3, <2>1, <2>2 DEF AllInv, Written, Writing
  <2> QED
    BY <1>3, <1>4, <2>3 DEF AllInv
<1> QED
  BY <1>5, <1>6

LEMMA AllCutNext == Inv /\ AllInv /\ CutNext => AllInv'
<1> SUFFICES ASSUME Inv, AllInv, CutNext PROVE AllInv'
  OBVIOUS
<1>1. /\ pc = "cut" /\ pc' = pc /\ UNCHANGED <<file, k, syntaxErrors, node, values, errs, fields, result>>
  BY DEF CutNext, collected, output
<1>2. /\ Visited' /\ Sorted' /\ \A v : Formats(v)' <=> Formats(v)
  BY <1>1, StaysAll DEF Writing, Collecting
<1>3. Written'
  BY <1>1, <1>2 DEF AllInv, Written, Writing
<1>4. Returned'
  BY <1>1 DEF AllInv, Returned
<1> QED
  BY <1>2, <1>3, <1>4 DEF AllInv

LEMMA AllCutLast == Inv /\ AllInv /\ CutLast => AllInv'
<1> SUFFICES ASSUME Inv, AllInv, CutLast PROVE AllInv'
  OBVIOUS
<1>1. /\ pc = "cut" /\ pc' = "verify" /\ at' = Len(text) + 1 /\ text' = text
      /\ UNCHANGED <<file, k, syntaxErrors, node, values, errs, fields, result>>
  BY DEF CutLast, collected, output
<1>2. /\ Visited' /\ Sorted' /\ \A v : Formats(v)' <=> Formats(v)
  BY <1>1, StaysAll DEF Writing, Collecting
<1>3. parts' # <<>>
  <2>1. parts \in Seq(Parts) /\ Part("raw", at, Len(text) + 1) \in Parts
    <3>1. at \in Nat /\ Len(text) \in Nat
      BY LenProperties DEF Inv, TypeOK
    <3> QED
      BY <3>1 DEF Inv, TypeOK, Part, Parts
  <2> QED
    BY <2>1, AppendFacts DEF CutLast
<1>4. Written'
  BY <1>1, <1>2, <1>3 DEF AllInv, Written, Writing
<1>5. Returned'
  BY <1>1 DEF AllInv, Returned
<1> QED
  BY <1>2, <1>4, <1>5 DEF AllInv

\* The new expression is as it should be.
LEMMA AlwaysVerified == Inv /\ AllInv /\ pc = "verify" => Verified
<1> SUFFICES ASSUME Inv, AllInv, pc = "verify" PROVE Verified
  OBVIOUS
<1>1. Cut
  BY DEF Inv, TypeOK, AllInv, Written, Cut, Parts
<1> QED
  BY <1>1, CutIsVerified

LEMMA AllWriteField == Inv /\ AllInv /\ WriteField => AllInv'
<1> SUFFICES ASSUME Inv, AllInv, WriteField PROVE AllInv'
  OBVIOUS
<1>1. pc = "verify" /\ UNCHANGED <<file, syntaxErrors, node, values, errs, fields>>
      /\ result = "none" /\ k \in Nat
  BY InvTypes DEF WriteField, collected, Inv, TypeOK
<1>2. pc' = "field" /\ k' = k + 1 /\ result' = result
  BY <1>1, AlwaysVerified DEF WriteField, Continue
<1>3. /\ Visited' /\ Sorted' /\ \A v : Formats(v)' <=> Formats(v)
  BY <1>1, <1>2, StaysAll DEF Writing, Collecting
<1>4. Written'
  <2>1. syntaxErrors = <<>> => \A m \in 1..k : Formats(fields[m])
    <3> SUFFICES ASSUME syntaxErrors = <<>>, NEW m \in 1..k PROVE Formats(fields[m])
      OBVIOUS
    <3>1. CASE m = k
      BY <1>1, <3>1 DEF AllInv, Written
    <3>2. CASE m # k
      <4>1. m \in 1..(k - 1)
        BY <1>1, <3>2
      <4> QED
        BY <1>1, <4>1 DEF AllInv, Written, Writing
    <3> QED
      BY <3>1, <3>2
  <2>2. (k + 1) - 1 = k
    BY <1>1
  <2> QED
    BY <1>1, <1>2, <1>3, <2>1, <2>2 DEF AllInv, Written, Writing
<1>5. Returned'
  BY <1>1, <1>2 DEF Returned
<1> QED
  BY <1>3, <1>4, <1>5 DEF AllInv

LEMMA AllFinish == Inv /\ AllInv /\ Finish => AllInv'
<1> SUFFICES ASSUME Inv, AllInv, Finish PROVE AllInv'
  OBVIOUS
<1>1. /\ pc = "field" /\ pc' = "done" /\ k > Len(fields) /\ result' \in {"ok", "error"}
      /\ result' = "ok" <=> syntaxErrors = <<>>
      /\ UNCHANGED <<file, k, syntaxErrors, node, values, errs, fields>>
  BY DEF Finish, Return, collected
<1>2. /\ Visited' /\ Sorted' /\ \A v : Formats(v)' <=> Formats(v)
      /\ Good' <=> Good
      /\ Range(fields) = AllValues(file) /\ Parses(file)
      /\ \A v \in AllValues(file) : Accepted(v)
  BY <1>1, StaysAll DEF Writing, Collecting
<1>3. Written'
  BY <1>1, <1>2 DEF AllInv, Written, Writing
<1>4. syntaxErrors = <<>> <=> Good
  <2>1. ASSUME syntaxErrors = <<>> PROVE Good
    <3>1. \A m \in DOMAIN fields : m \in 1..(k - 1)
      BY <1>1, InvTypes
    <3>2. \A m \in DOMAIN fields : Formats(fields[m])
      BY <1>1, <2>1, <3>1 DEF AllInv, Written, Writing
    <3>3. \A v \in AllValues(file) : Formats(v)
      <4>1. \A v \in Range(fields) : Formats(v)
        BY <3>2, InRange
      <4> QED
        BY <1>2, <4>1
    <3> QED
      BY <1>2, <3>3 DEF Good
  <2>2. ASSUME syntaxErrors # <<>> PROVE ~Good
    BY <2>2 DEF AllInv, Written, Good
  <2> QED
    BY <2>1, <2>2
<1>5. Returned'
  BY <1>1, <1>2, <1>4 DEF Returned
<1> QED
  BY <1>2, <1>3, <1>5 DEF AllInv

LEMMA AllStep == Inv /\ SyntaxInv /\ AllInv /\ [Next]_vars => AllInv'
<1> SUFFICES ASSUME Inv, SyntaxInv, AllInv, [Next]_vars PROVE AllInv'
  OBVIOUS
<1>1. CASE UNCHANGED vars
  <2>1. UNCHANGED <<file, pc, k, syntaxErrors, node, values, errs, fields, text, at, parts, result>>
    BY <1>1 DEF vars, collected, expr, output
  <2>2. \A v : (Accepted(v)' <=> Accepted(v)) /\ (Formats(v)' <=> Formats(v)) /\ (Seen(v)' <=> Seen(v))
    BY <2>1 DEF Accepted, IsConcat, CommentInExpr, Formats, Seen
  <2>3. Visited'
    BY <2>1, <2>2 DEF AllInv, Visited, Parses
  <2>4. Sorted' /\ Written' /\ Returned'
    BY <2>1, <2>2 DEF AllInv, Sorted, Written, Writing, Returned, Good, Parses
  <2> QED
    BY <2>3, <2>4 DEF AllInv
<1>2. CASE Next
  BY <1>2, AllParse, AllInspect, AllSort, AllCollect, AllCollected, AllFormatField, AllCutNext,
     AllCutLast, AllWriteField, AllFinish DEF Next
<1> QED
  BY <1>1, <1>2

LEMMA AllInit == Init => AllInv
<1> SUFFICES ASSUME Init PROVE AllInv
  OBVIOUS
<1>1. Range(<<>>) = {}
  BY DEF Range
<1> QED
  BY <1>1 DEF Init, AllInv, Visited, Sorted, Written, Writing, Returned

LEMMA SpecAll == Spec => []AllInv
<1>1. Init => SyntaxOrder
  BY DEF Init, SyntaxOrder, SyntaxInv, Writing, Ascending
<1>2. Inv /\ SyntaxOrder /\ [Next]_vars => SyntaxOrder'
  BY SyntaxStep DEF SyntaxOrder, Ascending
<1>3. Inv /\ SyntaxOrder /\ AllInv /\ [Next]_vars => AllInv'
  BY AllStep DEF SyntaxOrder
<1> QED
  BY <1>1, <1>2, <1>3, AllInit, SpecInv, PTL DEF Spec

\* Whatever the file and whatever FormatSQL does, the file is rewritten just when
\* every SQL field of it is a string literal, without comments, that can be
\* formatted.
THEOREM Spec_AllOrNothing == Spec => []AllOrNothing
<1>1. AllInv => AllOrNothing
  BY ReturnedIs DEF AllInv
<1> QED
  BY <1>1, SpecAll, PTL

\* verifySQLFieldExpr never fails, whatever the text: formatGoFile does not return
\* its "bug".
NeverBug == result # "bug" /\ (pc = "verify" => Verified)

THEOREM Spec_NeverBug == Spec => []NeverBug
<1>1. Inv /\ AllInv => NeverBug
  BY AlwaysVerified DEF AllInv, Returned, NeverBug
<1> QED
  BY <1>1, SpecAll, SpecInv, PTL
=============================================================================
