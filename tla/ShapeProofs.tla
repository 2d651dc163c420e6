---------------------------- MODULE ShapeProofs ----------------------------
(***************************************************************************)
(* The shape of what the printer writes, for every set of well-formed      *)
(* layouts: what is between two tokens, where the lines of a bracketed     *)
(* part start, and how deep the lines in it are.                           *)
(***************************************************************************)
EXTENDS PrinterProofs

(***************************************************************************)
(* What is at the end of the output.  After a line break the last token is *)
(* one that asks for it, and a space is there only in a hint.              *)
(***************************************************************************)
LastPiece == b[Len(b)]

Ended ==
  /\ prev = i - 1
  /\ prev > 0 => b # <<>>
  /\ b # <<>> =>
       /\ prev > 0
       /\ LastPiece.k = "nl" => suppressSpace /\ prev \in BreaksAfter(in)
       /\ LastPiece.k = "sp" => hint # 0
       /\ LastPiece.k = "tok" => /\ LastPiece.v = prev
                                 /\ suppressSpace => prev \in DOMAIN in.subqueries

-----------------------------------------------------------------------------
(* Layouts. *)

LEMMA OneRoleEach ==
  ASSUME NEW x, WellFormed(x), NEW k
  PROVE  /\ k \in EndsOf(x.subqueries) \cup EndsOf(x.condGroups) =>
              k \notin DOMAIN x.cases \cup DOMAIN x.listSeps \cup x.condOps \cup ClauseTokens(x)
         /\ k \in DOMAIN x.cases => k \notin DOMAIN x.listSeps \cup x.condOps \cup ClauseTokens(x)
         /\ k \in DOMAIN x.listSeps => k \notin x.condOps \cup ClauseTokens(x)
         /\ k \in x.condOps => k \notin ClauseTokens(x)
         /\ k \in HintTokens(x) =>
              k \notin EndsOf(x.subqueries) \cup EndsOf(x.condGroups) \cup DOMAIN x.cases
                       \cup DOMAIN x.listSeps \cup x.condOps \cup ClauseTokens(x)
<1> DEFINE roles == <<EndsOf(x.subqueries) \cup EndsOf(x.condGroups), DOMAIN x.cases,
                      DOMAIN x.listSeps, x.condOps, ClauseTokens(x), HintTokens(x)>>
<1>1. \A j, l \in 1..6 : j # l => roles[j] \cap roles[l] = {}
  BY DEF WellFormed, OneRole
<1>2. /\ roles[1] = EndsOf(x.subqueries) \cup EndsOf(x.condGroups) /\ roles[2] = DOMAIN x.cases
      /\ roles[3] = DOMAIN x.listSeps /\ roles[4] = x.condOps
      /\ roles[5] = ClauseTokens(x) /\ roles[6] = HintTokens(x)
  OBVIOUS
<1>3. 1 \in 1..6 /\ 2 \in 1..6 /\ 3 \in 1..6 /\ 4 \in 1..6 /\ 5 \in 1..6 /\ 6 \in 1..6
  OBVIOUS
<1> HIDE DEF roles
<1>4. /\ roles[1] \cap roles[2] = {} /\ roles[1] \cap roles[3] = {} /\ roles[1] \cap roles[4] = {}
      /\ roles[1] \cap roles[5] = {} /\ roles[1] \cap roles[6] = {} /\ roles[2] \cap roles[3] = {}
      /\ roles[2] \cap roles[4] = {} /\ roles[2] \cap roles[5] = {} /\ roles[2] \cap roles[6] = {}
  BY <1>1, <1>3
<1>5. /\ roles[3] \cap roles[4] = {} /\ roles[3] \cap roles[5] = {} /\ roles[3] \cap roles[6] = {}
      /\ roles[4] \cap roles[5] = {} /\ roles[4] \cap roles[6] = {} /\ roles[5] \cap roles[6] = {}
  BY <1>1, <1>3
<1> QED
  BY <1>2, <1>4, <1>5

\* The key or the value of a span.
LEMMA EndsAre ==
  ASSUME NEW f, NEW k
  PROVE  k \in EndsOf(f) <=> EndOf(f, k)
BY DEF EndsOf, EndOf, Range

\* A token that a line break follows is not the end of a subquery or of a CASE.
LEMMA BreakRoles ==
  ASSUME NEW x, WellFormed(x), NEW k \in BreaksAfter(x)
  PROVE  /\ k \notin EndsOf(x.subqueries) /\ k \notin DOMAIN x.cases /\ k \notin EndsOf(x.caseEnd)
         /\ ~ Within(x, x.caseEnd, k)
<1>1. k \in ClauseTokens(x) \cup DOMAIN x.listSeps \cup DOMAIN x.condGroups
  BY DEF BreaksAfter, BodyBreaks, ClauseTokens
<1>2. ~ Within(x, x.caseEnd, k)
  BY <1>1 DEF WellFormed, RolesPlaced
<1>3. k \notin DOMAIN x.cases
  BY <1>1, OneRoleEach DEF EndsOf
<1>4. k \notin EndsOf(x.caseEnd)
  BY <1>3 DEF WellFormed, CasesNested, EndsOf
<1>5. k \notin EndsOf(x.subqueries)
  <2>1. CASE k \in ClauseTokens(x) \cup DOMAIN x.listSeps
    BY <2>1, OneRoleEach
  <2>2. CASE k \in DOMAIN x.condGroups
    <3>1. EndOf(x.condGroups, k)
      BY <2>2 DEF EndOf
    <3>2. Ordered(x.subqueries) /\ Ordered(x.condGroups) /\ Separate(x.subqueries, x.condGroups)
      BY Parts
    <3>3. ~ (EndOf(x.subqueries, k) /\ EndOf(x.condGroups, k))
      BY <3>2, NoSharedEnd
    <3> QED
      BY <3>1, <3>3, EndsAre
  <2> QED
    BY <1>1, <2>1, <2>2
<1> QED
  BY <1>2, <1>3, <1>4, <1>5

\* The innermost open CASE of the current scope, if the stack of CASEs has one.
LEMMA CaseOpen ==
  ASSUME Inv, sc.cases # <<>>
  PROVE  \E o \in DOMAIN in.caseEnd :
           /\ o < i /\ i <= in.caseEnd[o] /\ sc.open < o /\ in.caseEnd[o] = Top(sc.caseEnds)
           /\ \A q \in DOMAIN in.subqueries : OpenAt(in.subqueries, q, i) => q < o
<1> DEFINE N == Len(Stack)
<1>1. /\ WellFormed(in) /\ TypeOK /\ sc \in Scopes /\ N \in Nat \ {0}
      /\ ScopesOpen(in.subqueries, Opens, Closes, N, i)
      /\ Tracked(in.caseEnd, CaseStacks, Opens, N, i)
      /\ \A k \in 1..N : Len(Stack[k].cases) = Len(Stack[k].caseEnds)
      /\ Stack[N] = sc
  BY Facts, Levels DEF Stack
<1>2. CaseStacks[N] = sc.caseEnds /\ Opens[N] = sc.open /\ \A k \in 1..N : Opens[k] \in Nat
  BY <1>1, Current
<1>3. Ordered(in.caseEnd) /\ Ordered(in.subqueries)
  BY <1>1, Parts
<1> HIDE DEF N
<1>4. sc.caseEnds \in Seq(Nat) /\ sc.cases \in Seq(Int) /\ Len(sc.cases) = Len(sc.caseEnds)
  BY <1>1 DEF Scopes
<1>5. Len(sc.caseEnds) \in 1..Len(sc.caseEnds) /\ N \in 1..N
  BY <1>1, <1>4
<1>6. PICK o \in DOMAIN in.caseEnd :
        in.caseEnd[o] = CaseStacks[N][Len(sc.caseEnds)] /\ Opens[N] < o /\ OpenAt(in.caseEnd, o, i)
  BY <1>1, <1>2, <1>5 DEF Tracked, Closers
<1>7. ASSUME NEW q \in DOMAIN in.subqueries, OpenAt(in.subqueries, q, i) PROVE q < o
  <2>1. PICK k \in 2..N : Opens[k] = q
    BY <1>1, <1>7 DEF ScopesOpen
  <2>2. k < N => Opens[k] < Opens[N]
    BY <1>1 DEF ScopesOpen
  <2>3. q \in Nat /\ o \in Nat /\ Opens[N] \in Nat
    BY <1>2, <1>3, <1>5 DEF Ordered
  <2> QED
    BY <1>1, <1>6, <2>1, <2>2, <2>3
<1> QED
  BY <1>2, <1>6, <1>7 DEF OpenAt, Top

\* After a line break that a clause, a separator or a group asks for comes none
\* of the tokens that start a line by themselves.
LEMMA AfterBreak ==
  ASSUME Inv, prev = i - 1, prev \in BreaksAfter(in)
  PROVE  /\ i \notin in.condOps /\ i \notin DOMAIN in.clauseStarts
         /\ \A o \in DOMAIN in.subqueries : in.subqueries[o] # i
         /\ \A o \in DOMAIN in.condGroups : in.condGroups[o] # i
         /\ i \in DOMAIN in.cases => in.cases[i] = "case"
         /\ sc.cases = <<>>
         /\ prev \notin DOMAIN in.subqueries
<1>1. /\ WellFormed(in) /\ i \in Nat \ {0} /\ prev + 1 = i /\ prev \in Nat
  BY Facts
<1>2. /\ prev + 1 \notin in.condOps \cup DOMAIN in.clauseStarts \cup Range(in.subqueries) \cup Range(in.condGroups)
      /\ prev + 1 \in DOMAIN in.cases => in.cases[prev + 1] = "case"
  BY <1>1 DEF WellFormed, BodiesStart
<1>3. /\ \A o \in DOMAIN in.subqueries : in.subqueries[o] # i
      /\ \A o \in DOMAIN in.condGroups : in.condGroups[o] # i
  BY <1>1, <1>2 DEF Range
<1>4. ~ Within(in, in.caseEnd, prev) /\ prev \notin EndsOf(in.caseEnd) /\ prev \notin EndsOf(in.subqueries)
  BY <1>1, BreakRoles
<1>5. ASSUME sc.cases # <<>> PROVE FALSE
  <2>1. PICK o \in DOMAIN in.caseEnd :
          /\ o < i /\ i <= in.caseEnd[o]
          /\ \A q \in DOMAIN in.subqueries : OpenAt(in.subqueries, q, i) => q < o
    BY <1>5, CaseOpen
  <2>2. /\ Ordered(in.caseEnd) /\ Ordered(in.subqueries)
    BY <1>1, Parts
  <2>3. o < prev /\ prev < in.caseEnd[o]
    BY <1>1, <1>4, <2>1, <2>2 DEF Ordered, EndsOf
  <2>4. ASSUME NEW q \in DOMAIN in.subqueries, o < q, q <= prev, prev <= in.subqueries[q] PROVE FALSE
    <3>1. in.subqueries[q] # prev
      BY <1>4 DEF EndsOf, Range
    <3>2. OpenAt(in.subqueries, q, i)
      BY <1>1, <2>2, <2>4, <3>1 DEF OpenAt, Ordered
    <3> QED
      BY <2>1, <2>2, <2>4, <3>2 DEF Ordered
  <2> QED
    BY <1>4, <2>3, <2>4 DEF Within
<1>6. prev \notin DOMAIN in.subqueries
  BY <1>4 DEF EndsOf
<1> QED
  BY <1>1, <1>2, <1>3, <1>5, <1>6
-----------------------------------------------------------------------------
(***************************************************************************)
(* Separated: a step writes one token, with at most a space or line breaks *)
(* before it, and at most a space or a line break after it.                *)
(***************************************************************************)
SetOp(k) == k \in DOMAIN in.clauseStarts /\ in.clauseStarts[k] = "setop"

LeadShape(lead) ==
  \/ lead = <<>>
  \/ Len(lead) = 1 /\ lead[1].k \in {"sp", "nl"}
  \/ /\ Len(lead) = 2 /\ lead[1].k = "nl" /\ lead[1].v = 0 /\ lead[2].k = "nl" /\ SetOp(i)

TextShape(text, trail) ==
  /\ text[1].k = "tok" /\ text[1].v = i
  /\ \/ Len(text) = 1 /\ (trail = <<>> \/ (Len(trail) = 1 /\ trail[1].k = "nl"))
     \/ Len(text) = 2 /\ text[2].k = "sp" /\ trail = <<>>

\* Nothing may be between the last piece and token i, or there is a lead.
Meets(lead) ==
  b # <<>> =>
    /\ lead # <<>> => LastPiece.k = "tok"
    /\ lead = <<>> /\ LastPiece.k = "tok" =>
         in.kind[LastPiece.v] \in Symbol \/ in.kind[i] \in Symbol

\* The pieces after the old ones: token i is piece p + 1.
Placed(out, l, p) ==
  /\ l \in Nat /\ p \in Nat /\ Len(out) \in Nat
  /\ \A m \in 1..l : out[m] = b[m]
  /\ \/ p = l
     \/ p = l + 1 /\ out[l + 1].k \in {"sp", "nl"}
     \/ /\ p = l + 2 /\ out[l + 1].k = "nl" /\ out[l + 1].v = 0 /\ out[l + 2].k = "nl" /\ SetOp(i)
  /\ out[p + 1].k = "tok" /\ out[p + 1].v = i
  /\ Len(out) = p + 1 \/ (Len(out) = p + 2 /\ out[p + 2].k \in {"sp", "nl"})

LEMMA CutPlaced ==
  ASSUME NEW out, NEW lead, NEW text, NEW trail, NEW l, NEW p, NEW q,
         Cut(out, b, lead, text, trail, l, p, q),
         \/ p = l
         \/ p = l + 1 /\ lead[1].k \in {"sp", "nl"}
         \/ p = l + 2 /\ lead[1].k = "nl" /\ lead[1].v = 0 /\ lead[2].k = "nl" /\ SetOp(i),
         text[1].k = "tok" /\ text[1].v = i,
         \/ q = p + 1 /\ Len(out) = q
         \/ q = p + 1 /\ Len(out) = q + 1 /\ trail[1].k = "nl"
         \/ q = p + 2 /\ Len(out) = q /\ text[2].k = "sp"
  PROVE  /\ Placed(out, l, p)
         /\ Len(out) = q + 1 => out[Len(out)].k = "nl"
         /\ q = p + 2 => out[Len(out)].k = "sp"
         /\ Len(out) = q /\ q = p + 1 => out[Len(out)].k = "tok" /\ out[Len(out)].v = i
<1>t. PICK t \in Nat : t = Len(out)
  BY Zenon DEF Cut
<1>0. /\ l \in Nat /\ p \in Nat /\ q \in Nat
      /\ \A m \in 1..l : out[m] = b[m]
      /\ \A m \in (l + 1)..p : out[m] = lead[m - l]
      /\ \A m \in (p + 1)..q : out[m] = text[m - p]
      /\ \A m \in (q + 1)..t : out[m] = trail[m - q]
  BY <1>t, Zenon DEF Cut
<1>1. out[p + 1] = text[1]
  <2>1. p + 1 \in (p + 1)..q /\ (p + 1) - p = 1
    BY <1>0
  <2> QED
    BY <1>0, <2>1
<1>2. q = p + 2 => out[p + 2] = text[2]
  <2> HAVE q = p + 2
  <2>1. p + 2 \in (p + 1)..q /\ (p + 2) - p = 2
    BY <1>0
  <2> QED
    BY <1>0, <2>1
<1>3. t = q + 1 => out[q + 1] = trail[1]
  <2> HAVE t = q + 1
  <2>1. q + 1 \in (q + 1)..t /\ (q + 1) - q = 1
    BY <1>0
  <2> QED
    BY <1>0, <2>1
<1>4. p >= l + 1 => out[l + 1] = lead[1]
  <2> HAVE p >= l + 1
  <2>1. l + 1 \in (l + 1)..p /\ (l + 1) - l = 1
    BY <1>0
  <2> QED
    BY <1>0, <2>1
<1>5. p = l + 2 => out[l + 2] = lead[2]
  <2> HAVE p = l + 2
  <2>1. l + 2 \in (l + 1)..p /\ (l + 2) - l = 2
    BY <1>0
  <2> QED
    BY <1>0, <2>1
<1>6. \/ p = l
      \/ p = l + 1 /\ out[l + 1].k \in {"sp", "nl"}
      \/ /\ p = l + 2 /\ out[l + 1].k = "nl" /\ out[l + 1].v = 0 /\ out[l + 2].k = "nl" /\ SetOp(i)
  BY <1>0, <1>4, <1>5
<1>7. \/ q = p + 1 /\ t = p + 1
      \/ q = p + 1 /\ t = p + 2 /\ out[p + 2].k = "nl"
      \/ q = p + 2 /\ t = p + 2 /\ out[p + 2].k = "sp"
  BY <1>0, <1>2, <1>3, <1>t
<1>8. Placed(out, l, p)
  BY <1>0, <1>1, <1>6, <1>7, <1>t DEF Placed
<1> QED
  BY <1>0, <1>1, <1>7, <1>8, <1>t

LEMMA WritePlaced ==
  ASSUME NEW out, b \in Seq(Piece),
         NEW lead \in Seq(Piece), NEW text \in Seq(Piece), NEW trail \in Seq(Piece),
         LeadShape(lead), TextShape(text, trail), out = b \o lead \o text \o trail
  PROVE  /\ Placed(out, Len(b), Len(b) + Len(lead))
         /\ trail # <<>> => out[Len(out)].k = "nl"
         /\ Len(text) = 2 => out[Len(out)].k = "sp"
         /\ trail = <<>> /\ Len(text) = 1 => out[Len(out)].k = "tok" /\ out[Len(out)].v = i
<1>1. Len(b) \in Nat /\ Len(lead) \in Nat /\ Len(text) \in Nat /\ Len(trail) \in Nat
  OBVIOUS
<1>2. lead = <<>> => Len(lead) = 0
  OBVIOUS
<1>3. trail = <<>> => Len(trail) = 0
  OBVIOUS
<1> DEFINE l == Len(b)
           p == Len(b) + Len(lead)
           q == Len(b) + Len(lead) + Len(text)
<1>4. Cut(out, b, lead, text, trail, l, p, q)
  BY CutAt, Zenon
<1>5. Len(out) = q + Len(trail)
  <2>1. Len(b \o lead) = Len(b) + Len(lead) /\ b \o lead \in Seq(Piece)
    BY Joined
  <2>2. Len(b \o lead \o text) = Len(b) + Len(lead) + Len(text) /\ b \o lead \o text \in Seq(Piece)
    BY <2>1, Joined
  <2> QED
    BY <2>2, Joined
<1>6. p = l + Len(lead) /\ q = p + Len(text) /\ l \in Nat /\ p \in Nat /\ q \in Nat
  BY <1>1
<1> HIDE DEF l, p, q
<1>7. \/ p = l
      \/ p = l + 1 /\ lead[1].k \in {"sp", "nl"}
      \/ p = l + 2 /\ lead[1].k = "nl" /\ lead[1].v = 0 /\ lead[2].k = "nl" /\ SetOp(i)
  <2>1. Len(lead) = 0 => p = l
    BY <1>6
  <2>2. Len(lead) = 1 => p = l + 1
    BY <1>6
  <2>3. Len(lead) = 2 => p = l + 2
    BY <1>6
  <2> QED
    BY <1>2, <2>1, <2>2, <2>3, Zenon DEF LeadShape
<1>8. /\ Len(text) = 1 => q = p + 1
      /\ Len(text) = 2 => q = p + 2
      /\ Len(trail) = 0 => Len(out) = q
      /\ Len(trail) = 1 => Len(out) = q + 1
  <2>1. Len(text) = 1 => q = p + 1
    BY <1>6
  <2>2. Len(text) = 2 => q = p + 2
    BY <1>6
  <2>3. Len(trail) = 0 => Len(out) = q
    BY <1>5, <1>6
  <2>4. Len(trail) = 1 => Len(out) = q + 1
    BY <1>5, <1>6
  <2> QED
    BY <2>1, <2>2, <2>3, <2>4
<1>9. \/ Len(text) = 1 /\ trail = <<>> /\ q = p + 1 /\ Len(out) = q
      \/ Len(text) = 1 /\ trail # <<>> /\ q = p + 1 /\ Len(out) = q + 1 /\ trail[1].k = "nl"
      \/ Len(text) = 2 /\ trail = <<>> /\ q = p + 2 /\ Len(out) = q /\ text[2].k = "sp"
  BY <1>3, <1>8, Zenon DEF TextShape
<1>10. /\ \A m \in 1..l : out[m] = b[m]
       /\ \A m \in (l + 1)..p : out[m] = lead[m - l]
       /\ \A m \in (p + 1)..q : out[m] = text[m - p]
       /\ \A m \in (q + 1)..Len(out) : out[m] = trail[m - q]
       /\ Len(out) \in Nat
  BY <1>4, Zenon DEF Cut
<1>11. text[1].k = "tok" /\ text[1].v = i
  BY Zenon DEF TextShape
<1>12. \/ q = p + 1 /\ Len(out) = q
       \/ q = p + 1 /\ Len(out) = q + 1 /\ trail[1].k = "nl"
       \/ q = p + 2 /\ Len(out) = q /\ text[2].k = "sp"
  BY <1>9, Zenon
<1>13. /\ Placed(out, l, p)
       /\ Len(out) = q + 1 => out[Len(out)].k = "nl"
       /\ q = p + 2 => out[Len(out)].k = "sp"
       /\ Len(out) = q /\ q = p + 1 => out[Len(out)].k = "tok" /\ out[Len(out)].v = i
  BY <1>4, <1>7, <1>11, <1>12, CutPlaced, Zenon
<1>14. Placed(out, Len(b), Len(b) + Len(lead))
  BY <1>13 DEF l, p
<1>15. trail # <<>> => out[Len(out)].k = "nl"
  BY <1>9, <1>13, Zenon
<1>16. Len(text) = 2 => out[Len(out)].k = "sp"
  BY <1>9, <1>13
<1>17. trail = <<>> /\ Len(text) = 1 => out[Len(out)].k = "tok" /\ out[Len(out)].v = i
  BY <1>9, <1>13
<1> QED
  BY <1>14, <1>15, <1>16, <1>17, Zenon

\* Two pieces in a row, apart from blank lines.
Fits(x, y) ==
  /\ x.k = "tok" /\ y.k = "tok" => in.kind[x.v] \in Symbol \/ in.kind[y.v] \in Symbol
  /\ x.k = "nl" => y.k # "sp"
  /\ x.k = "sp" => y.k = "tok"

LEMMA Pieces ==
  Separated <=> \A m \in 1..(Len(b) - 1) :
                  /\ Fits(b[m], b[m + 1])
                  /\ b[m].k = "nl" /\ b[m + 1].k = "nl" => BlankLine(m)
BY DEF Separated, Fits

LEMMA SeparatedStep ==
  ASSUME TypeOK, Separated, in' = in, NEW p, Placed(b', Len(b), p),
         b # <<>> => /\ p # Len(b) => LastPiece.k = "tok"
                     /\ p = Len(b) /\ LastPiece.k = "tok" =>
                          in.kind[LastPiece.v] \in Symbol \/ in.kind[i] \in Symbol
  PROVE  Separated'
<1> DEFINE l == Len(b)
           out == b'
<1>1. /\ l \in Nat /\ p \in Nat /\ Len(out) \in Nat
      /\ \A m \in 1..l : out[m] = b[m]
      /\ \/ p = l
         \/ p = l + 1 /\ out[l + 1].k \in {"sp", "nl"}
         \/ /\ p = l + 2 /\ out[l + 1].k = "nl" /\ out[l + 1].v = 0 /\ out[l + 2].k = "nl" /\ SetOp(i)
      /\ out[p + 1].k = "tok" /\ out[p + 1].v = i
      /\ Len(out) = p + 1 \/ (Len(out) = p + 2 /\ out[p + 2].k \in {"sp", "nl"})
  BY DEF Placed
<1>2. l > 0 => /\ p # l => b[l].k = "tok"
               /\ p = l /\ b[l].k = "tok" => in.kind[b[l].v] \in Symbol \/ in.kind[i] \in Symbol
  <2> HAVE l > 0
  <2>1. b # <<>>
    OBVIOUS
  <2> QED
    BY <2>1 DEF LastPiece
<1>3. \A m \in 1..(l - 1) : /\ Fits(b[m], b[m + 1])
                            /\ b[m].k = "nl" /\ b[m + 1].k = "nl" => BlankLine(m)
  BY Pieces DEF l
<1>4. \A m : BlankLine(m)' <=>
        /\ out[m].k = "nl" /\ out[m].v = 0 /\ m + 2 <= Len(out)
        /\ out[m + 1].k = "nl" /\ out[m + 2].k = "tok" /\ SetOp(out[m + 2].v)
  BY Zenon DEF BlankLine, SetOp
<1> HIDE DEF l, out
<1>5. ASSUME NEW m \in 1..(Len(out) - 1)
      PROVE  /\ Fits(out[m], out[m + 1])
             /\ out[m].k = "nl" /\ out[m + 1].k = "nl" =>
                  /\ out[m].v = 0 /\ m + 2 <= Len(out) /\ out[m + 2].k = "tok" /\ SetOp(out[m + 2].v)
  <2>1. CASE m < l
    <3>a. l \in Nat /\ m \in Nat /\ 1 <= m
      BY <1>1
    <3> m \in 1..(l - 1) /\ m \in 1..l /\ m + 1 \in 1..l
      BY <2>1, <3>a
    <3>1. out[m] = b[m] /\ out[m + 1] = b[m + 1]
      BY <1>1
    <3>2. ASSUME out[m].k = "nl", out[m + 1].k = "nl"
          PROVE  /\ out[m].v = 0 /\ m + 2 <= Len(out) /\ out[m + 2].k = "tok" /\ SetOp(out[m + 2].v)
      <4>1. BlankLine(m)
        BY <1>3, <3>1, <3>2
      <4>2. b[m].v = 0 /\ m + 2 <= l /\ b[m + 2].k = "tok" /\ SetOp(b[m + 2].v)
        BY <4>1 DEF BlankLine, SetOp, l
      <4>3. out[m + 2] = b[m + 2] /\ m + 2 <= Len(out)
        BY <1>1, <2>1, <4>2
      <4> QED
        BY <3>1, <4>2, <4>3
    <3> QED
      BY <1>3, <3>1, <3>2
  <2>2. CASE m = l
    <3>1. out[l] = b[l] /\ l > 0
      BY <1>1, <2>2
    <3>2. CASE p = l
      BY <1>1, <1>2, <2>2, <3>1, <3>2 DEF Fits
    <3>3. CASE p # l
      BY <1>1, <1>2, <2>2, <3>1, <3>3 DEF Fits
    <3> QED
      BY <3>2, <3>3
  <2>3. CASE m = p + 1
    BY <1>1, <2>3 DEF Fits
  <2>4. CASE m = l + 1 /\ p = l + 1
    BY <1>1, <2>4 DEF Fits
  <2>5. CASE m = l + 1 /\ p = l + 2
    BY <1>1, <2>5 DEF Fits
  <2>6. CASE m = l + 2 /\ p = l + 2
    BY <1>1, <2>6 DEF Fits
  <2> QED
    BY <1>1, <2>1, <2>2, <2>3, <2>4, <2>5, <2>6
<1>6. \A m \in 1..(Len(out) - 1) :
        /\ Fits(out[m], out[m + 1])
        /\ out[m].k = "nl" /\ out[m + 1].k = "nl" => BlankLine(m)'
  BY <1>4, <1>5, Zenon
<1> QED
  BY <1>6 DEF Separated, Fits, out

LEMMA ShapeWrite ==
  ASSUME Inv, Separated, in' = in, i' = i + 1, prev' = i,
         NEW lead \in Seq(Piece), NEW text \in Seq(Piece), NEW trail \in Seq(Piece),
         LeadShape(lead), TextShape(text, trail), Meets(lead),
         b' = b \o lead \o text \o trail,
         trail # <<>> => suppressSpace' /\ i \in BreaksAfter(in),
         trail = <<>> /\ suppressSpace' => i \in DOMAIN in.subqueries,
         Len(text) = 2 => hint' # 0
  PROVE  Separated' /\ Ended'
<1>1. TypeOK /\ b \in Seq(Piece) /\ i \in Nat \ {0}
  BY Facts DEF TypeOK
<1>2. /\ Placed(b', Len(b), Len(b) + Len(lead))
      /\ trail # <<>> => b'[Len(b')].k = "nl"
      /\ Len(text) = 2 => b'[Len(b')].k = "sp"
      /\ trail = <<>> /\ Len(text) = 1 => b'[Len(b')].k = "tok" /\ b'[Len(b')].v = i
  BY <1>1, WritePlaced
<1>3. PICK p : p = Len(b) + Len(lead)
  OBVIOUS
<1>4. (p = Len(b) => lead = <<>>) /\ (p # Len(b) => lead # <<>>)
  <2>1. Len(b) \in Nat /\ Len(lead) \in Nat
    BY <1>1
  <2>2. lead = <<>> <=> Len(lead) = 0
    OBVIOUS
  <2> QED
    BY <1>3, <2>1, <2>2
<1>5. Separated'
  <2>1. b # <<>> => /\ p # Len(b) => LastPiece.k = "tok"
                    /\ p = Len(b) /\ LastPiece.k = "tok" =>
                         in.kind[LastPiece.v] \in Symbol \/ in.kind[i] \in Symbol
    BY <1>4, Zenon DEF Meets
  <2>2. Placed(b', Len(b), p)
    BY <1>2, <1>3
  <2> QED
    BY <1>1, <2>1, <2>2, SeparatedStep, Zenon
<1>6. prev' = i' - 1 /\ prev' > 0
  BY <1>1
<1>7. LastPiece' = b'[Len(b')] /\ b' # <<>>
  <2>1. Len(b') > 0
    BY <1>2 DEF Placed
  <2>2. Len(<<>>) = 0
    OBVIOUS
  <2> QED
    BY <2>1, <2>2 DEF LastPiece
<1>8. Len(text) = 1 \/ Len(text) = 2
  BY Zenon DEF TextShape
<1>9. Len(text) = 2 => trail = <<>>
  <2>1. 1 # 2
    OBVIOUS
  <2> QED
    BY <2>1, Zenon DEF TextShape
<1>10. /\ LastPiece'.k = "nl" => suppressSpace' /\ prev' \in BreaksAfter(in)
       /\ LastPiece'.k = "sp" => hint' # 0
       /\ LastPiece'.k = "tok" => LastPiece'.v = prev' /\ (suppressSpace' => prev' \in DOMAIN in.subqueries)
  <2>1. "nl" # "sp" /\ "nl" # "tok" /\ "sp" # "tok"
    OBVIOUS
  <2>2. CASE trail # <<>>
    BY <1>2, <1>7, <2>1, <2>2, Zenon
  <2>3. CASE Len(text) = 2
    BY <1>2, <1>7, <1>9, <2>1, <2>3, Zenon
  <2>4. CASE trail = <<>> /\ Len(text) = 1
    BY <1>2, <1>7, <2>1, <2>4, Zenon
  <2> QED
    BY <1>8, <2>2, <2>3, <2>4, Zenon
<1> QED
  BY <1>5, <1>6, <1>7, <1>10 DEF Ended

LEMMA ShapeOfWrite ==
  ASSUME Inv, Separated, in' = in,
         NEW lead \in Seq(Piece), NEW text \in Seq(Piece), NEW trail \in Seq(Piece),
         LeadShape(lead), TextShape(text, trail), Meets(lead), Write(lead, text, trail),
         trail # <<>> => i \in BreaksAfter(in),
         Len(text) = 2 => hint' # 0
  PROVE  Separated' /\ Ended'
<1>1. /\ b' = b \o lead \o text \o trail
      /\ prev' = i /\ i' = i + 1 /\ suppressSpace' = (trail # <<>>)
  BY DEF Write
<1>2. trail # <<>> => suppressSpace' /\ i \in BreaksAfter(in)
  BY <1>1
<1>3. trail = <<>> /\ suppressSpace' => i \in DOMAIN in.subqueries
  BY <1>1
<1> QED
  BY <1>1, <1>2, <1>3, ShapeWrite, Zenon

LEMMA Shapes ==
  /\ LeadShape(<<>>) /\ LeadShape(Space)
  /\ \A x : LeadShape(<<Nl(x)>>)
  /\ \A x : SetOp(i) => LeadShape(<<Nl(0), Nl(x)>>)
  /\ TextShape(<<Upper(i)>>, <<>>) /\ Len(<<Upper(i)>>) = 1
  /\ \A x : TextShape(<<Upper(i)>>, <<Nl(x)>>)
  /\ TextShape(<<Tok(i, FALSE)>>, <<>>) /\ Len(<<Tok(i, FALSE)>>) = 1
  /\ \A x : TextShape(<<Tok(i, FALSE)>>, <<Nl(x)>>)
  /\ TextShape(<<Tok(i, FALSE), Sp>>, <<>>)
<1>1. LeadShape(<<>>) /\ (\A x : LeadShape(<<Nl(x)>>)) /\ LeadShape(<<Sp>>)
  BY DEF LeadShape, Nl, Sp
<1>2. \A x : SetOp(i) => LeadShape(<<Nl(0), Nl(x)>>)
  BY DEF LeadShape, Nl
<1>3. LeadShape(Space)
  BY <1>1, Zenon DEF Space
<1>4. \A k, up : Tok(k, up).k = "tok" /\ Tok(k, up).v = k
  BY DEF Tok
<1>5. Upper(i).k = "tok" /\ Upper(i).v = i
  BY <1>4, Zenon DEF Upper
<1>6. TextShape(<<Upper(i)>>, <<>>) /\ \A x : TextShape(<<Upper(i)>>, <<Nl(x)>>)
  BY <1>5 DEF TextShape, Nl
<1>7. TextShape(<<Tok(i, FALSE)>>, <<>>) /\ \A x : TextShape(<<Tok(i, FALSE)>>, <<Nl(x)>>)
  BY <1>4 DEF TextShape, Nl
<1>8. TextShape(<<Tok(i, FALSE), Sp>>, <<>>)
  BY <1>4 DEF TextShape, Sp
<1>9. Len(<<Upper(i)>>) = 1 /\ Len(<<Tok(i, FALSE)>>) = 1
  OBVIOUS
<1> QED
  BY <1>1, <1>2, <1>3, <1>6, <1>7, <1>8, <1>9

LEMMA LastKind ==
  ASSUME Inv, b # <<>>
  PROVE  LastPiece.k \in {"tok", "nl", "sp"}
<1>1. b \in Seq(Piece)
  BY Facts DEF TypeOK
<1>2. LastPiece \in Piece
  BY <1>1 DEF LastPiece
<1> QED
  BY <1>2 DEF Piece

\* Every symbol NeedsSpace has a rule for is one of Symbol.
LEMMA NoSpaceSymbols ==
  ASSUME NEW p, NEW c, ~ NeedsSpace(p, c)
  PROVE  p \in Symbol \/ c \in Symbol
BY DEF NeedsSpace, NoSpaceAfter, NoSpaceBefore, Symbol

LEMMA SpaceMeets ==
  ASSUME Inv, Ended, hint = 0
  PROVE  Meets(Space)
<1> SUFFICES ASSUME b # <<>>
             PROVE  /\ Space # <<>> => LastPiece.k = "tok"
                    /\ Space = <<>> /\ LastPiece.k = "tok" =>
                         in.kind[LastPiece.v] \in Symbol \/ in.kind[i] \in Symbol
  BY DEF Meets
<1>1. LastPiece.k \in {"tok", "nl", "sp"} /\ LastPiece.k # "sp" /\ WellFormed(in)
  BY LastKind, Facts DEF Ended
<1>2. prev > 0
  BY DEF Ended
<1>3. ASSUME Space # <<>> PROVE LastPiece.k = "tok"
  <2>1. ~ suppressSpace
    BY <1>3 DEF Space
  <2> QED
    BY <1>1, <2>1 DEF Ended
<1>4. ASSUME Space = <<>>, LastPiece.k = "tok"
      PROVE  in.kind[LastPiece.v] \in Symbol \/ in.kind[i] \in Symbol
  <2>1. LastPiece.v = prev
    BY <1>4 DEF Ended
  <2>2. CASE suppressSpace
    <3>1. prev \in DOMAIN in.subqueries
      BY <1>4, <2>2 DEF Ended
    <3> QED
      BY <1>1, <2>1, <3>1 DEF WellFormed, SymbolsPlaced
  <2>3. CASE ~ suppressSpace
    <3>1. <<Sp>> # <<>>
      OBVIOUS
    <3>2. ~ NeedsSpace(in.kind[prev], in.kind[i])
      BY <1>2, <1>4, <2>3, <3>1, Zenon DEF Space
    <3> QED
      BY <2>1, <3>2, NoSpaceSymbols, Zenon
  <2> QED
    BY <2>2, <2>3
<1> QED
  BY <1>3, <1>4

LEMMA BreakMeets ==
  ASSUME Inv, Ended, hint = 0, prev \notin BreaksAfter(in), NEW lead, lead # <<>>
  PROVE  Meets(lead)
<1> SUFFICES ASSUME b # <<>> PROVE LastPiece.k = "tok"
  BY DEF Meets
<1>1. LastPiece.k \in {"tok", "nl", "sp"}
  BY LastKind
<1> QED
  BY <1>1 DEF Ended

\* The tokens that the innermost scope and group close with close a part.
LEMMA Closers2 ==
  ASSUME Inv
  PROVE  /\ i = sc.close => sc.open \in DOMAIN in.subqueries /\ in.subqueries[sc.open] = i
         /\ sc.condGroups # <<>> =>
              \E o \in DOMAIN in.condGroups :
                in.condGroups[o] = Top(sc.condGroups) /\ sc.open < o /\ OpenAt(in.condGroups, o, i)
<1> DEFINE N == Len(Stack)
<1>1. /\ TypeOK /\ sc \in Scopes /\ N \in Nat \ {0} /\ i # 0
      /\ ScopesOpen(in.subqueries, Opens, Closes, N, i)
      /\ Tracked(in.condGroups, GroupStacks, Opens, N, i)
  BY Facts
<1>2. GroupStacks[N] = sc.condGroups /\ Opens[N] = sc.open /\ Closes[N] = sc.close
  BY <1>1, Current
<1> HIDE DEF N
<1>3. i = sc.close => sc.open \in DOMAIN in.subqueries /\ in.subqueries[sc.open] = i
  BY <1>1, <1>2 DEF ScopesOpen
<1>4. ASSUME sc.condGroups # <<>>
      PROVE  \E o \in DOMAIN in.condGroups :
                in.condGroups[o] = Top(sc.condGroups) /\ sc.open < o /\ OpenAt(in.condGroups, o, i)
  <2>1. sc.condGroups \in Seq(Nat)
    BY <1>1 DEF Scopes
  <2>2. Len(sc.condGroups) \in 1..Len(sc.condGroups) /\ N \in 1..N
    BY <1>1, <1>4, <2>1
  <2> QED
    BY <1>1, <1>2, <2>2 DEF Tracked, Closers, Top
<1> QED
  BY <1>3, <1>4

-----------------------------------------------------------------------------
(* The steps. *)

Shape == Separated /\ Ended

\* A space appended to a token.
LEMMA SpaceAdded ==
  ASSUME TypeOK, Separated, in' = in, b # <<>>, LastPiece.k = "tok", b' = b \o <<Sp>>
  PROVE  Separated' /\ b' # <<>> /\ LastPiece'.k = "sp"
<1> DEFINE l == Len(b)
           out == b'
<1>1. b \in Seq(Piece) /\ <<Sp>> \in Seq(Piece) /\ Len(<<Sp>>) = 1 /\ <<Sp>>[1] = Sp
  BY PieceSeqs, PieceTypes DEF TypeOK
<1>2. /\ l \in Nat /\ l > 0 /\ Len(out) = l + 1
      /\ \A m \in 1..l : out[m] = b[m]
      /\ out[l + 1] = Sp
  BY <1>1, AppendProperties
<1>3. /\ b[l].k = "tok" /\ out[l + 1].k = "sp" /\ out # <<>> /\ LastPiece' = out[l + 1]
  BY <1>2 DEF LastPiece, Sp
<1>4. \A m \in 1..(l - 1) : /\ Fits(b[m], b[m + 1])
                            /\ b[m].k = "nl" /\ b[m + 1].k = "nl" => BlankLine(m)
  BY Pieces DEF l
<1>5. \A m : BlankLine(m)' <=>
        /\ out[m].k = "nl" /\ out[m].v = 0 /\ m + 2 <= Len(out)
        /\ out[m + 1].k = "nl" /\ out[m + 2].k = "tok" /\ SetOp(out[m + 2].v)
  BY Zenon DEF BlankLine, SetOp
<1>6. \A m : BlankLine(m) <=>
        /\ b[m].k = "nl" /\ b[m].v = 0 /\ m + 2 <= l
        /\ b[m + 1].k = "nl" /\ b[m + 2].k = "tok" /\ SetOp(b[m + 2].v)
  BY Zenon DEF BlankLine, SetOp
<1> HIDE DEF l, out
<1>7. ASSUME NEW m \in 1..(Len(out) - 1)
      PROVE  /\ Fits(out[m], out[m + 1])
             /\ out[m].k = "nl" /\ out[m + 1].k = "nl" => BlankLine(m)'
  <2>1. CASE m < l
    <3>1. m \in 1..(l - 1) /\ m \in 1..l /\ m + 1 \in 1..l
      BY <1>2, <2>1
    <3>2. out[m] = b[m] /\ out[m + 1] = b[m + 1]
      BY <1>2, <3>1
    <3>3. ASSUME BlankLine(m) PROVE BlankLine(m)'
      <4>1. m + 2 \in 1..l
        BY <1>2, <1>6, <3>1, <3>3
      <4>2. out[m + 2] = b[m + 2] /\ m + 2 <= Len(out)
        BY <1>2, <4>1
      <4> QED
        BY <1>5, <1>6, <3>2, <3>3, <4>2, Zenon
    <3> QED
      BY <1>4, <3>1, <3>2, <3>3
  <2>2. CASE m = l
    <3>1. out[m].k = "tok" /\ out[m + 1].k = "sp"
      BY <1>2, <1>3, <2>2
    <3> QED
      BY <3>1 DEF Fits
  <2> QED
    BY <1>2, <2>1, <2>2
<1> QED
  BY <1>3, <1>7 DEF Separated, Fits, out

LEMMA ShapeStartHint == Inv /\ Shape /\ StartHint => Shape'
<1> SUFFICES ASSUME Inv, Shape, StartHint PROVE Shape'
  OBVIOUS
<1>1. /\ hint = 0 /\ i <= in.n /\ Role = "hint"
      /\ b' = b \o Space /\ hint' = in.hints[i]
      /\ in' = in /\ i' = i /\ prev' = prev /\ suppressSpace' = suppressSpace
  BY DEF StartHint, At
<1>2. TypeOK /\ b \in Seq(Piece) /\ WellFormed(in) /\ LayoutType(in)
  BY Facts DEF TypeOK
<1>3. hint' # 0
  <2>1. i \in DOMAIN in.hints
    BY <1>1, <1>2, Roles
  <2> QED
    BY <1>1, <1>2, <2>1, Parts
<1>4. CASE Space = <<>>
  <2>1. b' = b
    BY <1>1, <1>2, <1>4, ConcatEmptySeq
  <2> QED
    BY <1>1, <1>3, <2>1 DEF Shape, Separated, Ended, LastPiece, BlankLine
<1>5. CASE Space # <<>>
  <2>1. Space = <<Sp>> /\ prev > 0 /\ ~ suppressSpace
    BY <1>5, Zenon DEF Space
  <2>2. b # <<>> /\ LastPiece.k = "tok"
    BY <1>1, <1>5, <2>1, SpaceMeets DEF Meets, Shape, Ended
  <2>3. Separated' /\ b' # <<>> /\ LastPiece'.k = "sp"
    BY <1>1, <1>2, <2>1, <2>2, SpaceAdded DEF Shape
  <2>4. prev > 0 /\ prev = i - 1
    BY <2>1 DEF Shape, Ended
  <2> QED
    BY <1>1, <1>3, <2>3, <2>4 DEF Shape, Ended
<1> QED
  BY <1>4, <1>5

LEMMA ShapeHintToken == Inv /\ Shape /\ HintToken => Shape'
<1> SUFFICES ASSUME Inv, Shape, HintToken PROVE Shape'
  OBVIOUS
<1> DEFINE text == IF in.kind[i] = "," THEN <<Tok(i, FALSE), Sp>> ELSE <<Tok(i, FALSE)>>
<1>1. /\ hint # 0 /\ in' = in /\ hint' = (IF i = hint THEN 0 ELSE hint)
      /\ Write(<<>>, text, <<>>)
  BY DEF HintToken
<1>2. WellFormed(in) /\ i \in Nat \ {0} /\ prev = i - 1
  BY Facts DEF Shape, Ended
<1>3. PICK h \in DOMAIN in.hints : in.hints[h] = hint /\ h <= i /\ i <= hint
  BY <1>1 DEF Inv, HintInv
<1>4. h \in Nat /\ hint \in Nat
  BY <1>2, <1>3, Parts
<1>5. /\ in.kind[h] \in Symbol /\ in.kind[hint] # ","
      /\ \A k \in h..(hint - 1) : in.kind[k] \in Symbol \/ in.kind[k + 1] \in Symbol
  BY <1>2, <1>3 DEF WellFormed, SymbolsPlaced
<1>6. in.kind[prev] \in Symbol \/ in.kind[i] \in Symbol
  <2>1. CASE i = h
    BY <1>5, <2>1
  <2>2. CASE i # h
    <3>1. prev \in h..(hint - 1) /\ prev + 1 = i
      BY <1>2, <1>3, <1>4, <2>2
    <3> QED
      BY <1>5, <3>1
  <2> QED
    BY <2>1, <2>2
<1>7. Meets(<<>>)
  BY <1>6 DEF Meets, Shape, Ended
<1>8. text \in Seq(Piece) /\ <<>> \in Seq(Piece)
  BY Around, Zenon
<1>9. LeadShape(<<>>) /\ TextShape(text, <<>>)
  BY Shapes, Zenon
<1>a. 1 # 2
  OBVIOUS
<1>b. in.kind[i] # "," => text = <<Tok(i, FALSE)>>
  OBVIOUS
<1> HIDE DEF text
<1>10. Len(text) = 2 => hint' # 0
  <2> HAVE Len(text) = 2
  <2>1. in.kind[i] = ","
    BY <1>a, <1>b, Shapes, Zenon
  <2> QED
    BY <1>1, <1>5, <2>1
<1>11. Separated
  BY DEF Shape
<1> QED
  BY <1>1, <1>7, <1>8, <1>9, <1>10, <1>11, ShapeOfWrite, Zenon DEF Shape

LEMMA ShapeOpenSubquery == Inv /\ Shape /\ OpenSubquery => Shape'
<1> SUFFICES ASSUME Inv, Shape, OpenSubquery PROVE Shape'
  OBVIOUS
<1> DEFINE lead == IF prev \in DOMAIN in.subqueries THEN <<Nl(sc.clauseIndent)>> ELSE Space
           text == <<Tok(i, FALSE)>>
<1>1. /\ hint = 0 /\ i <= in.n /\ Role = "openSubquery"
      /\ in' = in /\ i' = i + 1 /\ prev' = i
      /\ b' = b \o lead \o text
  BY DEF OpenSubquery, At
<1>2. WellFormed(in) /\ LayoutType(in) /\ Separated /\ Ended /\ b \in Seq(Piece)
  BY Facts DEF Shape, TypeOK
<1>3. i \in DOMAIN in.subqueries
  BY <1>1, <1>2, Roles
<1>4. lead \in Seq(Piece) /\ text \in Seq(Piece) /\ <<>> \in Seq(Piece)
  BY Around, ScopeIndents, Zenon
<1>5. LeadShape(lead) /\ TextShape(text, <<>>) /\ Len(text) = 1
  BY Shapes, Zenon
<1>6. Meets(lead)
  <2>1. CASE prev \in DOMAIN in.subqueries
    <3>1. prev \notin BreaksAfter(in)
      BY <1>2, <2>1, AfterBreak DEF Ended
    <3>2. lead = <<Nl(sc.clauseIndent)>> /\ <<Nl(sc.clauseIndent)>> # <<>>
      BY <2>1
    <3> HIDE DEF lead
    <3> QED
      BY <1>1, <1>2, <3>1, <3>2, BreakMeets
  <2>2. CASE prev \notin DOMAIN in.subqueries
    BY <1>1, <1>2, <2>2, SpaceMeets
  <2> QED
    BY <2>1, <2>2
<1>a. 1 # 2
  OBVIOUS
<1> HIDE DEF lead, text
<1>7. b' = b \o lead \o text \o <<>>
  <2>1. b \o lead \o text \in Seq(Piece)
    BY <1>2, <1>4, Joined, Zenon
  <2> QED
    BY <1>1, <2>1, ConcatEmptySeq
<1>8. <<>> # <<>> => suppressSpace' /\ i \in BreaksAfter(in)
  OBVIOUS
<1>9. Len(text) = 2 => hint' # 0
  BY <1>a, <1>5, Zenon
<1>10. Separated' /\ Ended'
  BY <1>1, <1>2, <1>3, <1>4, <1>5, <1>6, <1>7, <1>8, <1>9, ShapeWrite, Zenon
<1> QED
  BY <1>10 DEF Shape

\* A step of the printer that writes token i outside a hint, after a space or a
\* line break, and before a line break only if the token asks for it.
LEMMA ShapeStep ==
  ASSUME Inv, Shape, hint = 0, in' = in,
         NEW lead \in Seq(Piece), NEW text, text \in {<<Upper(i)>>, <<Tok(i, FALSE)>>},
         NEW trail \in Seq(Piece),
         Write(lead, text, trail),
         LeadShape(lead),
         lead = Space \/ (lead # <<>> /\ prev \notin BreaksAfter(in)) \/ (lead = <<>> /\ Meets(<<>>)),
         trail = <<>> \/ \E x : trail = <<Nl(x)>>,
         trail # <<>> => i \in BreaksAfter(in)
  PROVE  Shape'
<1>1. Separated /\ Ended
  BY DEF Shape
<1>2. Meets(lead)
  BY <1>1, SpaceMeets, BreakMeets, Zenon
<1>3. text \in Seq(Piece)
  BY Around, Zenon
<1>4. TextShape(text, trail)
  BY Shapes, Zenon
<1>5. 1 # 2
  OBVIOUS
<1>6. Len(text) = 1
  BY Shapes, Zenon
<1>7. Len(text) = 2 => hint' # 0
  BY <1>5, <1>6, Zenon
<1>8. Separated' /\ Ended'
  BY <1>1, <1>2, <1>3, <1>4, <1>7, ShapeOfWrite, Zenon
<1> QED
  BY <1>8 DEF Shape

\* The pieces around a token, one at a time.
LEMMA Leads ==
  ASSUME Inv
  PROVE  /\ <<>> \in Seq(Piece) /\ Space \in Seq(Piece)
         /\ \A x \in Int : <<Nl(x)>> \in Seq(Piece)
         /\ \A x \in Int : <<Nl(0), Nl(x)>> \in Seq(Piece)
         /\ \A x : <<Nl(x)>> # <<>>
         /\ \A x, y : <<Nl(x), Nl(y)>> # <<>>
         /\ sc.clauseIndent \in Int /\ BodyIndent(sc) \in Int /\ CondIndent(sc) \in Int
<1>1. 0 \in Int
  OBVIOUS
<1> QED
  BY <1>1, Around, ScopeIndents

LEMMA ShapeCloseSubquery == Inv /\ Shape /\ CloseSubquery => Shape'
<1> SUFFICES ASSUME Inv, Shape, CloseSubquery PROVE Shape'
  OBVIOUS
<1> DEFINE indent == sc.clauseIndent - 2
<1>1. /\ hint = 0 /\ in' = in /\ Role = "closeSubquery"
      /\ Write(<<Nl(indent)>>, <<Tok(i, FALSE)>>, <<>>)
  BY DEF CloseSubquery, At
<1>2. indent \in Int
  BY Leads
<1> HIDE DEF indent
<1>3. i = sc.close
  BY <1>1, Roles, Facts
<1>4. prev \notin BreaksAfter(in)
  BY <1>3, Closers2, AfterBreak DEF Shape, Ended
<1> QED
  BY <1>1, <1>2, <1>4, Leads, Shapes, ShapeStep, Zenon

LEMMA ShapeOpenCondGroup == Inv /\ Shape /\ OpenCondGroup /\ Inv' => Shape'
<1> SUFFICES ASSUME Inv, Shape, OpenCondGroup, Inv' PROVE Shape'
  OBVIOUS
<1> DEFINE indent == CondIndent(sc')
<1>1. /\ hint = 0 /\ in' = in /\ Role = "openCondGroup"
      /\ Write(Space, <<Tok(i, FALSE)>>, <<Nl(indent)>>)
  BY DEF OpenCondGroup, At
<1>2. indent \in Int
  BY ScopeIndents DEF Inv, TypeOK
<1> HIDE DEF indent
<1>3. i \in BreaksAfter(in)
  BY <1>1, Roles, Facts DEF BreaksAfter
<1> QED
  BY <1>1, <1>2, <1>3, Leads, Shapes, ShapeStep, Zenon

LEMMA ShapeCloseCondGroup == Inv /\ Shape /\ CloseCondGroup /\ Inv' => Shape'
<1> SUFFICES ASSUME Inv, Shape, CloseCondGroup, Inv' PROVE Shape'
  OBVIOUS
<1> DEFINE indent == CondIndent(sc')
<1>1. /\ hint = 0 /\ in' = in /\ Role = "closeCondGroup"
      /\ Write(<<Nl(indent)>>, <<Tok(i, FALSE)>>, <<>>)
  BY DEF CloseCondGroup, At
<1>2. indent \in Int
  BY ScopeIndents DEF Inv, TypeOK
<1> HIDE DEF indent
<1>3. sc.condGroups # <<>> /\ i = Top(sc.condGroups)
  BY <1>1, Roles, Facts
<1>4. prev \notin BreaksAfter(in)
  BY <1>3, Closers2, AfterBreak DEF Shape, Ended
<1> QED
  BY <1>1, <1>2, <1>4, Leads, Shapes, ShapeStep, Zenon

LEMMA ShapeOpenCase == Inv /\ Shape /\ OpenCase => Shape'
<1> SUFFICES ASSUME Inv, Shape, OpenCase PROVE Shape'
  OBVIOUS
<1> DEFINE nested == sc.cases # <<>>
           indent == IF nested THEN CaseIndent + 4 ELSE CondIndent(sc)
           lead == IF nested THEN <<Nl(indent)>> ELSE Space
<1>1. hint = 0 /\ in' = in /\ Write(lead, <<Upper(i)>>, <<>>)
  BY DEF OpenCase, At
<1>2. nested => indent \in Int
  BY CaseIndents
<1>3. nested => prev \notin BreaksAfter(in)
  BY AfterBreak DEF Shape, Ended
<1> HIDE DEF indent
<1>4. lead \in Seq(Piece) /\ LeadShape(lead)
  BY <1>2, Leads, Shapes, Zenon
<1>5. lead = Space \/ (lead # <<>> /\ prev \notin BreaksAfter(in))
  BY <1>3, Leads, Zenon
<1> HIDE DEF lead
<1> QED
  BY <1>1, <1>4, <1>5, Leads, ShapeStep, Zenon

LEMMA ShapeCaseBranch == Inv /\ Shape /\ CaseBranch => Shape'
<1> SUFFICES ASSUME Inv, Shape, CaseBranch PROVE Shape'
  OBVIOUS
<1> DEFINE indent == CaseIndent + 2
<1>1. /\ hint = 0 /\ in' = in /\ Role \in {"when", "else"}
      /\ Write(<<Nl(indent)>>, <<Upper(i)>>, <<>>)
  BY DEF CaseBranch, At
<1>2. indent \in Int
  BY CaseIndents DEF CaseBranch
<1> HIDE DEF indent
<1>3. prev \notin BreaksAfter(in)
  BY AfterBreak DEF Shape, Ended, CaseBranch
<1> QED
  BY <1>1, <1>2, <1>3, Leads, Shapes, ShapeStep, Zenon

LEMMA ShapeCloseCase == Inv /\ Shape /\ CloseCase => Shape'
<1> SUFFICES ASSUME Inv, Shape, CloseCase PROVE Shape'
  OBVIOUS
<1>1. /\ hint = 0 /\ in' = in /\ Write(<<Nl(CaseIndent)>>, <<Upper(i)>>, <<>>)
  BY DEF CloseCase, At
<1>2. CaseIndent \in Int
  BY CaseIndents DEF CloseCase
<1>3. prev \notin BreaksAfter(in)
  BY AfterBreak DEF Shape, Ended, CloseCase
<1> QED
  BY <1>1, <1>2, <1>3, Leads, Shapes, ShapeStep, Zenon

LEMMA ShapeListSep == Inv /\ Shape /\ ListSep => Shape'
<1> SUFFICES ASSUME Inv, Shape, ListSep PROVE Shape'
  OBVIOUS
<1> DEFINE indent == IF in.listSeps[i] = "cte" THEN sc.clauseIndent ELSE BodyIndent(sc)
<1>1. /\ hint = 0 /\ in' = in /\ Role = "listSep"
      /\ Write(<<>>, <<Tok(i, FALSE)>>, <<Nl(indent)>>)
  BY DEF ListSep, At
<1>2. indent \in Int
  BY Leads, Zenon
<1> HIDE DEF indent
<1>3. i \in DOMAIN in.listSeps
  <2>1. /\ Role # "hint" /\ Role # "openSubquery" /\ Role # "openCondGroup" /\ Role # "closeSubquery"
        /\ Role # "closeCondGroup"  /\ Role # "condOp" /\ Role # "plain"
        /\ Role \notin {"case", "when", "else", "end"}
    BY <1>1
  <2>2. i \in DOMAIN in.cases => in.cases[i] \in {"case", "when", "else", "end"}
    BY Facts DEF LayoutType, Range
  <2> QED
    BY <1>1, <2>2 DEF Role
<1>4. in.kind[i] \in Symbol /\ i \in BreaksAfter(in)
  BY <1>3, Facts DEF WellFormed, SymbolsPlaced, BreaksAfter
<1>5. Meets(<<>>)
  BY <1>4 DEF Meets
<1> QED
  BY <1>1, <1>2, <1>4, <1>5, Leads, Shapes, ShapeStep, Zenon

LEMMA ShapeCondOp == Inv /\ Shape /\ CondOp => Shape'
<1> SUFFICES ASSUME Inv, Shape, CondOp PROVE Shape'
  OBVIOUS
<1>1. /\ hint = 0 /\ in' = in /\ Role = "condOp" /\ Write(<<Nl(CondIndent(sc))>>, <<Upper(i)>>, <<>>)
  BY DEF CondOp, At
<1>2. i \in in.condOps
  <2>1. i \in DOMAIN in.cases => in.cases[i] \in {"case", "when", "else", "end"}
    BY Facts DEF LayoutType, Range
  <2> QED
    BY <1>1, <2>1 DEF Role
<1>3. prev \notin BreaksAfter(in)
  BY <1>2, AfterBreak DEF Shape, Ended
<1> QED
  BY <1>1, <1>3, Leads, Shapes, ShapeStep, Zenon

LEMMA ShapePlain == Inv /\ Shape /\ Plain => Shape'
<1> SUFFICES ASSUME Inv, Shape, Plain PROVE Shape'
  OBVIOUS
<1> DEFINE starting == i \in DOMAIN in.clauseStarts
           setOp == starting /\ in.clauseStarts[i] = "setop"
           lead == IF ~starting THEN Space
                   ELSE IF setOp THEN <<Nl(0), Nl(sc.clauseIndent)>>
                   ELSE IF b # <<>> THEN <<Nl(sc.clauseIndent)>>
                   ELSE <<>>
           block == i \in DOMAIN in.clauseEnds /\ in.clauseEnds[i] = "block"
           trail == IF block THEN <<Nl(BodyIndent(sc))>> ELSE <<>>
<1>1. hint = 0 /\ in' = in /\ Write(lead, <<Upper(i)>>, trail)
  BY DEF Plain, At
<1>2. starting => prev \notin BreaksAfter(in)
  BY AfterBreak DEF Shape, Ended
<1>3. block => i \in BreaksAfter(in)
  BY DEF BreaksAfter, BodyBreaks
<1>4. setOp => SetOp(i)
  BY DEF SetOp
<1>5. b = <<>> => Meets(<<>>)
  BY DEF Meets
<1> HIDE DEF starting, setOp, block
<1>6. lead \in Seq(Piece) /\ LeadShape(lead)
  BY <1>4, Leads, Shapes, Zenon
<1>7. lead = Space \/ (lead # <<>> /\ prev \notin BreaksAfter(in)) \/ (lead = <<>> /\ Meets(<<>>))
  BY <1>2, <1>5, Leads, Zenon
<1>8. trail \in Seq(Piece) /\ (trail = <<>> \/ \E x : trail = <<Nl(x)>>)
  BY Leads, Zenon
<1>9. trail # <<>> => i \in BreaksAfter(in)
  BY <1>3, Zenon
<1> HIDE DEF lead, trail
<1> QED
  BY <1>1, <1>6, <1>7, <1>8, <1>9, ShapeStep, Zenon

LEMMA NextShape == Inv /\ Shape /\ [Token]_vars /\ Inv' => Shape'
<1>1. Inv /\ Shape /\ UNCHANGED vars => Shape'
  BY DEF vars, Shape, Separated, Ended, LastPiece, BlankLine
<1> QED
  BY <1>1, ShapeStartHint, ShapeHintToken, ShapeOpenSubquery, ShapeCloseSubquery, ShapeOpenCondGroup,
     ShapeCloseCondGroup, ShapeOpenCase, ShapeCaseBranch, ShapeCloseCase, ShapeListSep, ShapeCondOp,
     ShapePlain, Zenon DEF Token

\* In the output of the printer no two words run together, no space is next to a
\* line break, and the only blank lines are those before set operators (space and
\* newline in formatter.go).
THEOREM Spec_Separated == Spec => []Separated
<1>1. Init => Shape
  BY DEF Init, Start, Shape, Separated, Ended
<1>2. Shape => Separated
  BY DEF Shape
<1> QED
  BY <1>1, <1>2, SpecInv, NextShape, PTL DEF Spec

-----------------------------------------------------------------------------
(* The indentation of a line: that of the last line break. *)

NoBreak(s) == \A m \in 1..Len(s) : ~ BreaksLine(s[m])

\* The indentation of the line that piece starts.
LineOf(piece) == IF piece.k = "nl" THEN piece.v ELSE piece.last

LEMMA LastBreak ==
  ASSUME NEW out \in Seq(Piece), NEW m \in 1..Len(out), BreaksLine(out[m]),
         \A x \in (m + 1)..Len(out) : ~ BreaksLine(out[x])
  PROVE  LineIndent(out) = LineOf(out[m])
<1> DEFINE breaks == {x \in 1..Len(out) : BreaksLine(out[x])}
<1>1. Len(out) \in Nat /\ m \in breaks
  OBVIOUS
<1>2. \A x \in breaks : x \in Nat /\ x <= m
  BY <1>1
<1>3. \A y \in breaks : (\A x \in breaks : x <= y) => y = m
  <2> TAKE y \in breaks
  <2>1. y \in Nat /\ y <= m
    BY <1>2
  <2> HIDE DEF breaks
  <2> QED
    BY <1>1, <2>1
<1>4. LastBreakAt(out) = IF breaks = {} THEN 0 ELSE CHOOSE y \in breaks : \A x \in breaks : x <= y
  BY DEF LastBreakAt
<1> HIDE DEF breaks
<1>5. LastBreakAt(out) = m
  <2>1. breaks # {} /\ \E y \in breaks : \A x \in breaks : x <= y
    BY <1>1, <1>2
  <2> QED
    BY <1>3, <1>4, <2>1, Zenon
<1>6. m # 0
  OBVIOUS
<1> QED
  BY <1>5, <1>6, Zenon DEF LineIndent, LineOf

LEMMA NoLineBreak ==
  ASSUME NEW out \in Seq(Piece), NoBreak(out)
  PROVE  LineIndent(out) = 0
<1>1. {m \in 1..Len(out) : BreaksLine(out[m])} = {}
  BY DEF NoBreak
<1>2. LastBreakAt(out) = 0
  BY <1>1 DEF LastBreakAt
<1> QED
  BY <1>2 DEF LineIndent

LEMMA HasLastBreak ==
  ASSUME NEW out \in Seq(Piece), ~ NoBreak(out)
  PROVE  \E m \in 1..Len(out) : BreaksLine(out[m]) /\ \A x \in (m + 1)..Len(out) : ~ BreaksLine(out[x])
<1> DEFINE breaks == {m \in 1..Len(out) : BreaksLine(out[m])}
<1>1. Len(out) \in Nat /\ (\A m \in breaks : m \in 1..Len(out)) /\ breaks # {}
  BY DEF NoBreak
<1>2. \E m \in breaks : \A x \in breaks : x <= m
  <2> HIDE DEF breaks
  <2> QED
    BY <1>1, GreatestNatural
<1>3. PICK m \in breaks : \A x \in breaks : x <= m
  BY <1>2
<1>4. m \in 1..Len(out) /\ BreaksLine(out[m])
  OBVIOUS
<1>5. ASSUME NEW x \in (m + 1)..Len(out) PROVE ~ BreaksLine(out[x])
  <2>1. x \in 1..Len(out) /\ ~(x <= m)
    BY <1>1, <1>4
  <2> QED
    BY <1>3, <2>1
<1> QED
  BY <1>4, <1>5

LEMMA LineKept ==
  ASSUME NEW out \in Seq(Piece), NEW more \in Seq(Piece), NoBreak(more)
  PROVE  LineIndent(out \o more) = LineIndent(out)
<1> DEFINE all == out \o more
<1>1. /\ all \in Seq(Piece) /\ Len(all) = Len(out) + Len(more) /\ Len(out) \in Nat /\ Len(more) \in Nat
      /\ \A m \in 1..(Len(out) + Len(more)) : all[m] = IF m <= Len(out) THEN out[m] ELSE more[m - Len(out)]
  BY Joined
<1> HIDE DEF all
<1>2. \A m \in 1..Len(out) : m \in 1..Len(all) /\ all[m] = out[m]
  BY <1>1
<1>3. \A m \in (Len(out) + 1)..Len(all) : ~ BreaksLine(all[m])
  <2> TAKE m \in (Len(out) + 1)..Len(all)
  <2>1. m - Len(out) \in 1..Len(more) /\ all[m] = more[m - Len(out)]
    BY <1>1
  <2> QED
    BY <2>1 DEF NoBreak
<1>4. CASE NoBreak(out)
  <2>1. \A m \in 1..Len(all) : m \in 1..Len(out) \/ m \in (Len(out) + 1)..Len(all)
    BY <1>1
  <2>2. NoBreak(all)
    BY <1>2, <1>3, <1>4, <2>1 DEF NoBreak
  <2> QED
    BY <1>1, <1>4, <2>2, NoLineBreak DEF all
<1>5. CASE ~ NoBreak(out)
  <2>1. PICK m \in 1..Len(out) : BreaksLine(out[m]) /\ \A x \in (m + 1)..Len(out) : ~ BreaksLine(out[x])
    BY <1>5, HasLastBreak
  <2>2. LineIndent(out) = LineOf(out[m])
    BY <2>1, LastBreak
  <2>3. m \in 1..Len(all) /\ all[m] = out[m]
    BY <1>2
  <2>4. ASSUME NEW x \in (m + 1)..Len(all) PROVE ~ BreaksLine(all[x])
    <3>1. CASE x \in (m + 1)..Len(out)
      <4>1. x \in 1..Len(out)
        BY <1>1, <3>1
      <4> QED
        BY <1>2, <2>1, <3>1, <4>1
    <3>2. CASE x \in (Len(out) + 1)..Len(all)
      BY <1>3, <3>2
    <3> QED
      BY <1>1, <3>1, <3>2
  <2>5. LineIndent(all) = LineOf(all[m])
    BY <1>1, <2>1, <2>3, <2>4, LastBreak
  <2> QED
    BY <2>2, <2>3, <2>5 DEF all
<1> QED
  BY <1>4, <1>5

LEMMA LineNew ==
  ASSUME NEW out \in Seq(Piece), NEW more \in Seq(Piece), NEW m \in 1..Len(more), BreaksLine(more[m]),
         \A x \in (m + 1)..Len(more) : ~ BreaksLine(more[x])
  PROVE  LineIndent(out \o more) = LineOf(more[m])
<1> DEFINE all == out \o more
<1>1. /\ all \in Seq(Piece) /\ Len(all) = Len(out) + Len(more) /\ Len(out) \in Nat /\ Len(more) \in Nat
      /\ \A x \in 1..(Len(out) + Len(more)) : all[x] = IF x <= Len(out) THEN out[x] ELSE more[x - Len(out)]
  BY Joined
<1> HIDE DEF all
<1>2. /\ Len(out) + m \in 1..Len(all) /\ all[Len(out) + m] = more[m]
  <2>1. Len(out) + m \in (Len(out) + 1)..Len(all) /\ Len(out) + m \in 1..Len(all)
    BY <1>1
  <2>2. Len(out) + m - Len(out) = m
    BY <1>1
  <2>3. all[Len(out) + m] = more[Len(out) + m - Len(out)]
    BY <1>1, <2>1
  <2> QED
    BY <2>1, <2>2, <2>3
<1>3. ASSUME NEW x \in (Len(out) + m + 1)..Len(all) PROVE ~ BreaksLine(all[x])
  <2>1. x - Len(out) \in (m + 1)..Len(more) /\ all[x] = more[x - Len(out)]
    BY <1>1
  <2> QED
    BY <2>1
<1>4. LineIndent(all) = LineOf(all[Len(out) + m])
  BY <1>1, <1>2, <1>3, LastBreak
<1> QED
  BY <1>2, <1>4 DEF all

LEMMA PrefixKept ==
  ASSUME NEW out \in Seq(Piece), NEW more \in Seq(Piece), NEW n \in 0..Len(out)
  PROVE  SubSeq(out \o more, 1, n) = SubSeq(out, 1, n)
<1> DEFINE all == out \o more
<1>1. /\ all \in Seq(Piece) /\ Len(all) = Len(out) + Len(more) /\ Len(out) \in Nat /\ Len(more) \in Nat
      /\ \A x \in 1..(Len(out) + Len(more)) : all[x] = IF x <= Len(out) THEN out[x] ELSE more[x - Len(out)]
  BY Joined
<1> HIDE DEF all
<1>2. n \in Int /\ 1 \in Int
  OBVIOUS
<1>3. \A x \in 1..n : x \in 1..Len(out) /\ all[x] = out[x] /\ out[x] \in Piece /\ all[x] \in Piece
  <2> TAKE x \in 1..n
  <2>1. x \in 1..Len(out) /\ x \in 1..(Len(out) + Len(more)) /\ x <= Len(out)
    BY <1>1
  <2>2. all[x] = out[x] /\ out[x] \in Piece
    BY <1>1, <2>1
  <2> QED
    BY <2>1, <2>2
<1> DEFINE s == SubSeq(out, 1, n)
           t == SubSeq(all, 1, n)
<1> HIDE DEF s, t
<1>9. (\A x \in 1..n : out[x] \in Piece) /\ (\A x \in 1..n : all[x] \in Piece)
  BY <1>3
<1>4. s \in Seq(Piece) /\ Len(s) = (IF 1 <= n THEN n - 1 + 1 ELSE 0) /\ \A x \in 1..(n - 1 + 1) : s[x] = out[1 + x - 1]
  BY <1>2, <1>9, SubSeqProperties DEF s
<1>5. t \in Seq(Piece) /\ Len(t) = (IF 1 <= n THEN n - 1 + 1 ELSE 0) /\ \A x \in 1..(n - 1 + 1) : t[x] = all[1 + x - 1]
  BY <1>2, <1>9, SubSeqProperties DEF t
<1>6. Len(s) = Len(t) /\ Len(s) = n
  BY <1>4, <1>5
<1>7. ASSUME NEW x \in 1..Len(s) PROVE s[x] = t[x]
  <2>1. x \in 1..n /\ x \in 1..(n - 1 + 1) /\ 1 + x - 1 = x
    BY <1>6
  <2>2. s[x] = out[x] /\ t[x] = all[x]
    BY <1>4, <1>5, <2>1
  <2> QED
    BY <1>3, <2>1, <2>2
<1>8. s = t
  BY <1>4, <1>5, <1>6, <1>7, SeqEqual, Zenon
<1> QED
  BY <1>8 DEF s, t, all

-----------------------------------------------------------------------------
(***************************************************************************)
(* A step that writes a token: the lines of the tokens before it stay what *)
(* they were, the token stands on a line with indentation x, and what is   *)
(* next on one with indentation y.  The line after the text of the token   *)
(* has indentation z: x, unless the token is a literal with line breaks.   *)
(***************************************************************************)
Lead(lead, x) == (lead \in {<<>>, <<Sp>>} /\ x = LineIndent(b)) \/ lead = <<Nl(x)>> \/ lead = <<Nl(0), Nl(x)>>
Text(text, x, z) ==
  \/ NoBreak(text) /\ z = x
  \/ /\ Len(text) > 0 /\ BreaksLine(text[1]) /\ LineOf(text[1]) = z
     /\ \A m \in 2..Len(text) : ~ BreaksLine(text[m])
Trail(trail, z, y) == (trail = <<>> /\ y = z) \/ trail = <<Nl(y)>>

Wrote(here, x, y) ==
  /\ \A k \in 1..(here - 1) : IndentAt(k)' = IndentAt(k) /\ StartsLine(k)' = StartsLine(k)
  /\ IndentAt(here)' = x
  /\ LineIndent(b)' = y

\* The pieces that break no line.
LEMMA Blankness == NoBreak(<<>>) /\ NoBreak(<<Sp>>) /\ ~ BreaksLine(Sp)
<1>1. ~ BreaksLine(Sp)
  BY DEF Sp, BreaksLine
<1>2. Len(<<Sp>>) = 1 /\ <<Sp>>[1] = Sp /\ Len(<<>>) = 0
  OBVIOUS
<1> QED
  BY <1>1, <1>2 DEF NoBreak

LEMMA LeadLine ==
  ASSUME b \in Seq(Piece), NEW lead \in Seq(Piece), NEW x, Lead(lead, x)
  PROVE  /\ LineIndent(b \o lead) = x
         /\ Len(lead) > 1 \/ (Len(lead) = 1 /\ lead[1].k = "nl") => (b \o lead)[Len(b \o lead)].k = "nl"
<1>1. /\ Len(b) \in Nat /\ Len(lead) \in Nat /\ b \o lead \in Seq(Piece) /\ Len(b \o lead) = Len(b) + Len(lead)
      /\ \A m \in 1..(Len(b) + Len(lead)) : (b \o lead)[m] = IF m <= Len(b) THEN b[m] ELSE lead[m - Len(b)]
  BY Joined
<1>2. CASE lead \in {<<>>, <<Sp>>} /\ x = LineIndent(b)
  <2>1. NoBreak(lead)
    BY <1>2, Blankness
  <2>2. Len(lead) <= 1 /\ (Len(lead) = 1 => lead[1].k # "nl")
    <3>1. Len(<<>>) = 0 /\ Len(<<Sp>>) = 1 /\ <<Sp>>[1].k # "nl"
      BY DEF Sp
    <3>2. lead = <<>> \/ lead = <<Sp>>
      BY <1>2
    <3>3. CASE lead = <<>>
      BY <3>1, <3>3
    <3>4. CASE lead = <<Sp>>
      BY <3>1, <3>4
    <3> QED
      BY <3>2, <3>3, <3>4
  <2> QED
    BY <1>1, <1>2, <2>1, <2>2, LineKept
<1>3. ASSUME NEW m, m = Len(lead), m \in 1..Len(lead), lead[m].k = "nl", lead[m].v = x
      PROVE  LineIndent(b \o lead) = x /\ (b \o lead)[Len(b \o lead)].k = "nl"
  <2>1. \A z \in (m + 1)..Len(lead) : ~ BreaksLine(lead[z])
    BY <1>1, <1>3
  <2>2. BreaksLine(lead[m]) /\ LineOf(lead[m]) = lead[m].v
    BY <1>3 DEF BreaksLine, LineOf
  <2>4. LineIndent(b \o lead) = lead[m].v
    BY <1>3, <2>1, <2>2, LineNew
  <2>3. (b \o lead)[Len(b) + Len(lead)] = lead[m]
    BY <1>1, <1>3
  <2> QED
    BY <1>1, <1>3, <2>3, <2>4
<1>4. CASE lead = <<Nl(x)>>
  <2>1. Len(lead) = 1 /\ lead[1].k = "nl" /\ lead[1].v = x
    BY <1>4 DEF Nl
  <2> QED
    BY <1>3, <2>1
<1>5. CASE lead = <<Nl(0), Nl(x)>>
  <2>1. Len(lead) = 2 /\ lead[2].k = "nl" /\ lead[2].v = x
    BY <1>5 DEF Nl
  <2> QED
    BY <1>3, <2>1
<1> QED
  BY <1>2, <1>4, <1>5 DEF Lead

Regrouped(u, v, w) == (u \o v) \o w = u \o (v \o w)

LEMMA Regroup ==
  ASSUME NEW S, NEW u \in Seq(S), NEW v \in Seq(S), NEW w \in Seq(S)
  PROVE  Regrouped(u, v, w)
BY ConcatAssociative DEF Regrouped

LEMMA WroteLines ==
  ASSUME TypeOK, WrittenOnce, i <= in.n,
         NEW lead \in Seq(Piece), NEW text \in Seq(Piece), NEW trail \in Seq(Piece),
         b' = b \o lead \o text \o trail, in' = in,
         starts' = [starts EXCEPT ![i] = Len(b) + Len(lead)],
         NEW x, NEW y, NEW z, Lead(lead, x), Text(text, x, z), Trail(trail, z, y),
         NEW here, here = i
  PROVE  /\ Wrote(here, x, y)
         /\ Len(lead) > 1 \/ (Len(lead) = 1 /\ lead[1].k = "nl") => StartsLine(here)'
<1> DEFINE head == b \o lead
           rest == text \o trail
<1>1. /\ b \in Seq(Piece) /\ Len(b) \in Nat /\ Len(lead) \in Nat /\ i \in 1..in.n /\ in.n \in Nat
      /\ starts \in [1..in.n -> Nat]
  BY DEF TypeOK, LayoutType
<1>2. head \in Seq(Piece) /\ Len(head) = Len(b) + Len(lead) /\ rest \in Seq(Piece)
  BY Joined, <1>1
<1>3. Regrouped(head, text, trail) /\ Regrouped(b, lead, rest)
  BY <1>1, <1>2, Regroup
<1>4. b' = head \o rest
  BY <1>3 DEF Regrouped
<1>13. b' = b \o (lead \o rest) /\ lead \o rest \in Seq(Piece)
  <2>1. b' = b \o (lead \o rest)
    BY <1>3, <1>4 DEF Regrouped
  <2>2. lead \o rest \in Seq(Piece)
    BY <1>2, Joined
  <2> QED
    BY <2>1, <2>2
<1>5. LineIndent(head) = x /\ (Len(lead) > 1 \/ (Len(lead) = 1 /\ lead[1].k = "nl") => head[Len(head)].k = "nl")
  BY <1>1, LeadLine
<1>6. LineIndent(head \o text) = z /\ head \o text \in Seq(Piece)
  <2>1. head \o text \in Seq(Piece)
    BY <1>2, Joined
  <2>2. CASE NoBreak(text) /\ z = x
    BY <1>2, <1>5, <2>1, <2>2, LineKept
  <2>3. CASE /\ Len(text) > 0 /\ BreaksLine(text[1]) /\ LineOf(text[1]) = z
             /\ \A m \in 2..Len(text) : ~ BreaksLine(text[m])
    <3>1. 1 \in 1..Len(text) /\ \A m \in (1 + 1)..Len(text) : ~ BreaksLine(text[m])
      BY <2>3
    <3> HIDE DEF head
    <3> QED
      BY <1>2, <2>1, <2>3, <3>1, LineNew
  <2> QED
    BY <2>2, <2>3 DEF Text
<1> HIDE DEF head, rest
<1>7. ASSUME NEW k \in 1..(here - 1) PROVE IndentAt(k)' = IndentAt(k) /\ StartsLine(k)' = StartsLine(k)
  <2>1. k \in 1..(i - 1) /\ k \in 1..in.n /\ k # i
    BY <1>1
  <2>2. starts'[k] = starts[k] /\ starts[k] \in Nat /\ starts[k] <= Len(b)
    <3>1. starts[k] < ends[k] /\ ends[k] <= Len(b)
      BY <2>1 DEF WrittenOnce
    <3>2. starts[k] \in Nat /\ ends[k] \in Nat
      BY <2>1 DEF TypeOK
    <3>3. starts'[k] = starts[k]
      BY <1>1, <2>1
    <3> QED
      BY <1>1, <3>1, <3>2, <3>3
  <2>3. starts[k] \in 0..Len(b)
    BY <1>1, <2>2
  <2>4. SubSeq(b', 1, starts[k]) = SubSeq(b, 1, starts[k])
    BY <1>1, <1>13, <2>3, PrefixKept
  <2>5. IndentAt(k)' = IndentAt(k)
    BY <2>2, <2>4 DEF IndentAt
  <2>6. starts[k] > 0 => b'[starts[k]] = b[starts[k]]
    BY <1>1, <1>13, <2>2, Joined
  <2> QED
    BY <2>2, <2>5, <2>6 DEF StartsLine
<1>8. starts'[here] = Len(head) /\ Len(head) \in Nat
  BY <1>1, <1>2
<1>9. SubSeq(b', 1, Len(head)) = head
  <2>1. Len(head) \in 0..Len(head)
    BY <1>8
  <2> QED
    BY <1>2, <1>4, <2>1, PrefixKept, SubSeqFull
<1>10. IndentAt(here)' = x
  BY <1>5, <1>8, <1>9 DEF IndentAt
<1>11. LineIndent(b)' = y
  <2>1. CASE trail = <<>> /\ y = z
    <3>1. b' = head \o text
      BY <1>6, <2>1, ConcatEmptySeq DEF head
    <3> QED
      BY <1>6, <2>1, <3>1
  <2>2. CASE trail = <<Nl(y)>>
    <3>1. Len(trail) = 1 /\ BreaksLine(trail[1]) /\ LineOf(trail[1]) = y
      BY <2>2 DEF Nl, BreaksLine, LineOf
    <3>2. \A m \in (1 + 1)..Len(trail) : ~ BreaksLine(trail[m])
      BY <3>1
    <3>3. LineIndent((head \o text) \o trail) = y
      <4> DEFINE most == head \o text
      <4>1. most \in Seq(Piece) /\ 1 \in 1..Len(trail)
        BY <1>6, <3>1
      <4> HIDE DEF most
      <4>2. LineIndent(most \o trail) = LineOf(trail[1])
        BY <3>1, <3>2, <4>1, LineNew
      <4> QED
        BY <3>1, <4>2 DEF most
    <3> QED
      BY <3>1, <3>3 DEF head
  <2> QED
    BY <2>1, <2>2 DEF Trail
<1>12. Len(lead) > 0 /\ head[Len(head)].k = "nl" => StartsLine(here)'
  <2> SUFFICES ASSUME head[Len(head)].k = "nl", Len(lead) > 0 PROVE StartsLine(here)'
    OBVIOUS
  <2>1. Len(head) > 0 /\ b'[Len(head)] = head[Len(head)]
    BY <1>1, <1>2, <1>4, Joined
  <2> QED
    BY <1>8, <2>1 DEF StartsLine
<1>14. Wrote(here, x, y)
  BY <1>7, <1>10, <1>11 DEF Wrote
<1>15. Len(lead) > 1 \/ (Len(lead) = 1 /\ lead[1].k = "nl") => StartsLine(here)'
  BY <1>1, <1>5, <1>12
<1> QED
  BY <1>14, <1>15
-----------------------------------------------------------------------------
(* Scopes of tokens, and the bodies of clauses. *)

LEMMA SameOpen ==
  ASSUME NEW x, NEW j, NEW k
  PROVE  SameScope(x, j, k) <=>
           \A q \in DOMAIN x.subqueries : OpenAt(x.subqueries, q, j) <=> OpenAt(x.subqueries, q, k)
BY DEF SameScope, OpenAt

LEMMA ScopeNext ==
  ASSUME NEW x, WellFormed(x), NEW p \in Nat, ~ EndOf(x.subqueries, p), NEW j
  PROVE  SameScope(x, j, p) <=> SameScope(x, j, p + 1)
<1>1. Ordered(x.subqueries)
  BY Parts
<1>2. \A q \in DOMAIN x.subqueries : OpenAt(x.subqueries, q, p) <=> OpenAt(x.subqueries, q, p + 1)
  BY <1>1 DEF OpenAt, Ordered, EndOf
<1> QED
  BY <1>2, SameOpen, Zenon

\* After a subquery comes a token of the scope it was opened in.
LEMMA ScopeOver ==
  ASSUME NEW x, WellFormed(x), NEW o \in DOMAIN x.subqueries, NEW j
  PROVE  SameScope(x, j, o) <=> SameScope(x, j, x.subqueries[o] + 1)
<1> DEFINE f == x.subqueries
<1>1. Ordered(f) /\ Laminar(f)
  BY Parts
<1>2. \A q \in DOMAIN f : OpenAt(f, q, o) <=> OpenAt(f, q, f[o] + 1)
  <2> HIDE DEF f
  <2> TAKE q \in DOMAIN f
  <2>1. q \in Nat /\ f[q] \in Nat /\ q < f[q] /\ o \in Nat /\ f[o] \in Nat /\ o < f[o]
    BY <1>1 DEF Ordered, f
  <2>2. CASE q = o
    BY <2>1, <2>2 DEF OpenAt
  <2>3. CASE q # o
    <3>1. Apart(o, f[o], q, f[q])
      BY <1>1, <2>3 DEF Laminar, f
    <3> QED
      BY <2>1, <3>1 DEF OpenAt, Apart
  <2> QED
    BY <2>2, <2>3
<1> QED
  BY <1>2, SameOpen, Zenon

LEMMA BodyBreaksNat ==
  ASSUME NEW x, WellFormed(x)
  PROVE  /\ \A j \in BodyBreaks(x) : j \in Nat /\ j \notin DOMAIN x.subqueries
         /\ \A j \in DOMAIN x.clauseStarts \cup DOMAIN x.listSeps : j \in Nat
<1>1. x.n \in Nat /\ ClauseTokens(x) \cup DOMAIN x.listSeps \subseteq 1..x.n
  BY DEF WellFormed, LayoutType, ClauseTokens
<1>2. ASSUME NEW j \in BodyBreaks(x) PROVE j \in Nat /\ j \notin DOMAIN x.subqueries
  <2>1. j \in BreaksAfter(x) /\ j \in ClauseTokens(x) \cup DOMAIN x.listSeps
    BY DEF BreaksAfter, BodyBreaks, ClauseTokens
  <2> QED
    BY <1>1, <2>1, BreakRoles DEF EndsOf
<1> QED
  BY <1>1, <1>2 DEF ClauseTokens

\* Where a token that is no bracket of a subquery leaves the body it is in.
LEMMA BodyNext ==
  ASSUME NEW x, WellFormed(x), NEW p \in Nat, ~ EndOf(x.subqueries, p), InBody(x, p + 1)
  PROVE  \/ p \in BodyBreaks(x)
         \/ InBody(x, p) /\ p \notin DOMAIN x.clauseStarts /\ p \notin DOMAIN x.listSeps \ BodyBreaks(x)
<1> DEFINE leaving == DOMAIN x.clauseStarts \cup (DOMAIN x.listSeps \ BodyBreaks(x))
<1>1. PICK j \in BodyBreaks(x) :
        /\ j < p + 1 /\ SameScope(x, j, p + 1)
        /\ \A c \in leaving : j < c /\ c < p + 1 => ~SameScope(x, c, p + 1)
  BY DEF InBody
<1>2. j \in Nat /\ \A c \in leaving : c \in Nat
  BY BodyBreaksNat
<1> SUFFICES ASSUME p \notin BodyBreaks(x)
             PROVE  InBody(x, p) /\ p \notin leaving
  OBVIOUS
<1>3. j < p /\ SameScope(x, j, p)
  BY <1>1, <1>2, ScopeNext
<1>4. SameScope(x, p, p + 1)
  <2>1. SameScope(x, p, p)
    BY DEF SameScope
  <2> QED
    BY <2>1, ScopeNext
<1>5. p \notin leaving
  <2>1. p < p + 1
    OBVIOUS
  <2> QED
    BY <1>1, <1>3, <1>4, <2>1, Zenon
<1>6. ASSUME NEW c \in leaving, j < c, c < p PROVE ~SameScope(x, c, p)
  <2>1. c < p + 1
    BY <1>2, <1>6
  <2>2. ~SameScope(x, c, p + 1)
    BY <1>1, <1>6, <2>1, Zenon
  <2> QED
    BY <2>2, ScopeNext
<1>7. InBody(x, p)
  BY <1>3, <1>6 DEF InBody
<1> QED
  BY <1>5, <1>7

LEMMA BodyOver ==
  ASSUME NEW x, WellFormed(x), NEW o \in DOMAIN x.subqueries, InBody(x, x.subqueries[o] + 1)
  PROVE  InBody(x, o)
<1> DEFINE leaving == DOMAIN x.clauseStarts \cup (DOMAIN x.listSeps \ BodyBreaks(x))
           e == x.subqueries[o]
<1>1. PICK j \in BodyBreaks(x) :
        /\ j < e + 1 /\ SameScope(x, j, e + 1)
        /\ \A c \in leaving : j < c /\ c < e + 1 => ~SameScope(x, c, e + 1)
  BY DEF InBody
<1>2. j \in Nat /\ j # o /\ (\A c \in leaving : c \in Nat) /\ o \in Nat /\ e \in Nat /\ o < e
  BY BodyBreaksNat, Parts DEF Ordered
<1>3. SameScope(x, j, o)
  BY <1>1, ScopeOver
<1>4. j < o
  <2>1. ~(o < j /\ j <= e)
    BY <1>2, <1>3 DEF SameScope
  <2> HIDE DEF e
  <2> QED
    BY <1>1, <1>2, <2>1
<1>5. ASSUME NEW c \in leaving, j < c, c < o PROVE ~SameScope(x, c, o)
  <2>1. c < e + 1
    <3> HIDE DEF e, leaving
    <3> QED
      BY <1>2, <1>5
  <2>2. ~SameScope(x, c, e + 1)
    BY <1>1, <1>5, <2>1, Zenon
  <2> QED
    BY <2>2, ScopeOver
<1> QED
  BY <1>3, <1>4, <1>5 DEF InBody

\* A scope starts outside a body.
LEMMA BodyNone ==
  ASSUME NEW x, WellFormed(x), NEW o \in DOMAIN x.subqueries
  PROVE  ~ InBody(x, o + 1)
<1> SUFFICES ASSUME NEW j \in BodyBreaks(x), j < o + 1, SameScope(x, j, o + 1)
             PROVE  FALSE
  BY DEF InBody
<1>1. j \in Nat /\ o \in Nat /\ x.subqueries[o] \in Nat /\ o < x.subqueries[o]
  BY BodyBreaksNat, Parts DEF Ordered
<1>2. o < j
  BY <1>1 DEF SameScope
<1> QED
  BY <1>1, <1>2

\* A token in the body of a clause, with no literal on the line before it.
Settled(x, p) == InBody(x, p) /\ OnOwnLine(x, p)

LEMMA StartLinesNat ==
  ASSUME NEW x, WellFormed(x)
  PROVE  /\ \A c \in StartLines(x) : c \in Nat /\ c \notin DOMAIN x.subqueries
         /\ \A j \in DOMAIN x.lastLine : j \in Nat /\ j \notin DOMAIN x.subqueries
<1>1. /\ x.n \in Nat /\ x.condOps \subseteq 1..x.n /\ DOMAIN x.lastLine \subseteq 1..x.n
      /\ DOMAIN x.lastLine \cap EndsOf(x.subqueries) = {}
  BY DEF WellFormed, LayoutType, LiteralsPlaced
<1>2. ASSUME NEW c \in x.condOps PROVE c \in Nat /\ c \notin DOMAIN x.subqueries
  BY <1>1, OneRoleEach DEF EndsOf
<1>3. ASSUME NEW c \in EndsOf(x.condGroups) PROVE c \in Nat /\ c \notin DOMAIN x.subqueries
  <2>1. EndOf(x.condGroups, c)
    BY EndsAre
  <2>2. Ordered(x.condGroups) /\ Ordered(x.subqueries) /\ Separate(x.subqueries, x.condGroups)
    BY Parts
  <2>3. ~ EndOf(x.subqueries, c)
    BY <2>1, <2>2, NoSharedEnd
  <2> QED
    BY <2>1, <2>2, <2>3 DEF EndOf, Ordered
<1>4. \A j \in DOMAIN x.lastLine : j \in Nat /\ j \notin DOMAIN x.subqueries
  BY <1>1 DEF EndsOf
<1> QED
  BY <1>2, <1>3, <1>4, BodyBreaksNat DEF StartLines

\* Where a token that is no bracket of a subquery settles.
LEMMA SettledNext ==
  ASSUME NEW x, WellFormed(x), NEW p \in Nat, ~ EndOf(x.subqueries, p), Settled(x, p + 1)
  PROVE  \/ p \in StartLines(x)
         \/ /\ Settled(x, p) /\ p \notin DOMAIN x.lastLine
            /\ p \notin DOMAIN x.clauseStarts /\ p \notin DOMAIN x.listSeps \ BodyBreaks(x)
<1> SUFFICES ASSUME p \notin StartLines(x)
             PROVE  /\ Settled(x, p) /\ p \notin DOMAIN x.lastLine
                    /\ p \notin DOMAIN x.clauseStarts /\ p \notin DOMAIN x.listSeps \ BodyBreaks(x)
  OBVIOUS
<1>1. /\ InBody(x, p) /\ p \notin DOMAIN x.clauseStarts /\ p \notin DOMAIN x.listSeps \ BodyBreaks(x)
  BY BodyNext DEF Settled, StartLines
<1>2. /\ \A c \in StartLines(x) : c \in Nat
      /\ \A j \in DOMAIN x.lastLine : j \in Nat
  BY StartLinesNat
<1>3. SameScope(x, p, p + 1)
  <2>1. SameScope(x, p, p)
    BY DEF SameScope
  <2> QED
    BY <2>1, ScopeNext
<1>4. p \notin DOMAIN x.lastLine
  <2> SUFFICES ASSUME p \in DOMAIN x.lastLine PROVE FALSE
    OBVIOUS
  <2>1. PICK c \in StartLines(x) : p < c /\ c < p + 1
    <3>1. p < p + 1
      OBVIOUS
    <3> QED
      BY <1>3, <3>1 DEF Settled, OnOwnLine
  <2> QED
    BY <1>2, <2>1
<1>5. ASSUME NEW j \in DOMAIN x.lastLine, j < p, SameScope(x, j, p)
      PROVE  \E c \in StartLines(x) : j < c /\ c < p /\ SameScope(x, c, p)
  <2>1. j < p + 1
    BY <1>2, <1>5
  <2>2. SameScope(x, j, p + 1)
    BY <1>5, ScopeNext
  <2>3. PICK c \in StartLines(x) : j < c /\ c < p + 1 /\ SameScope(x, c, p + 1)
    BY <2>1, <2>2 DEF Settled, OnOwnLine
  <2>4. c < p
    BY <1>2, <2>3
  <2>5. SameScope(x, c, p)
    BY <2>3, ScopeNext
  <2> QED
    BY <2>3, <2>4, <2>5
<1>6. OnOwnLine(x, p)
  BY <1>5 DEF OnOwnLine
<1> QED
  BY <1>1, <1>4, <1>6 DEF Settled

\* After a subquery the line is the one it was opened on.
LEMMA SettledOver ==
  ASSUME NEW x, WellFormed(x), NEW o \in DOMAIN x.subqueries, Settled(x, x.subqueries[o] + 1)
  PROVE  Settled(x, o)
<1> DEFINE e == x.subqueries[o]
<1>1. /\ \A c \in StartLines(x) : c \in Nat /\ c # o
      /\ \A j \in DOMAIN x.lastLine : j \in Nat
      /\ o \in Nat /\ e \in Nat /\ o < e
  BY StartLinesNat, Parts DEF Ordered
<1>2. InBody(x, o)
  BY BodyOver DEF Settled
<1>3. OnOwnLine(x, o)
  <2> SUFFICES ASSUME NEW j \in DOMAIN x.lastLine, j < o, SameScope(x, j, o)
               PROVE  \E c \in StartLines(x) : j < c /\ c < o /\ SameScope(x, c, o)
    BY DEF OnOwnLine
  <2>1. j < e + 1
    <3> HIDE DEF e
    <3> QED
      BY <1>1
  <2>2. SameScope(x, j, e + 1)
    BY ScopeOver
  <2>3. PICK c \in StartLines(x) : j < c /\ c < e + 1 /\ SameScope(x, c, e + 1)
    BY <2>1, <2>2 DEF Settled, OnOwnLine
  <2>4. SameScope(x, c, o)
    BY <2>3, ScopeOver
  <2>5. c < o
    <3>1. ~(o < c /\ c <= e)
      BY <1>1, <2>4 DEF SameScope
    <3> HIDE DEF e
    <3> QED
      BY <1>1, <2>3, <3>1
  <2> QED
    BY <2>3, <2>4, <2>5
<1> QED
  BY <1>2, <1>3 DEF Settled
-----------------------------------------------------------------------------
(***************************************************************************)
(* The lines of a scope s of the statement x, when the next token is p and *)
(* stands on a line with indentation line: in the body of a clause that is *)
(* the indentation of the open groups, and the open groups and CASEs know  *)
(* the lines they were opened on, if no literal moved those lines.  D[k]   *)
(* is the indentation of the line of token k.                              *)
(***************************************************************************)
CaseSteps(s) == \A m \in 1..Len(s.cases) : s.cases[m] = CondIndent(s) + 4 * (m - 1)

\* The line of token k is the indentation line, if no literal moved it.
On(x, D, k, line) == OnOwnLine(x, k) => D[k] = line

CaseOpener(x, D, end, p, line) ==
  \E o \in DOMAIN x.caseEnd : x.caseEnd[o] = end /\ o < p /\ On(x, D, o, line)

CaseLines(x, D, s, p) ==
  \A m \in 1..Len(s.cases) :
    \E o \in DOMAIN x.caseEnd : o < p /\ x.caseEnd[o] = s.caseEnds[m] /\ On(x, D, o, s.cases[m])

GroupLines(x, D, s, p) ==
  \A m \in 1..Len(s.condGroups) :
    \E o \in DOMAIN x.condGroups :
      o < p /\ x.condGroups[o] = s.condGroups[m] /\ On(x, D, o, BodyIndent(s) + 2 * (m - 1))

ScopeLine(x, D, s, p, line) ==
  /\ CaseSteps(s) /\ CaseLines(x, D, s, p) /\ GroupLines(x, D, s, p)
  /\ s.cases = <<>> /\ Settled(x, p) => line = CondIndent(s)

\* The lines of earlier tokens are all it depends on.
LEMMA LinesLater ==
  ASSUME NEW x, WellFormed(x), NEW D, NEW E, NEW s, NEW p \in Nat, NEW r \in Nat, p <= r,
         CaseLines(x, D, s, p), GroupLines(x, D, s, p),
         \A k \in 1..(p - 1) : E[k] = D[k]
  PROVE  CaseLines(x, E, s, r) /\ GroupLines(x, E, s, r)
<1>1. /\ \A o \in DOMAIN x.caseEnd : o \in Nat \ {0}
      /\ \A o \in DOMAIN x.condGroups : o \in Nat \ {0}
  <2>1. SpansOf(x.caseEnd) \subseteq Spans(x) /\ SpansOf(x.condGroups) \subseteq Spans(x)
    BY DEF Spans
  <2>2. /\ \A o \in DOMAIN x.caseEnd : o \in 1..x.n
        /\ \A o \in DOMAIN x.condGroups : o \in 1..x.n
    BY <2>1, SpansApart
  <2>3. x.n \in Nat
    BY Parts
  <2> QED
    BY <2>2, <2>3
<1>2. /\ \A o \in DOMAIN x.caseEnd : o < p => o < r /\ E[o] = D[o]
      /\ \A o \in DOMAIN x.condGroups : o < p => o < r /\ E[o] = D[o]
  BY <1>1
<1>3. CaseLines(x, E, s, r)
  <2> SUFFICES ASSUME NEW m \in 1..Len(s.cases)
               PROVE  \E o \in DOMAIN x.caseEnd : o < r /\ x.caseEnd[o] = s.caseEnds[m] /\ On(x, E, o, s.cases[m])
    BY DEF CaseLines
  <2>1. PICK o \in DOMAIN x.caseEnd : o < p /\ x.caseEnd[o] = s.caseEnds[m] /\ On(x, D, o, s.cases[m])
    BY DEF CaseLines
  <2>2. o < r /\ On(x, E, o, s.cases[m])
    BY <1>2, <2>1 DEF On
  <2> QED
    BY <2>1, <2>2
<1>4. GroupLines(x, E, s, r)
  <2> SUFFICES ASSUME NEW m \in 1..Len(s.condGroups)
               PROVE  \E o \in DOMAIN x.condGroups :
                        o < r /\ x.condGroups[o] = s.condGroups[m] /\ On(x, E, o, BodyIndent(s) + 2 * (m - 1))
    BY DEF GroupLines
  <2>1. PICK o \in DOMAIN x.condGroups :
          o < p /\ x.condGroups[o] = s.condGroups[m] /\ On(x, D, o, BodyIndent(s) + 2 * (m - 1))
    BY DEF GroupLines
  <2>2. o < r /\ On(x, E, o, BodyIndent(s) + 2 * (m - 1))
    BY <1>2, <2>1 DEF On
  <2> QED
    BY <2>1, <2>2
<1> QED
  BY <1>3, <1>4

LEMMA ScopeLineKept ==
  ASSUME NEW x, WellFormed(x), NEW D, NEW E, NEW s, NEW p \in Nat, NEW line,
         ScopeLine(x, D, s, p, line),
         \A k \in 1..(p - 1) : E[k] = D[k],
         NEW r \in Nat, p <= r, NEW y, s.cases = <<>> /\ Settled(x, r) => y = CondIndent(s)
  PROVE  ScopeLine(x, E, s, r, y)
<1>1. CaseLines(x, E, s, r) /\ GroupLines(x, E, s, r)
  BY LinesLater DEF ScopeLine
<1> QED
  BY <1>1 DEF ScopeLine

\* The scope t is s with other stacks.
SameBut(t, s, groups, cases, caseEnds) ==
  /\ t.open = s.open /\ t.close = s.close /\ t.clauseIndent = s.clauseIndent
  /\ t.condGroups = groups /\ t.cases = cases /\ t.caseEnds = caseEnds

LEMMA ScopeLineGroup ==
  ASSUME NEW x, WellFormed(x), NEW D, NEW E, NEW s \in Scopes, NEW p \in Nat, NEW line,
         ScopeLine(x, D, s, p, line), s.cases = <<>>,
         \A k \in 1..(p - 1) : E[k] = D[k],
         p \in DOMAIN x.condGroups, On(x, E, p, CondIndent(s)),
         NEW t, SameBut(t, s, Append(s.condGroups, x.condGroups[p]), s.cases, s.caseEnds)
  PROVE  ScopeLine(x, E, t, p + 1, CondIndent(t))
<1>1. CaseLines(x, E, s, p + 1) /\ GroupLines(x, E, s, p + 1)
  <2>1. p + 1 \in Nat /\ p <= p + 1
    OBVIOUS
  <2> QED
    BY <2>1, LinesLater DEF ScopeLine
<1>2. /\ s.condGroups \in Seq(Nat) /\ s.clauseIndent \in Int /\ x.condGroups[p] \in Nat
      /\ t.cases = s.cases /\ t.caseEnds = s.caseEnds /\ t.clauseIndent = s.clauseIndent
      /\ t.condGroups = Append(s.condGroups, x.condGroups[p])
  BY Parts DEF Scopes, Ordered, SameBut
<1>3. /\ Len(t.condGroups) = Len(s.condGroups) + 1 /\ Len(s.condGroups) \in Nat
      /\ \A m \in 1..Len(s.condGroups) : t.condGroups[m] = s.condGroups[m]
      /\ t.condGroups[Len(s.condGroups) + 1] = x.condGroups[p]
  BY <1>2, AppendProperties
<1>4. BodyIndent(t) = BodyIndent(s)
  BY <1>2 DEF BodyIndent
<1>5. GroupLines(x, E, t, p + 1)
  <2> SUFFICES ASSUME NEW m \in 1..Len(t.condGroups)
               PROVE  \E o \in DOMAIN x.condGroups :
                        o < p + 1 /\ x.condGroups[o] = t.condGroups[m] /\ On(x, E, o, BodyIndent(t) + 2 * (m - 1))
    BY DEF GroupLines
  <2>1. CASE m \in 1..Len(s.condGroups)
    <3>1. PICK o \in DOMAIN x.condGroups :
            o < p + 1 /\ x.condGroups[o] = s.condGroups[m] /\ On(x, E, o, BodyIndent(s) + 2 * (m - 1))
      BY <1>1, <2>1 DEF GroupLines
    <3>2. t.condGroups[m] = s.condGroups[m]
      BY <1>3, <2>1
    <3> QED
      BY <1>4, <3>1, <3>2
  <2>2. CASE m = Len(s.condGroups) + 1
    <3>1. CondIndent(s) = BodyIndent(t) + 2 * (m - 1) /\ p < p + 1
      BY <1>2, <1>3, <1>4, <2>2 DEF CondIndent, BodyIndent
    <3> QED
      BY <1>3, <2>2, <3>1
  <2> QED
    BY <1>3, <2>1, <2>2
<1>6. CaseLines(x, E, t, p + 1) /\ CaseSteps(t)
  BY <1>1, <1>2 DEF CaseLines, CaseSteps, ScopeLine
<1> QED
  BY <1>5, <1>6 DEF ScopeLine

LEMMA ScopeLinePopGroup ==
  ASSUME NEW x, WellFormed(x), NEW D, NEW E, NEW s \in Scopes, NEW p \in Nat, NEW line,
         ScopeLine(x, D, s, p, line), s.cases = <<>>, s.condGroups # <<>>,
         \A k \in 1..(p - 1) : E[k] = D[k],
         NEW t, SameBut(t, s, Pop(s.condGroups), s.cases, s.caseEnds)
  PROVE  /\ ScopeLine(x, E, t, p + 1, CondIndent(t))
         /\ \E o \in DOMAIN x.condGroups :
              x.condGroups[o] = Top(s.condGroups) /\ o < p /\ On(x, E, o, CondIndent(t))
<1>1. CaseLines(x, E, s, p + 1) /\ GroupLines(x, E, s, p + 1) /\ GroupLines(x, E, s, p)
  <2>1. p + 1 \in Nat /\ p <= p + 1 /\ p <= p
    OBVIOUS
  <2> QED
    BY <2>1, LinesLater DEF ScopeLine
<1>2. /\ s.condGroups \in Seq(Nat) /\ s.clauseIndent \in Int
      /\ t.cases = s.cases /\ t.caseEnds = s.caseEnds /\ t.clauseIndent = s.clauseIndent
      /\ t.condGroups = Pop(s.condGroups)
  BY DEF Scopes, SameBut
<1>3. /\ Len(s.condGroups) \in Nat \ {0} /\ Len(t.condGroups) = Len(s.condGroups) - 1
      /\ \A m \in 1..(Len(s.condGroups) - 1) : t.condGroups[m] = s.condGroups[m]
  BY <1>2 DEF Pop
<1>4. BodyIndent(t) = BodyIndent(s)
  BY <1>2 DEF BodyIndent
<1>5. GroupLines(x, E, t, p + 1)
  <2> SUFFICES ASSUME NEW m \in 1..Len(t.condGroups)
               PROVE  \E o \in DOMAIN x.condGroups :
                        o < p + 1 /\ x.condGroups[o] = t.condGroups[m] /\ On(x, E, o, BodyIndent(t) + 2 * (m - 1))
    BY DEF GroupLines
  <2>1. m \in 1..Len(s.condGroups) /\ t.condGroups[m] = s.condGroups[m]
    BY <1>3
  <2> QED
    BY <1>1, <1>4, <2>1 DEF GroupLines
<1>6. CaseLines(x, E, t, p + 1) /\ CaseSteps(t)
  BY <1>1, <1>2 DEF CaseLines, CaseSteps, ScopeLine
<1>7. \E o \in DOMAIN x.condGroups :
        x.condGroups[o] = Top(s.condGroups) /\ o < p /\ On(x, E, o, CondIndent(t))
  <2>1. Len(s.condGroups) \in 1..Len(s.condGroups)
    BY <1>3
  <2>2. PICK o \in DOMAIN x.condGroups :
          /\ o < p /\ x.condGroups[o] = s.condGroups[Len(s.condGroups)]
          /\ On(x, E, o, BodyIndent(s) + 2 * (Len(s.condGroups) - 1))
    BY <1>1, <2>1 DEF GroupLines
  <2>3. On(x, E, o, CondIndent(t))
    BY <1>3, <1>4, <2>2 DEF CondIndent
  <2> QED
    BY <2>2, <2>3 DEF Top
<1> QED
  BY <1>5, <1>6, <1>7 DEF ScopeLine

LEMMA ScopeLineCase ==
  ASSUME NEW x, WellFormed(x), NEW D, NEW E, NEW s \in Scopes, NEW p \in Nat, NEW line,
         ScopeLine(x, D, s, p, line), Len(s.cases) = Len(s.caseEnds),
         \A k \in 1..(p - 1) : E[k] = D[k],
         NEW v \in Int, p \in DOMAIN x.caseEnd, On(x, E, p, v),
         s.cases # <<>> => v = Top(s.cases) + 4, s.cases = <<>> => v = CondIndent(s),
         NEW t, SameBut(t, s, s.condGroups, Append(s.cases, v), Append(s.caseEnds, x.caseEnd[p])),
         NEW y
  PROVE  ScopeLine(x, E, t, p + 1, y)
<1>1. CaseLines(x, E, s, p + 1) /\ GroupLines(x, E, s, p + 1)
  <2>1. p + 1 \in Nat /\ p <= p + 1
    OBVIOUS
  <2> QED
    BY <2>1, LinesLater DEF ScopeLine
<1>2. /\ s.cases \in Seq(Int) /\ s.caseEnds \in Seq(Nat) /\ x.caseEnd[p] \in Nat
      /\ t.condGroups = s.condGroups /\ t.clauseIndent = s.clauseIndent
      /\ t.cases = Append(s.cases, v) /\ t.caseEnds = Append(s.caseEnds, x.caseEnd[p])
  BY Parts DEF Scopes, Ordered, SameBut
<1>3. Len(s.cases) \in Nat
  BY <1>2
<1>4. /\ Len(t.cases) = Len(s.cases) + 1
      /\ \A m \in 1..Len(s.cases) : t.cases[m] = s.cases[m] /\ t.caseEnds[m] = s.caseEnds[m]
      /\ t.cases[Len(s.cases) + 1] = v /\ t.caseEnds[Len(s.cases) + 1] = x.caseEnd[p]
  BY <1>2, <1>3, AppendProperties
<1>5. CondIndent(t) = CondIndent(s) /\ BodyIndent(t) = BodyIndent(s)
  BY <1>2 DEF CondIndent, BodyIndent
<1>6. GroupLines(x, E, t, p + 1)
  BY <1>1, <1>2, <1>5 DEF GroupLines
<1>7. CaseLines(x, E, t, p + 1)
  <2> SUFFICES ASSUME NEW m \in 1..Len(t.cases)
               PROVE  \E o \in DOMAIN x.caseEnd :
                        o < p + 1 /\ x.caseEnd[o] = t.caseEnds[m] /\ On(x, E, o, t.cases[m])
    BY DEF CaseLines
  <2>1. CASE m \in 1..Len(s.cases)
    BY <1>1, <1>4, <2>1 DEF CaseLines
  <2>2. CASE m = Len(s.cases) + 1
    <3>1. p < p + 1
      OBVIOUS
    <3> QED
      BY <1>4, <2>2, <3>1
  <2> QED
    BY <1>3, <1>4, <2>1, <2>2
<1>8. CaseSteps(t) /\ t.cases # <<>>
  <2>1. CondIndent(s) \in Int
    BY ScopeIndents
  <2>2. v = CondIndent(s) + 4 * Len(s.cases)
    <3>1. CASE s.cases = <<>>
      <4>1. Len(s.cases) = 0
        BY <3>1
      <4> QED
        BY <2>1, <3>1, <4>1
    <3>2. CASE s.cases # <<>>
      <4>1. Len(s.cases) \in 1..Len(s.cases)
        BY <1>2, <3>2
      <4>2. Top(s.cases) = CondIndent(s) + 4 * (Len(s.cases) - 1)
        BY <4>1 DEF ScopeLine, CaseSteps, Top
      <4> QED
        BY <1>3, <2>1, <3>2, <4>2
    <3> QED
      BY <3>1, <3>2
  <2>3. ASSUME NEW m \in 1..Len(t.cases) PROVE t.cases[m] = CondIndent(t) + 4 * (m - 1)
    <3>1. CASE m \in 1..Len(s.cases)
      BY <1>4, <1>5, <3>1 DEF ScopeLine, CaseSteps
    <3>2. CASE m = Len(s.cases) + 1
      BY <1>3, <1>4, <1>5, <2>2, <3>2
    <3> QED
      BY <1>3, <1>4, <3>1, <3>2
  <2>4. t.cases # <<>>
    <3>1. Len(t.cases) > 0 /\ Len(<<>>) = 0
      BY <1>3, <1>4
    <3> QED
      BY <3>1
  <2> QED
    BY <2>3, <2>4 DEF CaseSteps
<1> QED
  BY <1>6, <1>7, <1>8 DEF ScopeLine

LEMMA ScopeLinePopCase ==
  ASSUME NEW x, WellFormed(x), NEW D, NEW E, NEW s \in Scopes, NEW p \in Nat, NEW line,
         ScopeLine(x, D, s, p, line), s.cases # <<>>, Len(s.cases) = Len(s.caseEnds),
         \A k \in 1..(p - 1) : E[k] = D[k],
         NEW t, SameBut(t, s, s.condGroups, Pop(s.cases), Pop(s.caseEnds))
  PROVE  ScopeLine(x, E, t, p + 1, Top(s.cases)) /\ CaseOpener(x, E, Top(s.caseEnds), p, Top(s.cases))
<1>1. CaseLines(x, E, s, p + 1) /\ GroupLines(x, E, s, p + 1) /\ CaseLines(x, E, s, p)
  <2>1. p + 1 \in Nat /\ p <= p + 1 /\ p <= p
    OBVIOUS
  <2> QED
    BY <2>1, LinesLater DEF ScopeLine
<1>2. /\ s.cases \in Seq(Int) /\ s.caseEnds \in Seq(Nat)
      /\ t.condGroups = s.condGroups /\ t.clauseIndent = s.clauseIndent
      /\ t.cases = Pop(s.cases) /\ t.caseEnds = Pop(s.caseEnds)
  BY DEF Scopes, SameBut
<1>3. /\ Len(s.cases) \in Nat \ {0} /\ Len(t.cases) = Len(s.cases) - 1 /\ t.cases \in Seq(Int)
      /\ \A m \in 1..(Len(s.cases) - 1) : t.cases[m] = s.cases[m] /\ t.caseEnds[m] = s.caseEnds[m]
  <2>1. Len(s.cases) \in Nat \ {0}
    BY <1>2
  <2>2. \A m \in 1..(Len(s.cases) - 1) : t.cases[m] = s.cases[m] /\ t.caseEnds[m] = s.caseEnds[m]
    BY <1>2, <2>1 DEF Pop
  <2> QED
    BY <1>2, <2>1, <2>2, PopTop
<1>4. CondIndent(t) = CondIndent(s) /\ BodyIndent(t) = BodyIndent(s)
  BY <1>2 DEF CondIndent, BodyIndent
<1>5. GroupLines(x, E, t, p + 1)
  BY <1>1, <1>2, <1>4 DEF GroupLines
<1>6. CaseLines(x, E, t, p + 1)
  <2> SUFFICES ASSUME NEW m \in 1..Len(t.cases)
               PROVE  \E o \in DOMAIN x.caseEnd :
                        o < p + 1 /\ x.caseEnd[o] = t.caseEnds[m] /\ On(x, E, o, t.cases[m])
    BY DEF CaseLines
  <2>1. m \in 1..Len(s.cases) /\ t.cases[m] = s.cases[m] /\ t.caseEnds[m] = s.caseEnds[m]
    BY <1>3
  <2> QED
    BY <1>1, <2>1 DEF CaseLines
<1>7. CaseSteps(t)
  <2> SUFFICES ASSUME NEW m \in 1..Len(t.cases) PROVE t.cases[m] = CondIndent(t) + 4 * (m - 1)
    BY DEF CaseSteps
  <2>1. m \in 1..(Len(s.cases) - 1) /\ m \in 1..Len(s.cases)
    BY <1>3
  <2> QED
    BY <1>3, <1>4, <2>1 DEF ScopeLine, CaseSteps
<1>8. t.cases = <<>> => Top(s.cases) = CondIndent(t)
  <2> HAVE t.cases = <<>>
  <2>1. Len(t.cases) = 0
    OBVIOUS
  <2>2. Len(s.cases) = 1 /\ CondIndent(s) \in Int
    BY <1>3, <2>1, ScopeIndents
  <2>3. s.cases[1] = CondIndent(s) + 4 * (1 - 1)
    BY <2>2 DEF ScopeLine, CaseSteps
  <2> QED
    BY <1>4, <2>2, <2>3 DEF Top
<1>9. CaseOpener(x, E, Top(s.caseEnds), p, Top(s.cases))
  <2>1. Len(s.cases) \in 1..Len(s.cases)
    BY <1>3
  <2> QED
    BY <1>1, <2>1 DEF CaseLines, Top, CaseOpener
<1>10. ScopeLine(x, E, t, p + 1, Top(s.cases))
  BY <1>5, <1>6, <1>7, <1>8 DEF ScopeLine
<1> QED
  BY <1>9, <1>10, Zenon

LEMMA ScopeLineNew ==
  ASSUME NEW x, WellFormed(x), NEW p \in DOMAIN x.subqueries, NEW c, NEW indent, NEW y, NEW E
  PROVE  ScopeLine(x, E, Scope(p, c, indent), p + 1, y)
<1>1. /\ Scope(p, c, indent).cases = <<>> /\ Scope(p, c, indent).condGroups = <<>>
      /\ Len(<<>>) = 0
  BY DEF Scope
<1>2. ~ Settled(x, p + 1)
  BY BodyNone DEF Settled
<1> QED
  BY <1>1, <1>2 DEF ScopeLine, CaseSteps, CaseLines, GroupLines
-----------------------------------------------------------------------------
(* What is open at the token to write. *)

\* The open subqueries are at most the one of the current scope.
LEMMA OpenInScope ==
  ASSUME Inv, NEW q \in DOMAIN in.subqueries, OpenAt(in.subqueries, q, i)
  PROVE  q <= sc.open /\ sc.open \in DOMAIN in.subqueries
<1> DEFINE N == Len(Stack)
<1>1. /\ TypeOK /\ N \in Nat \ {0} /\ ScopesOpen(in.subqueries, Opens, Closes, N, i) /\ WellFormed(in)
  BY Facts
<1>2. Opens[N] = sc.open /\ \A k \in 1..N : Opens[k] \in Nat
  BY <1>1, Current
<1> HIDE DEF N
<1>3. PICK k \in 2..N : Opens[k] = q
  BY <1>1 DEF ScopesOpen
<1>4. k < N => Opens[k] < Opens[N]
  BY <1>1, <1>3 DEF ScopesOpen
<1>5. N \in 2..N /\ Opens[N] \in DOMAIN in.subqueries
  BY <1>1, <1>3 DEF ScopesOpen
<1> QED
  BY <1>1, <1>2, <1>3, <1>4, <1>5

\* A span opened in the current scope has the token to write inside it.
LEMMA SpanWithin ==
  ASSUME Inv, NEW f, Ordered(f), NEW o \in DOMAIN f, OpenAt(f, o, i), sc.open < o, f[o] # i,
         i \notin DOMAIN in.subqueries
  PROVE  Within(in, f, i)
<1>1. WellFormed(in) /\ i \in Nat /\ Ordered(in.subqueries) /\ TypeOK
  BY Facts, Parts
<1>2. o < i /\ i < f[o] /\ o \in Nat /\ f[o] \in Nat
  BY <1>1 DEF OpenAt, Ordered
<1>3. ASSUME NEW q \in DOMAIN in.subqueries, o < q, q <= i, i <= in.subqueries[q] PROVE FALSE
  <2>1. OpenAt(in.subqueries, q, i)
    BY <1>1, <1>3 DEF OpenAt, Ordered
  <2>2. q <= sc.open /\ q \in Nat /\ sc.open \in Nat
    BY <1>1, <2>1, OpenInScope DEF Ordered
  <2> QED
    BY <1>2, <1>3, <2>2
<1> QED
  BY <1>2, <1>3 DEF Within

LEMMA NoCaseOpen ==
  ASSUME Inv, i \in ClauseTokens(in) \cup DOMAIN in.listSeps \cup in.condOps \cup DOMAIN in.condGroups
  PROVE  sc.cases = <<>>
<1> SUFFICES ASSUME sc.cases # <<>> PROVE FALSE
  OBVIOUS
<1>1. WellFormed(in)
  BY Facts
<1>2. PICK o \in DOMAIN in.caseEnd : o < i /\ i <= in.caseEnd[o] /\ sc.open < o
  BY CaseOpen
<1>3. ~ Within(in, in.caseEnd, i)
  BY <1>1 DEF WellFormed, RolesPlaced
<1>4. i \notin DOMAIN in.cases
  BY <1>1, OneRoleEach DEF EndsOf
<1>5. in.caseEnd[o] # i
  BY <1>1, <1>4 DEF WellFormed, CasesNested, Range
<1>6. i \notin DOMAIN in.subqueries
  <2>1. CASE i \in ClauseTokens(in) \cup DOMAIN in.listSeps \cup in.condOps
    BY <1>1, <2>1, OneRoleEach DEF EndsOf
  <2>2. CASE i \in DOMAIN in.condGroups
    <3>1. EndOf(in.condGroups, i)
      BY <2>2 DEF EndOf
    <3>2. ~ (EndOf(in.subqueries, i) /\ EndOf(in.condGroups, i))
      BY <1>1, Parts, NoSharedEnd
    <3> QED
      BY <3>1, <3>2 DEF EndOf
  <2> QED
    BY <2>1, <2>2
<1>7. Ordered(in.caseEnd)
  BY <1>1, Parts
<1>8. OpenAt(in.caseEnd, o, i)
  BY <1>2 DEF OpenAt
<1> QED
  BY <1>2, <1>3, <1>5, <1>6, <1>7, <1>8, SpanWithin

LEMMA NoGroupOpen ==
  ASSUME Inv, i \in ClauseTokens(in) \cup DOMAIN in.listSeps
  PROVE  sc.condGroups = <<>>
<1> SUFFICES ASSUME sc.condGroups # <<>> PROVE FALSE
  OBVIOUS
<1>1. WellFormed(in)
  BY Facts
<1>2. PICK o \in DOMAIN in.condGroups : sc.open < o /\ OpenAt(in.condGroups, o, i)
  BY Closers2
<1>3. ~ Within(in, in.condGroups, i)
  BY <1>1 DEF WellFormed, RolesPlaced
<1>4. i \notin EndsOf(in.subqueries) \cup EndsOf(in.condGroups)
  BY <1>1, OneRoleEach
<1>5. in.condGroups[o] # i /\ i \notin DOMAIN in.subqueries
  BY <1>4 DEF EndsOf, Range
<1>6. Ordered(in.condGroups)
  BY <1>1, Parts
<1> QED
  BY <1>2, <1>3, <1>5, <1>6, SpanWithin

LEMMA CaseIn ==
  ASSUME Inv, Within(in, in.caseEnd, i)
  PROVE  sc.cases # <<>>
<1> DEFINE N == Len(Stack)
<1>1. /\ WellFormed(in) /\ TypeOK /\ N \in Nat \ {0} /\ i \in Nat
      /\ ScopesOpen(in.subqueries, Opens, Closes, N, i)
      /\ Tracked(in.caseEnd, CaseStacks, Opens, N, i)
      /\ \A k \in 1..N : Len(Stack[k].cases) = Len(Stack[k].caseEnds)
      /\ Stack[N] = sc /\ sc \in Scopes
  BY Facts, Levels DEF Stack
<1>2. CaseStacks[N] = sc.caseEnds
  BY <1>1, Current
<1>3. Ordered(in.subqueries) /\ Ordered(in.caseEnd) /\ Laminar(in.caseEnd)
  BY <1>1, Parts
<1>4. PICK o \in DOMAIN in.caseEnd :
        /\ o < i /\ i < in.caseEnd[o]
        /\ \A q \in DOMAIN in.subqueries : ~(o < q /\ q <= i /\ i <= in.subqueries[q])
  BY DEF Within
<1>5. OpenAt(in.caseEnd, o, i)
  BY <1>1, <1>3, <1>4 DEF OpenAt, Ordered
<1> HIDE DEF N
<1>6. CaseStacks[N] # <<>>
  BY <1>1, <1>3, <1>4, <1>5, PartInScope
<1>7. N \in 1..N /\ Len(sc.cases) = Len(sc.caseEnds) /\ sc.caseEnds # <<>>
  BY <1>1, <1>2, <1>6
<1> QED
  BY <1>1, <1>7 DEF Scopes

\* A group is closed when no CASE of its scope is open.
LEMMA NoCaseAtGroupEnd ==
  ASSUME Inv, sc.condGroups # <<>>, i = Top(sc.condGroups)
  PROVE  sc.cases = <<>>
<1> SUFFICES ASSUME sc.cases # <<>> PROVE FALSE
  OBVIOUS
<1>1. WellFormed(in) /\ i \in Nat /\ TypeOK
  BY Facts
<1>2. PICK c \in DOMAIN in.caseEnd :
         /\ c < i /\ i <= in.caseEnd[c] /\ sc.open < c
         /\ \A q \in DOMAIN in.subqueries : OpenAt(in.subqueries, q, i) => q < c
  BY CaseOpen
<1>3. PICK o \in DOMAIN in.condGroups : in.condGroups[o] = i /\ sc.open < o /\ OpenAt(in.condGroups, o, i)
  BY Closers2
<1>4. /\ Ordered(in.subqueries) /\ Ordered(in.condGroups) /\ Ordered(in.caseEnd)
      /\ Separate(in.subqueries, in.condGroups) /\ Separate(in.condGroups, in.caseEnd)
  BY <1>1, Parts
<1>5. /\ c \in Nat /\ o \in Nat /\ o < i /\ in.caseEnd[c] \in Nat
      /\ Apart(o, in.condGroups[o], c, in.caseEnd[c])
  BY <1>3, <1>4 DEF Ordered, Separate
<1>6. c < o /\ o < in.caseEnd[c]
  BY <1>1, <1>2, <1>3, <1>5 DEF Apart
<1>7. ASSUME NEW q \in DOMAIN in.subqueries, c < q, q <= o, o <= in.subqueries[q] PROVE FALSE
  <2>1. q \in Nat /\ in.subqueries[q] \in Nat /\ q < in.subqueries[q]
        /\ Apart(q, in.subqueries[q], o, in.condGroups[o])
    BY <1>4 DEF Ordered, Separate
  <2>2. OpenAt(in.subqueries, q, i)
    BY <1>1, <1>3, <1>5, <1>7, <2>1 DEF Apart, OpenAt
  <2>3. q < c
    BY <1>2, <2>2
  <2> QED
    BY <1>5, <1>7, <2>1, <2>3
<1>8. Within(in, in.caseEnd, o)
  BY <1>6, <1>7 DEF Within
<1> QED
  BY <1>1, <1>8 DEF WellFormed, RolesPlaced
-----------------------------------------------------------------------------
(* The lines of the output. *)

Lines == [k \in 1..in.n |-> IndentAt(k)]
Breaks == {k \in 1..in.n : StartsLine(k)}

\* A step writes token i on a line with indentation x and ends on one with y.
WritesLine(x, y) ==
  /\ in' = in /\ i' = i + 1 /\ i \in 1..in.n
  /\ \A k \in 1..(i - 1) : Lines'[k] = Lines[k] /\ (k \in Breaks' <=> k \in Breaks)
  /\ Lines'[i] = x /\ LineIndent(b') = y

TopLine ==
  /\ ScopeLine(in, Lines, sc, i, LineIndent(b))
  /\ outer # <<>> => sc.clauseIndent = Lines[sc.open] + 2

OuterLines ==
  \A l \in 1..Len(outer) :
    /\ ScopeLine(in, Lines, outer[l], Opens[l + 1], Lines[Opens[l + 1]])
    /\ l > 1 => outer[l].clauseIndent = Lines[Opens[l]] + 2

LineInv == TopLine /\ OuterLines /\ CloseAligned

LEMMA WroteWrites ==
  ASSUME in' = in, i' = i + 1, i \in 1..in.n, in.n \in Nat, NEW here, here = i, NEW x, NEW y, Wrote(here, x, y)
  PROVE  WritesLine(x, y) /\ (StartsLine(here)' => i \in Breaks')
<1>1. \A k \in 1..in.n : Lines'[k] = IndentAt(k)' /\ Lines[k] = IndentAt(k)
  BY DEF Lines
<1>2. \A k \in 1..in.n : (k \in Breaks' <=> StartsLine(k)') /\ (k \in Breaks <=> StartsLine(k))
  BY DEF Breaks
<1>3. \A k \in 1..(i - 1) : Lines'[k] = Lines[k] /\ (k \in Breaks' <=> k \in Breaks)
  <2> TAKE k \in 1..(i - 1)
  <2>1. k \in 1..in.n /\ k \in 1..(here - 1)
    OBVIOUS
  <2>2. IndentAt(k)' = IndentAt(k) /\ (StartsLine(k)' <=> StartsLine(k))
    BY <2>1 DEF Wrote
  <2> QED
    BY <1>1, <1>2, <2>1, <2>2
<1>4. Lines'[i] = x
  <2>1. here \in 1..in.n /\ IndentAt(here)' = x
    BY DEF Wrote
  <2> QED
    BY <1>1, <2>1
<1>5. StartsLine(here)' => i \in Breaks'
  BY <1>2
<1>6. LineIndent(b') = y
  BY DEF Wrote
<1> QED
  BY <1>3, <1>4, <1>5, <1>6 DEF WritesLine

\* The indentation of the line after token i, when the token is on a line with x.
AfterToken(x) == IF i \in DOMAIN in.lastLine THEN in.lastLine[i] ELSE x

LEMMA TokenText ==
  ASSUME LayoutType(in), NEW x, NEW up
  PROVE  Text(<<Tok(i, up)>>, x, AfterToken(x)) /\ Text(<<Tok(i, up), Sp>>, x, AfterToken(x))
<1>1. /\ Tok(i, up).k = "tok"
      /\ Tok(i, up).last = IF i \in DOMAIN in.lastLine THEN in.lastLine[i] ELSE -1
  BY DEF Tok
<1>2. \A k \in DOMAIN in.lastLine : in.lastLine[k] \in Nat
  BY DEF LayoutType, Range
<1>3. PICK piece : piece = Tok(i, up)
  OBVIOUS
<1>4. /\ Len(<<piece>>) = 1 /\ <<piece>>[1] = piece
      /\ Len(<<piece, Sp>>) = 2 /\ <<piece, Sp>>[1] = piece /\ <<piece, Sp>>[2] = Sp
  OBVIOUS
<1>5. CASE i \in DOMAIN in.lastLine
  <2>1. BreaksLine(piece) /\ LineOf(piece) = AfterToken(x)
    BY <1>1, <1>2, <1>3, <1>5 DEF BreaksLine, LineOf, AfterToken
  <2> QED
    BY <1>3, <1>4, <2>1, Blankness DEF Text
<1>6. CASE i \notin DOMAIN in.lastLine
  <2>1. ~ BreaksLine(piece) /\ AfterToken(x) = x
    BY <1>1, <1>3, <1>6 DEF BreaksLine, AfterToken
  <2> QED
    BY <1>3, <1>4, <2>1, Blankness DEF Text, NoBreak
<1> QED
  BY <1>5, <1>6

\* A call of write, or of the writes of openSubquery.
LEMMA LineWrite ==
  ASSUME Inv, WrittenOnce, hint = 0, in' = in, i <= in.n, i' = i + 1,
         NEW lead \in Seq(Piece), NEW text \in Seq(Piece), NEW trail \in Seq(Piece),
         b' = b \o lead \o text \o trail,
         starts' = [starts EXCEPT ![i] = Len(b) + Len(lead)],
         NEW x, NEW y, NEW z, Lead(lead, x), Text(text, x, z), Trail(trail, z, y)
  PROVE  /\ WritesLine(x, y)
         /\ Len(lead) = 1 /\ lead[1].k = "nl" => i \in Breaks'
<1>1. TypeOK /\ i \in 1..in.n /\ in.n \in Nat
  <2>1. i \in 1..(in.n + 1) /\ TypeOK
    BY Facts DEF TypeOK
  <2>2. in.n \in Nat
    BY <2>1 DEF TypeOK, LayoutType
  <2> QED
    BY <2>1, <2>2
<1>2. PICK here : here = i
  OBVIOUS
<1>3. /\ Wrote(here, x, y)
      /\ Len(lead) > 1 \/ (Len(lead) = 1 /\ lead[1].k = "nl") => StartsLine(here)'
  BY <1>1, <1>2, WroteLines
<1> QED
  BY <1>1, <1>2, <1>3, WroteWrites

LEMMA LineOfToken ==
  ASSUME Inv, WrittenOnce, hint = 0, in' = in, i <= in.n,
         NEW lead \in Seq(Piece), NEW text, text \in {<<Upper(i)>>, <<Tok(i, FALSE)>>},
         NEW trail \in Seq(Piece), Write(lead, text, trail),
         NEW x, NEW y, Lead(lead, x), Trail(trail, AfterToken(x), y)
  PROVE  /\ WritesLine(x, y)
         /\ lead = <<Nl(x)>> => i \in Breaks'
<1>1. /\ i' = i + 1 /\ b' = b \o lead \o text \o trail
      /\ starts' = [starts EXCEPT ![i] = Len(b) + Len(lead)]
  BY DEF Write
<1>2. text \in Seq(Piece) /\ Text(text, x, AfterToken(x))
  <2>1. LayoutType(in)
    BY Facts
  <2> QED
    BY <2>1, Around, TokenText, Zenon DEF Upper
<1>3. lead = <<Nl(x)>> => Len(lead) = 1 /\ lead[1].k = "nl"
  BY DEF Nl
<1> QED
  BY <1>1, <1>2, <1>3, LineWrite, Zenon

\* The tokens with a role have no line breaks.
LEMMA OnOneLine ==
  ASSUME Inv, hint = 0, i <= in.n,
         \/ Role \notin {"plain", "hint"}
         \/ i \in ClauseTokens(in)
  PROVE  i \notin DOMAIN in.lastLine
<1>1. /\ DOMAIN in.lastLine
           \cap (EndsOf(in.subqueries) \cup EndsOf(in.condGroups) \cup DOMAIN in.cases
                   \cup DOMAIN in.listSeps \cup in.condOps \cup ClauseTokens(in)) = {}
      /\ LayoutType(in)
  BY Facts DEF WellFormed, LiteralsPlaced
<1>2. CASE i \in ClauseTokens(in)
  BY <1>1, <1>2
<1>3. CASE Role = "closeSubquery"
  <2>1. i = sc.close
    BY <1>1, <1>3, Roles
  <2>2. sc.open \in DOMAIN in.subqueries /\ in.subqueries[sc.open] = i
    BY <1>3, <2>1, AtClose, Closers2
  <2> QED
    BY <1>1, <2>2 DEF EndsOf, Range
<1>4. CASE Role = "closeCondGroup"
  <2>1. sc.condGroups # <<>> /\ i = Top(sc.condGroups)
    BY <1>1, <1>4, Roles
  <2>2. \E o \in DOMAIN in.condGroups : in.condGroups[o] = i
    BY <2>1, Closers2
  <2> QED
    BY <1>1, <2>2 DEF EndsOf, Range
<1>5. CASE Role \notin {"plain", "hint", "closeSubquery", "closeCondGroup"}
  <2>1. i \in DOMAIN in.subqueries \cup DOMAIN in.condGroups \cup DOMAIN in.cases
             \cup DOMAIN in.listSeps \cup in.condOps
    BY <1>5 DEF Role
  <2> QED
    BY <1>1, <2>1 DEF EndsOf
<1> QED
  BY <1>2, <1>3, <1>4, <1>5

LEMMA LineOfWrite ==
  ASSUME Inv, WrittenOnce, hint = 0, in' = in, i <= in.n, Role \notin {"plain", "hint"},
         NEW lead \in Seq(Piece), NEW text, text \in {<<Upper(i)>>, <<Tok(i, FALSE)>>},
         NEW trail \in Seq(Piece), Write(lead, text, trail),
         NEW x, NEW y, Lead(lead, x), Trail(trail, x, y)
  PROVE  /\ WritesLine(x, y)
         /\ lead = <<Nl(x)>> => i \in Breaks'
<1>1. AfterToken(x) = x
  BY OnOneLine DEF AfterToken
<1> QED
  BY <1>1, LineOfToken, Zenon

LEMMA AlignedStep ==
  ASSUME Inv, CloseAligned, NEW x, NEW y, WritesLine(x, y),
         \A s \in Bracketed : s[2] = i => i \in Breaks' /\ (Steady(s) => Lines[s[1]] = x)
  PROVE  CloseAligned'
<1>1. /\ WellFormed(in) /\ in' = in /\ i' = i + 1 /\ i \in 1..in.n /\ in.n \in Nat
      /\ \A k \in 1..(i - 1) : Lines'[k] = Lines[k] /\ (k \in Breaks' <=> k \in Breaks)
      /\ Lines'[i] = x
  BY Facts DEF WritesLine
<1>2. \A s \in Bracketed : s[1] \in 1..in.n /\ s[2] \in 1..in.n /\ s[1] < s[2]
  BY <1>1 DEF WellFormed, PartsNested, Spans, Bracketed
<1>3. Bracketed' = Bracketed
  BY <1>1 DEF Bracketed
<1>4. \A k \in 1..in.n : /\ Lines'[k] = IndentAt(k)' /\ Lines[k] = IndentAt(k)
                         /\ (k \in Breaks' <=> StartsLine(k)') /\ (k \in Breaks <=> StartsLine(k))
  BY <1>1 DEF Lines, Breaks
<1>5. ASSUME NEW s \in Bracketed, s[2] < i + 1
      PROVE  s[2] \in Breaks' /\ (Steady(s) => Lines'[s[2]] = Lines'[s[1]])
  <2>1. s[1] \in 1..in.n /\ s[2] \in 1..in.n /\ s[1] < s[2] /\ s[1] \in 1..(i - 1)
    BY <1>1, <1>2, <1>5
  <2>2. CASE s[2] = i
    BY <1>1, <1>5, <2>1, <2>2
  <2>3. CASE s[2] # i
    <3>1. s[2] \in 1..(i - 1) /\ s[2] < i
      BY <1>1, <1>5, <2>1, <2>3
    <3>2. StartsLine(s[2]) /\ (Steady(s) => IndentAt(s[2]) = IndentAt(s[1]))
      BY <3>1 DEF CloseAligned
    <3>3. s[2] \in Breaks /\ (Steady(s) => Lines[s[2]] = Lines[s[1]])
      BY <1>4, <2>1, <3>2
    <3> QED
      BY <1>1, <2>1, <3>1, <3>3
  <2> QED
    BY <2>2, <2>3
<1>6. ASSUME NEW s \in Bracketed', s[2] < i'
      PROVE  StartsLine(s[2])' /\ (Steady(s)' => IndentAt(s[2])' = IndentAt(s[1])')
  <2>1. s \in Bracketed /\ s[2] < i + 1 /\ (Steady(s)' <=> Steady(s))
    BY <1>1, <1>3, <1>6 DEF Steady
  <2>2. /\ s[1] \in 1..in.n /\ s[2] \in 1..in.n /\ s[2] \in Breaks'
        /\ Steady(s) => Lines'[s[2]] = Lines'[s[1]]
    BY <1>2, <1>5, <2>1
  <2>3. PICK c, o : c = s[2] /\ o = s[1]
    OBVIOUS
  <2>4. StartsLine(c)' /\ (Steady(s) => IndentAt(c)' = IndentAt(o)')
    BY <1>4, <2>2, <2>3
  <2> QED
    BY <2>1, <2>3, <2>4
<1> QED
  BY <1>6 DEF CloseAligned

\* A group or a CASE is steady when its line is.
LEMMA SteadyPart ==
  ASSUME Inv, NEW o \in DOMAIN in.condGroups \cup DOMAIN in.caseEnd, NEW c, Steady(<<o, c>>)
  PROVE  OnOwnLine(in, o)
<1>1. WellFormed(in)
  BY Facts
<1>2. o \notin DOMAIN in.subqueries
  <2>1. EndOf(in.condGroups, o) \/ EndOf(in.caseEnd, o)
    BY DEF EndOf
  <2> QED
    BY <1>1, <2>1, Parts, NoSharedEnd DEF EndOf
<1>3. <<o, c>> \notin SpansOf(in.subqueries)
  BY <1>2 DEF SpansOf
<1>4. <<o, c>>[1] = o
  OBVIOUS
<1> QED
  BY <1>3, <1>4 DEF Steady

LEMMA LineType ==
  ASSUME Inv, WrittenOnce, NEW k \in 1..(i - 1)
  PROVE  Lines[k] \in Int
<1>1. /\ b \in Seq(Piece) /\ i \in 1..(in.n + 1) /\ in.n \in Nat /\ starts \in [1..in.n -> Nat] /\ ends \in [1..in.n -> Nat]
  BY Facts DEF TypeOK
<1>2. k \in 1..in.n
  BY <1>1
<1>3. starts[k] < ends[k] /\ ends[k] <= Len(b)
  BY DEF WrittenOnce
<1>4. starts[k] \in Nat /\ starts[k] <= Len(b)
  BY <1>1, <1>2, <1>3
<1>5. \A m \in 1..starts[k] : b[m] \in Piece
  BY <1>1, <1>4
<1>6. SubSeq(b, 1, starts[k]) \in Seq(Piece)
  BY <1>4, <1>5, SubSeqProperties
<1>7. Lines[k] = LineIndent(SubSeq(b, 1, starts[k]))
  BY <1>2 DEF Lines, IndentAt
<1> QED
  BY <1>6, <1>7, LineIndentType

\* Where the scopes of the stack start.
LEMMA OpensBefore ==
  ASSUME Inv
  PROVE  /\ Len(outer) \in Nat /\ Opens[Len(outer) + 1] = sc.open
         /\ \A k \in 1..(Len(outer) + 1) : Opens[k] \in Nat /\ Opens[k] < i
         /\ \A k \in 2..(Len(outer) + 1) : Opens[k] \in DOMAIN in.subqueries /\ Opens[k] \in 1..(i - 1)
         /\ \A k \in 1..Len(outer) : Opens[k] < Opens[k + 1] /\ outer[k] \in Scopes
<1>1. /\ TypeOK /\ Len(Stack) \in Nat \ {0} /\ Len(Stack) = Len(outer) + 1 /\ i \in Nat \ {0}
      /\ ScopesOpen(in.subqueries, Opens, Closes, Len(Stack), i) /\ Len(outer) \in Nat
      /\ outer \in Seq(Scopes) /\ WellFormed(in)
  BY Facts
<1>2. Opens[Len(outer) + 1] = sc.open /\ \A k \in 1..(Len(outer) + 1) : Opens[k] \in Nat
  BY <1>1, Current
<1> DEFINE N == Len(outer) + 1
<1>3. /\ Opens[1] = 0
      /\ \A k \in 2..N : Opens[k] \in DOMAIN in.subqueries /\ OpenAt(in.subqueries, Opens[k], i)
      /\ \A k, l \in 1..N : k < l => Opens[k] < Opens[l]
  BY <1>1 DEF ScopesOpen
<1>4. Ordered(in.subqueries)
  BY <1>1, Parts
<1>5. ASSUME NEW k \in 1..N PROVE Opens[k] \in Nat /\ Opens[k] < i
  <2>1. CASE k = 1
    BY <1>1, <1>3, <2>1
  <2>2. CASE k # 1
    <3>1. k \in 2..N
      BY <1>1, <2>2
    <3> QED
      BY <1>2, <1>3, <3>1 DEF OpenAt
  <2> QED
    BY <2>1, <2>2
<1>6. ASSUME NEW k \in 1..Len(outer) PROVE Opens[k] < Opens[k + 1] /\ outer[k] \in Scopes
  <2>1. k \in 1..N /\ k + 1 \in 1..N /\ k < k + 1
    BY <1>1
  <2> QED
    BY <1>1, <1>3, <2>1
<1>7. ASSUME NEW k \in 2..N PROVE Opens[k] \in DOMAIN in.subqueries /\ Opens[k] \in 1..(i - 1)
  <2>1. /\ k \in 1..N /\ 1 \in 1..N /\ 1 < k
    BY <1>1
  <2>2. Opens[1] < Opens[k] /\ Opens[k] \in Nat /\ Opens[k] < i
    BY <1>3, <1>5, <2>1
  <2> QED
    BY <1>1, <1>3, <2>2
<1> QED
  BY <1>1, <1>2, <1>5, <1>6, <1>7

LEMMA ScopeOpened ==
  ASSUME Inv, outer # <<>>
  PROVE  sc.open \in 1..(i - 1)
<1>1. Len(outer) # 0
  BY Facts
<1>2. Len(outer) + 1 \in 2..(Len(outer) + 1)
  BY <1>1, OpensBefore
<1> QED
  BY <1>2, OpensBefore

\* The lines of the outer scopes stay what they were.
LEMMA OuterKept ==
  ASSUME Inv, OuterLines, \A k \in 1..(i - 1) : Lines'[k] = Lines[k]
  PROVE  \A l \in 1..Len(outer) :
           /\ ScopeLine(in, Lines', outer[l], Opens[l + 1], Lines'[Opens[l + 1]])
           /\ l > 1 => outer[l].clauseIndent = Lines'[Opens[l]] + 2
<1> TAKE l \in 1..Len(outer)
<1>1. /\ ScopeLine(in, Lines, outer[l], Opens[l + 1], Lines[Opens[l + 1]])
      /\ l > 1 => outer[l].clauseIndent = Lines[Opens[l]] + 2
  BY DEF OuterLines
<1>2. Len(outer) \in Nat /\ l + 1 \in 2..(Len(outer) + 1) /\ (l > 1 => l \in 2..(Len(outer) + 1))
  BY OpensBefore
<1>3. Opens[l + 1] \in 1..(i - 1) /\ (l > 1 => Opens[l] \in 1..(i - 1)) /\ i \in Nat /\ WellFormed(in)
  BY <1>2, OpensBefore, Facts
<1>4. Lines'[Opens[l + 1]] = Lines[Opens[l + 1]] /\ (l > 1 => Lines'[Opens[l]] = Lines[Opens[l]])
  BY <1>3
<1>5. Opens[l + 1] \in Nat /\ Opens[l + 1] <= Opens[l + 1] /\ \A k \in 1..(Opens[l + 1] - 1) : Lines'[k] = Lines[k]
  BY <1>3
<1>6. outer[l].cases = <<>> /\ Settled(in, Opens[l + 1]) => Lines[Opens[l + 1]] = CondIndent(outer[l])
  BY <1>1 DEF ScopeLine
<1>7. ScopeLine(in, Lines', outer[l], Opens[l + 1], Lines[Opens[l + 1]])
  <2>1. PICK o, t, D, E : o = Opens[l + 1] /\ t = outer[l] /\ D = Lines /\ E = Lines'
    OBVIOUS
  <2>2. /\ ScopeLine(in, D, t, o, D[o]) /\ o \in Nat /\ o <= o /\ \A k \in 1..(o - 1) : E[k] = D[k]
        /\ t.cases = <<>> /\ Settled(in, o) => D[o] = CondIndent(t)
    BY <1>1, <1>5, <1>6, <2>1, Zenon
  <2>3. ScopeLine(in, E, t, o, D[o])
    BY <1>3, <2>2, ScopeLineKept
  <2> QED
    BY <2>1, <2>3, Zenon
<1> QED
  BY <1>1, <1>4, <1>7

\* A step that stays in the scope.
LEMMA LineStep ==
  ASSUME Inv, LineInv, NEW x, NEW y, WritesLine(x, y), outer' = outer,
         sc' \in Scopes, sc'.open = sc.open, sc'.close = sc.close, sc'.clauseIndent = sc.clauseIndent,
         ScopeLine(in, Lines', sc', i + 1, y),
         \A s \in Bracketed : s[2] = i => i \in Breaks' /\ (Steady(s) => Lines[s[1]] = x)
  PROVE  LineInv'
<1>1. CloseAligned'
  BY AlignedStep DEF LineInv
<1>2. /\ WellFormed(in) /\ in' = in /\ i' = i + 1 /\ LineIndent(b') = y /\ i \in Nat
      /\ \A k \in 1..(i - 1) : Lines'[k] = Lines[k]
  BY Facts DEF WritesLine
<1>3. /\ Opens' = Opens
  BY SameLevels
<1>4. outer # <<>> => sc.open \in 1..(i - 1)
  BY ScopeOpened
<1>5. TopLine'
  <2>1. outer' # <<>> => sc'.clauseIndent = Lines'[sc'.open] + 2
    BY <1>2, <1>4 DEF LineInv, TopLine
  <2>2. ScopeLine(in', Lines', sc', i', LineIndent(b'))
    BY <1>2
  <2> QED
    BY <2>1, <2>2 DEF TopLine
<1>6. OuterLines'
  BY <1>2, <1>3, OuterKept DEF LineInv, OuterLines
<1> QED
  BY <1>1, <1>5, <1>6 DEF LineInv

\* The same, for a token that is no bracket: the scope is as it was.
LEMMA LineStepPlain ==
  ASSUME Inv, LineInv, NEW x, NEW y, WritesLine(x, y), outer' = outer, sc' = sc,
         ~ EndOf(in.subqueries, i), ~ EndOf(in.condGroups, i), ~ EndOf(in.caseEnd, i),
         sc.cases = <<>> /\ Settled(in, i + 1) => y = CondIndent(sc)
  PROVE  LineInv'
<1>1. /\ WellFormed(in) /\ i \in Nat /\ i + 1 \in Nat /\ i <= i + 1 /\ sc \in Scopes
      /\ \A k \in 1..(i - 1) : Lines'[k] = Lines[k]
  BY Facts DEF WritesLine
<1>2. ScopeLine(in, Lines, sc, i, LineIndent(b))
  BY DEF LineInv, TopLine
<1>3. ScopeLine(in, Lines', sc, i + 1, y)
  BY <1>1, <1>2, ScopeLineKept
<1>4. \A s \in Bracketed : s[2] # i
  BY DEF Bracketed, SpansOf, EndOf
<1> QED
  BY <1>1, <1>3, <1>4, LineStep
-----------------------------------------------------------------------------
(* The steps that stay in the scope. *)

\* The space before a hint leaves the lines as they are.
LEMMA HintStarted ==
  ASSUME Inv, WrittenOnce, StartHint
  PROVE  /\ LineIndent(b') = LineIndent(b) /\ NoBreak(Space) /\ Space \in Seq(Piece)
         /\ \A k \in 1..(i - 1) : IndentAt(k)' = IndentAt(k) /\ StartsLine(k)' = StartsLine(k)
         /\ \A k \in 1..(i - 1) : Lines'[k] = Lines[k] /\ starts[k] \in Nat /\ starts[k] <= Len(b)
<1>1. /\ b' = b \o Space /\ in' = in /\ i' = i /\ starts' = starts
  BY DEF StartHint
<1>2. /\ b \in Seq(Piece) /\ i \in Nat /\ i \in 1..(in.n + 1) /\ in.n \in Nat
      /\ starts \in [1..in.n -> Nat] /\ ends \in [1..in.n -> Nat]
  BY Facts DEF TypeOK
<1>3. Space \in Seq(Piece) /\ NoBreak(Space)
  BY Blankness, Leads, Zenon DEF Space
<1>4. LineIndent(b') = LineIndent(b)
  BY <1>1, <1>2, <1>3, LineKept
<1>5. ASSUME NEW k \in 1..(i - 1)
      PROVE  /\ IndentAt(k)' = IndentAt(k) /\ StartsLine(k)' = StartsLine(k)
             /\ starts[k] \in Nat /\ starts[k] <= Len(b)
  <2>1. k \in 1..in.n
    BY <1>2
  <2>2. starts[k] \in Nat /\ starts[k] <= Len(b)
    <3>1. starts[k] < ends[k] /\ ends[k] <= Len(b)
      BY DEF WrittenOnce
    <3> QED
      BY <1>2, <2>1, <3>1
  <2>3. SubSeq(b', 1, starts[k]) = SubSeq(b, 1, starts[k])
    <3>1. starts[k] \in 0..Len(b)
      BY <1>2, <2>2
    <3> QED
      BY <1>1, <1>2, <1>3, <3>1, PrefixKept
  <2>4. starts[k] > 0 => b'[starts[k]] = b[starts[k]]
    BY <1>1, <1>2, <1>3, <2>2, Joined
  <2> QED
    BY <1>1, <2>2, <2>3, <2>4 DEF IndentAt, StartsLine
<1>6. \A k \in 1..(i - 1) : Lines'[k] = Lines[k]
  BY <1>1, <1>2, <1>5 DEF Lines
<1> QED
  BY <1>3, <1>4, <1>5, <1>6

LEMMA LineStartHint == Inv /\ WrittenOnce /\ LineInv /\ StartHint => LineInv'
<1> SUFFICES ASSUME Inv, WrittenOnce, LineInv, StartHint PROVE LineInv'
  OBVIOUS
<1>1. /\ in' = in /\ i' = i /\ sc' = sc /\ outer' = outer
  BY DEF StartHint
<1>2. /\ TypeOK /\ WellFormed(in) /\ i \in Nat /\ i \in 1..(in.n + 1) /\ in.n \in Nat
      /\ sc \in Scopes /\ outer \in Seq(Scopes)
  BY Facts DEF TypeOK
<1>4. LineIndent(b') = LineIndent(b)
  BY HintStarted
<1>5. ASSUME NEW k \in 1..(i - 1) PROVE IndentAt(k)' = IndentAt(k) /\ StartsLine(k)' = StartsLine(k)
  BY HintStarted
<1>6. \A k \in 1..(i - 1) : Lines'[k] = Lines[k]
  BY HintStarted
<1>7. Opens' = Opens
  BY <1>1 DEF Opens, Stack
<1>8. TopLine'
  <2>1. ScopeLine(in, Lines, sc, i, LineIndent(b)) /\ (outer # <<>> => sc.clauseIndent = Lines[sc.open] + 2)
    BY DEF LineInv, TopLine
  <2>2. i <= i
    BY <1>2
  <2>3. ScopeLine(in, Lines', sc, i, LineIndent(b))
    <3>1. sc.cases = <<>> /\ Settled(in, i) => LineIndent(b) = CondIndent(sc)
      BY <2>1 DEF ScopeLine
    <3> QED
      BY <1>2, <1>6, <2>1, <2>2, <3>1, ScopeLineKept
  <2>4. outer # <<>> => sc.open \in 1..(i - 1)
    BY ScopeOpened
  <2>5. outer # <<>> => sc.clauseIndent = Lines'[sc.open] + 2
    BY <1>6, <2>1, <2>4
  <2> QED
    BY <1>1, <1>4, <2>3, <2>5 DEF TopLine
<1>9. OuterLines'
  BY <1>1, <1>6, <1>7, OuterKept DEF LineInv, OuterLines
<1>10. CloseAligned'
  <2> SUFFICES ASSUME NEW s \in Bracketed, s[2] < i
               PROVE  StartsLine(s[2])' /\ (Steady(s) => IndentAt(s[2])' = IndentAt(s[1])')
    BY <1>1 DEF CloseAligned, Bracketed, Steady
  <2>1. s[1] \in 1..in.n /\ s[2] \in 1..in.n /\ s[1] < s[2]
    BY <1>2 DEF WellFormed, PartsNested, Spans, Bracketed
  <2>2. s[1] \in 1..(i - 1) /\ s[2] \in 1..(i - 1)
    BY <1>2, <2>1
  <2>3. StartsLine(s[2]) /\ (Steady(s) => IndentAt(s[2]) = IndentAt(s[1]))
    BY DEF LineInv, CloseAligned
  <2>4. PICK o, c : o = s[1] /\ c = s[2]
    OBVIOUS
  <2>5. /\ IndentAt(o)' = IndentAt(o) /\ IndentAt(c)' = IndentAt(c) /\ StartsLine(c)' = StartsLine(c)
    BY <1>5, <2>2, <2>4
  <2> QED
    BY <2>3, <2>4, <2>5
<1> QED
  BY <1>8, <1>9, <1>10 DEF LineInv

\* The line the printer is on, where the body of a clause goes on.
LEMMA BodyLine ==
  ASSUME Inv, LineInv, ~ EndOf(in.subqueries, i), sc.cases = <<>>, Settled(in, i + 1), i \notin StartLines(in)
  PROVE  /\ LineIndent(b) = CondIndent(sc) /\ i \notin DOMAIN in.lastLine
         /\ i \notin DOMAIN in.clauseStarts /\ i \notin DOMAIN in.listSeps
<1>1. WellFormed(in) /\ i \in Nat
  BY Facts
<1>2. /\ Settled(in, i) /\ i \notin DOMAIN in.lastLine
      /\ i \notin DOMAIN in.clauseStarts /\ i \notin DOMAIN in.listSeps \ BodyBreaks(in)
  BY <1>1, SettledNext
<1>3. LineIndent(b) = CondIndent(sc)
  BY <1>2 DEF LineInv, TopLine, ScopeLine
<1> QED
  BY <1>2, <1>3 DEF StartLines

\* A token of a hint stays on the line, unless it is a literal with line breaks.
LEMMA HintWritten ==
  ASSUME Inv, WrittenOnce, HintToken
  PROVE  /\ WritesLine(LineIndent(b), AfterToken(LineIndent(b))) /\ i \in HintTokens(in)
         /\ ~ EndOf(in.subqueries, i) /\ ~ EndOf(in.condGroups, i) /\ ~ EndOf(in.caseEnd, i)
<1> DEFINE text == IF in.kind[i] = "," THEN <<Tok(i, FALSE), Sp>> ELSE <<Tok(i, FALSE)>>
<1>1. /\ hint # 0 /\ in' = in
      /\ Write(<<>>, text, <<>>)
  BY DEF HintToken
<1>2. /\ i' = i + 1 /\ b' = b \o <<>> \o text \o <<>>
      /\ starts' = [starts EXCEPT ![i] = Len(b) + Len(<<>>)]
  BY <1>1 DEF Write
<1>3. text \in Seq(Piece) /\ <<>> \in Seq(Piece)
  BY Around, Zenon
<1>4. Text(text, LineIndent(b), AfterToken(LineIndent(b)))
  <2>1. LayoutType(in)
    BY Facts
  <2> QED
    BY <2>1, TokenText, Zenon
<1> HIDE DEF text
<1>5. /\ i <= in.n /\ ~ EndOf(in.subqueries, i) /\ ~ EndOf(in.condGroups, i) /\ ~ EndOf(in.caseEnd, i)
  BY <1>1, InHint
<1>6. /\ WellFormed(in) /\ TypeOK /\ i \in 1..in.n /\ in.n \in Nat
  BY <1>5, Facts
<1>7. Lead(<<>>, LineIndent(b)) /\ \A z : Trail(<<>>, z, z)
  BY DEF Lead, Trail
<1>8. WritesLine(LineIndent(b), AfterToken(LineIndent(b)))
  <2>1. PICK here, x, z : here = i /\ x = LineIndent(b) /\ z = AfterToken(LineIndent(b))
    OBVIOUS
  <2>2. Lead(<<>>, x) /\ Text(text, x, z) /\ Trail(<<>>, z, z)
    BY <1>4, <1>7, <2>1
  <2>3. Wrote(here, x, z)
    BY <1>1, <1>2, <1>3, <1>5, <1>6, <2>1, <2>2, WroteLines, Zenon
  <2>4. WritesLine(x, z)
    BY <1>1, <1>2, <1>6, <2>1, <2>3, WroteWrites
  <2> QED
    BY <2>1, <2>4
<1>9. i \in HintTokens(in)
  <2>1. PICK h \in DOMAIN in.hints : in.hints[h] = hint /\ h <= i /\ i <= hint
    BY <1>1 DEF Inv, HintInv
  <2>2. h \in Nat /\ hint \in Nat
    BY <1>6, <2>1, Parts
  <2>3. i \in h..in.hints[h]
    BY <1>6, <2>1, <2>2
  <2> QED
    BY <2>3 DEF HintTokens
<1> QED
  BY <1>5, <1>8, <1>9

LEMMA LineHintToken == Inv /\ WrittenOnce /\ LineInv /\ HintToken => LineInv'
<1> SUFFICES ASSUME Inv, WrittenOnce, LineInv, HintToken PROVE LineInv'
  OBVIOUS
<1>1. in' = in /\ sc' = sc /\ outer' = outer
  BY DEF HintToken
<1>2. /\ WritesLine(LineIndent(b), AfterToken(LineIndent(b))) /\ i \in HintTokens(in)
      /\ ~ EndOf(in.subqueries, i) /\ ~ EndOf(in.condGroups, i) /\ ~ EndOf(in.caseEnd, i)
  BY HintWritten
<1>3. i \notin StartLines(in)
  BY <1>2, Facts, OneRoleEach DEF StartLines, BodyBreaks, ClauseTokens
<1>4. sc.cases = <<>> /\ Settled(in, i + 1) => AfterToken(LineIndent(b)) = CondIndent(sc)
  BY <1>2, <1>3, BodyLine DEF AfterToken
<1> QED
  BY <1>1, <1>2, <1>4, LineStepPlain

\* The roles that are no bracket.
LEMMA PlainRoles ==
  ASSUME Inv, hint = 0, i <= in.n, Role \in {"when", "else", "listSep", "condOp", "plain"}
  PROVE  /\ ~ EndOf(in.subqueries, i) /\ ~ EndOf(in.condGroups, i) /\ ~ EndOf(in.caseEnd, i)
         /\ Role = "listSep" => i \in DOMAIN in.listSeps
         /\ Role = "condOp" => i \in in.condOps
         /\ Role = "plain" => i \notin DOMAIN in.listSeps /\ i \notin in.condOps
<1>1. Role # "hint" /\ Role \notin {"openSubquery", "closeSubquery", "openCondGroup", "closeCondGroup", "case", "end"}
  OBVIOUS
<1>2. i \in DOMAIN in.cases => in.cases[i] \in {"case", "when", "else", "end"}
  BY Facts DEF LayoutType, Range
<1>3. /\ Role = "listSep" => i \in DOMAIN in.listSeps
      /\ Role = "condOp" => i \in in.condOps
      /\ Role = "plain" => i \notin DOMAIN in.listSeps /\ i \notin in.condOps
  BY <1>1, <1>2 DEF Role
<1> QED
  BY <1>1, <1>3, RoleEnds

LEMMA LineCaseBranch == Inv /\ WrittenOnce /\ LineInv /\ CaseBranch => LineInv'
<1> SUFFICES ASSUME Inv, WrittenOnce, LineInv, CaseBranch PROVE LineInv'
  OBVIOUS
<1> DEFINE x == CaseIndent + 2
<1>1. /\ hint = 0 /\ i <= in.n /\ in' = in /\ sc' = sc /\ outer' = outer /\ Role \in {"when", "else"} /\ sc.cases # <<>>
      /\ Write(<<Nl(x)>>, <<Upper(i)>>, <<>>)
  BY DEF CaseBranch, At
<1>2. x \in Int
  BY <1>1, CaseIndents
<1> HIDE DEF x
<1>3. Lead(<<Nl(x)>>, x) /\ Trail(<<>>, x, x)
  BY DEF Lead, Trail
<1>4. WritesLine(x, x)
  BY <1>1, <1>2, <1>3, Leads, LineOfWrite, Zenon
<1>5. ~ EndOf(in.subqueries, i) /\ ~ EndOf(in.condGroups, i) /\ ~ EndOf(in.caseEnd, i)
  BY <1>1, PlainRoles
<1> QED
  BY <1>1, <1>4, <1>5, LineStepPlain

LEMMA LineListSep == Inv /\ WrittenOnce /\ LineInv /\ ListSep => LineInv'
<1> SUFFICES ASSUME Inv, WrittenOnce, LineInv, ListSep PROVE LineInv'
  OBVIOUS
<1> DEFINE y == IF in.listSeps[i] = "cte" THEN sc.clauseIndent ELSE BodyIndent(sc)
<1>1. /\ hint = 0 /\ i <= in.n /\ in' = in /\ sc' = sc /\ outer' = outer /\ Role = "listSep"
      /\ Write(<<>>, <<Tok(i, FALSE)>>, <<Nl(y)>>)
  BY DEF ListSep, At
<1>2. y \in Int
  BY Leads, Zenon
<1>3. in.listSeps[i] # "cte" => y = BodyIndent(sc)
  OBVIOUS
<1> HIDE DEF y
<1>4. Lead(<<>>, LineIndent(b)) /\ Trail(<<Nl(y)>>, LineIndent(b), y)
  BY DEF Lead, Trail
<1>5. WritesLine(LineIndent(b), y)
  BY <1>1, <1>2, <1>4, Leads, LineOfWrite, Zenon
<1>6. /\ ~ EndOf(in.subqueries, i) /\ ~ EndOf(in.condGroups, i) /\ ~ EndOf(in.caseEnd, i)
      /\ i \in DOMAIN in.listSeps
  BY <1>1, PlainRoles
<1>7. sc.cases = <<>> /\ Settled(in, i + 1) => y = CondIndent(sc)
  <2> HAVE sc.cases = <<>> /\ Settled(in, i + 1)
  <2>1. i \in BodyBreaks(in)
    <3>1. i \in StartLines(in)
      BY <1>6, BodyLine
    <3>2. i \notin in.condOps /\ i \notin EndsOf(in.condGroups)
      BY <1>6, Facts, OneRoleEach
    <3> QED
      BY <3>1, <3>2 DEF StartLines
  <2>2. in.listSeps[i] # "cte"
    <3>1. i \notin DOMAIN in.clauseEnds
      BY <1>6, Facts, OneRoleEach DEF ClauseTokens
    <3> QED
      BY <2>1, <3>1 DEF BodyBreaks
  <2>3. sc.condGroups = <<>>
    BY <1>6, NoGroupOpen
  <2>4. CondIndent(sc) = BodyIndent(sc)
    <3>1. Len(<<>>) = 0 /\ BodyIndent(sc) \in Int
      BY Leads
    <3> QED
      BY <2>3, <3>1 DEF CondIndent
  <2> QED
    BY <1>3, <2>2, <2>4
<1> QED
  BY <1>1, <1>5, <1>6, <1>7, LineStepPlain

LEMMA LineCondOp == Inv /\ WrittenOnce /\ LineInv /\ CondOp => LineInv'
<1> SUFFICES ASSUME Inv, WrittenOnce, LineInv, CondOp PROVE LineInv'
  OBVIOUS
<1> DEFINE x == CondIndent(sc)
<1>1. /\ hint = 0 /\ i <= in.n /\ in' = in /\ sc' = sc /\ outer' = outer /\ Role = "condOp"
      /\ Write(<<Nl(x)>>, <<Upper(i)>>, <<>>)
  BY DEF CondOp, At
<1>2. x \in Int /\ x = CondIndent(sc)
  BY Leads
<1> HIDE DEF x
<1>3. Lead(<<Nl(x)>>, x) /\ Trail(<<>>, x, x)
  BY DEF Lead, Trail
<1>4. WritesLine(x, x)
  BY <1>1, <1>2, <1>3, Leads, LineOfWrite, Zenon
<1>5. ~ EndOf(in.subqueries, i) /\ ~ EndOf(in.condGroups, i) /\ ~ EndOf(in.caseEnd, i)
  BY <1>1, PlainRoles
<1> QED
  BY <1>1, <1>2, <1>4, <1>5, LineStepPlain

LEMMA LinePlain == Inv /\ WrittenOnce /\ LineInv /\ Plain => LineInv'
<1> SUFFICES ASSUME Inv, WrittenOnce, LineInv, Plain PROVE LineInv'
  OBVIOUS
<1> DEFINE starting == i \in DOMAIN in.clauseStarts
           setOp == starting /\ in.clauseStarts[i] = "setop"
           lead == IF ~starting THEN Space
                   ELSE IF setOp THEN <<Nl(0), Nl(sc.clauseIndent)>>
                   ELSE IF b # <<>> THEN <<Nl(sc.clauseIndent)>>
                   ELSE <<>>
           block == i \in DOMAIN in.clauseEnds /\ in.clauseEnds[i] = "block"
           x == IF starting /\ (setOp \/ b # <<>>) THEN sc.clauseIndent ELSE LineIndent(b)
           trail == IF block THEN <<Nl(BodyIndent(sc))>> ELSE <<>>
           y == IF block THEN BodyIndent(sc) ELSE AfterToken(x)
<1>1. /\ hint = 0 /\ i <= in.n /\ in' = in /\ sc' = sc /\ outer' = outer /\ Role = "plain"
      /\ Write(lead, <<Upper(i)>>, trail)
  BY DEF Plain, At
<1>2. /\ ~ EndOf(in.subqueries, i) /\ ~ EndOf(in.condGroups, i) /\ ~ EndOf(in.caseEnd, i)
      /\ i \notin DOMAIN in.listSeps /\ i \notin in.condOps
  BY <1>1, PlainRoles
<1>3. block => i \in ClauseTokens(in)
  BY DEF ClauseTokens
<1>4. i \in StartLines(in) => block
  <2>1. i \in BodyBreaks(in) => block
    BY <1>2 DEF BodyBreaks
  <2>2. i \notin EndsOf(in.condGroups)
    BY <1>2, EndsAre
  <2> QED
    BY <1>2, <2>1, <2>2 DEF StartLines
<1>5. i \notin DOMAIN in.clauseStarts => ~ starting
  OBVIOUS
<1> HIDE DEF starting, setOp, block
<1>6. lead \in Seq(Piece) /\ trail \in Seq(Piece)
  BY Leads, Zenon
<1>7. Lead(lead, x)
  <2>1. Space \in {<<>>, <<Sp>>}
    BY Zenon DEF Space
  <2> QED
    BY <2>1, Zenon DEF Lead, setOp
<1>8. Trail(trail, AfterToken(x), y)
  BY Zenon DEF Trail
<1>9. ~ starting => x = LineIndent(b)
  OBVIOUS
<1>10. /\ block => y = BodyIndent(sc)
       /\ ~ block => y = AfterToken(x)
  OBVIOUS
<1> HIDE DEF lead, trail, x, y
<1>11. WritesLine(x, y)
  BY <1>1, <1>6, <1>7, <1>8, LineOfToken, Zenon
<1>12. sc.cases = <<>> /\ Settled(in, i + 1) => y = CondIndent(sc)
  <2> HAVE sc.cases = <<>> /\ Settled(in, i + 1)
  <2>1. CASE block
    <3>1. sc.condGroups = <<>>
      BY <1>3, <2>1, NoGroupOpen
    <3>2. Len(<<>>) = 0 /\ BodyIndent(sc) \in Int
      BY Leads
    <3> QED
      BY <1>10, <2>1, <3>1, <3>2 DEF CondIndent
  <2>2. CASE ~ block
    <3>1. LineIndent(b) = CondIndent(sc) /\ i \notin DOMAIN in.clauseStarts /\ i \notin DOMAIN in.lastLine
      BY <1>2, <1>4, <2>2, BodyLine
    <3> QED
      BY <1>5, <1>9, <1>10, <2>2, <3>1 DEF AfterToken
  <2> QED
    BY <2>1, <2>2
<1> QED
  BY <1>1, <1>2, <1>11, <1>12, LineStepPlain
-----------------------------------------------------------------------------
(* The steps that open and close a part. *)

\* The ends of two bracketed parts are not shared.
LEMMA OneSpan ==
  ASSUME Inv, NEW s \in Bracketed, NEW t \in Bracketed
  PROVE  s[2] # t[1] /\ (s[2] = t[2] => s[1] = t[1])
<1>1. /\ \A u \in Spans(in) : u[1] \in 1..in.n /\ u[2] \in 1..in.n /\ u[1] < u[2]
      /\ \A u, v \in Spans(in) : Nested(u, v)
  BY Facts DEF WellFormed, PartsNested
<1>2. s \in Spans(in) /\ t \in Spans(in) /\ in.n \in Nat
  BY Facts DEF Spans, Bracketed
<1>3. Nested(s, t) /\ s[1] < s[2] /\ t[1] < t[2] /\ s[1] \in Nat /\ s[2] \in Nat /\ t[1] \in Nat /\ t[2] \in Nat
  BY <1>1, <1>2
<1>4. s = t => s[1] = t[1] /\ s[2] = t[2]
  OBVIOUS
<1> QED
  BY <1>3, <1>4 DEF Nested

LEMMA SpanOf ==
  ASSUME NEW o
  PROVE  /\ o \in DOMAIN in.subqueries => <<o, in.subqueries[o]>> \in Bracketed
         /\ o \in DOMAIN in.condGroups => <<o, in.condGroups[o]>> \in Bracketed
         /\ o \in DOMAIN in.caseEnd => <<o, in.caseEnd[o]>> \in Bracketed
BY DEF Bracketed, SpansOf

\* A token that opens a part closes none; one that closes a part closes no other.
LEMMA Opener ==
  ASSUME Inv, i \in DOMAIN in.subqueries \cup DOMAIN in.condGroups \cup DOMAIN in.caseEnd
  PROVE  \A s \in Bracketed : s[2] # i
<1>1. PICK t \in Bracketed : t[1] = i
  <2>1. \A c : <<i, c>>[1] = i
    OBVIOUS
  <2> QED
    BY <2>1, SpanOf, Zenon
<1> QED
  BY <1>1, OneSpan

LEMMA Closer ==
  ASSUME Inv, NEW o, <<o, i>> \in Bracketed
  PROVE  \A s \in Bracketed : s[2] = i => s[1] = o
<1> TAKE s \in Bracketed
<1>1. PICK t \in Bracketed : t = <<o, i>>
  OBVIOUS
<1>2. t[1] = o /\ t[2] = i
  BY <1>1
<1> QED
  BY <1>2, OneSpan

LEMMA PartClosed ==
  ASSUME Inv, NEW o \in DOMAIN in.condGroups \cup DOMAIN in.caseEnd, <<o, i>> \in Bracketed,
         NEW x, OnOwnLine(in, o) => Lines[o] = x,
         NEW s \in Bracketed, s[2] = i, Steady(s)
  PROVE  Lines[s[1]] = x
<1>1. s[1] = o
  BY Closer
<1>2. s = <<s[1], s[2]>>
  BY DEF Bracketed, SpansOf
<1>3. Steady(<<o, i>>)
  BY <1>1, <1>2
<1> QED
  BY <1>1, <1>3, SteadyPart

LEMMA LineOpenCondGroup == Inv /\ WrittenOnce /\ LineInv /\ OpenCondGroup /\ Inv' => LineInv'
<1> SUFFICES ASSUME Inv, WrittenOnce, LineInv, OpenCondGroup, Inv' PROVE LineInv'
  OBVIOUS
<1> DEFINE x == LineIndent(b)
           y == CondIndent(sc')
<1>1. /\ hint = 0 /\ i <= in.n /\ in' = in /\ outer' = outer /\ Role = "openCondGroup"
      /\ sc' = [sc EXCEPT !.condGroups = Append(@, in.condGroups[i])]
      /\ Write(Space, <<Tok(i, FALSE)>>, <<Nl(y)>>)
  BY DEF OpenCondGroup, At
<1>2. /\ sc \in Scopes /\ sc' \in Scopes /\ WellFormed(in) /\ i \in Nat /\ i \in DOMAIN in.condGroups
  BY <1>1, Facts, Roles DEF Inv, TypeOK
<1>3. SameBut(sc', sc, Append(sc.condGroups, in.condGroups[i]), sc.cases, sc.caseEnds)
  BY <1>1, <1>2 DEF SameBut, Scopes
<1>4. y \in Int
  BY <1>2, ScopeIndents
<1>5. Lead(Space, x) /\ Trail(<<Nl(y)>>, x, y)
  <2>1. Space \in {<<>>, <<Sp>>}
    BY Zenon DEF Space
  <2> QED
    BY <2>1, Zenon DEF Lead, Trail
<1>6. WritesLine(x, y)
  <2> HIDE DEF x, y
  <2> QED
    BY <1>1, <1>4, <1>5, Leads, LineOfWrite, Zenon
<1>7. sc.cases = <<>>
  BY <1>2, NoCaseOpen
<1>8. ScopeLine(in, Lines, sc, i, x)
  BY DEF LineInv, TopLine
<1>9. OnOwnLine(in, i) => x = CondIndent(sc)
  <2>1. InBody(in, i)
    BY <1>2 DEF WellFormed, InBodies
  <2> QED
    BY <1>7, <1>8, <2>1 DEF ScopeLine, Settled
<1>10. /\ \A k \in 1..(i - 1) : Lines'[k] = Lines[k]
       /\ On(in, Lines', i, CondIndent(sc))
  BY <1>6, <1>9 DEF WritesLine, On
<1> HIDE DEF x
<1>11. ScopeLine(in, Lines', sc', i + 1, y)
  BY <1>2, <1>3, <1>7, <1>8, <1>10, ScopeLineGroup, Zenon
<1>12. \A s \in Bracketed : s[2] # i
  BY <1>2, Opener
<1>13. sc'.open = sc.open /\ sc'.close = sc.close /\ sc'.clauseIndent = sc.clauseIndent
  BY <1>3 DEF SameBut
<1> HIDE DEF y
<1> QED
  BY <1>1, <1>2, <1>6, <1>11, <1>12, <1>13, LineStep

LEMMA LineCloseCondGroup == Inv /\ WrittenOnce /\ LineInv /\ CloseCondGroup /\ Inv' => LineInv'
<1> SUFFICES ASSUME Inv, WrittenOnce, LineInv, CloseCondGroup, Inv' PROVE LineInv'
  OBVIOUS
<1> DEFINE x == CondIndent(sc')
<1>1. /\ hint = 0 /\ i <= in.n /\ in' = in /\ outer' = outer /\ Role = "closeCondGroup"
      /\ sc' = [sc EXCEPT !.condGroups = Pop(@)]
      /\ Write(<<Nl(x)>>, <<Tok(i, FALSE)>>, <<>>)
  BY DEF CloseCondGroup, At
<1>2. /\ sc \in Scopes /\ sc' \in Scopes /\ WellFormed(in) /\ i \in Nat
      /\ sc.condGroups # <<>> /\ i = Top(sc.condGroups)
  BY <1>1, Facts, Roles DEF Inv, TypeOK
<1>3. SameBut(sc', sc, Pop(sc.condGroups), sc.cases, sc.caseEnds)
  BY <1>1, <1>2 DEF SameBut, Scopes
<1>4. x \in Int /\ x = CondIndent(sc')
  BY <1>2, ScopeIndents
<1> HIDE DEF x
<1>5. Lead(<<Nl(x)>>, x) /\ Trail(<<>>, x, x)
  BY DEF Lead, Trail
<1>6. WritesLine(x, x) /\ i \in Breaks'
  BY <1>1, <1>4, <1>5, Leads, LineOfWrite, Zenon
<1>7. sc.cases = <<>>
  BY <1>2, NoCaseAtGroupEnd
<1>8. ScopeLine(in, Lines, sc, i, LineIndent(b))
  BY DEF LineInv, TopLine
<1>9. \A k \in 1..(i - 1) : Lines'[k] = Lines[k]
  BY <1>6 DEF WritesLine
<1>10. /\ ScopeLine(in, Lines', sc', i + 1, x)
       /\ \E o \in DOMAIN in.condGroups :
            in.condGroups[o] = Top(sc.condGroups) /\ o < i /\ On(in, Lines', o, x)
  <2>1. /\ ScopeLine(in, Lines', sc', i + 1, CondIndent(sc'))
        /\ \E o \in DOMAIN in.condGroups :
             in.condGroups[o] = Top(sc.condGroups) /\ o < i /\ On(in, Lines', o, CondIndent(sc'))
    BY <1>2, <1>3, <1>7, <1>8, <1>9, ScopeLinePopGroup
  <2> QED
    BY <1>4, <2>1
<1>11. PICK o \in DOMAIN in.condGroups : in.condGroups[o] = i /\ o < i /\ On(in, Lines', o, x)
  BY <1>2, <1>10, Zenon
<1>12. o \in 1..(i - 1)
  <2>1. <<o, in.condGroups[o]>> \in Spans(in)
    BY DEF Spans, SpansOf
  <2>2. <<o, in.condGroups[o]>>[1] \in 1..in.n
    BY <1>2, <2>1 DEF WellFormed, PartsNested
  <2> QED
    BY <1>2, <1>11, <2>2
<1>13. \A s \in Bracketed : s[2] = i => i \in Breaks' /\ (Steady(s) => Lines[s[1]] = x)
  <2>1. <<o, i>> \in Bracketed
    BY <1>11, SpanOf
  <2>2. OnOwnLine(in, o) => Lines[o] = x
    BY <1>9, <1>11, <1>12 DEF On
  <2> QED
    BY <1>6, <2>1, <2>2, PartClosed
<1>14. sc'.open = sc.open /\ sc'.close = sc.close /\ sc'.clauseIndent = sc.clauseIndent
  BY <1>3 DEF SameBut
<1> QED
  BY <1>1, <1>2, <1>6, <1>10, <1>13, <1>14, LineStep

LEMMA SameLength ==
  ASSUME Inv
  PROVE  Len(sc.cases) = Len(sc.caseEnds)
<1>1. /\ outer \in Seq(Scopes) /\ sc \in Scopes /\ Len(Stack) = Len(outer) + 1 /\ Len(outer) \in Nat
      /\ \A k \in 1..Len(Stack) : Len(Stack[k].cases) = Len(Stack[k].caseEnds)
  BY Facts
<1>2. Stack[Len(outer) + 1] = sc
  BY <1>1, Levels DEF Stack
<1> QED
  BY <1>1, <1>2

LEMMA LineOpenCase == Inv /\ WrittenOnce /\ LineInv /\ OpenCase /\ Inv' => LineInv'
<1> SUFFICES ASSUME Inv, WrittenOnce, LineInv, OpenCase, Inv' PROVE LineInv'
  OBVIOUS
<1> DEFINE nested == sc.cases # <<>>
           v == IF nested THEN CaseIndent + 4 ELSE CondIndent(sc)
           x == IF nested THEN v ELSE LineIndent(b)
           lead == IF nested THEN <<Nl(v)>> ELSE Space
<1>1. /\ hint = 0 /\ i <= in.n /\ in' = in /\ outer' = outer /\ Role = "case"
      /\ sc' = [sc EXCEPT !.cases = Append(@, v), !.caseEnds = Append(@, in.caseEnd[i])]
      /\ Write(lead, <<Upper(i)>>, <<>>)
  BY DEF OpenCase, At
<1>2. /\ sc \in Scopes /\ sc' \in Scopes /\ WellFormed(in) /\ i \in Nat /\ i \in DOMAIN in.caseEnd
      /\ Len(sc.cases) = Len(sc.caseEnds)
  <2>1. i \in DOMAIN in.cases /\ in.cases[i] = "case"
    BY <1>1, Facts, Roles
  <2>2. i \in DOMAIN in.caseEnd
    BY <2>1, Facts DEF WellFormed, CasesNested
  <2>3. Len(sc.cases) = Len(sc.caseEnds)
    BY SameLength
  <2> QED
    BY <2>2, <2>3, Facts DEF Inv, TypeOK
<1>3. SameBut(sc', sc, sc.condGroups, Append(sc.cases, v), Append(sc.caseEnds, in.caseEnd[i]))
  BY <1>1, <1>2 DEF SameBut, Scopes
<1>4. v \in Int
  BY CaseIndents, Leads
<1>5. (sc.cases # <<>> => v = Top(sc.cases) + 4) /\ (sc.cases = <<>> => v = CondIndent(sc))
  BY DEF CaseIndent
<1>6. ScopeLine(in, Lines, sc, i, LineIndent(b))
  BY DEF LineInv, TopLine
<1>7. OnOwnLine(in, i) => x = v
  <2> SUFFICES ASSUME OnOwnLine(in, i), ~ nested PROVE LineIndent(b) = v
    OBVIOUS
  <2>1. ~ Within(in, in.caseEnd, i)
    BY CaseIn
  <2>2. InBody(in, i)
    BY <1>2, <2>1 DEF WellFormed, InBodies
  <2> QED
    BY <1>6, <2>2 DEF ScopeLine, Settled
<1>a. (nested => x = v) /\ (~ nested => x = LineIndent(b))
  OBVIOUS
<1> HIDE DEF v, x
<1>8. Lead(lead, x) /\ Trail(<<>>, x, x)
  <2>1. Space \in {<<>>, <<Sp>>}
    BY Zenon DEF Space
  <2> QED
    BY <1>a, <2>1, Zenon DEF Lead, Trail
<1>9. lead \in Seq(Piece)
  BY <1>4, Leads, Zenon
<1> HIDE DEF nested, lead
<1>10. WritesLine(x, x)
  BY <1>1, <1>8, <1>9, Leads, LineOfWrite, Zenon
<1>11. /\ \A k \in 1..(i - 1) : Lines'[k] = Lines[k]
       /\ On(in, Lines', i, v)
  BY <1>7, <1>10 DEF WritesLine, On
<1>12. ScopeLine(in, Lines', sc', i + 1, x)
  BY <1>2, <1>3, <1>4, <1>5, <1>6, <1>11, ScopeLineCase, Zenon
<1>13. \A s \in Bracketed : s[2] # i
  BY <1>2, Opener
<1>14. sc'.open = sc.open /\ sc'.close = sc.close /\ sc'.clauseIndent = sc.clauseIndent
  BY <1>3 DEF SameBut
<1> QED
  BY <1>1, <1>2, <1>10, <1>12, <1>13, <1>14, LineStep

LEMMA LineCloseCase == Inv /\ WrittenOnce /\ LineInv /\ CloseCase /\ Inv' => LineInv'
<1> SUFFICES ASSUME Inv, WrittenOnce, LineInv, CloseCase, Inv' PROVE LineInv'
  OBVIOUS
<1> DEFINE x == CaseIndent
<1>1. /\ hint = 0 /\ i <= in.n /\ in' = in /\ outer' = outer /\ Role = "end" /\ sc.cases # <<>>
      /\ sc' = [sc EXCEPT !.cases = Pop(@), !.caseEnds = Pop(@)]
      /\ Write(<<Nl(x)>>, <<Upper(i)>>, <<>>)
  BY DEF CloseCase, At
<1>2. /\ sc \in Scopes /\ sc' \in Scopes /\ WellFormed(in) /\ i \in Nat
      /\ Len(sc.cases) = Len(sc.caseEnds) /\ Top(sc.caseEnds) = i
  <2>1. Len(sc.cases) = Len(sc.caseEnds)
    BY SameLength
  <2>2. Top(sc.caseEnds) = i
    BY <1>1, AtEnd, Facts, Current
  <2> QED
    BY <2>1, <2>2, Facts DEF Inv, TypeOK
<1>3. SameBut(sc', sc, sc.condGroups, Pop(sc.cases), Pop(sc.caseEnds))
  BY <1>1, <1>2 DEF SameBut, Scopes
<1>4. x \in Int /\ x = Top(sc.cases)
  BY <1>1, CaseIndents DEF CaseIndent
<1> HIDE DEF x
<1>5. Lead(<<Nl(x)>>, x) /\ Trail(<<>>, x, x)
  BY DEF Lead, Trail
<1>6. WritesLine(x, x) /\ i \in Breaks'
  BY <1>1, <1>4, <1>5, Leads, LineOfWrite, Zenon
<1>7. ScopeLine(in, Lines, sc, i, LineIndent(b))
  BY DEF LineInv, TopLine
<1>8. \A k \in 1..(i - 1) : Lines'[k] = Lines[k]
  BY <1>6 DEF WritesLine
<1>a. sc.cases # <<>> /\ sc \in Scopes /\ WellFormed(in) /\ i \in Nat /\ Len(sc.cases) = Len(sc.caseEnds)
  BY <1>1, <1>2
<1>9. /\ ScopeLine(in, Lines', sc', i + 1, Top(sc.cases))
      /\ CaseOpener(in, Lines', Top(sc.caseEnds), i, Top(sc.cases))
  <2>1. PICK t, s, u, D, E, p, z :
          t = in /\ s = sc /\ u = sc' /\ D = Lines /\ E = Lines' /\ p = i /\ z = LineIndent(b)
    OBVIOUS
  <2>2. WellFormed(t) /\ s \in Scopes /\ p \in Nat
    BY <1>a, <2>1, Zenon
  <2>3. ScopeLine(t, D, s, p, z)
    BY <1>7, <2>1, Zenon
  <2>4. s.cases # <<>>
    BY <1>a, <2>1, Zenon
  <2>5. Len(s.cases) = Len(s.caseEnds)
    BY <1>a, <2>1, Zenon
  <2>6. \A k \in 1..(p - 1) : E[k] = D[k]
    BY <1>8, <2>1, Zenon
  <2>7. SameBut(u, s, s.condGroups, Pop(s.cases), Pop(s.caseEnds))
    BY <1>3, <2>1, Zenon
  <2>8. ScopeLine(t, E, u, p + 1, Top(s.cases))
    BY <2>2, <2>3, <2>4, <2>5, <2>6, <2>7, ScopeLinePopCase
  <2>9. CaseOpener(t, E, Top(s.caseEnds), p, Top(s.cases))
    BY <2>2, <2>3, <2>4, <2>5, <2>6, <2>7, ScopeLinePopCase
  <2> QED
    BY <2>1, <2>8, <2>9, Zenon
<1>10. PICK o \in DOMAIN in.caseEnd : in.caseEnd[o] = i /\ o < i /\ On(in, Lines', o, x)
  BY <1>2, <1>4, <1>9, Zenon DEF CaseOpener
<1>11. o \in 1..(i - 1)
  <2>1. <<o, in.caseEnd[o]>> \in Spans(in)
    BY DEF Spans, SpansOf
  <2>2. <<o, in.caseEnd[o]>>[1] \in 1..in.n
    BY <1>2, <2>1 DEF WellFormed, PartsNested
  <2> QED
    BY <1>2, <1>10, <2>2
<1>12. \A s \in Bracketed : s[2] = i => i \in Breaks' /\ (Steady(s) => Lines[s[1]] = x)
  <2>1. <<o, i>> \in Bracketed
    BY <1>10, SpanOf
  <2>2. OnOwnLine(in, o) => Lines[o] = x
    BY <1>8, <1>10, <1>11 DEF On
  <2> QED
    BY <1>6, <2>1, <2>2, PartClosed
<1>13. sc'.open = sc.open /\ sc'.close = sc.close /\ sc'.clauseIndent = sc.clauseIndent
  BY <1>3 DEF SameBut
<1>14. ScopeLine(in, Lines', sc', i + 1, x)
  BY <1>4, <1>9
<1> QED
  BY <1>1, <1>2, <1>6, <1>12, <1>13, <1>14, LineStep

LEMMA LineOpenSubquery == Inv /\ WrittenOnce /\ Shape /\ LineInv /\ OpenSubquery /\ Inv' => LineInv'
<1> SUFFICES ASSUME Inv, WrittenOnce, Shape, LineInv, OpenSubquery, Inv' PROVE LineInv'
  OBVIOUS
<1> DEFINE x == IF prev \in DOMAIN in.subqueries THEN sc.clauseIndent ELSE LineIndent(b)
           lead == IF prev \in DOMAIN in.subqueries THEN <<Nl(sc.clauseIndent)>> ELSE Space
           N == Len(outer)
<1>1. /\ hint = 0 /\ i <= in.n /\ in' = in /\ i' = i + 1 /\ Role = "openSubquery"
      /\ b' = b \o lead \o <<Tok(i, FALSE)>>
      /\ starts' = [starts EXCEPT ![i] = Len(b) + Len(lead)]
      /\ outer' = Append(outer, sc)
      /\ sc' = Scope(i, in.subqueries[i], LineIndent(b') + 2)
  BY DEF OpenSubquery, At
<1>2. /\ WellFormed(in) /\ TypeOK /\ b \in Seq(Piece) /\ outer \in Seq(Scopes) /\ sc \in Scopes
      /\ i \in Nat /\ i \in DOMAIN in.subqueries /\ N \in Nat
  BY <1>1, Facts, Roles DEF TypeOK
<1>3. lead \in Seq(Piece) /\ <<Tok(i, FALSE)>> \in Seq(Piece) /\ <<>> \in Seq(Piece)
  BY Around, Leads, Zenon
<1>4. Text(<<Tok(i, FALSE)>>, x, x)
  <2>1. LayoutType(in) /\ i \notin DOMAIN in.lastLine
    BY <1>1, OnOneLine, Facts
  <2>2. AfterToken(x) = x
    BY <2>1 DEF AfterToken
  <2> HIDE DEF x
  <2> QED
    BY <2>1, <2>2, TokenText
<1>5. Lead(lead, x) /\ Trail(<<>>, x, x)
  <2>1. Space \in {<<>>, <<Sp>>}
    BY Zenon DEF Space
  <2> QED
    BY <2>1, Zenon DEF Lead, Trail
<1>6. prev \notin DOMAIN in.subqueries => x = LineIndent(b)
  OBVIOUS
<1> HIDE DEF x, lead
<1>7. b' = b \o lead \o <<Tok(i, FALSE)>> \o <<>>
  <2>1. b \o lead \o <<Tok(i, FALSE)>> \in Seq(Piece)
    BY <1>2, <1>3, Joined, Zenon
  <2> QED
    BY <1>1, <2>1, ConcatEmptySeq
<1>8. WritesLine(x, x)
  BY <1>1, <1>3, <1>4, <1>5, <1>7, LineWrite, Zenon
<1>9. /\ \A k \in 1..(i - 1) : Lines'[k] = Lines[k]
      /\ Lines'[i] = x /\ LineIndent(b') = x
  BY <1>8 DEF WritesLine
<1>10. /\ sc'.open = i /\ sc'.clauseIndent = x + 2
  BY <1>1, <1>9 DEF Scope
<1>11. /\ Len(outer') = N + 1 /\ outer'[N + 1] = sc
       /\ \A k \in 1..N : outer'[k] = outer[k]
  BY <1>1, <1>2, AppendProperties
<1>12. /\ \A k \in 1..(N + 1) : Opens'[k] = Opens[k]
       /\ Opens'[N + 2] = i
  <2>1. sc' \in Scopes /\ outer' \in Seq(Scopes)
    BY DEF Inv, TypeOK
  <2>2. /\ DOMAIN Stack' = 1..(N + 2) /\ Stack'[N + 2] = sc'
        /\ \A k \in 1..(N + 1) : Stack'[k] = outer'[k]
    BY <1>2, <1>11, <2>1, Levels DEF Stack
  <2>3. DOMAIN Stack = 1..(N + 1) /\ Stack[N + 1] = sc /\ \A k \in 1..N : Stack[k] = outer[k]
    BY <1>2, Levels DEF Stack
  <2>4. \A k \in 1..(N + 1) : Stack'[k] = Stack[k]
    BY <1>2, <1>11, <2>2, <2>3
  <2> HIDE DEF N
  <2>5. \A k \in 1..(N + 1) : k \in DOMAIN Stack /\ k \in DOMAIN Stack'
    BY <1>2, <2>2, <2>3
  <2>6. N + 2 \in DOMAIN Stack'
    BY <1>2, <2>2
  <2> QED
    BY <1>10, <2>2, <2>4, <2>5, <2>6 DEF Opens
<1>13. CloseAligned'
  <2>1. \A s \in Bracketed : s[2] # i
    BY <1>2, Opener
  <2> QED
    BY <1>8, <2>1, AlignedStep DEF LineInv
<1>14. TopLine'
  <2>1. ScopeLine(in, Lines', sc', i + 1, x)
    BY <1>1, <1>2, ScopeLineNew
  <2>2. sc'.clauseIndent = Lines'[sc'.open] + 2
    BY <1>9, <1>10
  <2> QED
    BY <1>1, <1>9, <2>1, <2>2 DEF TopLine
<1>15. ASSUME NEW l \in 1..N
       PROVE  /\ ScopeLine(in, Lines', outer'[l], Opens'[l + 1], Lines'[Opens'[l + 1]])
              /\ l > 1 => outer'[l].clauseIndent = Lines'[Opens'[l]] + 2
  <2>1. /\ ScopeLine(in, Lines', outer[l], Opens[l + 1], Lines'[Opens[l + 1]])
        /\ l > 1 => outer[l].clauseIndent = Lines'[Opens[l]] + 2
    BY <1>9, OuterKept DEF LineInv
  <2>2. l \in 1..(N + 1) /\ l + 1 \in 1..(N + 1)
    BY <1>2
  <2> HIDE DEF N
  <2> QED
    BY <1>11, <1>12, <2>1, <2>2
<1>16. ScopeLine(in, Lines', sc, i, x)
  <2>1. ScopeLine(in, Lines, sc, i, LineIndent(b))
    BY DEF LineInv, TopLine
  <2>2. sc.cases = <<>> /\ Settled(in, i) => x = CondIndent(sc)
    <3> SUFFICES ASSUME sc.cases = <<>>, Settled(in, i) PROVE x = CondIndent(sc)
      OBVIOUS
    <3>1. prev \notin DOMAIN in.subqueries
      <4>1. prev = i - 1 /\ prev + 1 = i
        BY <1>2 DEF Shape, Ended
      <4> QED
        BY <1>2, <4>1, BodyNone DEF Settled
    <3> QED
      BY <1>6, <2>1, <3>1 DEF ScopeLine
  <2>3. i <= i
    BY <1>2
  <2> QED
    BY <1>2, <1>9, <2>1, <2>2, <2>3, ScopeLineKept
<1>17. N + 1 > 1 => sc.clauseIndent = Lines'[Opens'[N + 1]] + 2
  <2> HAVE N + 1 > 1
  <2>1. outer # <<>>
    BY <1>2
  <2>2. Opens'[N + 1] = sc.open
    <3>1. Opens[N + 1] = sc.open
      BY OpensBefore
    <3>2. N + 1 \in 1..(N + 1)
      BY <1>2
    <3> QED
      BY <1>12, <3>1, <3>2
  <2>3. sc.open \in 1..(i - 1)
    BY <2>1, ScopeOpened
  <2>4. sc.clauseIndent = Lines[sc.open] + 2
    BY <2>1 DEF LineInv, TopLine
  <2> QED
    BY <1>9, <2>2, <2>3, <2>4
<1>18. OuterLines'
  <2> SUFFICES ASSUME NEW l \in 1..(N + 1)
               PROVE  /\ ScopeLine(in, Lines', outer'[l], Opens'[l + 1], Lines'[Opens'[l + 1]])
                      /\ l > 1 => outer'[l].clauseIndent = Lines'[Opens'[l]] + 2
    BY <1>1, <1>11 DEF OuterLines
  <2>1. CASE l \in 1..N
    BY <1>15, <2>1
  <2>2. CASE l = N + 1
    <3>1. l + 1 = N + 2
      BY <1>2, <2>2
    <3> HIDE DEF N
    <3> QED
      BY <1>9, <1>11, <1>12, <1>16, <1>17, <2>2, <3>1
  <2> QED
    BY <1>2, <2>1, <2>2
<1> QED
  BY <1>13, <1>14, <1>18 DEF LineInv

LEMMA LineCloseSubquery == Inv /\ WrittenOnce /\ LineInv /\ CloseSubquery /\ Inv' => LineInv'
<1> SUFFICES ASSUME Inv, WrittenOnce, LineInv, CloseSubquery, Inv' PROVE LineInv'
  OBVIOUS
<1> DEFINE x == sc.clauseIndent - 2
           N == Len(outer)
<1>1. /\ hint = 0 /\ i <= in.n /\ in' = in /\ Role = "closeSubquery"
      /\ sc' = Top(outer) /\ outer' = Pop(outer)
      /\ Write(<<Nl(x)>>, <<Tok(i, FALSE)>>, <<>>)
  BY DEF CloseSubquery, At
<1>2. /\ WellFormed(in) /\ TypeOK /\ outer \in Seq(Scopes) /\ sc \in Scopes
      /\ i \in Nat /\ i = sc.close /\ N \in Nat \ {0}
  BY <1>1, Facts, Roles, AtClose
<1>3. sc.open \in DOMAIN in.subqueries /\ in.subqueries[sc.open] = i
  BY <1>2, Closers2
<1>4. outer # <<>>
  BY <1>2
<1>5. sc.open \in 1..(i - 1) /\ sc.clauseIndent = Lines[sc.open] + 2
  BY <1>4, ScopeOpened DEF LineInv, TopLine
<1>6. x \in Int /\ x = Lines[sc.open]
  <2>1. sc.clauseIndent \in Int
    BY Leads
  <2>2. Lines[sc.open] \in Int
    BY <1>5, LineType
  <2> QED
    BY <1>5, <2>1, <2>2
<1> HIDE DEF x
<1>7. Lead(<<Nl(x)>>, x) /\ Trail(<<>>, x, x)
  BY DEF Lead, Trail
<1>8. WritesLine(x, x) /\ i \in Breaks'
  BY <1>1, <1>6, <1>7, Leads, LineOfWrite, Zenon
<1>9. /\ \A k \in 1..(i - 1) : Lines'[k] = Lines[k]
      /\ LineIndent(b') = x /\ i' = i + 1
  BY <1>8 DEF WritesLine
<1>10. /\ sc' = outer[N] /\ Len(outer') = N - 1
       /\ \A k \in 1..(N - 1) : outer'[k] = outer[k]
  <2>1. Len(Pop(outer)) = N - 1
    BY <1>2, <1>4, PopTop
  <2>2. \A k \in 1..(N - 1) : Pop(outer)[k] = outer[k]
    BY <1>2 DEF Pop
  <2> QED
    BY <1>1, <2>1, <2>2 DEF Top
<1>11. /\ \A k \in 1..N : Opens'[k] = Opens[k]
  <2>1. sc' \in Scopes /\ outer' \in Seq(Scopes)
    BY DEF Inv, TypeOK
  <2>2. /\ DOMAIN Stack' = 1..N /\ Stack'[N] = sc'
        /\ \A k \in 1..(N - 1) : Stack'[k] = outer'[k]
    <3>1. Len(outer') + 1 = N
      BY <1>2, <1>10
    <3>2. Len(outer') = N - 1
      BY <1>10
    <3>3. /\ DOMAIN Stack' = 1..(Len(outer') + 1) /\ Stack'[Len(outer') + 1] = sc'
          /\ \A k \in 1..Len(outer') : Stack'[k] = outer'[k]
      BY <2>1, Levels DEF Stack
    <3> QED
      BY <3>1, <3>2, <3>3
  <2>3. DOMAIN Stack = 1..(N + 1) /\ \A k \in 1..N : Stack[k] = outer[k]
    BY <1>2, Levels DEF Stack
  <2> HIDE DEF N
  <2>4. \A k \in 1..N : Stack'[k] = Stack[k]
    BY <1>2, <1>10, <2>2, <2>3
  <2>5. \A k \in 1..N : k \in DOMAIN Stack /\ k \in DOMAIN Stack'
    BY <1>2, <2>2, <2>3
  <2> QED
    BY <2>4, <2>5 DEF Opens
<1>12. CloseAligned'
  <2>1. <<sc.open, i>> \in Bracketed
    BY <1>3, SpanOf
  <2>2. \A s \in Bracketed : s[2] = i => s[1] = sc.open
    BY <2>1, Closer
  <2> QED
    BY <1>6, <1>8, <2>2, AlignedStep DEF LineInv
<1>13. ASSUME NEW l \in 1..N
       PROVE  /\ ScopeLine(in, Lines', outer[l], Opens[l + 1], Lines'[Opens[l + 1]])
              /\ l > 1 => outer[l].clauseIndent = Lines'[Opens[l]] + 2
  BY <1>9, OuterKept DEF LineInv
<1>14. TopLine'
  <2>1. Opens[N + 1] = sc.open /\ N \in 1..N
    BY <1>2, OpensBefore
  <2>2. ScopeLine(in, Lines', sc', sc.open, x)
    <3>1. Lines'[sc.open] = x
      BY <1>5, <1>6, <1>9
    <3> HIDE DEF N
    <3> QED
      BY <1>10, <1>13, <2>1, <3>1
  <2>3. ScopeLine(in, Lines', sc', i + 1, x)
    <3>1. sc'.cases = <<>> /\ Settled(in, i + 1) => x = CondIndent(sc')
      <4> HAVE sc'.cases = <<>> /\ Settled(in, i + 1)
      <4>1. Settled(in, sc.open)
        BY <1>2, <1>3, SettledOver
      <4> QED
        BY <2>2, <4>1 DEF ScopeLine
    <3>2. sc.open \in Nat /\ i + 1 \in Nat /\ sc.open <= i + 1
      BY <1>2, <1>5
    <3>3. \A k \in 1..(sc.open - 1) : Lines'[k] = Lines'[k]
      OBVIOUS
    <3> QED
      BY <1>2, <2>2, <3>1, <3>2, <3>3, ScopeLineKept
  <2>4. outer' # <<>> => sc'.clauseIndent = Lines'[sc'.open] + 2
    <3> HAVE outer' # <<>>
    <3>1. N > 1
      <4>1. Len(outer') # 0
        <5>1. outer' \in Seq(Scopes)
          BY DEF Inv, TypeOK
        <5> QED
          BY <5>1
      <4> QED
        BY <1>2, <1>10, <4>1
    <3>2. sc'.open = Opens[N]
      <4>1. Stack[N] = outer[N] /\ N \in DOMAIN Stack
        BY <1>2, Levels DEF Stack
      <4> QED
        BY <1>10, <4>1 DEF Opens
    <3> HIDE DEF N
    <3> QED
      BY <1>10, <1>13, <2>1, <3>1, <3>2
  <2> QED
    BY <1>1, <1>9, <2>3, <2>4 DEF TopLine
<1>15. OuterLines'
  <2> SUFFICES ASSUME NEW l \in 1..(N - 1)
               PROVE  /\ ScopeLine(in, Lines', outer'[l], Opens'[l + 1], Lines'[Opens'[l + 1]])
                      /\ l > 1 => outer'[l].clauseIndent = Lines'[Opens'[l]] + 2
    BY <1>1, <1>10 DEF OuterLines
  <2>1. l \in 1..N /\ l + 1 \in 1..N
    BY <1>2
  <2> HIDE DEF N
  <2> QED
    BY <1>10, <1>11, <1>13, <2>1
<1> QED
  BY <1>12, <1>14, <1>15 DEF LineInv

LEMMA NextLine == Inv /\ WrittenOnce /\ Shape /\ LineInv /\ [Token]_vars /\ Inv' => LineInv'
<1>1. Inv /\ LineInv /\ UNCHANGED vars => LineInv'
  <2> SUFFICES ASSUME LineInv, UNCHANGED vars PROVE LineInv'
    OBVIOUS
  <2>1. /\ in' = in /\ i' = i /\ b' = b /\ starts' = starts /\ sc' = sc /\ outer' = outer
    BY DEF vars
  <2>2. Lines' = Lines /\ Opens' = Opens
    BY <2>1 DEF Lines, IndentAt, Opens, Stack
  <2>3. TopLine'
    BY <2>1, <2>2 DEF LineInv, TopLine
  <2>4. OuterLines'
    BY <2>1, <2>2 DEF LineInv, OuterLines
  <2>5. CloseAligned'
    BY <2>1 DEF LineInv, CloseAligned, Bracketed, StartsLine, IndentAt, Steady
  <2> QED
    BY <2>3, <2>4, <2>5 DEF LineInv
<1> QED
  BY <1>1, LineStartHint, LineHintToken, LineOpenSubquery, LineCloseSubquery, LineOpenCondGroup,
     LineCloseCondGroup, LineOpenCase, LineCaseBranch, LineCloseCase, LineListSep, LineCondOp,
     LinePlain, Zenon DEF Token

LEMMA InitLine == Init => LineInv
<1> SUFFICES ASSUME Init PROVE LineInv
  OBVIOUS
<1>1. /\ i = 1 /\ b = <<>> /\ sc = Scope(0, 0, 0) /\ outer = <<>> /\ in \in Inputs
  BY DEF Init, Start
<1>2. WellFormed(in)
  BY <1>1, InputsWellFormed
<1>3. ~ InBody(in, 1)
  <2>1. \A j \in BodyBreaks(in) : j \in 1..in.n
    BY <1>2 DEF WellFormed, LayoutType, BodyBreaks
  <2> QED
    BY <2>1 DEF InBody
<1>4. TopLine
  <2>1. Len(<<>>) = 0 /\ sc.cases = <<>> /\ sc.condGroups = <<>>
    BY <1>1 DEF Scope
  <2> QED
    BY <1>1, <1>3, <2>1 DEF TopLine, ScopeLine, CaseSteps, CaseLines, GroupLines, Settled
<1>5. OuterLines
  BY <1>1 DEF OuterLines
<1>6. CloseAligned
  <2>1. \A s \in Bracketed : s[1] \in 1..in.n /\ s[2] \in 1..in.n /\ s[1] < s[2]
    BY <1>2 DEF WellFormed, PartsNested, Spans, Bracketed
  <2>2. in.n \in Nat
    BY <1>2, Parts
  <2> QED
    BY <1>1, <2>1, <2>2 DEF CloseAligned
<1> QED
  BY <1>4, <1>5, <1>6 DEF LineInv

\* The token that closes a subquery, a group or a CASE starts a line, with the
\* indentation of the line of the token that opened it; a group or a CASE, unless
\* that line was moved by a literal with line breaks (closeSubquery,
\* closeCondGroup and casePart in formatter.go).
THEOREM Spec_CloseAligned == Spec => []CloseAligned
<1>1. LineInv => CloseAligned
  BY DEF LineInv
<1>2. Init => Shape
  BY DEF Init, Start, Shape, Separated, Ended
<1> QED
  BY <1>1, <1>2, InitLine, SpecInv, Spec_WrittenOnce, NextShape, NextLine, PTL DEF Spec

-----------------------------------------------------------------------------
(***************************************************************************)
(* The line breaks in a part that was opened on a line with indentation    *)
(* line by token o: what BodyDeeper says of the break at m, for the output *)
(* out of the statement x.                                                 *)
(***************************************************************************)
Blank(x, out, m) ==
  /\ out[m].k = "nl" /\ out[m].v = 0 /\ m + 2 <= Len(out)
  /\ out[m + 1].k = "nl" /\ out[m + 2].k = "tok"
  /\ LET k == out[m + 2].v
     IN  k \in DOMAIN x.clauseStarts /\ x.clauseStarts[k] = "setop"

Operand(x, o, k) ==
  o \in DOMAIN x.caseEnd /\ \A j \in DOMAIN x.cases : o < j /\ j <= k => ~SameScope(x, o, j)

Deeper(x, o, line, v, k) == v >= line + 2 \/ (v = line /\ Operand(x, o, k))

BreakDeeper(x, out, o, line, m) ==
  out[m].k = "nl" =>
    \/ out[m].v >= line + 2 \/ Blank(x, out, m)
    \/ m < Len(out) /\ out[m].v = line /\ Operand(x, o, out[m + 1].v)

LEMMA BreakKept ==
  ASSUME NEW out, NEW all, Len(out) \in Nat, Len(all) \in Nat, Len(out) <= Len(all),
         \A y \in 1..Len(out) : all[y] = out[y],
         NEW m \in 1..Len(out), NEW x, NEW o, NEW line, BreakDeeper(x, out, o, line, m)
  PROVE  BreakDeeper(x, all, o, line, m)
<1>3. CASE Blank(x, out, m)
  <2>1. m \in 1..Len(out) /\ m + 1 \in 1..Len(out) /\ m + 2 \in 1..Len(out) /\ m + 2 <= Len(all)
    BY <1>3 DEF Blank
  <2>2. all[m] = out[m] /\ all[m + 1] = out[m + 1] /\ all[m + 2] = out[m + 2]
    BY <2>1
  <2>3. Blank(x, all, m)
    BY <1>3, <2>1, <2>2 DEF Blank
  <2> QED
    BY <2>3 DEF BreakDeeper
<1>4. CASE m < Len(out) /\ out[m].v = line /\ Operand(x, o, out[m + 1].v)
  <2>1. m + 1 \in 1..Len(out) /\ m < Len(all)
    BY <1>4
  <2>2. all[m] = out[m] /\ all[m + 1] = out[m + 1]
    BY <2>1
  <2>3. all[m].v = line /\ Operand(x, o, all[m + 1].v)
    BY <1>4, <2>2
  <2> QED
    BY <2>1, <2>3 DEF BreakDeeper
<1>5. CASE out[m].k # "nl" \/ out[m].v >= line + 2
  <2>1. all[m] = out[m]
    OBVIOUS
  <2> QED
    BY <1>5, <2>1 DEF BreakDeeper
<1> QED
  BY <1>3, <1>4, <1>5 DEF BreakDeeper

-----------------------------------------------------------------------------
\* The breaks a step writes: before the token k, and behind it.
NoNl(s) == \A m \in 1..Len(s) : s[m].k # "nl"

LEMMA TokenPieces ==
  \A up : /\ NoNl(<<Tok(i, up)>>) /\ OneToken(<<Tok(i, up)>>, i)
          /\ NoNl(<<Tok(i, up), Sp>>) /\ OneToken(<<Tok(i, up), Sp>>, i)
<1> TAKE up
<1>1. Tok(i, up).k = "tok" /\ Tok(i, up).v = i /\ Sp.k = "sp"
  BY DEF Tok, Sp
<1>2. PICK piece, space : piece = Tok(i, up) /\ space = Sp
  OBVIOUS
<1>3. /\ NoNl(<<piece>>) /\ NoNl(<<piece, space>>)
  BY <1>1, <1>2 DEF NoNl
<1>4. OneToken(<<piece>>, i) /\ OneToken(<<piece, space>>, i)
  BY <1>1, <1>2, Tokens, Zenon
<1> QED
  BY <1>2, <1>3, <1>4

IsSetOp(x, k) == k \in DOMAIN x.clauseStarts /\ x.clauseStarts[k] = "setop"

Before(x, lead, v, k) ==
  lead \in {<<>>, <<Sp>>} \/ lead = <<Nl(v)>> \/ (lead = <<Nl(0), Nl(v)>> /\ IsSetOp(x, k))

LEMMA NoBlankLead ==
  \A v : <<Nl(v)>> \notin {<<>>, <<Sp>>} /\ <<Nl(0), Nl(v)>> \notin {<<>>, <<Sp>>}
<1> TAKE v
<1>1. Len(<<Nl(v)>>) = 1 /\ Len(<<Nl(0), Nl(v)>>) = 2 /\ Len(<<>>) = 0 /\ Len(<<Sp>>) = 1
  OBVIOUS
<1>2. <<Nl(v)>>[1].k = "nl" /\ <<Sp>>[1].k = "sp"
  BY DEF Nl, Sp
<1>3. <<Nl(v)>> # <<Sp>>
  <2>1. "nl" # "sp"
    OBVIOUS
  <2> QED
    BY <1>2, <2>1, Zenon
<1>4. <<Nl(0), Nl(v)>> # <<Sp>> /\ <<Nl(0), Nl(v)>> # <<>> /\ <<Nl(v)>> # <<>>
  BY <1>1
<1> QED
  BY <1>3, <1>4

NewBreak(x, lead, trail, whole, p, m, k, v, y) ==
  \/ lead \notin {<<>>, <<Sp>>} /\ m <= p /\ m < Len(whole) /\ whole[m].v = v /\ whole[m + 1].v = k
  \/ Blank(x, whole, m)
  \/ m > p /\ trail = <<Nl(y)>> /\ whole[m].v = y

BreakParts(x, out, lead, text, trail, whole, l, p, q, k, v, y, m) ==
  /\ Cut(whole, out, lead, text, trail, l, p, q)
  /\ p = l + Len(lead)
  /\ q = p + Len(text)
  /\ NoNl(text)
  /\ OneToken(text, k)
  /\ Before(x, lead, v, k)
  /\ trail = <<>> \/ trail = <<Nl(y)>>
  /\ m \in (l + 1)..Len(whole)
  /\ whole[m].k = "nl"

LEMMA BreakIsNew ==
  ASSUME NEW x, NEW out, NEW lead, NEW text, NEW trail, NEW whole, NEW l, NEW p, NEW q,
         NEW k, NEW v, NEW y, NEW m,
         BreakParts(x, out, lead, text, trail, whole, l, p, q, k, v, y, m)
  PROVE  NewBreak(x, lead, trail, whole, p, m, k, v, y)
<1>1. l \in Nat /\ p \in Nat /\ q \in Nat /\ l <= p /\ p <= q /\ q <= Len(whole) /\ Len(whole) \in Nat
  BY DEF BreakParts, Cut
<1>12. Len(lead) \in Nat /\ p = l + Len(lead) /\ Len(text) \in Nat /\ q = p + Len(text)
  BY DEF BreakParts, Cut
<1>13. NoNl(text) /\ OneToken(text, k) /\ Before(x, lead, v, k) /\ whole[m].k = "nl"
  BY DEF BreakParts
<1>14. trail = <<>> \/ trail = <<Nl(y)>>
  BY DEF BreakParts
<1>9. \A z \in (l + 1)..p : z - l \in 1..Len(lead) /\ whole[z] = lead[z - l]
  BY DEF BreakParts, Cut
<1>10. \A z \in (p + 1)..q : z - p \in 1..Len(text) /\ whole[z] = text[z - p]
  BY DEF BreakParts, Cut
<1>11. \A z \in (q + 1)..Len(whole) : z - q \in 1..Len(trail) /\ whole[z] = trail[z - q]
  BY DEF BreakParts, Cut
<1>15. m \in (l + 1)..Len(whole)
  BY DEF BreakParts
<1>2. m \in Nat /\ l + 1 <= m /\ m <= Len(whole)
  BY <1>1, <1>15
<1>3. Len(text) >= 1 /\ text[1].k = "tok" /\ text[1].v = k
  BY <1>13 DEF OneToken
<1>4. p + 1 \in (p + 1)..q /\ whole[p + 1] = text[1] /\ p + 1 <= Len(whole)
  <2>1. PICK z : z = p + 1
    OBVIOUS
  <2>2. z \in (p + 1)..q /\ z <= Len(whole)
    BY <1>1, <1>3, <1>12, <2>1
  <2>3. whole[z] = text[z - p]
    BY <1>10, <2>2, Zenon
  <2>4. z - p = 1
    BY <1>1, <2>1
  <2>5. whole[z] = text[1]
    BY <2>3, <2>4, Zenon
  <2> QED
    BY <2>1, <2>2, <2>5, Zenon
<1>8. p < Len(whole) /\ p <= p
  BY <1>1, <1>4
<1>5. CASE m \in (l + 1)..p
  <2>1. m - l \in 1..Len(lead) /\ whole[m] = lead[m - l]
    BY <1>5, <1>9
  <2>2. CASE lead \in {<<>>, <<Sp>>}
    <3>1. Len(<<>>) = 0 /\ Len(<<Sp>>) = 1 /\ <<Sp>>[1].k # "nl"
      BY DEF Sp
    <3>2. lead = <<>> \/ lead = <<Sp>>
      BY <2>2
    <3> QED
      BY <1>13, <2>1, <3>1, <3>2
  <2>3. CASE lead = <<Nl(v)>>
    <3>1. Len(lead) = 1 /\ lead[1].v = v
      BY <2>3 DEF Nl
    <3>2. m = p /\ m - l = 1
      BY <1>1, <1>2, <1>12, <1>5, <3>1
    <3>3. lead \notin {<<>>, <<Sp>>}
      BY <2>3, NoBlankLead, Zenon
    <3>4. whole[m] = lead[1]
      BY <2>1, <3>2
    <3>5. m <= p /\ m < Len(whole) /\ whole[m + 1].v = k
      BY <1>3, <1>4, <1>8, <3>2
    <3> QED
      BY <3>1, <3>3, <3>4, <3>5 DEF NewBreak
  <2>4. CASE lead = <<Nl(0), Nl(v)>> /\ IsSetOp(x, k)
    <3>1. Len(lead) = 2 /\ lead[1].k = "nl" /\ lead[1].v = 0 /\ lead[2].k = "nl" /\ lead[2].v = v
      BY <2>4 DEF Nl
    <3>2. p = l + 2
      BY <1>12, <3>1
    <3>3. CASE m = p
      <4>1. m - l = 2
        BY <1>1, <3>2, <3>3
      <4>2. lead \notin {<<>>, <<Sp>>}
        BY <2>4, NoBlankLead, Zenon
      <4>3. whole[m] = lead[2]
        BY <2>1, <4>1
      <4>4. m <= p /\ m < Len(whole) /\ whole[m + 1].v = k
        BY <1>3, <1>4, <1>8, <3>3
      <4> QED
        BY <3>1, <4>2, <4>3, <4>4 DEF NewBreak
    <3>4. CASE m # p
      <4>1. m = l + 1 /\ m + 1 = p /\ m + 2 = p + 1 /\ m - l = 1 /\ m + 1 - l = 2
        <5>1. m \in Nat /\ l \in Nat /\ l + 1 <= m /\ m <= p /\ p = l + 2 /\ m # p
          BY <1>1, <1>2, <3>2, <3>4, <1>5
        <5>2. m = l + 1
          BY <5>1
        <5> QED
          BY <5>1, <5>2
      <4>2. PICK z : z = m + 1
        OBVIOUS
      <4>3. whole[z] = lead[2]
        <5>1. z \in (l + 1)..p
          BY <1>1, <4>1, <4>2
        <5>2. z - l = 2
          BY <1>1, <4>1, <4>2
        <5>3. whole[z] = lead[z - l]
          BY <1>9, <5>1, Zenon
        <5> QED
          BY <5>2, <5>3, Zenon
      <4>4. whole[m] = lead[1] /\ whole[m + 1] = lead[2] /\ whole[m + 2] = text[1] /\ m + 2 <= Len(whole)
        BY <1>4, <2>1, <4>1, <4>2, <4>3
      <4> QED
        BY <1>3, <2>4, <3>1, <4>4 DEF NewBreak, Blank, IsSetOp
    <3> QED
      BY <3>3, <3>4
  <2> QED
    BY <1>13, <2>2, <2>3, <2>4 DEF Before
<1>6. CASE m \in (p + 1)..q
  <2>1. m - p \in 1..Len(text) /\ whole[m] = text[m - p]
    BY <1>6, <1>10
  <2>2. text[m - p].k # "nl"
    BY <1>13, <2>1 DEF NoNl
  <2> QED
    BY <1>13, <2>1, <2>2
<1>7. CASE m \in (q + 1)..Len(whole)
  <2>1. m - q \in 1..Len(trail) /\ whole[m] = trail[m - q] /\ m > p
    <3>1. m - q \in 1..Len(trail) /\ whole[m] = trail[m - q]
      BY <1>7, <1>11, Zenon
    <3>2. q + 1 <= m
      BY <1>1, <1>7
    <3>3. m > p
      BY <1>1, <1>2, <3>2
    <3> QED
      BY <3>1, <3>3
  <2>2. trail = <<Nl(y)>>
    <3>1. Len(<<>>) = 0
      OBVIOUS
    <3>2. trail # <<>>
      BY <2>1, <3>1
    <3> QED
      BY <1>14, <3>2
  <2>3. Len(trail) = 1 /\ trail[1].v = y
    BY <2>2 DEF Nl
  <2>4. m - q = 1
    BY <1>1, <1>2, <2>1, <2>3
  <2> QED
    BY <2>1, <2>2, <2>3, <2>4 DEF NewBreak
<1> QED
  BY <1>1, <1>2, <1>5, <1>6, <1>7

LEMMA BreaksWritten ==
  ASSUME NEW x, NEW out, NEW lead, NEW text, NEW trail, NEW whole, NEW l, NEW p, NEW q,
         Cut(whole, out, lead, text, trail, l, p, q), p = l + Len(lead), q = p + Len(text),
         NEW k, NEW v, NEW y, NoNl(text), OneToken(text, k), Before(x, lead, v, k),
         trail = <<>> \/ trail = <<Nl(y)>>,
         NEW m \in (l + 1)..Len(whole), whole[m].k = "nl"
  PROVE  NewBreak(x, lead, trail, whole, p, m, k, v, y)
  BY BreakIsNew DEF BreakParts

-----------------------------------------------------------------------------
(***************************************************************************)
(* The open parts: their lines so far, and the current one, which is that  *)
(* of the opener only before the first token of a subquery and in the      *)
(* operand of a CASE.  The "(" of a subquery keeps the line it was written *)
(* on, which is the indentation the scope starts from.  All of this of the *)
(* parts in which no literal moved a line before the token p.              *)
(***************************************************************************)
Calm(x, s, p) ==
  /\ s \in SpansOf(x.subqueries) \/ OnOwnLine(x, s[1])
  /\ \A j \in DOMAIN x.lastLine : ~(s[1] <= j /\ j < p)

TopDeep ==
  \A s \in Bracketed :
    s[1] < i /\ i <= s[2] /\ Calm(in, s, i) =>
      \/ Deeper(in, s[1], Lines[s[1]], LineIndent(b), i - 1)
      \/ s[1] \in DOMAIN in.subqueries /\ i = s[1] + 1

SubqueriesDeep ==
  \A q \in DOMAIN in.subqueries : \A s \in Bracketed :
    q < i /\ s[1] < q /\ q <= s[2] /\ Calm(in, s, q) => Deeper(in, s[1], Lines[s[1]], Lines[q], q - 1)

OpenDeeper ==
  \A s \in Bracketed :
    s[1] < i /\ i <= s[2] /\ Calm(in, s, i) =>
      \A m \in (starts[s[1]] + 1)..Len(b) : BreakDeeper(in, b, s[1], Lines[s[1]], m)

ClosedDeeper ==
  \A s \in Bracketed :
    s[2] < i /\ Calm(in, s, s[2]) =>
      \A m \in (starts[s[1]] + 1)..(starts[s[2]] - 1) : BreakDeeper(in, b, s[1], Lines[s[1]], m)

DeepInv == TopDeep /\ SubqueriesDeep /\ OpenDeeper /\ ClosedDeeper

LEMMA PartsIn ==
  ASSUME Inv
  PROVE  /\ in.n \in Nat /\ i \in Nat
         /\ \A s \in Bracketed : /\ s[1] \in 1..in.n /\ s[2] \in 1..in.n /\ s[1] < s[2]
                                 /\ s[1] \in Nat /\ s[2] \in Nat
<1>1. WellFormed(in) /\ in.n \in Nat /\ i \in Nat
  BY Facts
<1>2. \A s \in Bracketed : s[1] \in 1..in.n /\ s[2] \in 1..in.n /\ s[1] < s[2]
  BY <1>1 DEF WellFormed, PartsNested, Spans, Bracketed
<1> QED
  BY <1>1, <1>2

LEMMA CalmEarlier ==
  ASSUME WellFormed(in), NEW s, NEW p \in Int, NEW q \in Int, q <= p, Calm(in, s, p)
  PROVE  Calm(in, s, q)
<1>1. \A j \in DOMAIN in.lastLine : j \in Nat
  BY StartLinesNat
<1>2. \A j \in DOMAIN in.lastLine : j < q => j < p
  BY <1>1
<1> QED
  BY <1>2 DEF Calm

LEMMA CalmNext ==
  ASSUME Inv, NEW s \in Bracketed, Calm(in, s, i + 1)
  PROVE  Calm(in, s, i) /\ (s[1] <= i => i \notin DOMAIN in.lastLine)
<1>1. WellFormed(in) /\ i \in Nat
  BY Facts
<1>2. Calm(in, s, i)
  BY <1>1, CalmEarlier
<1>3. s[1] <= i => i \notin DOMAIN in.lastLine
  <2>1. i < i + 1
    BY <1>1
  <2> QED
    BY <2>1, Zenon DEF Calm
<1> QED
  BY <1>2, <1>3

\* The lines of the parts, after token i was written.
LEMMA PartsWritten ==
  ASSUME Inv, WrittenOnce, OpenDeeper, ClosedDeeper, NEW x, NEW y, WritesLine(x, y),
         NEW lead \in Seq(Piece), NEW text \in Seq(Piece), NEW trail \in Seq(Piece),
         NoNl(text), OneToken(text, i), Before(in, lead, x, i), trail = <<>> \/ trail = <<Nl(y)>>,
         b' = b \o lead \o text \o trail, starts' = [starts EXCEPT ![i] = Len(b) + Len(lead)],
         lead \notin {<<>>, <<Sp>>} =>
           \A s \in Bracketed : s[1] < i /\ i < s[2] /\ Calm(in, s, i + 1) => Deeper(in, s[1], Lines[s[1]], x, i),
         trail = <<Nl(y)>> =>
           \A s \in Bracketed : /\ s[1] < i /\ i < s[2] /\ Calm(in, s, i + 1) => y >= Lines[s[1]] + 2
                                /\ s[1] = i /\ Calm(in, s, i + 1) => y >= x + 2,
         \A s \in Bracketed : s[2] = i => Len(lead) = 1
  PROVE  OpenDeeper' /\ ClosedDeeper'
<1> DEFINE l == Len(b)
           p == Len(b) + Len(lead)
           q == Len(b) + Len(lead) + Len(text)
<1>1. /\ b \in Seq(Piece) /\ starts \in [1..in.n -> Nat] /\ in.n \in Nat /\ i \in 1..in.n
      /\ in' = in /\ i' = i + 1
      /\ \A k \in 1..(i - 1) : Lines'[k] = Lines[k]
      /\ Lines'[i] = x
  BY Facts DEF TypeOK, WritesLine
<1>2. /\ Cut(b', b, lead, text, trail, l, p, q) /\ p = l + Len(lead) /\ q = p + Len(text)
      /\ l \in Nat /\ Len(lead) \in Nat
  <2>1. Cut(b', b, lead, text, trail, l, p, q)
    BY <1>1, CutAt
  <2> QED
    BY <1>1, <2>1
<1>3. l = Len(b) /\ starts' = [starts EXCEPT ![i] = p]
  OBVIOUS
<1> HIDE DEF l, p, q
<1>4. l \in Nat /\ p \in Nat /\ l <= p /\ Len(b') \in Nat /\ p <= Len(b') /\ Len(b) <= Len(b')
  BY <1>2, <1>3 DEF Cut
<1>16. \A z \in 1..Len(b) : b'[z] = b[z]
  BY <1>2, <1>3 DEF Cut
<1>5. ASSUME NEW m \in 1..Len(b), NEW o, NEW line, BreakDeeper(in, b, o, line, m)
      PROVE  BreakDeeper(in, b', o, line, m)
  <2>1. PICK whole, out : whole = b' /\ out = b
    OBVIOUS
  <2>2. BreakDeeper(in, whole, o, line, m)
    BY <1>2, <1>3, <1>4, <1>5, <1>16, <2>1, BreakKept
  <2> QED
    BY <2>1, <2>2
<1>6. ASSUME NEW m \in (l + 1)..Len(b'), b'[m].k = "nl"
      PROVE  \/ lead \notin {<<>>, <<Sp>>} /\ m <= p /\ m < Len(b') /\ b'[m].v = x /\ b'[m + 1].v = i
             \/ Blank(in, b', m)
             \/ m > p /\ trail = <<Nl(y)>> /\ b'[m].v = y
  <2>1. PICK whole, k, st : whole = b' /\ k = i /\ st = in
    OBVIOUS
  <2>2. Cut(whole, b, lead, text, trail, l, p, q)
    BY <1>2, <2>1
  <2>3. m \in (l + 1)..Len(whole) /\ whole[m].k = "nl"
    BY <1>6, <2>1
  <2>4. OneToken(text, k) /\ Before(st, lead, x, k)
    BY <2>1
  <2>5. p = l + Len(lead) /\ q = p + Len(text) /\ NoNl(text) /\ (trail = <<>> \/ trail = <<Nl(y)>>)
    BY <1>2
  <2>6. NewBreak(st, lead, trail, whole, p, m, k, x, y)
    BY <2>2, <2>3, <2>4, <2>5, BreaksWritten
  <2> QED
    BY <2>1, <2>6 DEF NewBreak
<1>7. \A k \in 1..(i - 1) : starts'[k] = starts[k] /\ k # i /\ k \in 1..in.n
  BY <1>1, <1>3
<1>8. starts'[i] = p
  BY <1>1, <1>3
<1>9. Bracketed' = Bracketed
  BY <1>1 DEF Bracketed
<1>10. \A s \in Bracketed : s[1] < i => s[1] \in 1..(i - 1)
  BY <1>1, PartsIn
<1>15. i \in Nat
  BY <1>1
<1>11. ASSUME NEW s \in Bracketed, s[1] < i + 1, i + 1 <= s[2], Calm(in, s, i + 1),
              NEW m \in (starts'[s[1]] + 1)..Len(b')
       PROVE  BreakDeeper(in, b', s[1], Lines'[s[1]], m)
  <2>0. s[1] \in Nat /\ s[2] \in Nat
    BY PartsIn
  <2>1. CASE s[1] = i
    <3>1. m \in (l + 1)..Len(b') /\ m > p
      BY <1>4, <1>8, <1>11, <2>1
    <3>2. CASE b'[m].k # "nl"
      BY <3>2 DEF BreakDeeper
    <3>3. CASE b'[m].k = "nl"
      <4>1. Blank(in, b', m) \/ (trail = <<Nl(y)>> /\ b'[m].v = y)
        BY <1>4, <1>6, <3>1, <3>3
      <4>2. trail = <<Nl(y)>> => y >= Lines'[s[1]] + 2
        BY <1>1, <1>11, <2>1
      <4> QED
        BY <4>1, <4>2 DEF BreakDeeper
    <3> QED
      BY <3>2, <3>3
  <2>2. CASE s[1] # i
    <3>1. s[1] < i /\ i < s[2] /\ s[1] \in 1..(i - 1) /\ i <= s[2]
      <4>1. s[1] < i + 1 /\ i + 1 <= s[2]
        BY <1>11
      <4>2. s[1] < i /\ i < s[2] /\ i <= s[2]
        BY <1>15, <2>0, <2>2, <4>1, SMT
      <4> QED
        BY <1>10, <4>2
    <3>2. starts'[s[1]] = starts[s[1]] /\ Lines'[s[1]] = Lines[s[1]] /\ starts[s[1]] \in Nat
      BY <1>1, <1>7, <3>1
    <3>3. CASE m <= l
      <4>1. m \in (starts[s[1]] + 1)..Len(b) /\ m \in 1..Len(b)
        BY <1>3, <1>4, <3>2, <3>3
      <4>2. BreakDeeper(in, b, s[1], Lines[s[1]], m)
        BY <1>11, <3>1, <4>1, CalmNext DEF OpenDeeper
      <4> QED
        BY <1>5, <3>2, <4>1, <4>2
    <3>4. CASE m > l /\ b'[m].k = "nl"
      <4>1. m \in (l + 1)..Len(b')
        BY <1>4, <3>2, <3>4
      <4>2. \/ lead \notin {<<>>, <<Sp>>} /\ m < Len(b') /\ b'[m].v = x /\ b'[m + 1].v = i
            \/ Blank(in, b', m)
            \/ trail = <<Nl(y)>> /\ b'[m].v = y
        BY <1>6, <3>4, <4>1
      <4>3. lead \notin {<<>>, <<Sp>>} => Deeper(in, s[1], Lines[s[1]], x, i)
        BY <1>11, <3>1
      <4>4. trail = <<Nl(y)>> => y >= Lines[s[1]] + 2
        BY <1>11, <3>1
      <4> QED
        BY <3>2, <4>2, <4>3, <4>4 DEF BreakDeeper, Deeper
    <3>5. CASE b'[m].k # "nl"
      BY <3>5 DEF BreakDeeper
    <3>6. m \in Int /\ l \in Int
      BY <1>4, <3>2
    <3>7. m <= l \/ m > l
      BY <3>6
    <3> QED
      BY <3>3, <3>4, <3>5, <3>7, Zenon
  <2> QED
    BY <2>1, <2>2
<1>12. ASSUME NEW s \in Bracketed, s[2] < i + 1, Calm(in, s, s[2]),
              NEW m \in (starts'[s[1]] + 1)..(starts'[s[2]] - 1)
       PROVE  BreakDeeper(in, b', s[1], Lines'[s[1]], m)
  <2>1. /\ s[1] \in Nat /\ s[2] \in Nat /\ s[1] < s[2] /\ s[1] < i /\ s[1] \in 1..(i - 1)
    <3>1. s[1] \in Nat /\ s[2] \in Nat /\ s[1] < s[2]
      BY PartsIn
    <3>2. s[1] < i
      BY <1>12, <1>15, <3>1
    <3> QED
      BY <1>10, <3>1, <3>2
  <2>2. starts'[s[1]] = starts[s[1]] /\ Lines'[s[1]] = Lines[s[1]] /\ starts[s[1]] \in Nat
    BY <1>1, <1>7, <2>1
  <2>3. BreakDeeper(in, b, s[1], Lines[s[1]], m) /\ m \in 1..Len(b)
    <3>1. CASE s[2] = i
      <4>1. starts'[s[2]] = l + 1
        <5>1. Len(lead) = 1
          BY <3>1
        <5> QED
          BY <1>2, <1>8, <3>1, <5>1
      <4>2. m \in (starts[s[1]] + 1)..Len(b) /\ m \in 1..Len(b)
        <5>1. Len(b) \in Nat /\ starts'[s[2]] = Len(b) + 1
          BY <1>3, <1>4, <4>1
        <5> QED
          BY <2>2, <5>1
      <4>3. s[1] < i /\ i <= s[2] /\ Calm(in, s, i)
        BY <1>1, <1>12, <2>1, <3>1
      <4> QED
        BY <4>2, <4>3 DEF OpenDeeper
    <3>2. CASE s[2] # i
      <4>1. s[2] < i /\ s[2] \in 1..(i - 1)
        <5>1. s[2] < i
          BY <1>12, <1>15, <2>1, <3>2
        <5> QED
          BY <1>15, <2>1, <5>1
      <4>2. starts'[s[2]] = starts[s[2]] /\ starts[s[2]] \in Nat
        BY <1>1, <1>7, <4>1
      <4>3. starts[s[2]] < ends[s[2]] /\ ends[s[2]] <= Len(b)
        BY <4>1 DEF WrittenOnce
      <4>4. ends[s[2]] \in Nat
        <5>1. ends \in [1..in.n -> Nat]
          BY Facts DEF TypeOK
        <5> QED
          BY <1>7, <4>1, <5>1
      <4>5. m \in (starts[s[1]] + 1)..(starts[s[2]] - 1) /\ m \in 1..Len(b)
        <5>1. Len(b) \in Nat
          BY <1>3, <1>4
        <5>2. starts[s[1]] \in Nat /\ m \in (starts[s[1]] + 1)..(starts[s[2]] - 1)
          BY <2>2, <4>2
        <5>3. starts[s[2]] - 1 <= Len(b) /\ starts[s[2]] \in Nat
          BY <4>2, <4>3, <4>4, <5>1
        <5> QED
          BY <5>1, <5>2, <5>3
      <4> QED
        BY <1>12, <4>1, <4>5 DEF ClosedDeeper
    <3> QED
      BY <3>1, <3>2
  <2> QED
    BY <1>5, <2>2, <2>3
<1>13. OpenDeeper'
  BY <1>1, <1>9, <1>11 DEF OpenDeeper
<1>14. ClosedDeeper'
  BY <1>1, <1>9, <1>12 DEF ClosedDeeper
<1> QED
  BY <1>13, <1>14

-----------------------------------------------------------------------------
(* The lines of the openers of the open parts. *)

\* An open part of the last level has an entry in its stack.
LEMMA EntryOf ==
  ASSUME NEW g, Ordered(g), Laminar(g), NEW f, NEW C, NEW O, NEW E, NEW n \in Nat \ {0}, NEW p \in Nat,
         ScopesOpen(f, O, E, n, p), Tracked(g, C, O, n, p), \A k \in 1..n : O[k] \in Nat,
         NEW o \in DOMAIN g, OpenAt(g, o, p), O[n] < o
  PROVE  \E m \in 1..Len(C[n]) : C[n][m] = g[o]
<1>1. PICK k \in 1..n : \E m \in 1..Len(C[k]) : C[k][m] = g[o]
  BY DEF Tracked, AllOpen
<1>2. PICK m \in 1..Len(C[k]) : C[k][m] = g[o]
  BY <1>1
<1>3. k = n
  <2> SUFFICES ASSUME k < n PROVE FALSE
    OBVIOUS
  <2>1. PICK e \in DOMAIN g : g[e] = g[o] /\ e < O[k + 1]
    BY <1>2 DEF Tracked, Closers
  <2>2. e = o
    BY <2>1 DEF Laminar, Ordered, Apart
  <2>3. k + 1 \in 1..n /\ n \in 1..n /\ (k + 1 = n \/ k + 1 < n)
    OBVIOUS
  <2>4. k + 1 < n => O[k + 1] < O[n]
    BY <2>3 DEF ScopesOpen
  <2>5. O[k + 1] \in Nat /\ O[n] \in Nat /\ o \in Nat
    BY <2>3 DEF Ordered
  <2> QED
    BY <2>1, <2>2, <2>3, <2>4, <2>5
<1> QED
  BY <1>2, <1>3

GroupBelow(s) ==
  /\ sc.condGroups # <<>>
  /\ \/ s[2] = Top(sc.condGroups) /\ Lines[s[1]] = CondIndent(sc) - 2
     \/ Lines[s[1]] <= CondIndent(sc) - 4

CaseBelow(s) ==
  /\ sc.cases # <<>>
  /\ \/ s[2] = Top(sc.caseEnds) /\ Lines[s[1]] = Top(sc.cases)
     \/ Lines[s[1]] <= Top(sc.cases) - 4

LEMMA OpenGroupLine ==
  ASSUME Inv, LineInv, NEW o \in DOMAIN in.condGroups, OpenAt(in.condGroups, o, i), sc.open < o, OnOwnLine(in, o)
  PROVE  GroupBelow(<<o, in.condGroups[o]>>)
<1> DEFINE N == Len(Stack)
<1>1. /\ N \in Nat \ {0} /\ i \in Nat /\ sc \in Scopes /\ TypeOK /\ WellFormed(in)
      /\ ScopesOpen(in.subqueries, Opens, Closes, N, i)
      /\ Tracked(in.condGroups, GroupStacks, Opens, N, i)
  BY Facts
<1>2. /\ GroupStacks[N] = sc.condGroups /\ Opens[N] = sc.open
      /\ \A k \in 1..N : Opens[k] \in Nat
  BY <1>1, Current
<1>3. Ordered(in.condGroups) /\ Laminar(in.condGroups)
  BY <1>1, Parts
<1> HIDE DEF N
<1>4. PICK m \in 1..Len(sc.condGroups) : sc.condGroups[m] = in.condGroups[o]
  <2>1. PICK g, f, C, O, E, p :
          g = in.condGroups /\ f = in.subqueries /\ C = GroupStacks /\ O = Opens /\ E = Closes /\ p = i
    OBVIOUS
  <2>2. Ordered(g) /\ Laminar(g) /\ p \in Nat
    BY <1>1, <1>3, <2>1
  <2>3. ScopesOpen(f, O, E, N, p)
    BY <1>1, <2>1, Zenon
  <2>4. Tracked(g, C, O, N, p)
    BY <1>1, <2>1, Zenon
  <2>5. \A k \in 1..N : O[k] \in Nat
    BY <1>2, <2>1
  <2>6. o \in DOMAIN g /\ OpenAt(g, o, p) /\ O[N] < o
    BY <1>2, <2>1
  <2>7. \E m \in 1..Len(C[N]) : C[N][m] = g[o]
    BY <1>1, <2>2, <2>3, <2>4, <2>5, <2>6, EntryOf
  <2> QED
    BY <1>2, <2>1, <2>7
<1>5. GroupLines(in, Lines, sc, i)
  BY DEF LineInv, TopLine, ScopeLine
<1>6. PICK e \in DOMAIN in.condGroups :
        in.condGroups[e] = sc.condGroups[m] /\ On(in, Lines, e, BodyIndent(sc) + 2 * (m - 1))
  BY <1>5 DEF GroupLines
<1>7. e = o
  BY <1>3, <1>4, <1>6 DEF Laminar, Ordered, Apart
<1>8. sc.condGroups \in Seq(Nat) /\ Len(sc.condGroups) \in Nat /\ sc.condGroups # <<>> /\ BodyIndent(sc) \in Int
  <2>1. sc.condGroups \in Seq(Nat) /\ BodyIndent(sc) \in Int
    BY <1>1, ScopeIndents DEF Scopes
  <2> QED
    BY <1>4, <2>1
<1>9. Lines[o] = BodyIndent(sc) + 2 * (m - 1)
  BY <1>6, <1>7 DEF On
<1>10. CondIndent(sc) = BodyIndent(sc) + 2 * Len(sc.condGroups)
  BY DEF CondIndent
<1>11. CASE m = Len(sc.condGroups)
  <2>1. in.condGroups[o] = Top(sc.condGroups)
    BY <1>4, <1>11 DEF Top
  <2>2. Lines[o] = CondIndent(sc) - 2
    BY <1>8, <1>9, <1>10, <1>11
  <2> QED
    BY <1>8, <2>1, <2>2 DEF GroupBelow
<1>12. CASE m # Len(sc.condGroups)
  <2>1. m <= Len(sc.condGroups) - 1
    BY <1>8, <1>12
  <2>2. Lines[o] <= CondIndent(sc) - 4
    BY <1>8, <1>9, <1>10, <2>1
  <2> QED
    BY <1>8, <2>2 DEF GroupBelow
<1> QED
  BY <1>11, <1>12

LEMMA OpenCaseLine ==
  ASSUME Inv, LineInv, NEW o \in DOMAIN in.caseEnd, OpenAt(in.caseEnd, o, i), sc.open < o, OnOwnLine(in, o)
  PROVE  CaseBelow(<<o, in.caseEnd[o]>>)
<1> DEFINE N == Len(Stack)
<1>1. /\ N \in Nat \ {0} /\ i \in Nat /\ sc \in Scopes /\ TypeOK /\ WellFormed(in)
      /\ ScopesOpen(in.subqueries, Opens, Closes, N, i)
      /\ Tracked(in.caseEnd, CaseStacks, Opens, N, i)
  BY Facts
<1>2. /\ CaseStacks[N] = sc.caseEnds /\ Opens[N] = sc.open
      /\ \A k \in 1..N : Opens[k] \in Nat
  BY <1>1, Current
<1>3. Ordered(in.caseEnd) /\ Laminar(in.caseEnd)
  BY <1>1, Parts
<1> HIDE DEF N
<1>4. PICK m \in 1..Len(sc.caseEnds) : sc.caseEnds[m] = in.caseEnd[o]
  <2>1. PICK g, f, C, O, E, p :
          g = in.caseEnd /\ f = in.subqueries /\ C = CaseStacks /\ O = Opens /\ E = Closes /\ p = i
    OBVIOUS
  <2>2. Ordered(g) /\ Laminar(g) /\ p \in Nat
    BY <1>1, <1>3, <2>1
  <2>3. ScopesOpen(f, O, E, N, p)
    BY <1>1, <2>1, Zenon
  <2>4. Tracked(g, C, O, N, p)
    BY <1>1, <2>1, Zenon
  <2>5. \A k \in 1..N : O[k] \in Nat
    BY <1>2, <2>1
  <2>6. o \in DOMAIN g /\ OpenAt(g, o, p) /\ O[N] < o
    BY <1>2, <2>1
  <2>7. \E m \in 1..Len(C[N]) : C[N][m] = g[o]
    BY <1>1, <2>2, <2>3, <2>4, <2>5, <2>6, EntryOf
  <2> QED
    BY <1>2, <2>1, <2>7
<1>5. /\ CaseLines(in, Lines, sc, i) /\ CaseSteps(sc) /\ Len(sc.cases) = Len(sc.caseEnds)
  BY SameLength DEF LineInv, TopLine, ScopeLine
<1>6. PICK e \in DOMAIN in.caseEnd : in.caseEnd[e] = sc.caseEnds[m] /\ On(in, Lines, e, sc.cases[m])
  BY <1>4, <1>5 DEF CaseLines
<1>7. e = o
  BY <1>3, <1>4, <1>6 DEF Laminar, Ordered, Apart
<1>8. /\ sc.cases \in Seq(Int) /\ Len(sc.cases) \in Nat /\ sc.cases # <<>> /\ CondIndent(sc) \in Int
      /\ m \in 1..Len(sc.cases) /\ Len(sc.cases) \in 1..Len(sc.cases)
  <2>1. sc.cases \in Seq(Int) /\ CondIndent(sc) \in Int
    BY <1>1, ScopeIndents DEF Scopes
  <2> QED
    BY <1>4, <1>5, <2>1
<1>9. Lines[o] = sc.cases[m]
  BY <1>6, <1>7 DEF On
<1>10. /\ sc.cases[m] = CondIndent(sc) + 4 * (m - 1)
       /\ Top(sc.cases) = CondIndent(sc) + 4 * (Len(sc.cases) - 1)
  BY <1>5, <1>8 DEF CaseSteps, Top
<1>11. CASE m = Len(sc.cases)
  <2>1. in.caseEnd[o] = Top(sc.caseEnds)
    BY <1>4, <1>5, <1>11 DEF Top
  <2>2. Lines[o] = Top(sc.cases)
    BY <1>9, <1>11 DEF Top
  <2> QED
    BY <1>8, <2>1, <2>2 DEF CaseBelow
<1>12. CASE m # Len(sc.cases)
  <2>1. m <= Len(sc.cases) - 1
    BY <1>8, <1>12
  <2>2. Lines[o] <= Top(sc.cases) - 4
    BY <1>8, <1>9, <1>10, <2>1
  <2> QED
    BY <1>8, <2>2 DEF CaseBelow
<1> QED
  BY <1>11, <1>12

\* What an open part is: one around the scope, a group, or a CASE of it.
LEMMA OpenPart ==
  ASSUME Inv, WrittenOnce, LineInv, SubqueriesDeep, NEW s \in Bracketed, s[1] < i, i <= s[2], Calm(in, s, i)
  PROVE  /\ Lines[s[1]] \in Int
         /\ \/ outer # <<>> /\ s[1] <= sc.open /\ Lines[s[1]] <= sc.clauseIndent - 2
            \/ sc.open < s[1] /\ s \in SpansOf(in.condGroups) /\ GroupBelow(s)
            \/ sc.open < s[1] /\ s \in SpansOf(in.caseEnd) /\ CaseBelow(s)
<1>1. /\ s[1] \in Nat /\ s[2] \in Nat /\ s[1] \in 1..(i - 1) /\ i \in Nat /\ s[1] < s[2]
  BY PartsIn
<1>2. Lines[s[1]] \in Int
  BY <1>1, LineType
<1>3. /\ sc \in Scopes /\ sc.open \in Nat /\ sc.clauseIndent \in Int
  BY Facts, Leads DEF Scopes
<1>4. CASE s[1] <= sc.open
  <2>1. outer # <<>>
    <3> SUFFICES ASSUME outer = <<>> PROVE FALSE
      OBVIOUS
    <3>1. Len(outer) = 0 /\ Opens[Len(outer) + 1] = sc.open
      BY OpensBefore
    <3>2. Opens[1] = 0
      BY Facts DEF ScopesOpen
    <3> QED
      BY <1>1, <1>3, <1>4, <3>1, <3>2
  <2>2. sc.open \in 1..(i - 1) /\ sc.clauseIndent = Lines[sc.open] + 2
    BY <2>1, ScopeOpened DEF LineInv, TopLine
  <2>3. sc.open \in DOMAIN in.subqueries /\ Lines[sc.open] \in Int
    <3>1. Len(outer) # 0
      BY <2>1, Facts
    <3>2. Len(outer) + 1 \in 2..(Len(outer) + 1) /\ Opens[Len(outer) + 1] = sc.open
      BY <3>1, OpensBefore
    <3>3. Opens[Len(outer) + 1] \in DOMAIN in.subqueries
      BY <3>2, OpensBefore
    <3> QED
      BY <2>2, <3>2, <3>3, LineType
  <2>4. Lines[s[1]] <= Lines[sc.open]
    <3>1. CASE s[1] = sc.open
      BY <2>3, <3>1
    <3>2. CASE s[1] # sc.open
      <4>1. sc.open < i /\ s[1] < sc.open /\ sc.open <= s[2]
        BY <1>1, <1>3, <1>4, <2>2, <3>2
      <4>2. Calm(in, s, sc.open)
        BY <1>1, <1>3, <4>1, Facts, CalmEarlier
      <4>3. Deeper(in, s[1], Lines[s[1]], Lines[sc.open], sc.open - 1)
        BY <2>3, <4>1, <4>2 DEF SubqueriesDeep
      <4> QED
        BY <1>2, <2>3, <4>3 DEF Deeper
    <3> QED
      BY <3>1, <3>2
  <2>5. Lines[s[1]] <= sc.clauseIndent - 2
    BY <1>2, <2>2, <2>3, <2>4
  <2> QED
    BY <1>2, <1>4, <2>1, <2>5
<1>5. CASE sc.open < s[1]
  <2>1. CASE s \in SpansOf(in.subqueries)
    <3>1. PICK q \in DOMAIN in.subqueries : s = <<q, in.subqueries[q]>>
      BY <2>1 DEF SpansOf
    <3>2. OpenAt(in.subqueries, q, i) /\ q = s[1]
      BY <3>1 DEF OpenAt
    <3>3. q <= sc.open
      BY <3>2, OpenInScope
    <3> QED
      BY <1>1, <1>3, <1>5, <3>2, <3>3
  <2>2. CASE s \in SpansOf(in.condGroups)
    <3>1. PICK o \in DOMAIN in.condGroups : s = <<o, in.condGroups[o]>>
      BY <2>2 DEF SpansOf
    <3>2. OpenAt(in.condGroups, o, i) /\ o = s[1]
      BY <3>1 DEF OpenAt
    <3>3. OnOwnLine(in, o)
      <4>1. Steady(<<o, in.condGroups[o]>>)
        BY <3>1 DEF Calm, Steady
      <4> QED
        BY <4>1, SteadyPart
    <3>4. GroupBelow(<<o, in.condGroups[o]>>)
      BY <1>5, <3>2, <3>3, OpenGroupLine
    <3> QED
      BY <1>2, <1>5, <2>2, <3>1, <3>4
  <2>3. CASE s \in SpansOf(in.caseEnd)
    <3>1. PICK o \in DOMAIN in.caseEnd : s = <<o, in.caseEnd[o]>>
      BY <2>3 DEF SpansOf
    <3>2. OpenAt(in.caseEnd, o, i) /\ o = s[1]
      BY <3>1 DEF OpenAt
    <3>3. OnOwnLine(in, o)
      <4>1. Steady(<<o, in.caseEnd[o]>>)
        BY <3>1 DEF Calm, Steady
      <4> QED
        BY <4>1, SteadyPart
    <3>4. CaseBelow(<<o, in.caseEnd[o]>>)
      BY <1>5, <3>2, <3>3, OpenCaseLine
    <3> QED
      BY <1>2, <1>5, <2>3, <3>1, <3>4
  <2> QED
    BY <2>1, <2>2, <2>3 DEF Bracketed
<1> QED
  BY <1>1, <1>3, <1>4, <1>5

-----------------------------------------------------------------------------
(* The steps. *)

LEMMA Indents ==
  ASSUME Inv, LineInv
  PROVE  /\ sc.clauseIndent \in Int /\ CondIndent(sc) \in Int
         /\ BodyIndent(sc) = sc.clauseIndent + 2
         /\ CondIndent(sc) >= BodyIndent(sc)
         /\ sc.condGroups = <<>> => CondIndent(sc) = BodyIndent(sc)
         /\ sc.condGroups # <<>> => CondIndent(sc) >= BodyIndent(sc) + 2
         /\ sc.cases # <<>> => Top(sc.cases) \in Int /\ Top(sc.cases) >= CondIndent(sc)
<1>1. /\ sc.condGroups \in Seq(Nat) /\ sc.cases \in Seq(Int) /\ CaseSteps(sc)
      /\ sc.clauseIndent \in Int /\ CondIndent(sc) \in Int
  BY Facts, Leads DEF Scopes, LineInv, TopLine, ScopeLine
<1>2. /\ Len(sc.condGroups) \in Nat /\ Len(<<>>) = 0
      /\ sc.condGroups # <<>> => Len(sc.condGroups) >= 1
  BY <1>1
<1>3. BodyIndent(sc) = sc.clauseIndent + 2 /\ CondIndent(sc) = BodyIndent(sc) + 2 * Len(sc.condGroups)
  BY DEF BodyIndent, CondIndent
<1>4. ASSUME sc.cases # <<>> PROVE Top(sc.cases) \in Int /\ Top(sc.cases) >= CondIndent(sc)
  <2>1. Len(sc.cases) \in 1..Len(sc.cases) /\ Len(sc.cases) >= 1 /\ Len(sc.cases) \in Nat
    BY <1>1, <1>4
  <2>2. Top(sc.cases) = CondIndent(sc) + 4 * (Len(sc.cases) - 1)
    BY <1>1, <2>1 DEF CaseSteps, Top
  <2> QED
    BY <1>1, <2>1, <2>2
<1> QED
  BY <1>1, <1>2, <1>3, <1>4

\* A break with the indentation v is deeper than the parts that stay open.
LEMMA BelowOpen ==
  ASSUME Inv, WrittenOnce, LineInv, SubqueriesDeep, NEW v \in Int, v >= sc.clauseIndent,
         sc.condGroups # <<>> =>
           v >= CondIndent(sc) \/ (i = Top(sc.condGroups) /\ v >= CondIndent(sc) - 2),
         sc.cases # <<>> =>
           v >= Top(sc.cases) + 2 \/ (i = Top(sc.caseEnds) /\ v >= Top(sc.cases) - 2)
  PROVE  \A s \in Bracketed :
           s[1] < i /\ i < s[2] /\ Calm(in, s, i + 1) =>
             v >= Lines[s[1]] + 2 /\ Deeper(in, s[1], Lines[s[1]], v, i)
<1> SUFFICES ASSUME NEW s \in Bracketed, s[1] < i, i < s[2], Calm(in, s, i + 1) PROVE v >= Lines[s[1]] + 2
  BY DEF Deeper
<1>1. i <= s[2] /\ s[2] # i /\ Calm(in, s, i)
  BY PartsIn, CalmNext
<1>2. sc.clauseIndent \in Int /\ CondIndent(sc) \in Int /\ (sc.cases # <<>> => Top(sc.cases) \in Int)
  BY Indents
<1>3. Lines[s[1]] \in Int
  BY <1>1, OpenPart
<1>4. CASE Lines[s[1]] <= sc.clauseIndent - 2
  BY <1>2, <1>3, <1>4
<1>5. CASE GroupBelow(s)
  <2>1. sc.condGroups # <<>>
    BY <1>5 DEF GroupBelow
  <2>2. CASE Lines[s[1]] <= CondIndent(sc) - 4
    BY <1>2, <1>3, <2>1, <2>2
  <2>3. CASE s[2] = Top(sc.condGroups) /\ Lines[s[1]] = CondIndent(sc) - 2
    BY <1>1, <1>2, <1>3, <2>1, <2>3
  <2> QED
    BY <1>5, <2>2, <2>3 DEF GroupBelow
<1>6. CASE CaseBelow(s)
  <2>1. sc.cases # <<>>
    BY <1>6 DEF CaseBelow
  <2>2. CASE Lines[s[1]] <= Top(sc.cases) - 4
    BY <1>2, <1>3, <2>1, <2>2
  <2>3. CASE s[2] = Top(sc.caseEnds) /\ Lines[s[1]] = Top(sc.cases)
    BY <1>1, <1>2, <1>3, <2>1, <2>3
  <2> QED
    BY <1>6, <2>2, <2>3 DEF CaseBelow
<1> QED
  BY <1>1, <1>4, <1>5, <1>6, OpenPart

\* After the "(" of a subquery comes a clause or a subquery.
LEMMA FirstToken ==
  ASSUME Inv, i - 1 \in DOMAIN in.subqueries
  PROVE  i \in DOMAIN in.clauseStarts \cup DOMAIN in.subqueries
<1>1. WellFormed(in) /\ i \in Nat
  BY Facts
<1>2. i - 1 + 1 = i
  BY <1>1
<1>3. i - 1 + 1 \in DOMAIN in.clauseStarts \cup DOMAIN in.subqueries
  BY <1>1 DEF WellFormed, BodiesStart
<1> QED
  BY <1>2, <1>3

\* A token that stays on the line.
LEMMA OnLine ==
  ASSUME Inv, TopDeep, i \notin DOMAIN in.cases, i - 1 \notin DOMAIN in.subqueries
  PROVE  \A s \in Bracketed :
           s[1] < i /\ i <= s[2] /\ Calm(in, s, i) =>
             /\ Deeper(in, s[1], Lines[s[1]], LineIndent(b), i - 1)
             /\ Deeper(in, s[1], Lines[s[1]], LineIndent(b), i)
<1> SUFFICES ASSUME NEW s \in Bracketed, s[1] < i, i <= s[2], Calm(in, s, i)
             PROVE  /\ Deeper(in, s[1], Lines[s[1]], LineIndent(b), i - 1)
                    /\ Deeper(in, s[1], Lines[s[1]], LineIndent(b), i)
  OBVIOUS
<1>1. s[1] \in Nat /\ i \in Nat /\ WellFormed(in)
  BY PartsIn, Facts
<1>2. ~(s[1] \in DOMAIN in.subqueries /\ i = s[1] + 1)
  <2> SUFFICES ASSUME s[1] \in DOMAIN in.subqueries, i = s[1] + 1 PROVE FALSE
    OBVIOUS
  <2>1. i - 1 = s[1]
    BY <1>1
  <2> QED
    BY <2>1
<1>3. Deeper(in, s[1], Lines[s[1]], LineIndent(b), i - 1)
  BY <1>2 DEF TopDeep
<1>4. Operand(in, s[1], i - 1) => Operand(in, s[1], i)
  <2> HAVE Operand(in, s[1], i - 1)
  <2>1. \A j \in DOMAIN in.cases : j \in Nat
    BY <1>1 DEF WellFormed, LayoutType
  <2>2. \A j \in DOMAIN in.cases : j <= i => j <= i - 1
    BY <1>1, <2>1
  <2> QED
    BY <2>2 DEF Operand
<1> QED
  BY <1>3, <1>4 DEF Deeper

LEMMA DeepStep ==
  ASSUME Inv, DeepInv, OpenDeeper', ClosedDeeper', NEW x, NEW y, WritesLine(x, y),
         \A s \in Bracketed : s[1] < i /\ i < s[2] /\ Calm(in, s, i + 1) => Deeper(in, s[1], Lines[s[1]], y, i),
         \A s \in Bracketed :
           s[1] = i /\ Calm(in, s, i + 1) => i \in DOMAIN in.subqueries \/ Deeper(in, i, x, y, i),
         i \in DOMAIN in.subqueries =>
           \A s \in Bracketed : s[1] < i /\ i <= s[2] /\ Calm(in, s, i) => Deeper(in, s[1], Lines[s[1]], x, i - 1)
  PROVE  DeepInv'
<1>1. /\ in' = in /\ i' = i + 1 /\ i \in 1..in.n /\ LineIndent(b') = y /\ Lines'[i] = x
      /\ \A k \in 1..(i - 1) : Lines'[k] = Lines[k]
      /\ i \in Nat /\ in.n \in Nat
  BY Facts DEF WritesLine
<1>2. Bracketed' = Bracketed
  BY <1>1 DEF Bracketed
<1>3. \A s \in Bracketed : s[1] \in Nat /\ s[2] \in Nat /\ (s[1] < i => s[1] \in 1..(i - 1))
  BY <1>1, PartsIn
<1>4. TopDeep'
  <2> SUFFICES ASSUME NEW s \in Bracketed, s[1] < i + 1, i + 1 <= s[2], Calm(in, s, i + 1)
               PROVE  \/ Deeper(in, s[1], Lines'[s[1]], y, i + 1 - 1)
                      \/ s[1] \in DOMAIN in.subqueries /\ i + 1 = s[1] + 1
    BY <1>1, <1>2 DEF TopDeep
  <2>1. i + 1 - 1 = i
    BY <1>1
  <2>2. CASE s[1] = i
    BY <1>1, <2>1, <2>2
  <2>3. CASE s[1] # i
    <3>1. s[1] < i /\ i < s[2] /\ s[1] \in 1..(i - 1)
      BY <1>1, <1>3, <2>3
    <3>2. Deeper(in, s[1], Lines[s[1]], y, i) /\ Lines'[s[1]] = Lines[s[1]]
      BY <1>1, <3>1
    <3> QED
      BY <2>1, <3>2
  <2> QED
    BY <2>2, <2>3
<1>5. SubqueriesDeep'
  <2> SUFFICES ASSUME NEW q \in DOMAIN in.subqueries, NEW s \in Bracketed,
                      q < i + 1, s[1] < q, q <= s[2], Calm(in, s, q)
               PROVE  Deeper(in, s[1], Lines'[s[1]], Lines'[q], q - 1)
    BY <1>1, <1>2 DEF SubqueriesDeep
  <2>1. q \in Nat /\ q > s[1]
    <3>1. Ordered(in.subqueries)
      BY Facts, Parts
    <3> QED
      BY <1>3, <3>1 DEF Ordered
  <2>2. s[1] < i /\ s[1] \in 1..(i - 1)
    BY <1>1, <1>3, <2>1
  <2>3. CASE q = i
    BY <1>1, <2>2, <2>3
  <2>4. CASE q # i
    <3>1. q < i
      BY <1>1, <2>1, <2>4
    <3>2. q \in 1..(i - 1)
      BY <1>1, <1>3, <2>1, <3>1
    <3>3. Deeper(in, s[1], Lines[s[1]], Lines[q], q - 1)
      BY <3>1, <2>1 DEF DeepInv, SubqueriesDeep
    <3> QED
      BY <1>1, <2>2, <3>2, <3>3
  <2> QED
    BY <2>3, <2>4
<1> QED
  BY <1>4, <1>5 DEF DeepInv

\* A call of write.
LEMMA DeepWrite ==
  ASSUME Inv, WrittenOnce, DeepInv, hint = 0, in' = in, i <= in.n, i \notin DOMAIN in.subqueries,
         NEW lead \in Seq(Piece), NEW text, text \in {<<Upper(i)>>, <<Tok(i, FALSE)>>},
         NEW trail \in Seq(Piece), Write(lead, text, trail),
         NEW x, NEW y, Lead(lead, x), Trail(trail, AfterToken(x), y), Before(in, lead, x, i),
         lead \notin {<<>>, <<Sp>>} =>
           \A s \in Bracketed : s[1] < i /\ i < s[2] /\ Calm(in, s, i + 1) => Deeper(in, s[1], Lines[s[1]], x, i),
         trail = <<Nl(y)>> =>
           \A s \in Bracketed : /\ s[1] < i /\ i < s[2] /\ Calm(in, s, i + 1) => y >= Lines[s[1]] + 2
                                /\ s[1] = i /\ Calm(in, s, i + 1) => y >= x + 2,
         \A s \in Bracketed : s[2] = i => Len(lead) = 1,
         \A s \in Bracketed : s[1] < i /\ i < s[2] /\ Calm(in, s, i + 1) => Deeper(in, s[1], Lines[s[1]], y, i),
         \A s \in Bracketed : s[1] = i /\ Calm(in, s, i + 1) => Deeper(in, i, x, y, i)
  PROVE  DeepInv'
<1>1. WritesLine(x, y)
  BY LineOfToken
<1>2. /\ b' = b \o lead \o text \o trail
      /\ starts' = [starts EXCEPT ![i] = Len(b) + Len(lead)]
  BY DEF Write
<1>3. text \in Seq(Piece) /\ NoNl(text) /\ OneToken(text, i)
  BY Around, TokenPieces, Zenon DEF Upper
<1>4. trail = <<>> \/ trail = <<Nl(y)>>
  BY DEF Trail
<1>5. OpenDeeper' /\ ClosedDeeper'
  <2>1. OpenDeeper /\ ClosedDeeper
    BY DEF DeepInv
  <2> QED
    BY <1>1, <1>2, <1>3, <1>4, <2>1, PartsWritten
<1> QED
  BY <1>1, <1>5, DeepStep

\* A token on a line of its own, before which nothing is on the line.
LEMMA DeepLead ==
  ASSUME Inv, WrittenOnce, DeepInv, hint = 0, in' = in, i <= in.n, i \notin DOMAIN in.subqueries,
         Role \notin {"plain", "hint"},
         NEW text, text \in {<<Upper(i)>>, <<Tok(i, FALSE)>>}, NEW x \in Int, Write(<<Nl(x)>>, text, <<>>),
         \A s \in Bracketed : s[1] < i /\ i < s[2] /\ Calm(in, s, i + 1) => Deeper(in, s[1], Lines[s[1]], x, i),
         \A s \in Bracketed : s[1] = i => Deeper(in, i, x, x, i)
  PROVE  DeepInv'
<1>1. <<Nl(x)>> \in Seq(Piece) /\ <<>> \in Seq(Piece)
  BY Leads
<1>2. Lead(<<Nl(x)>>, x) /\ Trail(<<>>, AfterToken(x), x) /\ Before(in, <<Nl(x)>>, x, i)
  BY OnOneLine DEF Lead, Trail, Before, AfterToken
<1>3. Len(<<Nl(x)>>) = 1 /\ <<>> # <<Nl(x)>>
  OBVIOUS
<1> QED
  BY <1>1, <1>2, <1>3, DeepWrite

LEMMA NotOpener ==
  ASSUME NEW f
  PROVE  /\ ~ EndOf(in.subqueries, f) /\ ~ EndOf(in.condGroups, f) /\ ~ EndOf(in.caseEnd, f) =>
              f \notin DOMAIN in.subqueries /\ \A s \in Bracketed : s[1] # f /\ s[2] # f
BY DEF EndOf, Bracketed, SpansOf

LEMMA DeepCaseBranch == Inv /\ WrittenOnce /\ LineInv /\ DeepInv /\ CaseBranch => DeepInv'
<1> SUFFICES ASSUME Inv, WrittenOnce, LineInv, DeepInv, CaseBranch PROVE DeepInv'
  OBVIOUS
<1> DEFINE x == CaseIndent + 2
<1>1. /\ hint = 0 /\ i <= in.n /\ in' = in /\ Role \in {"when", "else"} /\ sc.cases # <<>>
      /\ Write(<<Nl(x)>>, <<Upper(i)>>, <<>>)
  BY DEF CaseBranch, At
<1>2. ~ EndOf(in.subqueries, i) /\ ~ EndOf(in.condGroups, i) /\ ~ EndOf(in.caseEnd, i)
  BY <1>1, PlainRoles
<1>3. i \notin DOMAIN in.subqueries /\ \A s \in Bracketed : s[1] # i /\ s[2] # i
  BY <1>2, NotOpener
<1>4. /\ x \in Int /\ x >= sc.clauseIndent /\ x >= CondIndent(sc) /\ x >= Top(sc.cases) + 2
  BY <1>1, Indents DEF CaseIndent
<1> HIDE DEF x
<1>5. \A s \in Bracketed : s[1] < i /\ i < s[2] /\ Calm(in, s, i + 1) => Deeper(in, s[1], Lines[s[1]], x, i)
  BY <1>4, BelowOpen DEF DeepInv
<1> QED
  BY <1>1, <1>3, <1>4, <1>5, DeepLead

LEMMA DeepCondOp == Inv /\ WrittenOnce /\ LineInv /\ DeepInv /\ CondOp => DeepInv'
<1> SUFFICES ASSUME Inv, WrittenOnce, LineInv, DeepInv, CondOp PROVE DeepInv'
  OBVIOUS
<1> DEFINE x == CondIndent(sc)
<1>1. /\ hint = 0 /\ i <= in.n /\ in' = in /\ Role = "condOp"
      /\ Write(<<Nl(x)>>, <<Upper(i)>>, <<>>)
  BY DEF CondOp, At
<1>2. /\ ~ EndOf(in.subqueries, i) /\ ~ EndOf(in.condGroups, i) /\ ~ EndOf(in.caseEnd, i)
      /\ i \in in.condOps
  BY <1>1, PlainRoles
<1>3. i \notin DOMAIN in.subqueries /\ \A s \in Bracketed : s[1] # i /\ s[2] # i
  BY <1>2, NotOpener
<1>4. sc.cases = <<>>
  BY <1>2, NoCaseOpen
<1>5. x \in Int /\ x >= sc.clauseIndent /\ x >= CondIndent(sc)
  BY Indents
<1> HIDE DEF x
<1>6. \A s \in Bracketed : s[1] < i /\ i < s[2] /\ Calm(in, s, i + 1) => Deeper(in, s[1], Lines[s[1]], x, i)
  BY <1>4, <1>5, BelowOpen DEF DeepInv
<1> QED
  BY <1>1, <1>3, <1>5, <1>6, DeepLead

LEMMA CloserOnly ==
  ASSUME Inv, NEW o, <<o, i>> \in Bracketed
  PROVE  \A s \in Bracketed : s[1] # i
<1>1. PICK t \in Bracketed : t = <<o, i>>
  OBVIOUS
<1>2. t[2] = i
  BY <1>1
<1> QED
  BY <1>2, OneSpan

LEMMA DeepCloseCondGroup == Inv /\ WrittenOnce /\ LineInv /\ DeepInv /\ CloseCondGroup => DeepInv'
<1> SUFFICES ASSUME Inv, WrittenOnce, LineInv, DeepInv, CloseCondGroup PROVE DeepInv'
  OBVIOUS
<1> DEFINE x == CondIndent(sc')
<1>1. /\ hint = 0 /\ i <= in.n /\ in' = in /\ Role = "closeCondGroup"
      /\ sc' = [sc EXCEPT !.condGroups = Pop(@)]
      /\ Write(<<Nl(x)>>, <<Tok(i, FALSE)>>, <<>>)
  BY DEF CloseCondGroup, At
<1>2. sc.condGroups # <<>> /\ i = Top(sc.condGroups) /\ sc \in Scopes
  BY <1>1, Facts, Roles
<1>3. sc.cases = <<>>
  BY <1>2, NoCaseAtGroupEnd
<1>4. /\ x = CondIndent(sc) - 2
  <2>1. Len(Pop(sc.condGroups)) = Len(sc.condGroups) - 1 /\ Len(sc.condGroups) \in Nat
    <3>1. sc.condGroups \in Seq(Nat)
      BY <1>2 DEF Scopes
    <3>2. Len(sc.condGroups) \in Nat
      BY <3>1
    <3> QED
      BY <1>2, <3>1, <3>2, PopTop
  <2>2. sc'.condGroups = Pop(sc.condGroups) /\ BodyIndent(sc') = BodyIndent(sc)
    BY <1>1, <1>2 DEF Scopes, BodyIndent
  <2>3. BodyIndent(sc) \in Int
    BY Leads
  <2> QED
    BY <2>1, <2>2, <2>3 DEF CondIndent
<1> HIDE DEF x
<1>5. x \in Int /\ x >= sc.clauseIndent /\ x >= CondIndent(sc) - 2
  BY <1>2, <1>4, Indents
<1>6. \A s \in Bracketed : s[1] < i /\ i < s[2] /\ Calm(in, s, i + 1) => Deeper(in, s[1], Lines[s[1]], x, i)
  BY <1>2, <1>3, <1>5, BelowOpen DEF DeepInv
<1>7. \A s \in Bracketed : s[1] # i
  <2>1. PICK o \in DOMAIN in.condGroups : in.condGroups[o] = i
    BY <1>2, Closers2
  <2>2. <<o, i>> \in Bracketed
    BY <2>1, SpanOf
  <2> QED
    BY <2>2, CloserOnly
<1>8. i \notin DOMAIN in.subqueries
  <2> SUFFICES ASSUME i \in DOMAIN in.subqueries PROVE FALSE
    OBVIOUS
  <2>1. <<i, in.subqueries[i]>> \in Bracketed
    BY SpanOf
  <2> QED
    BY <1>7, <2>1
<1> QED
  BY <1>1, <1>5, <1>6, <1>7, <1>8, DeepLead

LEMMA DeepCloseCase == Inv /\ WrittenOnce /\ LineInv /\ DeepInv /\ CloseCase => DeepInv'
<1> SUFFICES ASSUME Inv, WrittenOnce, LineInv, DeepInv, CloseCase PROVE DeepInv'
  OBVIOUS
<1> DEFINE x == CaseIndent
<1>1. /\ hint = 0 /\ i <= in.n /\ in' = in /\ Role = "end" /\ sc.cases # <<>>
      /\ Write(<<Nl(x)>>, <<Upper(i)>>, <<>>)
  BY DEF CloseCase, At
<1>2. Top(sc.caseEnds) = i
  BY <1>1, AtEnd, Facts, Current
<1>3. /\ x \in Int /\ x >= sc.clauseIndent /\ x >= CondIndent(sc) /\ x >= Top(sc.cases) - 2
  BY <1>1, Indents DEF CaseIndent
<1> HIDE DEF x
<1>4. \A s \in Bracketed : s[1] < i /\ i < s[2] /\ Calm(in, s, i + 1) => Deeper(in, s[1], Lines[s[1]], x, i)
  BY <1>2, <1>3, BelowOpen DEF DeepInv
<1>5. \A s \in Bracketed : s[1] # i
  <2>1. PICK o \in DOMAIN in.caseEnd : in.caseEnd[o] = i
    BY <1>1, Facts, Roles DEF WellFormed, CasesNested, Range
  <2>2. <<o, i>> \in Bracketed
    BY <2>1, SpanOf
  <2> QED
    BY <2>2, CloserOnly
<1>6. i \notin DOMAIN in.subqueries
  <2> SUFFICES ASSUME i \in DOMAIN in.subqueries PROVE FALSE
    OBVIOUS
  <2>1. <<i, in.subqueries[i]>> \in Bracketed
    BY SpanOf
  <2> QED
    BY <1>5, <2>1
<1> QED
  BY <1>1, <1>3, <1>4, <1>5, <1>6, DeepLead

LEMMA DeepOpenCondGroup == Inv /\ WrittenOnce /\ LineInv /\ DeepInv /\ OpenCondGroup => DeepInv'
<1> SUFFICES ASSUME Inv, WrittenOnce, LineInv, DeepInv, OpenCondGroup PROVE DeepInv'
  OBVIOUS
<1> DEFINE x == LineIndent(b)
           y == CondIndent(sc')
<1>1. /\ hint = 0 /\ i <= in.n /\ in' = in /\ Role = "openCondGroup"
      /\ sc' = [sc EXCEPT !.condGroups = Append(@, in.condGroups[i])]
      /\ Write(Space, <<Tok(i, FALSE)>>, <<Nl(y)>>)
  BY DEF OpenCondGroup, At
<1>2. sc \in Scopes /\ WellFormed(in) /\ i \in DOMAIN in.condGroups /\ i \notin DOMAIN in.subqueries
  <2>1. i \notin DOMAIN in.subqueries
    BY <1>1 DEF Role
  <2> QED
    BY <1>1, <2>1, Facts, Roles
<1>3. sc.cases = <<>>
  BY <1>2, NoCaseOpen
<1>4. OnOwnLine(in, i) => x = CondIndent(sc)
  <2>1. InBody(in, i)
    BY <1>2 DEF WellFormed, InBodies
  <2> QED
    BY <1>3, <2>1 DEF LineInv, TopLine, ScopeLine, Settled
<1>a. AfterToken(x) = x
  BY <1>1, OnOneLine DEF AfterToken
<1>5. y = CondIndent(sc) + 2
  <2>1. sc.condGroups \in Seq(Nat) /\ BodyIndent(sc) \in Int
    BY <1>2, Leads DEF Scopes
  <2>2. Len(Append(sc.condGroups, in.condGroups[i])) = Len(sc.condGroups) + 1 /\ Len(sc.condGroups) \in Nat
    BY <2>1
  <2>3. sc'.condGroups = Append(sc.condGroups, in.condGroups[i]) /\ BodyIndent(sc') = BodyIndent(sc)
    BY <1>1, <1>2 DEF Scopes, BodyIndent
  <2> QED
    BY <2>1, <2>2, <2>3 DEF CondIndent
<1>6. Lead(Space, x) /\ Trail(<<Nl(y)>>, AfterToken(x), y) /\ Space \in {<<>>, <<Sp>>}
  <2>1. Space \in {<<>>, <<Sp>>}
    BY Zenon DEF Space
  <2> QED
    BY <2>1, Zenon DEF Lead, Trail
<1>7. Before(in, Space, x, i)
  BY <1>6, Zenon DEF Before
<1> HIDE DEF x, y
<1>8. y \in Int /\ y >= sc.clauseIndent /\ y >= CondIndent(sc) /\ (OnOwnLine(in, i) => y >= x + 2)
  BY <1>4, <1>5, Indents
<1>9. Space \in Seq(Piece) /\ <<Nl(y)>> \in Seq(Piece)
  BY <1>8, Leads
<1>10. \A s \in Bracketed :
         s[1] < i /\ i < s[2] /\ Calm(in, s, i + 1) => y >= Lines[s[1]] + 2 /\ Deeper(in, s[1], Lines[s[1]], y, i)
  BY <1>3, <1>8, BelowOpen DEF DeepInv
<1>11. \A s \in Bracketed : s[2] # i
  BY <1>2, Opener
<1>12. \A s \in Bracketed : s[1] = i /\ Calm(in, s, i + 1) => y >= x + 2 /\ Deeper(in, i, x, y, i)
  <2> SUFFICES ASSUME NEW s \in Bracketed, s[1] = i, Calm(in, s, i + 1) PROVE OnOwnLine(in, i)
    BY <1>8 DEF Deeper
  <2>1. s = <<i, s[2]>>
    BY DEF Bracketed, SpansOf
  <2>2. Steady(<<i, s[2]>>)
    BY <2>1 DEF Calm, Steady
  <2> QED
    BY <1>2, <2>2, SteadyPart
<1> QED
  BY <1>1, <1>2, <1>6, <1>7, <1>8, <1>9, <1>10, <1>11, <1>12, DeepWrite

\* In a part that no literal disturbed, the next token is on its own line.
LEMMA CalmLine ==
  ASSUME Inv, NEW s \in Bracketed, s[1] < i, i < s[2], Calm(in, s, i + 1)
  PROVE  OnOwnLine(in, i)
<1>1. /\ WellFormed(in) /\ i \in Nat /\ s[1] \in Nat /\ s[2] \in Nat /\ sc \in Scopes /\ sc.open \in Nat
  BY Facts, PartsIn DEF Scopes
<1>2. Ordered(in.subqueries) /\ \A j \in DOMAIN in.lastLine : j \in Nat
  BY <1>1, Parts, StartLinesNat
<1>3. \A j \in DOMAIN in.lastLine : j < i => j < s[1]
  <2> SUFFICES ASSUME NEW j \in DOMAIN in.lastLine, j < i, ~ (j < s[1]) PROVE FALSE
    OBVIOUS
  <2>1. s[1] <= j /\ j < i + 1
    BY <1>1, <1>2
  <2> QED
    BY <2>1 DEF Calm
<1> SUFFICES ASSUME NEW j \in DOMAIN in.lastLine, j < i, SameScope(in, j, i)
             PROVE  \E c \in StartLines(in) : j < c /\ c < i /\ SameScope(in, c, i)
  BY DEF OnOwnLine
<1>4. j < s[1] /\ j \in Nat
  BY <1>2, <1>3
<1>5. ~ (s \in SpansOf(in.subqueries))
  <2> SUFFICES ASSUME NEW q \in DOMAIN in.subqueries, s = <<q, in.subqueries[q]>> PROVE FALSE
    BY DEF SpansOf
  <2>1. s[1] = q /\ s[2] = in.subqueries[q]
    OBVIOUS
  <2>2. q < i /\ i <= in.subqueries[q]
    BY <1>1, <2>1
  <2>3. q < j
    BY <2>2 DEF SameScope
  <2> QED
    BY <1>1, <1>4, <2>1, <2>3
<1>6. SameScope(in, s[1], i)
  <2> SUFFICES ASSUME NEW q \in DOMAIN in.subqueries
               PROVE  (q < s[1] /\ s[1] <= in.subqueries[q]) <=> (q < i /\ i <= in.subqueries[q])
    BY DEF SameScope
  <2>1. q \in Nat /\ in.subqueries[q] \in Nat /\ q < in.subqueries[q]
    BY <1>2 DEF Ordered
  <2>2. CASE q < i /\ i <= in.subqueries[q]
    <3>1. q < j
      BY <2>2 DEF SameScope
    <3> QED
      BY <1>1, <1>4, <2>1, <2>2, <3>1
  <2>3. CASE q < s[1] /\ s[1] <= in.subqueries[q]
    <3>1. PICK t \in Spans(in) : t[1] = q /\ t[2] = in.subqueries[q]
      <4>1. <<q, in.subqueries[q]>> \in Spans(in)
        BY DEF Spans, SpansOf
      <4> QED
        BY <4>1
    <3>2. s \in Spans(in) /\ s # t
      <4>1. q # s[1]
        BY <1>1, <2>1, <2>3
      <4> QED
        BY <3>1, <4>1 DEF Spans, Bracketed
    <3>3. Nested(s, t)
      BY <1>1, <3>1, <3>2 DEF WellFormed, PartsNested
    <3>4. s[2] < in.subqueries[q]
      BY <1>1, <2>1, <2>3, <3>1, <3>2, <3>3 DEF Nested
    <3> QED
      BY <1>1, <2>1, <2>3, <3>4
  <2> QED
    BY <2>2, <2>3
<1>7. OnOwnLine(in, s[1])
  BY <1>5 DEF Calm
<1>8. SameScope(in, j, s[1])
  BY <1>6 DEF SameScope
<1>9. PICK c \in StartLines(in) : j < c /\ c < s[1] /\ SameScope(in, c, s[1])
  BY <1>4, <1>7, <1>8 DEF OnOwnLine
<1>10. c < i
  BY <1>1, <1>9, StartLinesNat
<1>11. SameScope(in, c, i)
  BY <1>6, <1>9 DEF SameScope
<1> QED
  BY <1>9, <1>10, <1>11

LEMMA DeepOpenCase == Inv /\ WrittenOnce /\ LineInv /\ DeepInv /\ OpenCase => DeepInv'
<1> SUFFICES ASSUME Inv, WrittenOnce, LineInv, DeepInv, OpenCase PROVE DeepInv'
  OBVIOUS
<1> DEFINE nested == sc.cases # <<>>
           v == IF nested THEN CaseIndent + 4 ELSE CondIndent(sc)
           x == IF nested THEN v ELSE LineIndent(b)
           lead == IF nested THEN <<Nl(v)>> ELSE Space
<1>1. /\ hint = 0 /\ i <= in.n /\ in' = in /\ Role = "case" /\ Write(lead, <<Upper(i)>>, <<>>)
  BY DEF OpenCase, At
<1>2. /\ WellFormed(in) /\ i \in Nat /\ i \in DOMAIN in.caseEnd /\ i \notin DOMAIN in.subqueries
  <2>1. i \in DOMAIN in.cases /\ in.cases[i] = "case"
    BY <1>1, Facts, Roles
  <2>2. i \in DOMAIN in.caseEnd
    BY <2>1, Facts DEF WellFormed, CasesNested
  <2>3. i \notin DOMAIN in.subqueries
    BY <1>1 DEF Role
  <2> QED
    BY <2>2, <2>3, Facts
<1>3. /\ v \in Int /\ v >= sc.clauseIndent /\ v >= CondIndent(sc)
      /\ nested => v >= Top(sc.cases) + 2
  BY Indents DEF CaseIndent
<1>4. OnOwnLine(in, i) => x = v
  <2> SUFFICES ASSUME OnOwnLine(in, i), ~ nested PROVE LineIndent(b) = v
    OBVIOUS
  <2>1. ~ Within(in, in.caseEnd, i)
    BY CaseIn
  <2>2. InBody(in, i)
    BY <1>2, <2>1 DEF WellFormed, InBodies
  <2> QED
    BY <2>2 DEF LineInv, TopLine, ScopeLine, Settled
<1>a. /\ nested => x = v
      /\ ~ nested => x = LineIndent(b)
  OBVIOUS
<1>b. AfterToken(x) = x
  BY <1>1, OnOneLine DEF AfterToken
<1> HIDE DEF v, x
<1>5. Lead(lead, x) /\ Trail(<<>>, AfterToken(x), x) /\ Before(in, lead, x, i)
  <2>1. Space \in {<<>>, <<Sp>>}
    BY Zenon DEF Space
  <2> QED
    BY <1>a, <1>b, <2>1, Zenon DEF Lead, Trail, Before
<1>6. lead \in Seq(Piece) /\ <<>> \in Seq(Piece) /\ <<>> # <<Nl(x)>>
  BY <1>3, Leads, Zenon
<1>7. \A s \in Bracketed : s[1] < i /\ i < s[2] /\ Calm(in, s, i + 1) => Deeper(in, s[1], Lines[s[1]], x, i)
  <2> SUFFICES ASSUME NEW s \in Bracketed, s[1] < i, i < s[2], Calm(in, s, i + 1)
               PROVE  Deeper(in, s[1], Lines[s[1]], x, i)
    OBVIOUS
  <2>1. Deeper(in, s[1], Lines[s[1]], v, i)
    BY <1>3, BelowOpen DEF DeepInv
  <2>2. OnOwnLine(in, i)
    BY CalmLine
  <2> QED
    BY <1>4, <2>1, <2>2
<1> HIDE DEF nested, lead
<1>8. \A s \in Bracketed : s[2] # i
  BY <1>2, Opener
<1>9. Deeper(in, i, x, x, i)
  <2>1. \A j \in DOMAIN in.cases : j \in Nat
    BY <1>2 DEF WellFormed, LayoutType
  <2>2. \A j \in DOMAIN in.cases : ~(i < j /\ j <= i)
    BY <1>2, <2>1
  <2> QED
    BY <1>2, <2>2 DEF Deeper, Operand
<1> QED
  BY <1>1, <1>2, <1>5, <1>6, <1>7, <1>8, <1>9, DeepWrite

LEMMA DeepListSep == Inv /\ WrittenOnce /\ LineInv /\ DeepInv /\ ListSep => DeepInv'
<1> SUFFICES ASSUME Inv, WrittenOnce, LineInv, DeepInv, ListSep PROVE DeepInv'
  OBVIOUS
<1> DEFINE x == LineIndent(b)
           y == IF in.listSeps[i] = "cte" THEN sc.clauseIndent ELSE BodyIndent(sc)
<1>1. /\ hint = 0 /\ i <= in.n /\ in' = in /\ Role = "listSep"
      /\ Write(<<>>, <<Tok(i, FALSE)>>, <<Nl(y)>>)
  BY DEF ListSep, At
<1>2. y \in Int /\ y >= sc.clauseIndent
  BY Indents
<1> HIDE DEF x, y
<1>3. /\ Lead(<<>>, LineIndent(b)) /\ Trail(<<Nl(y)>>, AfterToken(LineIndent(b)), y)
      /\ Before(in, <<>>, LineIndent(b), i)
  BY DEF Lead, Trail, Before
<1>4. /\ ~ EndOf(in.subqueries, i) /\ ~ EndOf(in.condGroups, i) /\ ~ EndOf(in.caseEnd, i)
      /\ i \in DOMAIN in.listSeps
  BY <1>1, PlainRoles
<1>5. i \notin DOMAIN in.subqueries /\ \A s \in Bracketed : s[1] # i /\ s[2] # i
  BY <1>4, NotOpener
<1>6. sc.cases = <<>> /\ sc.condGroups = <<>>
  BY <1>4, NoCaseOpen, NoGroupOpen
<1>7. <<>> \in Seq(Piece) /\ <<Nl(y)>> \in Seq(Piece)
  BY <1>2, Leads
<1>8. \A s \in Bracketed :
        s[1] < i /\ i < s[2] /\ Calm(in, s, i + 1) => y >= Lines[s[1]] + 2 /\ Deeper(in, s[1], Lines[s[1]], y, i)
  BY <1>2, <1>6, BelowOpen DEF DeepInv
<1> QED
  BY <1>1, <1>3, <1>5, <1>7, <1>8, DeepWrite

LEMMA DeepPlain == Inv /\ WrittenOnce /\ LineInv /\ DeepInv /\ Plain => DeepInv'
<1> SUFFICES ASSUME Inv, WrittenOnce, LineInv, DeepInv, Plain PROVE DeepInv'
  OBVIOUS
<1> DEFINE starting == i \in DOMAIN in.clauseStarts
           setOp == starting /\ in.clauseStarts[i] = "setop"
           lead == IF ~starting THEN Space
                   ELSE IF setOp THEN <<Nl(0), Nl(sc.clauseIndent)>>
                   ELSE IF b # <<>> THEN <<Nl(sc.clauseIndent)>>
                   ELSE <<>>
           block == i \in DOMAIN in.clauseEnds /\ in.clauseEnds[i] = "block"
           x == IF starting /\ (setOp \/ b # <<>>) THEN sc.clauseIndent ELSE LineIndent(b)
           trail == IF block THEN <<Nl(BodyIndent(sc))>> ELSE <<>>
           y == IF block THEN BodyIndent(sc) ELSE AfterToken(x)
<1>1. /\ hint = 0 /\ i <= in.n /\ in' = in /\ Role = "plain" /\ Write(lead, <<Upper(i)>>, trail)
  BY DEF Plain, At
<1>2. i \notin DOMAIN in.subqueries /\ \A s \in Bracketed : s[1] # i /\ s[2] # i
  <2>1. ~ EndOf(in.subqueries, i) /\ ~ EndOf(in.condGroups, i) /\ ~ EndOf(in.caseEnd, i)
    BY <1>1, PlainRoles
  <2> QED
    BY <2>1, NotOpener
<1>3. i \notin DOMAIN in.cases
  <2>1. i \in DOMAIN in.cases => in.cases[i] \in {"case", "when", "else", "end"}
    BY Facts DEF LayoutType, Range
  <2> QED
    BY <1>1, <2>1 DEF Role
<1>4. starting \/ block => sc.cases = <<>> /\ sc.condGroups = <<>>
  BY NoCaseOpen, NoGroupOpen DEF ClauseTokens
<1>5. ASSUME starting \/ block, NEW v \in Int, v >= sc.clauseIndent
      PROVE  \A s \in Bracketed :
               s[1] < i /\ i < s[2] /\ Calm(in, s, i + 1) => v >= Lines[s[1]] + 2 /\ Deeper(in, s[1], Lines[s[1]], v, i)
  BY <1>4, <1>5, BelowOpen DEF DeepInv
<1>6. starting /\ b = <<>> => i = 1
  <2> SUFFICES ASSUME b = <<>>, i # 1 PROVE FALSE
    OBVIOUS
  <2>1. i \in Nat \ {0} /\ i \in 1..in.n /\ in.n \in Nat /\ starts \in [1..in.n -> Nat] /\ ends \in [1..in.n -> Nat]
    BY <1>1, Facts DEF TypeOK
  <2>2. 1 \in 1..(i - 1) /\ 1 \in 1..in.n
    BY <2>1
  <2>3. starts[1] < ends[1] /\ ends[1] <= Len(b) /\ Len(b) = 0
    BY <2>2 DEF WrittenOnce
  <2> QED
    BY <2>1, <2>2, <2>3
<1>7. ~ starting => i - 1 \notin DOMAIN in.subqueries
  BY <1>2, FirstToken
<1>8. ~ starting => \A s \in Bracketed : s[1] < i /\ i <= s[2] /\ Calm(in, s, i) => Deeper(in, s[1], Lines[s[1]], LineIndent(b), i)
  BY <1>3, <1>7, OnLine DEF DeepInv
<1>9. i \in Nat /\ \A s \in Bracketed : s[1] \in 1..in.n /\ s[1] \in Nat /\ s[2] \in Nat
  BY PartsIn
<1>10. /\ sc.clauseIndent \in Int /\ BodyIndent(sc) \in Int /\ BodyIndent(sc) >= sc.clauseIndent
  BY Indents
<1>11. IsSetOp(in, i) <=> setOp
  BY DEF IsSetOp
<1>12. Space \in {<<>>, <<Sp>>}
  BY Zenon DEF Space
<1> HIDE DEF starting, block
<1>13. setOp => starting
  OBVIOUS
<1> HIDE DEF setOp
<1>14. lead \in Seq(Piece) /\ trail \in Seq(Piece)
  BY Leads, Zenon
<1>15. Lead(lead, x) /\ Trail(trail, AfterToken(x), y) /\ Before(in, lead, x, i)
  <2>1. Lead(lead, x)
    BY <1>12, <1>13, Zenon DEF Lead
  <2>2. Trail(trail, AfterToken(x), y)
    BY Zenon DEF Trail
  <2>3. Before(in, lead, x, i)
    BY <1>11, <1>12, <1>13, Zenon DEF Before
  <2> QED
    BY <2>1, <2>2, <2>3
<1>16. lead \notin {<<>>, <<Sp>>} => starting /\ x = sc.clauseIndent
  BY <1>12, <1>13, Zenon
<1>17. trail = <<Nl(y)>> => block /\ y = BodyIndent(sc)
  <2>1. <<>> # <<Nl(y)>>
    BY Leads, Zenon
  <2> QED
    BY <2>1
<1>18. \A s \in Bracketed : s[1] < i /\ i < s[2] /\ Calm(in, s, i + 1) => Deeper(in, s[1], Lines[s[1]], y, i)
  <2>1. CASE block
    BY <1>5, <1>10, <2>1
  <2>2. CASE ~ block /\ starting /\ x = sc.clauseIndent
    <3>1. y = sc.clauseIndent
      BY <2>2, OnOneLine, <1>1 DEF AfterToken, ClauseTokens, starting
    <3> QED
      BY <1>5, <1>10, <2>2, <3>1
  <2>3. CASE ~ block /\ ~ starting
    <3>1. i \notin DOMAIN in.lastLine => y = LineIndent(b)
      BY <2>3 DEF AfterToken
    <3>2. \A s \in Bracketed : i < s[2] => i <= s[2]
      BY <1>9
    <3>3. \A s \in Bracketed :
            s[1] < i /\ Calm(in, s, i + 1) => Calm(in, s, i) /\ i \notin DOMAIN in.lastLine
      BY <1>9, CalmNext
    <3> QED
      BY <1>8, <2>3, <3>1, <3>2, <3>3
  <2>4. CASE starting /\ b = <<>>
    BY <1>6, <1>9, <2>4
  <2> QED
    BY <2>1, <2>2, <2>3, <2>4
<1> HIDE DEF lead, trail, x, y
<1>19. lead \notin {<<>>, <<Sp>>} =>
         \A s \in Bracketed : s[1] < i /\ i < s[2] /\ Calm(in, s, i + 1) => Deeper(in, s[1], Lines[s[1]], x, i)
  BY <1>5, <1>10, <1>16
<1>20. trail = <<Nl(y)>> => \A s \in Bracketed : s[1] < i /\ i < s[2] /\ Calm(in, s, i + 1) => y >= Lines[s[1]] + 2
  BY <1>5, <1>10, <1>17
<1> QED
  BY <1>1, <1>2, <1>14, <1>15, <1>18, <1>19, <1>20, DeepWrite

LEMMA DeepStartHint == Inv /\ WrittenOnce /\ DeepInv /\ StartHint => DeepInv'
<1> SUFFICES ASSUME Inv, WrittenOnce, DeepInv, StartHint PROVE DeepInv'
  OBVIOUS
<1>1. /\ b' = b \o Space /\ in' = in /\ i' = i /\ starts' = starts
  BY DEF StartHint
<1>2. /\ b \in Seq(Piece) /\ in.n \in Nat /\ i \in Nat /\ ends \in [1..in.n -> Nat] /\ i \in 1..(in.n + 1)
  BY Facts DEF TypeOK
<1>3. /\ LineIndent(b') = LineIndent(b) /\ NoBreak(Space) /\ Space \in Seq(Piece)
      /\ \A k \in 1..(i - 1) : Lines'[k] = Lines[k] /\ starts[k] \in Nat /\ starts[k] <= Len(b)
  BY HintStarted
<1>4. Bracketed' = Bracketed
  BY <1>1 DEF Bracketed
<1>5. \A s \in Bracketed : /\ s[1] \in Nat /\ s[2] \in Nat /\ s[1] < s[2]
                           /\ (s[1] < i => s[1] \in 1..(i - 1)) /\ (s[2] < i => s[2] \in 1..(i - 1))
  BY <1>2, PartsIn
<1>6. /\ Len(b) \in Nat /\ Len(b') \in Nat /\ Len(b) <= Len(b')
      /\ \A m \in 1..Len(b) : b'[m] = b[m]
      /\ \A m \in (Len(b) + 1)..Len(b') : b'[m].k # "nl"
  <2>1. Len(Space) \in Nat /\ Len(b) \in Nat /\ Len(b') = Len(b) + Len(Space)
    BY <1>1, <1>2, <1>3
  <2>2. \A m \in 1..Len(b) : b'[m] = b[m]
    BY <1>1, <1>2, <1>3
  <2>3. \A m \in (Len(b) + 1)..Len(b') : b'[m].k # "nl"
    <3> SUFFICES ASSUME NEW m \in (Len(b) + 1)..Len(b') PROVE b'[m].k # "nl"
      OBVIOUS
    <3>1. m - Len(b) \in 1..Len(Space) /\ m \in 1..(Len(b) + Len(Space)) /\ m > Len(b)
      BY <2>1
    <3>2. b'[m] = Space[m - Len(b)]
      BY <1>1, <1>2, <1>3, <3>1
    <3> QED
      BY <1>3, <3>1, <3>2 DEF NoBreak, BreaksLine
  <2> QED
    BY <2>1, <2>2, <2>3
<1>7. ASSUME NEW m \in 1..Len(b), NEW o, NEW line, BreakDeeper(in, b, o, line, m)
      PROVE  BreakDeeper(in, b', o, line, m)
  <2>1. PICK whole : whole = b'
    OBVIOUS
  <2>2. BreakDeeper(in, whole, o, line, m)
    BY <1>6, <1>7, <2>1, BreakKept
  <2> QED
    BY <2>1, <2>2
<1>8. TopDeep'
  <2> SUFFICES ASSUME NEW s \in Bracketed, s[1] < i, i <= s[2], Calm(in, s, i)
               PROVE  \/ Deeper(in, s[1], Lines'[s[1]], LineIndent(b), i - 1)
                      \/ s[1] \in DOMAIN in.subqueries /\ i = s[1] + 1
    BY <1>1, <1>3, <1>4 DEF TopDeep
  <2> QED
    BY <1>3, <1>5 DEF DeepInv, TopDeep
<1>9. SubqueriesDeep'
  <2> SUFFICES ASSUME NEW q \in DOMAIN in.subqueries, NEW s \in Bracketed,
                      q < i, s[1] < q, q <= s[2], Calm(in, s, q)
               PROVE  Deeper(in, s[1], Lines'[s[1]], Lines'[q], q - 1)
    BY <1>1, <1>4 DEF SubqueriesDeep
  <2>1. q \in 1..(i - 1) /\ s[1] \in 1..(i - 1)
    <3>1. Ordered(in.subqueries)
      BY Facts, Parts
    <3>2. q \in Nat /\ s[1] \in Nat
      BY <1>5, <3>1 DEF Ordered
    <3>3. s[1] < i
      BY <1>2, <3>2
    <3> QED
      BY <1>2, <1>5, <3>2, <3>3
  <2> QED
    BY <1>3, <2>1 DEF DeepInv, SubqueriesDeep
<1>10. OpenDeeper'
  <2> SUFFICES ASSUME NEW s \in Bracketed, s[1] < i, i <= s[2], Calm(in, s, i), NEW m \in (starts[s[1]] + 1)..Len(b')
               PROVE  BreakDeeper(in, b', s[1], Lines'[s[1]], m)
    BY <1>1, <1>4 DEF OpenDeeper
  <2>1. s[1] \in 1..(i - 1) /\ starts[s[1]] \in Nat /\ Lines'[s[1]] = Lines[s[1]]
    BY <1>3, <1>5
  <2>2. CASE m <= Len(b)
    <3>1. m \in 1..Len(b) /\ m \in (starts[s[1]] + 1)..Len(b)
      BY <1>6, <2>1, <2>2
    <3>2. BreakDeeper(in, b, s[1], Lines[s[1]], m)
      BY <3>1 DEF DeepInv, OpenDeeper
    <3> QED
      BY <1>7, <2>1, <3>1, <3>2
  <2>3. CASE m > Len(b)
    <3>1. m \in (Len(b) + 1)..Len(b')
      BY <1>6, <2>1, <2>3
    <3> QED
      BY <1>6, <3>1 DEF BreakDeeper
  <2> QED
    BY <1>6, <2>1, <2>2, <2>3
<1>11. ClosedDeeper'
  <2> SUFFICES ASSUME NEW s \in Bracketed, s[2] < i, Calm(in, s, s[2]), NEW m \in (starts[s[1]] + 1)..(starts[s[2]] - 1)
               PROVE  BreakDeeper(in, b', s[1], Lines'[s[1]], m)
    BY <1>1, <1>4 DEF ClosedDeeper
  <2>1. s[1] < i
    BY <1>2, <1>5
  <2>2. s[1] \in 1..(i - 1) /\ s[2] \in 1..(i - 1)
    BY <1>5, <2>1
  <2>3. starts[s[1]] \in Nat /\ Lines'[s[1]] = Lines[s[1]] /\ starts[s[2]] \in Nat /\ starts[s[2]] <= Len(b)
    BY <1>3, <2>2
  <2>4. m \in 1..Len(b)
    BY <1>6, <2>3
  <2>5. BreakDeeper(in, b, s[1], Lines[s[1]], m)
    BY DEF DeepInv, ClosedDeeper
  <2> QED
    BY <1>7, <2>3, <2>4, <2>5
<1> QED
  BY <1>8, <1>9, <1>10, <1>11 DEF DeepInv

LEMMA DeepHintToken == Inv /\ WrittenOnce /\ DeepInv /\ HintToken => DeepInv'
<1> SUFFICES ASSUME Inv, WrittenOnce, DeepInv, HintToken PROVE DeepInv'
  OBVIOUS
<1> DEFINE text == IF in.kind[i] = "," THEN <<Tok(i, FALSE), Sp>> ELSE <<Tok(i, FALSE)>>
           x == LineIndent(b)
           z == AfterToken(x)
<1>1. /\ b' = b \o <<>> \o text \o <<>>
      /\ starts' = [starts EXCEPT ![i] = Len(b) + Len(<<>>)]
  BY DEF HintToken, Write
<1>2. text \in Seq(Piece) /\ <<>> \in Seq(Piece)
  BY Around, Zenon
<1>3. NoNl(text) /\ OneToken(text, i)
  BY TokenPieces, Zenon
<1> HIDE DEF text
<1>4. /\ WritesLine(x, z) /\ i \in HintTokens(in)
      /\ ~ EndOf(in.subqueries, i) /\ ~ EndOf(in.condGroups, i) /\ ~ EndOf(in.caseEnd, i)
  BY HintWritten
<1>a. i \notin DOMAIN in.lastLine => z = x
  BY DEF AfterToken
<1> HIDE DEF x, z
<1>5. i \notin DOMAIN in.subqueries /\ \A s \in Bracketed : s[1] # i /\ s[2] # i
  BY <1>4, NotOpener
<1>6. i \notin DOMAIN in.cases /\ i - 1 \notin DOMAIN in.subqueries
  <2>1. i \notin DOMAIN in.cases \cup ClauseTokens(in)
    BY <1>4, Facts, OneRoleEach
  <2> QED
    BY <1>5, <2>1, FirstToken DEF ClauseTokens
<1>7. \A s \in Bracketed : s[1] < i /\ i < s[2] /\ Calm(in, s, i + 1) => Deeper(in, s[1], Lines[s[1]], z, i)
  <2>1. \A s \in Bracketed : i < s[2] => i <= s[2]
    BY PartsIn
  <2>2. \A s \in Bracketed :
          s[1] < i /\ Calm(in, s, i + 1) => Calm(in, s, i) /\ i \notin DOMAIN in.lastLine
    BY PartsIn, CalmNext
  <2> QED
    BY <1>6, <1>a, <2>1, <2>2, OnLine DEF DeepInv, x
<1>8. Before(in, <<>>, x, i) /\ <<>> # <<Nl(z)>>
  BY Leads, Zenon DEF Before
<1>9. OpenDeeper' /\ ClosedDeeper'
  <2>1. OpenDeeper /\ ClosedDeeper
    BY DEF DeepInv
  <2> QED
    BY <1>1, <1>2, <1>3, <1>4, <1>5, <1>8, <2>1, PartsWritten
<1> QED
  BY <1>4, <1>5, <1>7, <1>9, DeepStep

LEMMA DeepOpenSubquery == Inv /\ WrittenOnce /\ Shape /\ LineInv /\ DeepInv /\ OpenSubquery => DeepInv'
<1> SUFFICES ASSUME Inv, WrittenOnce, Shape, LineInv, DeepInv, OpenSubquery PROVE DeepInv'
  OBVIOUS
<1> DEFINE first == prev \in DOMAIN in.subqueries
           x == IF first THEN sc.clauseIndent ELSE LineIndent(b)
           lead == IF first THEN <<Nl(sc.clauseIndent)>> ELSE Space
           text == <<Tok(i, FALSE)>>
<1>1. /\ hint = 0 /\ i <= in.n /\ in' = in /\ i' = i + 1 /\ Role = "openSubquery"
      /\ b' = b \o lead \o text
      /\ starts' = [starts EXCEPT ![i] = Len(b) + Len(lead)]
  BY DEF OpenSubquery, At
<1>2. /\ WellFormed(in) /\ b \in Seq(Piece) /\ i \in Nat /\ i \in DOMAIN in.subqueries
      /\ sc.open \in Nat /\ sc.clauseIndent \in Int
  BY <1>1, Facts, Roles, Leads DEF TypeOK, Scopes
<1>3. lead \in Seq(Piece) /\ text \in Seq(Piece) /\ <<>> \in Seq(Piece)
  BY Around, Leads, Zenon
<1>4. NoNl(text) /\ OneToken(text, i)
  BY TokenPieces, Zenon
<1>5. Lead(lead, x) /\ Trail(<<>>, x, x) /\ Before(in, lead, x, i) /\ <<>> # <<Nl(x)>>
  <2>1. Space \in {<<>>, <<Sp>>} /\ <<>> # <<Nl(x)>>
    BY Leads, Zenon DEF Space
  <2> QED
    BY <2>1, Zenon DEF Lead, Trail, Before
<1>6. lead \notin {<<>>, <<Sp>>} => first
  BY Zenon DEF Space
<1>7. /\ first => x = sc.clauseIndent
      /\ ~ first => x = LineIndent(b)
  OBVIOUS
<1>8. (first <=> i - 1 \in DOMAIN in.subqueries) /\ prev = i - 1
  BY DEF Shape, Ended
<1> HIDE DEF first, x, lead, text
<1>9. b' = b \o lead \o text \o <<>>
  <2>1. b \o lead \o text \in Seq(Piece)
    BY <1>2, <1>3, Joined, Zenon
  <2> QED
    BY <1>1, <2>1, ConcatEmptySeq
<1>10. WritesLine(x, x)
  <2>1. Text(text, x, x)
    <3>1. LayoutType(in) /\ i \notin DOMAIN in.lastLine
      BY <1>1, OnOneLine, Facts
    <3>2. AfterToken(x) = x
      BY <3>1 DEF AfterToken
    <3> QED
      BY <3>1, <3>2, TokenText DEF text
  <2> QED
    BY <1>1, <1>3, <1>5, <1>9, <2>1, LineWrite, Zenon
<1>11. \A s \in Bracketed :
         s[1] < i /\ i <= s[2] /\ Calm(in, s, i) =>
           /\ Deeper(in, s[1], Lines[s[1]], x, i - 1)
           /\ Deeper(in, s[1], Lines[s[1]], x, i)
  <2>1. CASE first
    <3> SUFFICES ASSUME NEW s \in Bracketed, s[1] < i, i <= s[2], Calm(in, s, i) PROVE x >= Lines[s[1]] + 2
      BY DEF Deeper
    <3>1. i - 1 <= sc.open
      <4>1. i - 1 \in DOMAIN in.subqueries /\ Ordered(in.subqueries)
        BY <1>2, <1>8, <2>1, Parts
      <4>2. OpenAt(in.subqueries, i - 1, i)
        BY <1>2, <4>1 DEF OpenAt, Ordered
      <4> QED
        BY <4>1, <4>2, OpenInScope
    <3>2. ~ (sc.open < s[1])
      <4>1. s[1] \in Nat
        BY PartsIn
      <4> QED
        BY <1>2, <3>1, <4>1
    <3>3. Lines[s[1]] \in Int /\ Lines[s[1]] <= sc.clauseIndent - 2
      BY <3>2, OpenPart DEF DeepInv
    <3> QED
      BY <1>2, <1>7, <2>1, <3>3
  <2>2. CASE ~ first
    <3>1. i \notin DOMAIN in.cases
      <4>1. i \in EndsOf(in.subqueries)
        BY <1>2 DEF EndsOf
      <4> QED
        BY <1>2, <4>1, OneRoleEach
    <3> QED
      BY <1>7, <1>8, <2>2, <3>1, OnLine DEF DeepInv
  <2> QED
    BY <2>1, <2>2
<1>12. \A s \in Bracketed : s[1] < i /\ i < s[2] /\ Calm(in, s, i + 1) => Deeper(in, s[1], Lines[s[1]], x, i)
  <2>1. \A s \in Bracketed : /\ i < s[2] => i <= s[2]
                             /\ Calm(in, s, i + 1) => Calm(in, s, i)
    BY PartsIn, CalmNext
  <2> QED
    BY <1>11, <2>1
<1>13. \A s \in Bracketed : s[2] # i
  BY <1>2, Opener
<1>14. OpenDeeper' /\ ClosedDeeper'
  <2>1. OpenDeeper /\ ClosedDeeper
    BY DEF DeepInv
  <2> QED
    BY <1>1, <1>3, <1>4, <1>5, <1>9, <1>10, <1>12, <1>13, <2>1, PartsWritten
<1> QED
  BY <1>2, <1>10, <1>11, <1>12, <1>14, DeepStep

LEMMA DeepCloseSubquery == Inv /\ WrittenOnce /\ LineInv /\ DeepInv /\ CloseSubquery => DeepInv'
<1> SUFFICES ASSUME Inv, WrittenOnce, LineInv, DeepInv, CloseSubquery PROVE DeepInv'
  OBVIOUS
<1> DEFINE x == sc.clauseIndent - 2
<1>1. /\ hint = 0 /\ i <= in.n /\ in' = in /\ Role = "closeSubquery"
      /\ Write(<<Nl(x)>>, <<Tok(i, FALSE)>>, <<>>)
  BY DEF CloseSubquery, At
<1>2. /\ WellFormed(in) /\ i \in Nat /\ i = sc.close /\ outer # <<>>
  BY <1>1, Facts, Roles, AtClose
<1>3. sc.open \in DOMAIN in.subqueries /\ in.subqueries[sc.open] = i
  BY <1>2, Closers2
<1>4. sc.open \in 1..(i - 1) /\ sc.clauseIndent = Lines[sc.open] + 2 /\ sc.open \in Nat /\ sc.open < i
  <2>1. sc.open \in 1..(i - 1) /\ sc.clauseIndent = Lines[sc.open] + 2
    BY <1>2, ScopeOpened DEF LineInv, TopLine
  <2> QED
    BY <1>2, <2>1
<1>5. x \in Int /\ x = Lines[sc.open]
  <2>1. sc.clauseIndent \in Int /\ Lines[sc.open] \in Int
    BY <1>4, Leads, LineType
  <2> QED
    BY <1>4, <2>1
<1> HIDE DEF x
<1>6. <<sc.open, i>> \in Bracketed
  BY <1>3, SpanOf
<1>7. \A s \in Bracketed : s[1] # i
  BY <1>6, CloserOnly
<1>8. i \notin DOMAIN in.subqueries
  <2> SUFFICES ASSUME i \in DOMAIN in.subqueries PROVE FALSE
    OBVIOUS
  <2>1. <<i, in.subqueries[i]>> \in Bracketed
    BY SpanOf
  <2> QED
    BY <1>7, <2>1
<1>9. ASSUME NEW s \in Bracketed, s[1] < i, i < s[2], Calm(in, s, i + 1)
      PROVE  Deeper(in, s[1], Lines[s[1]], x, i)
  <2>1. s[1] \in Nat /\ s[2] \in Nat /\ s[1] < s[2]
    BY PartsIn
  <2>2. s[1] < sc.open /\ sc.open <= s[2]
    <3>1. PICK t \in Bracketed : t = <<sc.open, i>>
      BY <1>6
    <3>2. t[1] = sc.open /\ t[2] = i
      BY <3>1
    <3>3. s \in Spans(in) /\ t \in Spans(in)
      BY DEF Spans, Bracketed
    <3>4. Nested(s, t)
      BY <1>2, <3>3 DEF WellFormed, PartsNested
    <3> QED
      BY <1>2, <1>4, <1>9, <2>1, <3>2, <3>4 DEF Nested
  <2>a. Calm(in, s, sc.open)
    BY <1>2, <1>4, <1>9, CalmEarlier
  <2>3. Deeper(in, s[1], Lines[s[1]], x, sc.open - 1)
    BY <1>3, <1>4, <1>5, <2>2, <2>a DEF DeepInv, SubqueriesDeep
  <2>4. Operand(in, s[1], sc.open - 1) => Operand(in, s[1], i)
    <3> SUFFICES ASSUME Operand(in, s[1], sc.open - 1), NEW j \in DOMAIN in.cases, s[1] < j, j <= i
                 PROVE  ~ SameScope(in, s[1], j)
      BY DEF Operand
    <3>1. j \in Nat
      BY <1>2 DEF WellFormed, LayoutType
    <3>2. CASE j <= sc.open - 1
      BY <3>2 DEF Operand
    <3>3. CASE j = sc.open
      <4>1. sc.open \in EndsOf(in.subqueries)
        BY <1>3 DEF EndsOf
      <4> QED
        BY <1>2, <3>3, <4>1, OneRoleEach
    <3>4. CASE sc.open < j
      <4>1. ~ (sc.open < s[1]) /\ j <= in.subqueries[sc.open]
        BY <1>3, <1>4, <2>1, <2>2
      <4> QED
        BY <1>3, <3>4, <4>1 DEF SameScope
    <3> QED
      BY <1>4, <3>1, <3>2, <3>3, <3>4
  <2> QED
    BY <2>3, <2>4 DEF Deeper
<1> QED
  BY <1>1, <1>5, <1>7, <1>8, <1>9, DeepLead

-----------------------------------------------------------------------------
LEMMA NextDeep == Inv /\ WrittenOnce /\ Shape /\ LineInv /\ DeepInv /\ [Token]_vars => DeepInv'
<1>1. DeepInv /\ UNCHANGED vars => DeepInv'
  <2> SUFFICES ASSUME DeepInv, UNCHANGED vars PROVE DeepInv'
    OBVIOUS
  <2>1. /\ in' = in /\ i' = i /\ b' = b /\ starts' = starts
    BY DEF vars
  <2>2. Lines' = Lines /\ Bracketed' = Bracketed
    BY <2>1 DEF Lines, IndentAt, Bracketed
  <2>3. TopDeep' /\ SubqueriesDeep'
    BY <2>1, <2>2 DEF DeepInv, TopDeep, SubqueriesDeep
  <2>4. OpenDeeper' /\ ClosedDeeper'
    BY <2>1, <2>2 DEF DeepInv, OpenDeeper, ClosedDeeper
  <2> QED
    BY <2>3, <2>4 DEF DeepInv
<1> QED
  BY <1>1, DeepStartHint, DeepHintToken, DeepOpenSubquery, DeepCloseSubquery, DeepOpenCondGroup,
     DeepCloseCondGroup, DeepOpenCase, DeepCaseBranch, DeepCloseCase, DeepListSep, DeepCondOp,
     DeepPlain, Zenon DEF Token

LEMMA InitDeep == Init => DeepInv
<1> SUFFICES ASSUME Init PROVE DeepInv
  OBVIOUS
<1>1. i = 1 /\ WellFormed(in)
  BY InputsWellFormed DEF Init, Start
<1>2. \A s \in Bracketed : s[1] \in 1..in.n /\ s[2] \in 1..in.n
  BY <1>1 DEF WellFormed, PartsNested, Spans, Bracketed
<1>3. in.n \in Nat /\ \A q \in DOMAIN in.subqueries : q \in Nat
  BY <1>1, Parts DEF Ordered
<1>4. \A s \in Bracketed : ~ (s[1] < i) /\ ~ (s[2] < i)
  BY <1>1, <1>2, <1>3
<1>5. \A q \in DOMAIN in.subqueries : \A s \in Bracketed : ~ (q < i /\ s[1] < q)
  BY <1>1, <1>2, <1>3
<1> QED
  BY <1>4, <1>5 DEF DeepInv, TopDeep, SubqueriesDeep, OpenDeeper, ClosedDeeper

LEMMA DeepBody == Inv /\ ClosedDeeper => BodyDeeper
<1> SUFFICES ASSUME Inv, ClosedDeeper, NEW s \in Bracketed, s[2] < i,
                    Steady(s), (s[1]..s[2]) \cap DOMAIN in.lastLine = {},
                    NEW m \in (starts[s[1]] + 1)..(starts[s[2]] - 1), b[m].k = "nl"
             PROVE  \/ b[m].v >= IndentAt(s[1]) + 2 \/ BlankLine(m)
                    \/ b[m].v = IndentAt(s[1]) /\ InOperand(s[1], b[m + 1].v)
  BY DEF BodyDeeper
<1>1. Lines[s[1]] = IndentAt(s[1])
  BY PartsIn DEF Lines
<1>a. Calm(in, s, s[2])
  <2>1. \A j \in DOMAIN in.lastLine : j \in Nat
    BY Facts, StartLinesNat
  <2>2. ASSUME NEW j \in DOMAIN in.lastLine, s[1] <= j, j < s[2] PROVE FALSE
    <3>1. j \in s[1]..s[2]
      BY <2>1, <2>2, PartsIn
    <3> QED
      BY <3>1
  <2> QED
    BY <2>2 DEF Calm, Steady
<1>2. BreakDeeper(in, b, s[1], Lines[s[1]], m)
  BY <1>a DEF ClosedDeeper
<1>3. Blank(in, b, m) => BlankLine(m)
  BY DEF Blank, BlankLine
<1>4. Operand(in, s[1], b[m + 1].v) => InOperand(s[1], b[m + 1].v)
  BY DEF Operand, InOperand
<1> QED
  BY <1>1, <1>2, <1>3, <1>4 DEF BreakDeeper

\* Between the tokens that open and close a subquery, a group or a CASE every
\* line is at least one level deeper than those two, but for the blank lines
\* before set operators and the operand of a CASE, which stays on its line; where
\* no literal with line breaks is between them or moved the line they open on
\* (openSubquery, openCondGroup, casePart and plain in formatter.go).
THEOREM Spec_BodyDeeper == Spec => []BodyDeeper
<1>1. Init => Shape
  BY DEF Init, Start, Shape, Separated, Ended
<1>2. DeepInv => ClosedDeeper
  BY DEF DeepInv
<1> QED
  BY <1>1, <1>2, DeepBody, InitLine, InitDeep, SpecInv, Spec_WrittenOnce, NextShape, NextLine, NextDeep,
     PTL DEF Spec
=============================================================================
