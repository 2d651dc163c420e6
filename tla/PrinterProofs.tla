--------------------------- MODULE PrinterProofs ---------------------------
(***************************************************************************)
(* The printer, for every set of well-formed layouts: its types, its       *)
(* stacks, and that it writes every token once.                            *)
(***************************************************************************)
EXTENDS Printer, SequenceTheorems, WellFoundedInduction, TLAPS

(***************************************************************************)
(* Spans: keys and values are positions, and two spans are disjoint or one *)
(* is inside the other, without common ends.                               *)
(***************************************************************************)
Ordered(f) == \A o \in DOMAIN f : o \in Nat /\ f[o] \in Nat /\ o < f[o]

Apart(o, c, q, d) == c < q \/ d < o \/ (o < q /\ d < c) \/ (q < o /\ c < d)

Laminar(f) == \A o, q \in DOMAIN f : o # q => Apart(o, f[o], q, f[q])
Separate(f, g) == \A o \in DOMAIN f : \A q \in DOMAIN g : Apart(o, f[o], q, g[q])

EndOf(f, p) == p \in DOMAIN f \/ \E o \in DOMAIN f : f[o] = p

\* What WellFormed says of the four kinds of spans of a layout, one pair of kinds
\* at a time.
LEMMA SpansApart ==
  ASSUME NEW x, WellFormed(x),
         NEW f, NEW g,
         SpansOf(f) \subseteq Spans(x), SpansOf(g) \subseteq Spans(x)
  PROVE  /\ \A o \in DOMAIN f : o \in 1..x.n /\ f[o] \in 1..x.n /\ o < f[o]
         /\ \A o \in DOMAIN f : \A q \in DOMAIN g :
              (o = q /\ f[o] = g[q]) \/ Apart(o, f[o], q, g[q])
<1>1. PartsNested(x)
  BY DEF WellFormed
<1>2. \A o \in DOMAIN f : <<o, f[o]>> \in Spans(x)
  BY DEF SpansOf
<1>3. \A q \in DOMAIN g : <<q, g[q]>> \in Spans(x)
  BY DEF SpansOf
<1>4. \A o \in DOMAIN f : o \in 1..x.n /\ f[o] \in 1..x.n /\ o < f[o]
  <2> TAKE o \in DOMAIN f
  <2>1. /\ <<o, f[o]>>[1] \in 1..x.n /\ <<o, f[o]>>[2] \in 1..x.n
        /\ <<o, f[o]>>[1] < <<o, f[o]>>[2]
    BY <1>1, <1>2 DEF PartsNested
  <2> QED
    BY <2>1
<1>5. ASSUME NEW o \in DOMAIN f, NEW q \in DOMAIN g
      PROVE  (o = q /\ f[o] = g[q]) \/ Apart(o, f[o], q, g[q])
  <2>1. Nested(<<o, f[o]>>, <<q, g[q]>>)
    BY <1>1, <1>2, <1>3 DEF PartsNested
  <2>2. <<o, f[o]>> = <<q, g[q]>> => o = q /\ f[o] = g[q]
    OBVIOUS
  <2> QED
    BY <2>1, <2>2 DEF Nested, Apart
<1> QED
  BY <1>4, <1>5

LEMMA Parts ==
  ASSUME NEW x, WellFormed(x)
  PROVE  /\ Ordered(x.subqueries) /\ Laminar(x.subqueries)
         /\ Ordered(x.condGroups) /\ Laminar(x.condGroups)
         /\ Ordered(x.caseEnd) /\ Laminar(x.caseEnd)
         /\ Separate(x.subqueries, x.condGroups)
         /\ Separate(x.subqueries, x.caseEnd)
         /\ Separate(x.condGroups, x.caseEnd)
         /\ \A h \in DOMAIN x.hints : h \in 1..x.n /\ x.hints[h] \in 1..x.n /\ h < x.hints[h]
         /\ DOMAIN x.hints \cap DOMAIN x.subqueries = {}
         /\ DOMAIN x.hints \cap DOMAIN x.condGroups = {}
         /\ DOMAIN x.hints \cap DOMAIN x.caseEnd = {}
         /\ x.n \in Nat
         /\ \A o \in DOMAIN x.subqueries : x.subqueries[o] \in 1..x.n
         /\ \A o \in DOMAIN x.condGroups : x.condGroups[o] \in 1..x.n
         /\ \A o \in DOMAIN x.caseEnd : x.caseEnd[o] \in 1..x.n
<1>1. /\ SpansOf(x.subqueries) \subseteq Spans(x)
      /\ SpansOf(x.condGroups) \subseteq Spans(x)
      /\ SpansOf(x.caseEnd) \subseteq Spans(x)
      /\ SpansOf(x.hints) \subseteq Spans(x)
  BY DEF Spans
<1>2. /\ DOMAIN x.subqueries \cap DOMAIN x.condGroups = {}
      /\ DOMAIN x.subqueries \cap DOMAIN x.caseEnd = {}
      /\ DOMAIN x.condGroups \cap DOMAIN x.caseEnd = {}
      /\ DOMAIN x.hints \cap DOMAIN x.subqueries = {}
      /\ DOMAIN x.hints \cap DOMAIN x.condGroups = {}
      /\ DOMAIN x.hints \cap DOMAIN x.caseEnd = {}
  <2> DEFINE parts == <<x.subqueries, x.condGroups, x.caseEnd, x.hints>>
  <2>1. \A j, k \in 1..4 : j # k => DOMAIN parts[j] \cap DOMAIN parts[k] = {}
    BY DEF WellFormed, PartsNested
  <2>2. parts[1] = x.subqueries /\ parts[2] = x.condGroups /\ parts[3] = x.caseEnd /\ parts[4] = x.hints
    OBVIOUS
  <2>3. 1 \in 1..4 /\ 2 \in 1..4 /\ 3 \in 1..4 /\ 4 \in 1..4
    OBVIOUS
  <2> HIDE DEF parts
  <2> QED
    BY <2>1, <2>2, <2>3
<1>3. x.n \in Nat
  BY DEF WellFormed, LayoutType
<1>4. Ordered(x.subqueries) /\ Laminar(x.subqueries)
  BY <1>1, <1>3, SpansApart DEF Ordered, Laminar
<1>5. Ordered(x.condGroups) /\ Laminar(x.condGroups)
  BY <1>1, <1>3, SpansApart DEF Ordered, Laminar
<1>6. Ordered(x.caseEnd) /\ Laminar(x.caseEnd)
  BY <1>1, <1>3, SpansApart DEF Ordered, Laminar
<1>7. \A h \in DOMAIN x.hints : x.hints[h] \in 1..x.n /\ h \in 1..x.n /\ h < x.hints[h]
  BY <1>1, <1>3, SpansApart
<1>9. Separate(x.subqueries, x.condGroups)
  BY <1>1, <1>2, SpansApart DEF Separate
<1>10. Separate(x.subqueries, x.caseEnd)
  BY <1>1, <1>2, SpansApart DEF Separate
<1>11. Separate(x.condGroups, x.caseEnd)
  BY <1>1, <1>2, SpansApart DEF Separate
<1>12. /\ \A o \in DOMAIN x.subqueries : x.subqueries[o] \in 1..x.n
       /\ \A o \in DOMAIN x.condGroups : x.condGroups[o] \in 1..x.n
       /\ \A o \in DOMAIN x.caseEnd : x.caseEnd[o] \in 1..x.n
  BY <1>1, SpansApart
<1> QED
  BY <1>2, <1>3, <1>4, <1>5, <1>6, <1>7, <1>9, <1>10, <1>11, <1>12

LEMMA NoSharedEnd ==
  ASSUME NEW f, NEW g, Ordered(f), Ordered(g), Separate(f, g), NEW p, EndOf(f, p)
  PROVE  ~ EndOf(g, p)
<1>1. PICK o \in DOMAIN f : p = o \/ p = f[o]
  BY DEF EndOf
<1>2. \A q \in DOMAIN g : p # q /\ p # g[q]
  BY <1>1 DEF Ordered, Separate, Apart
<1> QED
  BY <1>2 DEF EndOf

-----------------------------------------------------------------------------
(***************************************************************************)
(* What a step does to the stacks of one kind of spans f: level k of n     *)
(* starts at O[k] and has the stack C[k].                                  *)
(***************************************************************************)
LEMMA TrackAdvance ==
  ASSUME NEW f, Ordered(f), NEW C, NEW O, NEW n \in Nat, NEW p \in Nat,
         Tracked(f, C, O, n, p), ~ EndOf(f, p)
  PROVE  Tracked(f, C, O, n, p + 1)
<1>1. \A o \in DOMAIN f : OpenAt(f, o, p) <=> OpenAt(f, o, p + 1)
  BY DEF OpenAt, EndOf, Ordered
<1> QED
  BY <1>1 DEF Tracked, Closers, AllOpen

LEMMA TrackPush ==
  ASSUME NEW f, Ordered(f), Laminar(f), NEW C, NEW O, NEW n \in Nat \ {0}, NEW p \in DOMAIN f,
         Tracked(f, C, O, n, p), O[n] < p, C[n] \in Seq(Nat),
         NEW D, \A k \in 1..(n - 1) : D[k] = C[k], D[n] = Append(C[n], f[p])
  PROVE  Tracked(f, D, O, n, p + 1)
<1>1. p \in Nat /\ f[p] \in Nat /\ p < f[p] /\ n \in 1..n
  BY DEF Ordered
<1>2. \A o \in DOMAIN f : OpenAt(f, o, p + 1) <=> OpenAt(f, o, p) \/ o = p
  BY <1>1 DEF OpenAt, Ordered, Laminar, Apart
<1>3. Len(C[n]) \in Nat /\ \A m \in 1..Len(C[n]) : C[n][m] \in Nat
  OBVIOUS
<1>4. /\ Len(D[n]) = Len(C[n]) + 1
      /\ \A m \in 1..Len(C[n]) : D[n][m] = C[n][m]
      /\ D[n][Len(C[n]) + 1] = f[p]
  BY <1>1, AppendProperties
<1>5. \A m \in 1..Len(C[n]) : f[p] < C[n][m]
  <2> TAKE m \in 1..Len(C[n])
  <2>1. PICK o \in DOMAIN f : f[o] = C[n][m] /\ OpenAt(f, o, p)
    BY <1>1 DEF Tracked, Closers
  <2>2. o \in Nat /\ f[o] \in Nat /\ o < p /\ p <= f[o] /\ Apart(o, f[o], p, f[p])
    BY <1>1, <2>1 DEF OpenAt, Laminar, Ordered
  <2> QED
    BY <1>1, <2>1, <2>2 DEF Apart
<1>6. \A k \in 1..n : k = n \/ k \in 1..(n - 1)
  OBVIOUS
<1>7. Closers(f, D, O, n, p + 1)
  <2>1. ASSUME NEW k \in 1..n, NEW m \in 1..Len(C[k])
        PROVE  \E o \in DOMAIN f : /\ f[o] = C[k][m] /\ O[k] < o /\ (k < n => o < O[k + 1])
                                   /\ OpenAt(f, o, p + 1)
    BY <1>2 DEF Tracked, Closers
  <2>2. ASSUME NEW k \in 1..(n - 1), NEW m \in 1..Len(D[k])
        PROVE  \E o \in DOMAIN f : /\ f[o] = D[k][m] /\ O[k] < o /\ (k < n => o < O[k + 1])
                                   /\ OpenAt(f, o, p + 1)
    BY <2>1
  <2>3. ASSUME NEW m \in 1..Len(D[n])
        PROVE  \E o \in DOMAIN f : f[o] = D[n][m] /\ O[n] < o /\ OpenAt(f, o, p + 1)
    <3>1. CASE m = Len(C[n]) + 1
      BY <1>1, <1>2, <1>4, <3>1
    <3>2. CASE m # Len(C[n]) + 1
      <4>1. m \in 1..Len(C[n]) /\ D[n][m] = C[n][m]
        BY <1>3, <1>4, <3>2
      <4> QED
        BY <1>1, <2>1, <4>1
    <3> QED
      BY <3>1, <3>2
  <2>4. ASSUME NEW k \in 1..n, NEW m \in 1..Len(D[k])
        PROVE  \E o \in DOMAIN f : /\ f[o] = D[k][m] /\ O[k] < o /\ (k < n => o < O[k + 1])
                                   /\ OpenAt(f, o, p + 1)
    <3>1. CASE k = n
      BY <2>3, <3>1, SMTT(30)
    <3>2. CASE k # n
      BY <1>6, <2>2, <3>2
    <3> QED
      BY <3>1, <3>2
  <2> QED
    BY <2>4 DEF Closers
<1>8. Decreasing(D, n)
  <2>1. \A m, x \in 1..Len(D[n]) : m < x => D[n][x] < D[n][m]
    <3>1. \A m, x \in 1..Len(C[n]) : m < x => C[n][x] < C[n][m]
      BY <1>1 DEF Tracked, Decreasing
    <3> SUFFICES ASSUME NEW m \in 1..Len(D[n]), NEW x \in 1..Len(D[n]), m < x
                 PROVE  D[n][x] < D[n][m]
      OBVIOUS
    <3>2. m \in 1..Len(C[n])
      BY <1>3, <1>4
    <3>3. D[n][m] = C[n][m]
      BY <1>4, <3>2
    <3>4. CASE x = Len(C[n]) + 1
      BY <1>4, <1>5, <3>2, <3>3, <3>4
    <3>5. CASE x # Len(C[n]) + 1
      <4>1. x \in 1..Len(C[n])
        BY <1>3, <1>4, <3>5
      <4>2. D[n][x] = C[n][x]
        BY <1>4, <4>1
      <4> QED
        BY <3>1, <3>2, <3>3, <4>1, <4>2
    <3> QED
      BY <3>4, <3>5
  <2>2. \A k \in 1..(n - 1) : \A m, x \in 1..Len(D[k]) : m < x => D[k][x] < D[k][m]
    BY DEF Tracked, Decreasing
  <2> QED
    BY <1>6, <2>1, <2>2 DEF Decreasing
<1>9. AllOpen(f, D, n, p + 1)
  <2> SUFFICES ASSUME NEW o \in DOMAIN f, OpenAt(f, o, p + 1)
               PROVE  \E k \in 1..n : \E m \in 1..Len(D[k]) : D[k][m] = f[o]
    BY DEF AllOpen
  <2>1. CASE o = p
    BY <1>1, <1>3, <1>4, <2>1
  <2>2. CASE o # p
    <3>1. PICK k \in 1..n : \E m \in 1..Len(C[k]) : C[k][m] = f[o]
      BY <1>2, <2>2 DEF Tracked, AllOpen
    <3>2. PICK m \in 1..Len(C[k]) : C[k][m] = f[o]
      BY <3>1
    <3>3. m \in 1..Len(D[k]) /\ D[k][m] = f[o]
      <4>1. CASE k = n
        <5>1. m \in 1..Len(C[n]) /\ C[n][m] = f[o]
          BY <3>2, <4>1
        <5>2. m \in 1..Len(D[n])
          BY <1>3, <1>4, <5>1
        <5> QED
          BY <1>4, <4>1, <5>1, <5>2
      <4>2. CASE k # n
        BY <1>6, <3>2, <4>2
      <4> QED
        BY <4>1, <4>2
    <3> QED
      BY <3>3
  <2> QED
    BY <2>1, <2>2
<1> QED
  BY <1>7, <1>8, <1>9 DEF Tracked

LEMMA TrackPop ==
  ASSUME NEW f, Ordered(f), Laminar(f), NEW C, NEW O, NEW n \in Nat \ {0}, NEW p \in Nat,
         Tracked(f, C, O, n, p), \A k \in 1..n : O[k] \in Nat,
         \A k, l \in 1..n : k < l => O[k] < O[l],
         C[n] \in Seq(Nat), C[n] # <<>>, Top(C[n]) = p,
         NEW D, \A k \in 1..(n - 1) : D[k] = C[k], D[n] = Pop(C[n])
  PROVE  Tracked(f, D, O, n, p + 1)
<1> DEFINE len == Len(C[n])
<1>1. len \in Nat \ {0} /\ C[n][len] = p /\ n \in 1..n
  BY DEF Top
<1>2. PICK e \in DOMAIN f : f[e] = p /\ O[n] < e
  BY <1>1 DEF Tracked, Closers
<1>3. \A o \in DOMAIN f : OpenAt(f, o, p + 1) <=> OpenAt(f, o, p) /\ o # e
  BY <1>2 DEF OpenAt, Ordered, Laminar, Apart
<1>4. /\ Len(D[n]) = len - 1
      /\ \A m \in 1..(len - 1) : D[n][m] = C[n][m]
  BY <1>1 DEF Pop
<1>5. ASSUME NEW k \in 1..n, NEW m \in 1..Len(D[k])
      PROVE  m \in 1..Len(C[k]) /\ D[k][m] = C[k][m] /\ (k = n => m < len)
  <2>1. CASE k = n
    BY <1>1, <1>4, <2>1
  <2>2. CASE k # n
    BY <2>2
  <2> QED
    BY <2>1, <2>2
<1>6. Closers(f, D, O, n, p + 1)
  <2> SUFFICES ASSUME NEW k \in 1..n, NEW m \in 1..Len(D[k])
               PROVE  \E o \in DOMAIN f : /\ f[o] = D[k][m] /\ O[k] < o /\ (k < n => o < O[k + 1])
                                          /\ OpenAt(f, o, p + 1)
    BY DEF Closers
  <2>1. m \in 1..Len(C[k]) /\ D[k][m] = C[k][m] /\ (k = n => m < len)
    BY <1>5
  <2>2. PICK o \in DOMAIN f : /\ f[o] = C[k][m] /\ O[k] < o /\ (k < n => o < O[k + 1])
                              /\ OpenAt(f, o, p)
    BY <2>1 DEF Tracked, Closers
  <2>3. o # e
    <3>1. CASE k = n
      <4>1. m \in 1..len /\ len \in 1..len /\ m < len
        BY <1>1, <2>1, <3>1
      <4>2. C[n][len] < C[n][m]
        BY <1>1, <4>1 DEF Tracked, Decreasing
      <4> QED
        BY <1>1, <1>2, <2>2, <3>1, <4>2
    <3>2. CASE k < n
      <4>1. O[k + 1] <= O[n]
        BY <3>2
      <4>2. o \in Nat /\ e \in Nat /\ O[k + 1] \in Nat
        BY <3>2 DEF Ordered
      <4> QED
        BY <1>2, <2>2, <3>2, <4>1, <4>2, SMTT(30)
    <3> QED
      BY <3>1, <3>2
  <2> QED
    BY <1>3, <2>1, <2>2, <2>3
<1>7. Decreasing(D, n)
  BY <1>5 DEF Tracked, Decreasing
<1>8. AllOpen(f, D, n, p + 1)
  <2> SUFFICES ASSUME NEW o \in DOMAIN f, OpenAt(f, o, p + 1)
               PROVE  \E k \in 1..n : \E m \in 1..Len(D[k]) : D[k][m] = f[o]
    BY DEF AllOpen
  <2>1. PICK k \in 1..n : \E m \in 1..Len(C[k]) : C[k][m] = f[o]
    BY <1>3 DEF Tracked, AllOpen
  <2>2. PICK m \in 1..Len(C[k]) : C[k][m] = f[o]
    BY <2>1
  <2>3. ~(k = n /\ m = len)
    BY <1>1, <2>2 DEF OpenAt
  <2>4. m \in 1..Len(D[k]) /\ D[k][m] = f[o]
    <3>1. CASE k = n
      <4>1. m \in 1..(len - 1)
        BY <1>1, <2>2, <2>3, <3>1
      <4>2. m \in 1..Len(D[n]) /\ D[n][m] = C[n][m]
        BY <1>4, <4>1
      <4> QED
        BY <2>2, <3>1, <4>2
    <3>2. CASE k # n
      BY <2>2, <3>2
    <3> QED
      BY <3>1, <3>2
  <2> QED
    BY <2>4
<1> QED
  BY <1>6, <1>7, <1>8 DEF Tracked

LEMMA TrackPushLevel ==
  ASSUME NEW f, Ordered(f), NEW C, NEW O, NEW n \in Nat \ {0}, NEW p \in Nat,
         Tracked(f, C, O, n, p), ~ EndOf(f, p),
         NEW D, \A k \in 1..n : D[k] = C[k], D[n + 1] = <<>>,
         NEW Q, \A k \in 1..n : Q[k] = O[k], Q[n + 1] = p
  PROVE  Tracked(f, D, Q, n + 1, p + 1)
<1>1. \A o \in DOMAIN f : OpenAt(f, o, p) <=> OpenAt(f, o, p + 1)
  BY DEF OpenAt, EndOf, Ordered
<1>2. ASSUME NEW k \in 1..(n + 1), NEW m \in 1..Len(D[k])
      PROVE  k \in 1..n /\ m \in 1..Len(C[k])
  <2>1. Len(D[n + 1]) = 0
    OBVIOUS
  <2> QED
    BY <2>1
<1>3. Closers(f, D, Q, n + 1, p + 1)
  <2> SUFFICES ASSUME NEW k \in 1..(n + 1), NEW m \in 1..Len(D[k])
               PROVE  \E o \in DOMAIN f : /\ f[o] = D[k][m] /\ Q[k] < o
                                          /\ (k < n + 1 => o < Q[k + 1]) /\ OpenAt(f, o, p + 1)
    BY DEF Closers
  <2>1. k \in 1..n /\ m \in 1..Len(C[k])
    BY <1>2
  <2>2. PICK o \in DOMAIN f : /\ f[o] = C[k][m] /\ O[k] < o /\ (k < n => o < O[k + 1])
                              /\ OpenAt(f, o, p)
    BY <2>1 DEF Tracked, Closers
  <2>3. o < Q[k + 1]
    <3>1. CASE k = n
      BY <2>2, <3>1 DEF OpenAt
    <3>2. CASE k < n
      BY <2>1, <2>2, <3>2
    <3> QED
      BY <2>1, <3>1, <3>2
  <2> QED
    BY <1>1, <2>1, <2>2, <2>3
<1>4. Decreasing(D, n + 1)
  BY <1>2 DEF Tracked, Decreasing
<1>5. AllOpen(f, D, n + 1, p + 1)
  <2> SUFFICES ASSUME NEW o \in DOMAIN f, OpenAt(f, o, p + 1)
               PROVE  \E k \in 1..(n + 1) : \E m \in 1..Len(D[k]) : D[k][m] = f[o]
    BY DEF AllOpen
  <2>1. PICK k \in 1..n : \E m \in 1..Len(C[k]) : C[k][m] = f[o]
    BY <1>1 DEF Tracked, AllOpen
  <2> QED
    BY <2>1
<1> QED
  BY <1>3, <1>4, <1>5 DEF Tracked

LEMMA TrackPopLevel ==
  ASSUME NEW f, Ordered(f), NEW C, NEW O, NEW n \in Nat \ {0}, NEW p \in Nat,
         Tracked(f, C, O, n + 1, p), ~ EndOf(f, p), C[n + 1] = <<>>,
         NEW D, \A k \in 1..n : D[k] = C[k],
         NEW Q, \A k \in 1..n : Q[k] = O[k]
  PROVE  Tracked(f, D, Q, n, p + 1)
<1>1. \A o \in DOMAIN f : OpenAt(f, o, p) <=> OpenAt(f, o, p + 1)
  BY DEF OpenAt, EndOf, Ordered
<1>2. Closers(f, D, Q, n, p + 1)
  BY <1>1, SMTT(30) DEF Tracked, Closers
<1>3. Decreasing(D, n)
  BY DEF Tracked, Decreasing
<1>4. AllOpen(f, D, n, p + 1)
  <2> SUFFICES ASSUME NEW o \in DOMAIN f, OpenAt(f, o, p + 1)
               PROVE  \E k \in 1..n : \E m \in 1..Len(D[k]) : D[k][m] = f[o]
    BY DEF AllOpen
  <2>1. PICK k \in 1..(n + 1) : \E m \in 1..Len(C[k]) : C[k][m] = f[o]
    BY <1>1 DEF Tracked, AllOpen
  <2>2. k # n + 1
    <3>1. Len(C[n + 1]) = 0
      OBVIOUS
    <3> QED
      BY <2>1, <3>1
  <2> QED
    BY <2>1, <2>2
<1> QED
  BY <1>2, <1>3, <1>4 DEF Tracked

-----------------------------------------------------------------------------
(***************************************************************************)
(* What a step does to the scopes.                                         *)
(***************************************************************************)
LEMMA ScopesAdvance ==
  ASSUME NEW f, Ordered(f), NEW O, NEW E, NEW n \in Nat, NEW p \in Nat,
         ScopesOpen(f, O, E, n, p), ~ EndOf(f, p)
  PROVE  ScopesOpen(f, O, E, n, p + 1)
<1>1. \A o \in DOMAIN f : OpenAt(f, o, p) <=> OpenAt(f, o, p + 1)
  BY DEF OpenAt, EndOf, Ordered
<1> QED
  BY <1>1 DEF ScopesOpen

LEMMA ScopesPush ==
  ASSUME NEW f, Ordered(f), Laminar(f), NEW O, NEW E, NEW n \in Nat \ {0}, NEW p \in Nat,
         p \in DOMAIN f, p # 0, ScopesOpen(f, O, E, n, p),
         NEW Q, \A k \in 1..n : Q[k] = O[k], Q[n + 1] = p,
         NEW F, \A k \in 1..n : F[k] = E[k], F[n + 1] = f[p]
  PROVE  ScopesOpen(f, Q, F, n + 1, p + 1)
<1>1. p \in Nat /\ f[p] \in Nat /\ p < f[p] /\ n \in 1..n /\ 1 \in 1..n
  BY DEF Ordered
<1>2. \A o \in DOMAIN f : OpenAt(f, o, p + 1) <=> OpenAt(f, o, p) \/ o = p
  BY <1>1 DEF OpenAt, Ordered, Laminar, Apart
<1>3. Q[1] = 0 /\ F[1] = 0
  BY <1>1 DEF ScopesOpen
<1>4. \A k \in 1..n : O[k] < p
  <2> TAKE k \in 1..n
  <2>1. CASE k = 1
    BY <1>1, <2>1 DEF ScopesOpen
  <2>2. CASE k \in 2..n
    BY <2>2 DEF ScopesOpen, OpenAt
  <2> QED
    BY <2>1, <2>2
<1>5. \A k \in 2..(n + 1) : Q[k] \in DOMAIN f /\ F[k] = f[Q[k]] /\ OpenAt(f, Q[k], p + 1)
  <2> TAKE k \in 2..(n + 1)
  <2>1. CASE k = n + 1
    BY <1>1, <1>2, <2>1
  <2>2. CASE k \in 2..n
    <3>1. Q[k] = O[k] /\ F[k] = E[k]
      BY <2>2
    <3> QED
      BY <1>2, <2>2, <3>1 DEF ScopesOpen
  <2> QED
    BY <2>1, <2>2
<1>6. \A k, l \in 1..(n + 1) : k < l => Q[k] < Q[l]
  <2> SUFFICES ASSUME NEW k \in 1..(n + 1), NEW l \in 1..(n + 1), k < l
               PROVE  Q[k] < Q[l]
    OBVIOUS
  <2>1. k \in 1..n /\ Q[k] = O[k]
    OBVIOUS
  <2>2. CASE l = n + 1
    BY <1>4, <2>1, <2>2
  <2>3. CASE l \in 1..n
    BY <2>1, <2>3 DEF ScopesOpen
  <2> QED
    BY <2>2, <2>3
<1>7. ASSUME NEW o \in DOMAIN f, OpenAt(f, o, p + 1)
      PROVE  \E k \in 2..(n + 1) : Q[k] = o
  <2>1. CASE o = p
    BY <1>1, <2>1
  <2>2. CASE o # p
    <3>1. PICK k \in 2..n : O[k] = o
      BY <1>2, <1>7, <2>2 DEF ScopesOpen
    <3> QED
      BY <3>1
  <2> QED
    BY <2>1, <2>2
<1> QED
  BY <1>3, <1>5, <1>6, <1>7 DEF ScopesOpen

LEMMA ScopesPop ==
  ASSUME NEW f, Ordered(f), Laminar(f), NEW O, NEW E, NEW n \in Nat \ {0}, NEW p \in Nat,
         ScopesOpen(f, O, E, n + 1, p), E[n + 1] = p,
         NEW Q, \A k \in 1..n : Q[k] = O[k],
         NEW F, \A k \in 1..n : F[k] = E[k]
  PROVE  ScopesOpen(f, Q, F, n, p + 1)
<1>1. n + 1 \in 2..(n + 1) /\ 1 \in 1..n
  OBVIOUS
<1>2. PICK e \in DOMAIN f : e = O[n + 1] /\ f[e] = p
  BY <1>1 DEF ScopesOpen
<1>3. \A o \in DOMAIN f : OpenAt(f, o, p + 1) <=> OpenAt(f, o, p) /\ o # e
  BY <1>2 DEF OpenAt, Ordered, Laminar, Apart
<1>4. \A k \in 2..n : O[k] # e
  <2> TAKE k \in 2..n
  <2>1. O[k] < O[n + 1]
    BY DEF ScopesOpen
  <2> QED
    BY <1>2, <2>1 DEF Ordered
<1>5. Q[1] = 0 /\ F[1] = 0
  BY <1>1 DEF ScopesOpen
<1>6. \A k \in 2..n : Q[k] \in DOMAIN f /\ F[k] = f[Q[k]] /\ OpenAt(f, Q[k], p + 1)
  BY <1>3, <1>4 DEF ScopesOpen
<1>7. \A k, l \in 1..n : k < l => Q[k] < Q[l]
  BY DEF ScopesOpen
<1>8. ASSUME NEW o \in DOMAIN f, OpenAt(f, o, p + 1)
      PROVE  \E k \in 2..n : Q[k] = o
  <2>1. PICK k \in 2..(n + 1) : O[k] = o
    BY <1>3, <1>8 DEF ScopesOpen
  <2>2. k # n + 1
    BY <1>2, <1>3, <1>8, <2>1
  <2> QED
    BY <2>1, <2>2
<1> QED
  BY <1>5, <1>6, <1>7, <1>8 DEF ScopesOpen

\* A subquery that closes at p is the innermost one.
LEMMA InnermostScope ==
  ASSUME NEW f, Ordered(f), Laminar(f), NEW O, NEW E, NEW n \in Nat \ {0}, NEW p \in Nat,
         ScopesOpen(f, O, E, n, p), NEW o \in DOMAIN f, f[o] = p
  PROVE  n > 1 /\ E[n] = p
<1>1. OpenAt(f, o, p)
  BY DEF OpenAt, Ordered
<1>2. PICK k \in 2..n : O[k] = o
  BY <1>1 DEF ScopesOpen
<1>3. CASE k < n
  <2>1. O[k] < O[n] /\ O[n] \in DOMAIN f /\ OpenAt(f, O[n], p)
    BY <1>3 DEF ScopesOpen
  <2> QED
    BY <1>2, <2>1 DEF OpenAt, Laminar, Ordered, Apart
<1>4. CASE k = n
  BY <1>2, <1>4 DEF ScopesOpen
<1> QED
  BY <1>3, <1>4

\* A part that is still open when the innermost scope closes was opened outside it.
LEMMA ClosedInScope ==
  ASSUME NEW f, NEW g, Ordered(f), Ordered(g), Separate(f, g), NEW C, NEW O, NEW E,
         NEW n \in Nat \ {0}, NEW p \in Nat,
         ScopesOpen(f, O, E, n, p), Tracked(g, C, O, n, p), n > 1, E[n] = p, C[n] \in Seq(Nat)
  PROVE  C[n] = <<>>
<1>1. O[n] \in DOMAIN f /\ f[O[n]] = p
  BY DEF ScopesOpen
<1>2. ASSUME C[n] # <<>> PROVE FALSE
  <2>1. 1 \in 1..Len(C[n]) /\ n \in 1..n
    BY <1>2
  <2>2. PICK q \in DOMAIN g : O[n] < q /\ OpenAt(g, q, p)
    BY <2>1 DEF Tracked, Closers
  <2>3. Apart(O[n], p, q, g[q])
    BY <1>1 DEF Separate
  <2> QED
    BY <1>1, <2>2, <2>3 DEF OpenAt, Ordered, Apart
<1> QED
  BY <1>2

\* A part of g that closes at p is the last one opened in the innermost scope.
LEMMA InnermostPart ==
  ASSUME NEW f, NEW g, Ordered(f), Ordered(g), Separate(f, g), NEW C, NEW O, NEW E,
         NEW n \in Nat \ {0}, NEW p \in Nat,
         ScopesOpen(f, O, E, n, p), Tracked(g, C, O, n, p), C[n] \in Seq(Nat),
         NEW o \in DOMAIN g, g[o] = p
  PROVE  C[n] # <<>> /\ Top(C[n]) = p
<1>1. OpenAt(g, o, p)
  BY DEF OpenAt, Ordered
<1>2. PICK k \in 1..n : \E m \in 1..Len(C[k]) : C[k][m] = p
  BY <1>1 DEF Tracked, AllOpen
<1>3. PICK m \in 1..Len(C[k]) : C[k][m] = p
  BY <1>2
<1>4. k = n
  <2> SUFFICES ASSUME k < n PROVE FALSE
    OBVIOUS
  <2>1. PICK q \in DOMAIN g : g[q] = p /\ q < O[k + 1]
    BY <1>3 DEF Tracked, Closers
  <2>2. k + 1 \in 2..n
    OBVIOUS
  <2>3. O[k + 1] \in DOMAIN f /\ OpenAt(f, O[k + 1], p)
    BY <2>2 DEF ScopesOpen
  <2> QED
    BY <2>1, <2>3, SMTT(30) DEF OpenAt, Ordered, Separate, Apart
<1>5. m = Len(C[n])
  <2>1. /\ m \in 1..Len(C[n]) /\ C[n][m] = p /\ n \in 1..n
        /\ Len(C[n]) \in 1..Len(C[n]) /\ C[n][Len(C[n])] \in Nat
    BY <1>3, <1>4
  <2>2. PICK q \in DOMAIN g : g[q] = C[n][Len(C[n])] /\ OpenAt(g, q, p)
    BY <2>1 DEF Tracked, Closers
  <2>3. m < Len(C[n]) => C[n][Len(C[n])] < p
    BY <2>1 DEF Tracked, Decreasing
  <2> QED
    BY <2>1, <2>2, <2>3 DEF OpenAt
<1> QED
  BY <1>3, <1>4, <1>5 DEF Top

\* A part of g that is open at p is tracked in the innermost scope, unless a subquery
\* was opened in it.
LEMMA PartInScope ==
  ASSUME NEW f, NEW g, Ordered(f), Ordered(g), Laminar(g), NEW C, NEW O, NEW E,
         NEW n \in Nat \ {0}, NEW p \in Nat,
         ScopesOpen(f, O, E, n, p), Tracked(g, C, O, n, p),
         NEW o \in DOMAIN g, OpenAt(g, o, p),
         \A q \in DOMAIN f : ~(o < q /\ q <= p /\ p <= f[q])
  PROVE  C[n] # <<>>
<1>1. PICK k \in 1..n : \E m \in 1..Len(C[k]) : C[k][m] = g[o]
  BY DEF Tracked, AllOpen
<1>2. PICK m \in 1..Len(C[k]) : C[k][m] = g[o]
  BY <1>1
<1>3. k = n
  <2> SUFFICES ASSUME k < n PROVE FALSE
    OBVIOUS
  <2>1. PICK e \in DOMAIN g : g[e] = g[o] /\ e < O[k + 1]
    BY <1>2 DEF Tracked, Closers
  <2>2. e = o
    BY <2>1 DEF Laminar, Ordered, Apart
  <2>3. k + 1 \in 2..n
    OBVIOUS
  <2>4. O[k + 1] \in DOMAIN f /\ OpenAt(f, O[k + 1], p)
    BY <2>3 DEF ScopesOpen
  <2> QED
    BY <2>1, <2>2, <2>4 DEF OpenAt, Ordered
<1>4. CASE C[n] = <<>>
  <2>1. Len(C[n]) = 0
    BY <1>4
  <2> QED
    BY <1>2, <1>3, <2>1
<1> QED
  BY <1>4

-----------------------------------------------------------------------------
(* The indentation of a line. *)

LEMMA GreatestNatural ==
  ASSUME NEW n \in Nat, NEW S, \A m \in S : m \in 1..n, S # {}
  PROVE  \E m \in S : \A x \in S : x <= m
<1>1. PICK T : T = {n - m : m \in S}
  OBVIOUS
<1>2. \A t \in T : t \in Nat
  BY <1>1
<1>3. T \subseteq Nat /\ T # {}
  BY <1>1, <1>2
<1>4. PICK t \in T : \A u \in T : ~ (<<u, t>> \in OpToRel(<, Nat))
  BY <1>3, NatLessThanWellFounded, WFMin
<1>5. \A u \in T : t <= u
  <2> TAKE u \in T
  <2>1. <<u, t>> \in Nat \X Nat /\ ~ (<<u, t>> \in OpToRel(<, Nat))
    BY <1>2, <1>4
  <2>2. ~(u < t)
    BY <2>1 DEF OpToRel
  <2> QED
    BY <1>2, <2>2
<1>6. PICK m \in S : t = n - m
  BY <1>1
<1>7. \A x \in S : n - x \in T
  BY <1>1
<1> QED
  BY <1>5, <1>6, <1>7

LEMMA LineIndentType ==
  ASSUME NEW out \in Seq(Piece)
  PROVE  LineIndent(out) \in Int
<1> DEFINE breaks == {m \in 1..Len(out) : BreaksLine(out[m])}
<1>1. CASE breaks = {}
  BY <1>1 DEF LineIndent, LastBreakAt
<1>2. CASE breaks # {}
  <2>1. Len(out) \in Nat /\ \A m \in breaks : m \in 1..Len(out)
    OBVIOUS
  <2>2. \E m \in breaks : \A x \in breaks : x <= m
    <3> HIDE DEF breaks
    <3> QED
    BY <1>2, <2>1, GreatestNatural
  <2>3. LastBreakAt(out) \in breaks
    BY <1>2, <2>2 DEF LastBreakAt
  <2>4. LastBreakAt(out) \in 1..Len(out)
    BY <2>3
  <2>5. out[LastBreakAt(out)] \in Piece
    BY <2>4
  <2>6. ASSUME NEW x \in Piece PROVE x.v \in Int /\ x.last \in Int
    <3>1. CASE x \in [k : {"tok"}, v : Nat, up : BOOLEAN, last : Nat \cup {-1}]
      BY <3>1
    <3>2. CASE x \in [k : {"nl"}, v : Int, up : {FALSE}, last : {-1}]
      BY <3>2
    <3>3. CASE x \in [k : {"sp"}, v : {0}, up : {FALSE}, last : {-1}]
      BY <3>3
    <3> QED
      BY <3>1, <3>2, <3>3 DEF Piece
  <2>7. out[LastBreakAt(out)].v \in Int /\ out[LastBreakAt(out)].last \in Int
    BY <2>5, <2>6
  <2>8. LineIndent(out) = IF LastBreakAt(out) = 0 THEN 0
                          ELSE IF out[LastBreakAt(out)].k = "nl" THEN out[LastBreakAt(out)].v
                          ELSE out[LastBreakAt(out)].last
    BY Zenon DEF LineIndent
  <2> QED
    BY <2>7, <2>8
<1> QED
  BY <1>1, <1>2

-----------------------------------------------------------------------------
(***************************************************************************)
(* The inductive invariant.  TypeOK is not inductive by itself: that a ")" *)
(* has a scope to go back to, and that a hint ends inside the statement,   *)
(* come from the nesting of the parts.                                     *)
(***************************************************************************)
HintInv == hint # 0 => \E h \in DOMAIN in.hints : in.hints[h] = hint /\ h <= i /\ i <= hint

Inv == in \in Inputs /\ TypeOK /\ HintInv /\ StacksMatch

-----------------------------------------------------------------------------
(* The output. *)

LEMMA PieceTypes ==
  ASSUME LayoutType(in)
  PROVE  /\ \A k \in Nat, up \in BOOLEAN : Tok(k, up) \in Piece
         /\ \A indent \in Int : Nl(indent) \in Piece
         /\ Sp \in Piece
<1>1. \A k \in DOMAIN in.lastLine : in.lastLine[k] \in Nat
  BY DEF LayoutType, Range
<1> QED
  BY <1>1 DEF Tok, Nl, Sp, Piece

LEMMA PieceSeqs ==
  ASSUME LayoutType(in)
  PROVE  /\ <<>> \in Seq(Piece)
         /\ \A k \in Nat, up \in BOOLEAN : <<Tok(k, up)>> \in Seq(Piece)
         /\ \A k \in Nat, up \in BOOLEAN : <<Tok(k, up), Sp>> \in Seq(Piece)
         /\ \A k \in Nat : <<Upper(k)>> \in Seq(Piece)
         /\ \A indent \in Int : <<Nl(indent)>> \in Seq(Piece)
         /\ \A x, y \in Int : <<Nl(x), Nl(y)>> \in Seq(Piece)
         /\ Space \in Seq(Piece)
<1>1. <<>> \in Seq(Piece) /\ Space \in Seq(Piece)
  BY PieceTypes DEF Space
<1>2. \A x \in Piece : <<x>> \in Seq(Piece)
  OBVIOUS
<1>3. \A x, y \in Piece : <<x, y>> \in Seq(Piece)
  OBVIOUS
<1>4. \A k \in Nat : Upper(k) \in Piece
  <2> TAKE k \in Nat
  <2>1. (k \in in.reserved \cup in.keywords) \in BOOLEAN
    OBVIOUS
  <2>2. \A up \in BOOLEAN : Tok(k, up) \in Piece
    BY PieceTypes
  <2> QED
    BY <2>1, <2>2, Zenon DEF Upper
<1> QED
  BY <1>1, <1>2, <1>3, <1>4, PieceTypes

LEMMA WriteType ==
  ASSUME TypeOK, in' = in, i <= in.n,
         NEW lead \in Seq(Piece), NEW text \in Seq(Piece), NEW trail \in Seq(Piece),
         Write(lead, text, trail)
  PROVE  /\ i' \in 1..(in'.n + 1)
         /\ b' \in Seq(Piece)
         /\ starts' \in [1..in'.n -> Nat] /\ ends' \in [1..in'.n -> Nat]
         /\ prev' \in 0..in'.n
         /\ suppressSpace' \in BOOLEAN
<1>1. in.n \in Nat /\ i \in 1..in.n /\ i' = i + 1
  BY DEF TypeOK, LayoutType, Write
<1>2. Len(b) \in Nat /\ Len(lead) \in Nat /\ Len(text) \in Nat
  BY DEF TypeOK
<1>3. b' \in Seq(Piece)
  BY ConcatProperties DEF TypeOK, Write
<1>4. starts' \in [1..in'.n -> Nat] /\ ends' \in [1..in'.n -> Nat]
  <2>1. starts \in [1..in.n -> Nat] /\ ends \in [1..in.n -> Nat]
    BY DEF TypeOK
  <2>2. starts' = [starts EXCEPT ![i] = Len(b) + Len(lead)]
    BY DEF Write
  <2>3. ends' = [ends EXCEPT ![i] = Len(b) + Len(lead) + Len(text)]
    BY DEF Write
  <2>4. Len(b) + Len(lead) \in Nat /\ Len(b) + Len(lead) + Len(text) \in Nat
    BY <1>2
  <2>5. starts' \in [1..in'.n -> Nat]
    BY <2>1, <2>2, <2>4
  <2>6. ends' \in [1..in'.n -> Nat]
    BY <2>1, <2>3, <2>4
  <2> QED
    BY <2>5, <2>6
<1> QED
  BY <1>1, <1>3, <1>4 DEF Write

-----------------------------------------------------------------------------
(* The stacks. *)

LEMMA Levels ==
  ASSUME NEW u \in Seq(Scopes), NEW s \in Scopes
  PROVE  LET st == Append(u, s)
         IN  /\ Len(u) \in Nat /\ Len(st) = Len(u) + 1 /\ DOMAIN st = 1..(Len(u) + 1)
             /\ \A k \in 1..Len(u) : st[k] = u[k]
             /\ st[Len(u) + 1] = s
             /\ \A k \in 1..(Len(u) + 1) :
                  /\ st[k].open \in Nat /\ st[k].close \in Nat
                  /\ st[k].condGroups \in Seq(Nat) /\ st[k].caseEnds \in Seq(Nat)
                  /\ st[k].cases \in Seq(Int)
<1>1. /\ Len(u) \in Nat
      /\ Len(Append(u, s)) = Len(u) + 1
      /\ Append(u, s) \in Seq(Scopes)
      /\ \A k \in 1..Len(u) : Append(u, s)[k] = u[k]
      /\ Append(u, s)[Len(u) + 1] = s
  BY AppendProperties
<1>2. DOMAIN Append(u, s) = 1..(Len(u) + 1)
  BY <1>1
<1>3. \A k \in 1..(Len(u) + 1) : Append(u, s)[k] \in Scopes
  BY <1>1
<1> QED
  BY <1>1, <1>2, <1>3 DEF Scopes

LEMMA Current ==
  ASSUME TypeOK
  PROVE  /\ Len(outer) \in Nat /\ Len(Stack) = Len(outer) + 1
         /\ DOMAIN Stack = 1..Len(Stack)
         /\ Opens[Len(Stack)] = sc.open /\ Closes[Len(Stack)] = sc.close
         /\ GroupStacks[Len(Stack)] = sc.condGroups
         /\ CaseStacks[Len(Stack)] = sc.caseEnds
         /\ \A k \in 1..Len(Stack) :
              /\ Opens[k] \in Nat /\ Closes[k] \in Nat
              /\ GroupStacks[k] \in Seq(Nat) /\ CaseStacks[k] \in Seq(Nat)
<1>1. outer \in Seq(Scopes) /\ sc \in Scopes
  BY DEF TypeOK
<1> QED
  BY <1>1, Levels DEF Stack, Opens, Closes, GroupStacks, CaseStacks

\* A step that goes past a token that neither opens nor closes a part.
LEMMA StacksAdvance ==
  ASSUME Inv, in' = in, i' = i + 1, outer' = outer, sc' = sc,
         ~ EndOf(in.subqueries, i), ~ EndOf(in.condGroups, i), ~ EndOf(in.caseEnd, i)
  PROVE  StacksMatch'
<1>1. /\ Stack' = Stack /\ Opens' = Opens /\ Closes' = Closes
      /\ GroupStacks' = GroupStacks /\ CaseStacks' = CaseStacks
  BY DEF Stack, Opens, Closes, GroupStacks, CaseStacks
<1>2. Len(Stack) \in Nat /\ i \in Nat
  BY Current DEF Inv, TypeOK, LayoutType
<1>3. Ordered(in.subqueries) /\ Ordered(in.condGroups) /\ Ordered(in.caseEnd)
  BY Parts, InputsWellFormed DEF Inv
<1> DEFINE N == Len(Stack)
<1>4. ScopesOpen(in.subqueries, Opens, Closes, N, i + 1)
  BY <1>2, <1>3, ScopesAdvance DEF Inv, StacksMatch
<1>5. Tracked(in.condGroups, GroupStacks, Opens, N, i + 1)
  BY <1>2, <1>3, TrackAdvance DEF Inv, StacksMatch
<1>6. Tracked(in.caseEnd, CaseStacks, Opens, N, i + 1)
  BY <1>2, <1>3, TrackAdvance DEF Inv, StacksMatch
<1>7. \A k \in DOMAIN Stack : Len(Stack[k].cases) = Len(Stack[k].caseEnds)
  BY DEF Inv, StacksMatch
<1> QED
  BY <1>1, <1>4, <1>5, <1>6, <1>7 DEF StacksMatch

-----------------------------------------------------------------------------
(***************************************************************************)
(* The ends of the parts: no part but the hint itself has an end in a      *)
(* hint, and the role of token i tells which part it opens or closes.      *)
(***************************************************************************)
LEMMA HintEnds ==
  ASSUME NEW x, WellFormed(x), NEW h \in DOMAIN x.hints, NEW k \in h..x.hints[h]
  PROVE  ~ EndOf(x.subqueries, k) /\ ~ EndOf(x.condGroups, k) /\ ~ EndOf(x.caseEnd, k)
<1>1. ASSUME NEW f, SpansOf(f) \subseteq Spans(x), NEW o \in DOMAIN f, k = o \/ k = f[o]
      PROVE  o = h
  <2>1. <<o, f[o]>> \in Spans(x)
    BY <1>1 DEF SpansOf
  <2>2. k = <<o, f[o]>>[1] \/ k = <<o, f[o]>>[2]
    BY <1>1
  <2>3. <<o, f[o]>> = <<h, x.hints[h]>>
    BY <2>1, <2>2 DEF WellFormed, HintsFlat
  <2> QED
    BY <2>3
<1>2. /\ h \notin DOMAIN x.subqueries
      /\ h \notin DOMAIN x.condGroups
      /\ h \notin DOMAIN x.caseEnd
  BY Parts
<1>3. /\ SpansOf(x.subqueries) \subseteq Spans(x)
      /\ SpansOf(x.condGroups) \subseteq Spans(x)
      /\ SpansOf(x.caseEnd) \subseteq Spans(x)
  BY DEF Spans
<1>4. ~ EndOf(x.subqueries, k)
  BY <1>1, <1>2, <1>3 DEF EndOf
<1>5. ~ EndOf(x.condGroups, k)
  BY <1>1, <1>2, <1>3 DEF EndOf
<1>6. ~ EndOf(x.caseEnd, k)
  BY <1>1, <1>2, <1>3 DEF EndOf
<1> QED
  BY <1>4, <1>5, <1>6

LEMMA InHint ==
  ASSUME Inv, hint # 0
  PROVE  /\ i <= in.n
         /\ ~ EndOf(in.subqueries, i) /\ ~ EndOf(in.condGroups, i) /\ ~ EndOf(in.caseEnd, i)
<1>1. WellFormed(in) /\ i \in Nat /\ in.n \in Nat
  BY InputsWellFormed DEF Inv, TypeOK, LayoutType
<1>2. PICK h \in DOMAIN in.hints : in.hints[h] = hint /\ h <= i /\ i <= hint
  BY DEF Inv, HintInv
<1>3. h \in 1..in.n /\ in.hints[h] \in 1..in.n
  BY <1>1, Parts
<1>4. i \in h..in.hints[h]
  BY <1>1, <1>2, <1>3
<1> QED
  BY <1>1, <1>2, <1>3, <1>4, HintEnds

\* A token that is not in a hint, by role.
LEMMA Roles ==
  ASSUME LayoutType(in)
  PROVE  /\ Role = "openSubquery" => i \in DOMAIN in.subqueries
         /\ Role = "openCondGroup" => i \in DOMAIN in.condGroups
         /\ Role = "closeSubquery" => i = sc.close
         /\ Role = "closeCondGroup" => sc.condGroups # <<>> /\ i = Top(sc.condGroups)
         /\ Role \in {"case", "when", "else", "end"} => i \in DOMAIN in.cases /\ in.cases[i] = Role
         /\ Role = "hint" => i \in DOMAIN in.hints
<1>1. i \in DOMAIN in.cases => in.cases[i] \in {"case", "when", "else", "end"}
  BY DEF LayoutType, Range
<1> QED
  BY <1>1 DEF Role

LEMMA RoleEnds ==
  ASSUME Inv, hint = 0, i <= in.n, Role # "hint"
  PROVE  /\ EndOf(in.subqueries, i) => Role \in {"openSubquery", "closeSubquery"}
         /\ EndOf(in.condGroups, i) => Role \in {"openCondGroup", "closeCondGroup"}
         /\ EndOf(in.caseEnd, i) => Role \in {"case", "end"}
<1>1. WellFormed(in) /\ i \in Nat \ {0} /\ TypeOK /\ StacksMatch /\ LayoutType(in)
  BY InputsWellFormed DEF Inv, TypeOK, LayoutType
<1>2. i \notin DOMAIN in.hints
  BY DEF Role
<1> DEFINE N == Len(Stack)
<1>3. /\ N \in Nat \ {0} /\ Closes[N] = sc.close
      /\ GroupStacks[N] = sc.condGroups /\ GroupStacks[N] \in Seq(Nat)
  BY <1>1, Current
<1>4. /\ ScopesOpen(in.subqueries, Opens, Closes, N, i)
      /\ Tracked(in.condGroups, GroupStacks, Opens, N, i)
  BY <1>1 DEF StacksMatch
<1> HIDE DEF N
<1>5. /\ Ordered(in.subqueries) /\ Laminar(in.subqueries)
      /\ Ordered(in.condGroups) /\ Ordered(in.caseEnd)
      /\ Separate(in.subqueries, in.condGroups)
      /\ Separate(in.subqueries, in.caseEnd)
      /\ Separate(in.condGroups, in.caseEnd)
  BY <1>1, Parts
<1>6. \A o \in DOMAIN in.subqueries : in.subqueries[o] = i => i = sc.close
  BY <1>1, <1>3, <1>4, <1>5, InnermostScope
<1>7. \A o \in DOMAIN in.condGroups :
        in.condGroups[o] = i => sc.condGroups # <<>> /\ i = Top(sc.condGroups)
  BY <1>1, <1>3, <1>4, <1>5, InnermostPart
<1>8. EndOf(in.condGroups, i) => ~ EndOf(in.subqueries, i)
  BY <1>5, NoSharedEnd
<1>9. i = sc.close => EndOf(in.subqueries, i)
  BY <1>1, <1>3, <1>4 DEF EndOf, ScopesOpen
<1>10. sc.condGroups # <<>> /\ i = Top(sc.condGroups) => EndOf(in.condGroups, i)
  <2> SUFFICES ASSUME sc.condGroups # <<>>, i = Top(sc.condGroups) PROVE EndOf(in.condGroups, i)
    OBVIOUS
  <2>1. N \in 1..N /\ Len(GroupStacks[N]) \in 1..Len(GroupStacks[N])
        /\ GroupStacks[N][Len(GroupStacks[N])] = i
    BY <1>3 DEF Top
  <2> QED
    BY <1>4, <2>1 DEF Tracked, Closers, EndOf
<1>11. EndOf(in.caseEnd, i) => ~ EndOf(in.subqueries, i) /\ ~ EndOf(in.condGroups, i)
  BY <1>5, NoSharedEnd
<1>12. EndOf(in.subqueries, i) => Role \in {"openSubquery", "closeSubquery"}
  <2> HAVE EndOf(in.subqueries, i)
  <2>1. i \in DOMAIN in.subqueries \/ i = sc.close
    BY <1>6 DEF EndOf
  <2>2. i \notin DOMAIN in.condGroups
    BY <1>8 DEF EndOf
  <2> QED
    BY <1>2, <2>1, <2>2 DEF Role
<1>13. EndOf(in.condGroups, i) => Role \in {"openCondGroup", "closeCondGroup"}
  <2> HAVE EndOf(in.condGroups, i)
  <2>1. i \in DOMAIN in.condGroups \/ (sc.condGroups # <<>> /\ i = Top(sc.condGroups))
    BY <1>7 DEF EndOf
  <2>2. i \notin DOMAIN in.subqueries /\ i # sc.close
    BY <1>8, <1>9 DEF EndOf
  <2> QED
    BY <1>2, <2>1, <2>2 DEF Role
<1>14. EndOf(in.caseEnd, i) => Role \in {"case", "end"}
  <2> HAVE EndOf(in.caseEnd, i)
  <2>1. i \in DOMAIN in.cases /\ in.cases[i] \in {"case", "end"}
    BY <1>1 DEF EndOf, WellFormed, CasesNested, Range
  <2>2. /\ i \notin DOMAIN in.subqueries /\ i \notin DOMAIN in.condGroups
        /\ i # sc.close /\ ~ (sc.condGroups # <<>> /\ i = Top(sc.condGroups))
    BY <1>9, <1>10, <1>11 DEF EndOf
  <2> QED
    BY <1>2, <2>1, <2>2 DEF Role
<1> QED
  BY <1>12, <1>13, <1>14

-----------------------------------------------------------------------------
(***************************************************************************)
(* The steps.                                                              *)
(***************************************************************************)

\* A step that writes a token outside a hint and leaves the scopes as they are.
LEMMA WriteStep ==
  ASSUME Inv, in' = in, hint = 0, hint' = 0, sc' = sc, outer' = outer, i <= in.n, Role # "hint",
         Role \notin {"openSubquery", "closeSubquery", "openCondGroup", "closeCondGroup",
                      "case", "end"},
         NEW lead \in Seq(Piece), NEW text \in Seq(Piece), NEW trail \in Seq(Piece),
         Write(lead, text, trail)
  PROVE  Inv'
<1>1. i' = i + 1
  BY DEF Write
<1>2. StacksMatch'
  BY <1>1, RoleEnds, StacksAdvance
<1>3. TypeOK'
  BY WriteType DEF Inv, TypeOK
<1> QED
  BY <1>2, <1>3 DEF Inv, HintInv

LEMMA ScopeIndents ==
  ASSUME NEW s \in Scopes
  PROVE  s.clauseIndent \in Int /\ BodyIndent(s) \in Int /\ CondIndent(s) \in Int
BY DEF Scopes, BodyIndent, CondIndent

LEMMA StepStartHint == Inv /\ StartHint => Inv'
<1> SUFFICES ASSUME Inv, StartHint PROVE Inv'
  OBVIOUS
<1> USE DEF StartHint
<1>1. WellFormed(in) /\ LayoutType(in) /\ i \in Nat
  BY InputsWellFormed DEF Inv, TypeOK, LayoutType
<1>2. i \in DOMAIN in.hints
  BY <1>1, Roles DEF At
<1>3. hint' \in 1..in.n /\ i < hint'
  BY <1>1, <1>2, Parts
<1>4. b' \in Seq(Piece)
  BY PieceSeqs, ConcatProperties DEF Inv, TypeOK
<1>5. TypeOK'
  BY <1>3, <1>4 DEF Inv, TypeOK
<1>6. HintInv'
  BY <1>2, <1>3, <1>1 DEF HintInv
<1>7. StacksMatch'
  BY DEF Inv, StacksMatch, Stack, Opens, Closes, GroupStacks, CaseStacks
<1> QED
  BY <1>5, <1>6, <1>7 DEF Inv

LEMMA StepHintToken == Inv /\ HintToken => Inv'
<1> SUFFICES ASSUME Inv, HintToken PROVE Inv'
  OBVIOUS
<1> DEFINE text == IF in.kind[i] = "," THEN <<Tok(i, FALSE), Sp>> ELSE <<Tok(i, FALSE)>>
<1>1. hint # 0 /\ Write(<<>>, text, <<>>) /\ in' = in /\ sc' = sc /\ outer' = outer
      /\ hint' = IF i = hint THEN 0 ELSE hint
  BY DEF HintToken
<1>2. i \in Nat /\ hint \in Nat /\ in.n \in Nat /\ TypeOK /\ LayoutType(in)
  <2>1. TypeOK /\ LayoutType(in) /\ i \in 1..(in.n + 1) /\ hint \in 0..in.n
    BY DEF Inv, TypeOK
  <2> QED
    BY <2>1 DEF LayoutType
<1>3. text \in Seq(Piece) /\ <<>> \in Seq(Piece)
  BY <1>2, PieceSeqs
<1> HIDE DEF text
<1>4. i' = i + 1
  BY <1>1 DEF Write
<1>5. i <= in.n
  BY <1>1, InHint
<1>6. StacksMatch'
  BY <1>1, <1>4, InHint, StacksAdvance
<1>7. TypeOK'
  <2>1. /\ i' \in 1..(in'.n + 1) /\ b' \in Seq(Piece)
        /\ starts' \in [1..in'.n -> Nat] /\ ends' \in [1..in'.n -> Nat]
        /\ prev' \in 0..in'.n /\ suppressSpace' \in BOOLEAN
    BY <1>1, <1>2, <1>3, <1>5, WriteType
  <2> QED
    <3>1. LayoutType(in') /\ hint' \in 0..in'.n /\ sc' \in Scopes /\ outer' \in Seq(Scopes)
      BY <1>1, <1>2 DEF TypeOK
    <3> QED
      BY <2>1, <3>1 DEF TypeOK
<1>8. HintInv'
  <2>1. HintInv
    BY DEF Inv
  <2>2. CASE i = hint
    BY <1>1, <2>2 DEF HintInv
  <2>3. CASE i # hint
    <3>1. PICK h \in DOMAIN in.hints : in.hints[h] = hint /\ h <= i /\ i <= hint
      BY <1>1, <2>1 DEF HintInv
    <3>2. h \in Nat /\ h <= i + 1 /\ i + 1 <= hint /\ hint' = hint
      <4>1. LayoutType(in) /\ WellFormed(in) /\ h \in DOMAIN in.hints
        BY InputsWellFormed, <1>2 DEF Inv
      <4>2. h \in Nat
        BY <4>1, Parts
      <4> QED
        BY <1>1, <1>2, <2>3, <3>1, <4>2
    <3> QED
      BY <1>1, <1>4, <3>1, <3>2 DEF HintInv
  <2> QED
    BY <2>2, <2>3
<1> QED
  BY <1>1, <1>6, <1>7, <1>8 DEF Inv

LEMMA StepCaseBranch == Inv /\ CaseBranch => Inv'
<1> SUFFICES ASSUME Inv, CaseBranch PROVE Inv'
  OBVIOUS
<1>1. i \in Nat /\ in.n \in Nat /\ sc \in Scopes /\ LayoutType(in)
  BY DEF Inv, TypeOK, LayoutType
<1>2. CaseIndent \in Int
  BY <1>1 DEF CaseBranch, CaseIndent, Top, Scopes
<1>3. <<Nl(CaseIndent + 2)>> \in Seq(Piece) /\ <<Upper(i)>> \in Seq(Piece) /\ <<>> \in Seq(Piece)
  <2>1. CaseIndent + 2 \in Int
    BY <1>2
  <2> QED
    BY <1>1, <2>1, PieceSeqs
<1> QED
  BY <1>3, WriteStep DEF CaseBranch, At

LEMMA StepListSep == Inv /\ ListSep => Inv'
<1> SUFFICES ASSUME Inv, ListSep PROVE Inv'
  OBVIOUS
<1> DEFINE trail == <<Nl(IF in.listSeps[i] = "cte" THEN sc.clauseIndent ELSE BodyIndent(sc))>>
<1>1. i \in Nat /\ in.n \in Nat /\ sc \in Scopes /\ LayoutType(in)
  BY DEF Inv, TypeOK, LayoutType
<1>2. trail \in Seq(Piece) /\ <<Tok(i, FALSE)>> \in Seq(Piece) /\ <<>> \in Seq(Piece)
  BY <1>1, ScopeIndents, PieceSeqs
<1>3. Write(<<>>, <<Tok(i, FALSE)>>, trail)
  BY DEF ListSep
<1> HIDE DEF trail
<1> QED
  BY <1>2, <1>3, WriteStep DEF ListSep, At

LEMMA StepCondOp == Inv /\ CondOp => Inv'
<1> SUFFICES ASSUME Inv, CondOp PROVE Inv'
  OBVIOUS
<1>1. i \in Nat /\ in.n \in Nat /\ sc \in Scopes /\ LayoutType(in)
  BY DEF Inv, TypeOK, LayoutType
<1>2. <<Nl(CondIndent(sc))>> \in Seq(Piece) /\ <<Upper(i)>> \in Seq(Piece) /\ <<>> \in Seq(Piece)
  BY <1>1, ScopeIndents, PieceSeqs
<1> QED
  BY <1>2, WriteStep DEF CondOp, At

LEMMA StepPlain == Inv /\ Plain => Inv'
<1> SUFFICES ASSUME Inv, Plain PROVE Inv'
  OBVIOUS
<1> DEFINE starting == i \in DOMAIN in.clauseStarts
           setOp == starting /\ in.clauseStarts[i] = "setop"
           lead == IF ~starting THEN Space
                   ELSE IF setOp THEN <<Nl(0), Nl(sc.clauseIndent)>>
                   ELSE IF b # <<>> THEN <<Nl(sc.clauseIndent)>>
                   ELSE <<>>
           block == i \in DOMAIN in.clauseEnds /\ in.clauseEnds[i] = "block"
           trail == IF block THEN <<Nl(BodyIndent(sc))>> ELSE <<>>
<1>1. i \in Nat /\ in.n \in Nat /\ sc \in Scopes /\ LayoutType(in)
  BY DEF Inv, TypeOK, LayoutType
<1>2. lead \in Seq(Piece) /\ trail \in Seq(Piece) /\ <<Upper(i)>> \in Seq(Piece)
  BY <1>1, ScopeIndents, PieceSeqs
<1>3. Write(lead, <<Upper(i)>>, trail)
  BY DEF Plain
<1> HIDE DEF lead, trail
<1> QED
  BY <1>2, <1>3, WriteStep DEF Plain, At

\* The facts about the current state that the steps on the stacks rest on.
LEMMA Facts ==
  ASSUME Inv
  PROVE  /\ WellFormed(in) /\ LayoutType(in) /\ TypeOK
         /\ i \in Nat \ {0} /\ in.n \in Nat
         /\ outer \in Seq(Scopes) /\ sc \in Scopes
         /\ Len(Stack) \in Nat \ {0} /\ Len(Stack) = Len(outer) + 1 /\ Len(outer) \in Nat
         /\ ScopesOpen(in.subqueries, Opens, Closes, Len(Stack), i)
         /\ Tracked(in.condGroups, GroupStacks, Opens, Len(Stack), i)
         /\ Tracked(in.caseEnd, CaseStacks, Opens, Len(Stack), i)
         /\ \A k \in 1..Len(Stack) : Len(Stack[k].cases) = Len(Stack[k].caseEnds)
<1>1. WellFormed(in) /\ TypeOK /\ StacksMatch
  BY InputsWellFormed DEF Inv
<1>2. LayoutType(in) /\ i \in Nat \ {0} /\ in.n \in Nat /\ outer \in Seq(Scopes) /\ sc \in Scopes
  BY <1>1 DEF TypeOK, LayoutType
<1>3. /\ Len(Stack) \in Nat \ {0} /\ Len(Stack) = Len(outer) + 1 /\ Len(outer) \in Nat
      /\ DOMAIN Stack = 1..Len(Stack)
  BY <1>1, Current
<1> QED
  BY <1>1, <1>2, <1>3 DEF StacksMatch

LEMMA PushScope ==
  ASSUME Ordered(in.subqueries), Laminar(in.subqueries), i \in Nat, i # 0, Len(Stack) \in Nat \ {0},
         i \in DOMAIN in.subqueries,
         ScopesOpen(in.subqueries, Opens, Closes, Len(Stack), i),
         \A k \in 1..Len(Stack) : Opens'[k] = Opens[k], Opens'[Len(Stack) + 1] = i,
         \A k \in 1..Len(Stack) : Closes'[k] = Closes[k],
         Closes'[Len(Stack) + 1] = in.subqueries[i]
  PROVE  ScopesOpen(in.subqueries, Opens', Closes', Len(Stack) + 1, i + 1)
BY ScopesPush, SMTT(30)

LEMMA PushParts ==
  ASSUME Ordered(in.condGroups), Ordered(in.caseEnd), i \in Nat, Len(Stack) \in Nat \ {0},
         ~ EndOf(in.condGroups, i), ~ EndOf(in.caseEnd, i),
         Tracked(in.condGroups, GroupStacks, Opens, Len(Stack), i),
         Tracked(in.caseEnd, CaseStacks, Opens, Len(Stack), i),
         \A k \in 1..Len(Stack) : Opens'[k] = Opens[k], Opens'[Len(Stack) + 1] = i,
         \A k \in 1..Len(Stack) : GroupStacks'[k] = GroupStacks[k],
         GroupStacks'[Len(Stack) + 1] = <<>>,
         \A k \in 1..Len(Stack) : CaseStacks'[k] = CaseStacks[k],
         CaseStacks'[Len(Stack) + 1] = <<>>
  PROVE  /\ Tracked(in.condGroups, GroupStacks', Opens', Len(Stack) + 1, i + 1)
         /\ Tracked(in.caseEnd, CaseStacks', Opens', Len(Stack) + 1, i + 1)
<1>1. Tracked(in.condGroups, GroupStacks', Opens', Len(Stack) + 1, i + 1)
  BY TrackPushLevel, SMTT(30)
<1>2. Tracked(in.caseEnd, CaseStacks', Opens', Len(Stack) + 1, i + 1)
  BY TrackPushLevel, SMTT(30)
<1> QED
  BY <1>1, <1>2

LEMMA StepOpenSubquery == Inv /\ OpenSubquery => Inv'
<1> SUFFICES ASSUME Inv, OpenSubquery PROVE Inv'
  OBVIOUS
<1> DEFINE lead == IF prev \in DOMAIN in.subqueries THEN <<Nl(sc.clauseIndent)>> ELSE Space
           N == Len(Stack)
<1>1. /\ WellFormed(in) /\ LayoutType(in) /\ TypeOK
      /\ i \in Nat \ {0} /\ in.n \in Nat
      /\ outer \in Seq(Scopes) /\ sc \in Scopes
      /\ N \in Nat \ {0}
      /\ ScopesOpen(in.subqueries, Opens, Closes, N, i)
      /\ Tracked(in.condGroups, GroupStacks, Opens, N, i)
      /\ Tracked(in.caseEnd, CaseStacks, Opens, N, i)
      /\ \A k \in 1..N : Len(Stack[k].cases) = Len(Stack[k].caseEnds)
  BY Facts
<1>2. /\ hint = 0 /\ i <= in.n /\ Role = "openSubquery" /\ i \in DOMAIN in.subqueries
      /\ in' = in /\ hint' = 0 /\ i' = i + 1 /\ prev' = i /\ suppressSpace' = TRUE
      /\ b' = b \o lead \o <<Tok(i, FALSE)>>
      /\ starts' = [starts EXCEPT ![i] = Len(b) + Len(lead)]
      /\ ends' = [ends EXCEPT ![i] = Len(b) + Len(lead) + 1]
      /\ outer' = Append(outer, sc)
      /\ sc' = Scope(i, in.subqueries[i], LineIndent(b') + 2)
  BY <1>1, Roles DEF OpenSubquery, At
<1>3. /\ Ordered(in.subqueries) /\ Laminar(in.subqueries)
      /\ Ordered(in.condGroups) /\ Ordered(in.caseEnd)
      /\ in.subqueries[i] \in Nat
  BY <1>1, <1>2, Parts DEF Ordered
<1>4. ~ EndOf(in.condGroups, i) /\ ~ EndOf(in.caseEnd, i)
  BY <1>2, RoleEnds
<1>5. lead \in Seq(Piece) /\ <<Tok(i, FALSE)>> \in Seq(Piece)
  BY <1>1, ScopeIndents, PieceSeqs
<1> HIDE DEF lead
<1>6. b' \in Seq(Piece)
  BY <1>1, <1>2, <1>5, ConcatProperties DEF TypeOK
<1>7. sc' \in Scopes /\ outer' \in Seq(Scopes) /\ outer' = Stack
  <2>1. LineIndent(b') + 2 \in Int
    BY <1>6, LineIndentType
  <2> QED
    BY <1>1, <1>2, <1>3, <2>1 DEF Scopes, Scope, Stack
<1>8. TypeOK'
  <2>1. i \in 1..in.n /\ Len(b) \in Nat /\ Len(lead) \in Nat
    BY <1>1, <1>2, <1>5 DEF TypeOK
  <2>2. starts' \in [1..in.n -> Nat] /\ ends' \in [1..in.n -> Nat]
    BY <1>1, <1>2, <2>1 DEF TypeOK
  <2> QED
    <3>1. LayoutType(in') /\ i' \in 1..(in'.n + 1) /\ hint' \in 0..in'.n /\ prev' \in 0..in'.n
      BY <1>1, <1>2, <2>1
    <3> QED
      BY <1>2, <1>6, <1>7, <2>2, <3>1 DEF TypeOK
<1>9. /\ Len(Stack') = N + 1 /\ DOMAIN Stack' = 1..(N + 1) /\ DOMAIN Stack = 1..N
      /\ \A k \in 1..N : Stack'[k] = Stack[k]
      /\ Stack'[N + 1] = sc'
  BY <1>1, <1>7, Levels, Current DEF Stack
<1>10. /\ sc'.open = i /\ sc'.close = in.subqueries[i]
       /\ sc'.condGroups = <<>> /\ sc'.cases = <<>> /\ sc'.caseEnds = <<>>
  BY <1>2 DEF Scope
<1>11. ASSUME NEW k \in 1..N
       PROVE  /\ Opens'[k] = Opens[k] /\ Closes'[k] = Closes[k]
              /\ GroupStacks'[k] = GroupStacks[k] /\ CaseStacks'[k] = CaseStacks[k]
  BY <1>1, <1>9 DEF Opens, Closes, GroupStacks, CaseStacks
<1>12. \A k \in 1..N : Opens[k] \in Nat
  BY <1>1, Current
<1>13. \A k \in DOMAIN Stack' : Len(Stack'[k].cases) = Len(Stack'[k].caseEnds)
  <2> TAKE k \in DOMAIN Stack'
  <2>1. CASE k = N + 1
    BY <1>9, <1>10, <2>1
  <2>2. CASE k \in 1..N
    BY <1>1, <1>9, <2>2
  <2> QED
    BY <1>1, <1>9, <2>1, <2>2
<1> HIDE DEF N
<1>14. /\ Opens'[N + 1] = i /\ Closes'[N + 1] = in.subqueries[i]
       /\ GroupStacks'[N + 1] = <<>> /\ CaseStacks'[N + 1] = <<>>
  <2>1. N + 1 \in DOMAIN Stack'
    BY <1>1, <1>9
  <2> QED
    BY <1>9, <1>10, <2>1 DEF Opens, Closes, GroupStacks, CaseStacks
<1>15. \A k \in 1..N : Opens'[k] = Opens[k]
  BY <1>11
<1>16. \A k \in 1..N : Closes'[k] = Closes[k]
  BY <1>11
<1>17. \A k \in 1..N : GroupStacks'[k] = GroupStacks[k]
  BY <1>11
<1>18. \A k \in 1..N : CaseStacks'[k] = CaseStacks[k]
  BY <1>11
<1>19. ScopesOpen(in.subqueries, Opens', Closes', N + 1, i + 1)
  BY <1>1, <1>2, <1>3, <1>12, <1>14, <1>15, <1>16, PushScope DEF N
<1>20. /\ Tracked(in.condGroups, GroupStacks', Opens', N + 1, i + 1)
       /\ Tracked(in.caseEnd, CaseStacks', Opens', N + 1, i + 1)
  BY <1>1, <1>3, <1>4, <1>14, <1>15, <1>17, <1>18, PushParts DEF N
<1>21. StacksMatch'
  BY <1>2, <1>9, <1>13, <1>19, <1>20 DEF StacksMatch
<1> QED
  BY <1>2, <1>8, <1>21 DEF Inv, HintInv

LEMMA PopTop ==
  ASSUME NEW S, NEW u \in Seq(S), u # <<>>
  PROVE  /\ Pop(u) \in Seq(S) /\ Top(u) \in S
         /\ Append(Pop(u), Top(u)) = u
         /\ Len(Pop(u)) = Len(u) - 1
<1>1. Len(u) \in Nat \ {0}
  OBVIOUS
<1>2. Pop(u) \in Seq(S) /\ Top(u) \in S /\ Len(Pop(u)) = Len(u) - 1
  <2>1. Pop(u) \in Seq(S)
    BY <1>1 DEF Pop
  <2>2. PICK m \in Nat : m = Len(u) - 1
    BY <1>1
  <2>3. Len(SubSeq(u, 1, m)) = m
    BY <2>2
  <2>4. Pop(u) = SubSeq(u, 1, m)
    BY <2>2 DEF Pop
  <2> QED
    BY <1>1, <2>1, <2>2, <2>3, <2>4 DEF Top
<1>3. \A k \in 1..(Len(u) - 1) : Pop(u)[k] = u[k]
  BY <1>1 DEF Pop
<1>4. /\ Append(Pop(u), Top(u)) \in Seq(S)
      /\ Len(Append(Pop(u), Top(u))) = Len(u)
      /\ \A k \in 1..(Len(u) - 1) : Append(Pop(u), Top(u))[k] = u[k]
      /\ Append(Pop(u), Top(u))[Len(u)] = Top(u)
  BY <1>1, <1>2, <1>3, AppendProperties
<1>5. \A k \in 1..Len(u) : Append(Pop(u), Top(u))[k] = u[k]
  BY <1>1, <1>4 DEF Top
<1>6. Append(Pop(u), Top(u)) = u
  BY <1>4, <1>5, SeqEqual
<1> QED
  BY <1>2, <1>6

LEMMA PopScope ==
  ASSUME Ordered(in.subqueries), Laminar(in.subqueries), i \in Nat,
         NEW N \in Nat \ {0}, Closes[N + 1] = i,
         ScopesOpen(in.subqueries, Opens, Closes, N + 1, i),
         \A k \in 1..N : Opens'[k] = Opens[k],
         \A k \in 1..N : Closes'[k] = Closes[k]
  PROVE  ScopesOpen(in.subqueries, Opens', Closes', N, i + 1)
BY ScopesPop

LEMMA PopGroups ==
  ASSUME Ordered(in.condGroups), i \in Nat, NEW N \in Nat \ {0},
         ~ EndOf(in.condGroups, i),
         Tracked(in.condGroups, GroupStacks, Opens, N + 1, i), GroupStacks[N + 1] = <<>>,
         \A k \in 1..N : GroupStacks'[k] = GroupStacks[k],
         \A k \in 1..N : Opens'[k] = Opens[k]
  PROVE  Tracked(in.condGroups, GroupStacks', Opens', N, i + 1)
BY TrackPopLevel

LEMMA PopCases ==
  ASSUME Ordered(in.caseEnd), i \in Nat, NEW N \in Nat \ {0},
         ~ EndOf(in.caseEnd, i),
         Tracked(in.caseEnd, CaseStacks, Opens, N + 1, i), CaseStacks[N + 1] = <<>>,
         \A k \in 1..N : CaseStacks'[k] = CaseStacks[k],
         \A k \in 1..N : Opens'[k] = Opens[k]
  PROVE  Tracked(in.caseEnd, CaseStacks', Opens', N, i + 1)
BY TrackPopLevel

\* At the ")" of the innermost subquery, there is a scope around it, and the
\* condition groups and CASE expressions opened in it are closed.
LEMMA AtClose ==
  ASSUME Inv, i = sc.close
  PROVE  /\ Len(outer) \in Nat \ {0}
         /\ sc.condGroups = <<>> /\ sc.caseEnds = <<>>
<1>1. /\ WellFormed(in) /\ TypeOK
      /\ i \in Nat \ {0}
      /\ Len(Stack) \in Nat \ {0} /\ Len(Stack) = Len(outer) + 1 /\ Len(outer) \in Nat
  BY Facts
<1>2. ScopesOpen(in.subqueries, Opens, Closes, Len(Stack), i)
  BY Facts
<1>3. Tracked(in.condGroups, GroupStacks, Opens, Len(Stack), i)
  BY Facts
<1>4. Tracked(in.caseEnd, CaseStacks, Opens, Len(Stack), i)
  BY Facts
<1>5. /\ Closes[Len(Stack)] = i
      /\ GroupStacks[Len(Stack)] = sc.condGroups /\ CaseStacks[Len(Stack)] = sc.caseEnds
      /\ sc.condGroups \in Seq(Nat) /\ sc.caseEnds \in Seq(Nat)
  BY <1>1, Current
<1>6. Len(Stack) > 1
  BY <1>1, <1>2, <1>5 DEF ScopesOpen
<1>7. /\ Ordered(in.subqueries) /\ Ordered(in.condGroups) /\ Ordered(in.caseEnd)
      /\ Separate(in.subqueries, in.condGroups) /\ Separate(in.subqueries, in.caseEnd)
  BY <1>1, Parts
<1>8. GroupStacks[Len(Stack)] \in Seq(Nat)
  BY <1>5
<1>9. CaseStacks[Len(Stack)] \in Seq(Nat)
  BY <1>5
<1>10. i \in Nat /\ Len(Stack) \in Nat \ {0}
  BY <1>1
<1>11. Closes[Len(Stack)] = i
  BY <1>5
<1>12. Ordered(in.subqueries)
  BY <1>7
<1>13. GroupStacks[Len(Stack)] = <<>>
  <2>1. Ordered(in.condGroups) /\ Separate(in.subqueries, in.condGroups)
    BY <1>7
  <2> QED
    BY <1>2, <1>3, <1>6, <1>8, <1>10, <1>11, <1>12, <2>1, ClosedInScope, SMTT(30)
<1>14. CaseStacks[Len(Stack)] = <<>>
  <2>1. Ordered(in.caseEnd) /\ Separate(in.subqueries, in.caseEnd)
    BY <1>7
  <2> QED
    BY <1>2, <1>4, <1>6, <1>9, <1>10, <1>11, <1>12, <2>1, ClosedInScope, SMTT(30)
<1> QED
  BY <1>1, <1>5, <1>6, <1>13, <1>14

LEMMA StepCloseSubquery == Inv /\ CloseSubquery => Inv'
<1> SUFFICES ASSUME Inv, CloseSubquery PROVE Inv'
  OBVIOUS
<1> DEFINE N == Len(outer)
<1>1. /\ WellFormed(in) /\ LayoutType(in) /\ TypeOK
      /\ i \in Nat \ {0} /\ in.n \in Nat
      /\ outer \in Seq(Scopes) /\ sc \in Scopes
      /\ Len(Stack) = N + 1
      /\ ScopesOpen(in.subqueries, Opens, Closes, N + 1, i)
      /\ Tracked(in.condGroups, GroupStacks, Opens, N + 1, i)
      /\ Tracked(in.caseEnd, CaseStacks, Opens, N + 1, i)
      /\ \A k \in 1..(N + 1) : Len(Stack[k].cases) = Len(Stack[k].caseEnds)
  BY Facts
<1>2. /\ hint = 0 /\ i <= in.n /\ Role = "closeSubquery" /\ i = sc.close
      /\ in' = in /\ hint' = 0 /\ i' = i + 1
      /\ sc' = Top(outer) /\ outer' = Pop(outer)
      /\ Write(<<Nl(sc.clauseIndent - 2)>>, <<Tok(i, FALSE)>>, <<>>)
  BY <1>1, Roles DEF CloseSubquery, At, Write
<1>3. N \in Nat \ {0} /\ sc.condGroups = <<>> /\ sc.caseEnds = <<>>
  BY <1>2, AtClose
<1>4. /\ Ordered(in.subqueries) /\ Laminar(in.subqueries)
      /\ Ordered(in.condGroups) /\ Ordered(in.caseEnd)
  BY <1>1, Parts
<1>5. ~ EndOf(in.condGroups, i) /\ ~ EndOf(in.caseEnd, i)
  BY <1>2, RoleEnds
<1>6. sc' \in Scopes /\ outer' \in Seq(Scopes) /\ Stack' = outer
  BY <1>1, <1>2, <1>3, PopTop DEF Stack
<1>7. TypeOK'
  <2>1. /\ <<Nl(sc.clauseIndent - 2)>> \in Seq(Piece) /\ <<Tok(i, FALSE)>> \in Seq(Piece)
        /\ <<>> \in Seq(Piece)
    <3>1. sc.clauseIndent - 2 \in Int
      BY <1>1 DEF Scopes
    <3> QED
      BY <1>1, <3>1, PieceSeqs
  <2>2. /\ i' \in 1..(in'.n + 1) /\ b' \in Seq(Piece)
        /\ starts' \in [1..in'.n -> Nat] /\ ends' \in [1..in'.n -> Nat]
        /\ prev' \in 0..in'.n /\ suppressSpace' \in BOOLEAN
    BY <1>1, <1>2, <2>1, WriteType
  <2> QED
    BY <1>1, <1>2, <1>6, <2>2 DEF TypeOK
<1>8. /\ DOMAIN Stack' = 1..N /\ Len(Stack') = N /\ DOMAIN Stack = 1..(N + 1)
      /\ \A k \in 1..N : Stack'[k] = Stack[k]
  BY <1>1, <1>6, Levels, Current DEF Stack
<1>9. ASSUME NEW k \in 1..N
      PROVE  /\ Opens'[k] = Opens[k] /\ Closes'[k] = Closes[k]
             /\ GroupStacks'[k] = GroupStacks[k] /\ CaseStacks'[k] = CaseStacks[k]
  BY <1>3, <1>8 DEF Opens, Closes, GroupStacks, CaseStacks
<1>10. \A k \in DOMAIN Stack' : Len(Stack'[k].cases) = Len(Stack'[k].caseEnds)
  BY <1>1, <1>3, <1>8
<1>11. /\ Closes[N + 1] = i /\ GroupStacks[N + 1] = <<>> /\ CaseStacks[N + 1] = <<>>
  BY <1>1, <1>2, <1>3, Current
<1>12. \A k \in 1..N : Opens'[k] = Opens[k]
  BY <1>9
<1>13. \A k \in 1..N : Closes'[k] = Closes[k]
  BY <1>9
<1>14. \A k \in 1..N : GroupStacks'[k] = GroupStacks[k]
  BY <1>9
<1>15. \A k \in 1..N : CaseStacks'[k] = CaseStacks[k]
  BY <1>9
<1> HIDE DEF N
<1>16. ScopesOpen(in.subqueries, Opens', Closes', N, i + 1)
  BY <1>1, <1>3, <1>4, <1>11, <1>12, <1>13, PopScope
<1>17. /\ Tracked(in.condGroups, GroupStacks', Opens', N, i + 1)
       /\ Tracked(in.caseEnd, CaseStacks', Opens', N, i + 1)
  BY <1>1, <1>3, <1>4, <1>5, <1>11, <1>12, <1>14, <1>15, PopGroups, PopCases
<1>18. StacksMatch'
  BY <1>2, <1>8, <1>10, <1>16, <1>17 DEF StacksMatch
<1> QED
  BY <1>2, <1>7, <1>18 DEF Inv, HintInv

\* A step inside the innermost scope.
LEMMA SameLevels ==
  ASSUME Inv, outer' = outer, sc' \in Scopes, sc'.open = sc.open, sc'.close = sc.close
  PROVE  /\ DOMAIN Stack' = DOMAIN Stack /\ Len(Stack') = Len(Stack)
         /\ DOMAIN Stack = 1..Len(Stack)
         /\ Opens' = Opens /\ Closes' = Closes
         /\ \A k \in 1..(Len(Stack) - 1) : Stack'[k] = Stack[k]
         /\ \A k \in 1..(Len(Stack) - 1) : GroupStacks'[k] = GroupStacks[k]
         /\ \A k \in 1..(Len(Stack) - 1) : CaseStacks'[k] = CaseStacks[k]
         /\ Stack'[Len(Stack)] = sc' /\ Stack[Len(Stack)] = sc
         /\ GroupStacks'[Len(Stack)] = sc'.condGroups
         /\ CaseStacks'[Len(Stack)] = sc'.caseEnds
         /\ (sc'.condGroups = sc.condGroups => GroupStacks' = GroupStacks)
         /\ (sc'.caseEnds = sc.caseEnds => CaseStacks' = CaseStacks)
<1>1. outer \in Seq(Scopes) /\ sc \in Scopes /\ Len(outer) \in Nat
  BY Facts
<1>2. /\ Len(Stack) = Len(outer) + 1 /\ Len(Stack') = Len(outer) + 1
      /\ DOMAIN Stack' = 1..(Len(outer) + 1) /\ DOMAIN Stack = 1..(Len(outer) + 1)
      /\ \A k \in 1..Len(outer) : Stack'[k] = Stack[k]
      /\ Stack'[Len(outer) + 1] = sc' /\ Stack[Len(outer) + 1] = sc
  BY <1>1, Levels DEF Stack
<1>3. \A k \in 1..(Len(outer) + 1) : Stack'[k].open = Stack[k].open /\ Stack'[k].close = Stack[k].close
  BY <1>1, <1>2
<1>4. Opens' = Opens /\ Closes' = Closes
  BY <1>2, <1>3 DEF Opens, Closes
<1>5. \A k \in 1..Len(outer) : GroupStacks'[k] = GroupStacks[k] /\ CaseStacks'[k] = CaseStacks[k]
  BY <1>1, <1>2 DEF GroupStacks, CaseStacks
<1>6. /\ GroupStacks'[Len(outer) + 1] = sc'.condGroups
      /\ CaseStacks'[Len(outer) + 1] = sc'.caseEnds
  BY <1>1, <1>2 DEF GroupStacks, CaseStacks
<1>7. sc'.condGroups = sc.condGroups => GroupStacks' = GroupStacks
  <2> HAVE sc'.condGroups = sc.condGroups
  <2>1. \A k \in 1..(Len(outer) + 1) : Stack'[k].condGroups = Stack[k].condGroups
    BY <1>1, <1>2
  <2> QED
    BY <1>2, <2>1 DEF GroupStacks
<1>8. sc'.caseEnds = sc.caseEnds => CaseStacks' = CaseStacks
  <2> HAVE sc'.caseEnds = sc.caseEnds
  <2>1. \A k \in 1..(Len(outer) + 1) : Stack'[k].caseEnds = Stack[k].caseEnds
    BY <1>1, <1>2
  <2> QED
    BY <1>2, <2>1 DEF CaseStacks
<1> QED
  BY <1>1, <1>2, <1>4, <1>5, <1>6, <1>7, <1>8

LEMMA PushGroup ==
  ASSUME Ordered(in.condGroups), Laminar(in.condGroups), NEW N \in Nat \ {0},
         i \in DOMAIN in.condGroups,
         Tracked(in.condGroups, GroupStacks, Opens, N, i), Opens[N] < i,
         GroupStacks[N] \in Seq(Nat),
         \A k \in 1..(N - 1) : GroupStacks'[k] = GroupStacks[k],
         GroupStacks'[N] = Append(GroupStacks[N], in.condGroups[i])
  PROVE  Tracked(in.condGroups, GroupStacks', Opens, N, i + 1)
BY TrackPush

LEMMA PopGroup ==
  ASSUME Ordered(in.condGroups), Laminar(in.condGroups), NEW N \in Nat \ {0}, i \in Nat,
         Tracked(in.condGroups, GroupStacks, Opens, N, i),
         \A k \in 1..N : Opens[k] \in Nat,
         \A k, l \in 1..N : k < l => Opens[k] < Opens[l],
         GroupStacks[N] \in Seq(Nat), GroupStacks[N] # <<>>, Top(GroupStacks[N]) = i,
         \A k \in 1..(N - 1) : GroupStacks'[k] = GroupStacks[k],
         GroupStacks'[N] = Pop(GroupStacks[N])
  PROVE  Tracked(in.condGroups, GroupStacks', Opens, N, i + 1)
BY TrackPop

LEMMA PushCase ==
  ASSUME Ordered(in.caseEnd), Laminar(in.caseEnd), NEW N \in Nat \ {0},
         i \in DOMAIN in.caseEnd,
         Tracked(in.caseEnd, CaseStacks, Opens, N, i), Opens[N] < i,
         CaseStacks[N] \in Seq(Nat),
         \A k \in 1..(N - 1) : CaseStacks'[k] = CaseStacks[k],
         CaseStacks'[N] = Append(CaseStacks[N], in.caseEnd[i])
  PROVE  Tracked(in.caseEnd, CaseStacks', Opens, N, i + 1)
BY TrackPush

LEMMA PopCase ==
  ASSUME Ordered(in.caseEnd), Laminar(in.caseEnd), NEW N \in Nat \ {0}, i \in Nat,
         Tracked(in.caseEnd, CaseStacks, Opens, N, i),
         \A k \in 1..N : Opens[k] \in Nat,
         \A k, l \in 1..N : k < l => Opens[k] < Opens[l],
         CaseStacks[N] \in Seq(Nat), CaseStacks[N] # <<>>, Top(CaseStacks[N]) = i,
         \A k \in 1..(N - 1) : CaseStacks'[k] = CaseStacks[k],
         CaseStacks'[N] = Pop(CaseStacks[N])
  PROVE  Tracked(in.caseEnd, CaseStacks', Opens, N, i + 1)
BY TrackPop

LEMMA ScopeStart ==
  ASSUME Inv
  PROVE  /\ Opens[Len(Stack)] < i
         /\ \A k \in 1..Len(Stack) : Opens[k] \in Nat
         /\ \A k, l \in 1..Len(Stack) : k < l => Opens[k] < Opens[l]
<1>1. ScopesOpen(in.subqueries, Opens, Closes, Len(Stack), i)
  BY Facts
<1>2. Len(Stack) \in Nat \ {0} /\ i \in Nat \ {0} /\ TypeOK
  BY Facts
<1>3. Opens[Len(Stack)] < i
  <2>1. CASE Len(Stack) = 1
    BY <1>1, <1>2, <2>1 DEF ScopesOpen
  <2>2. CASE Len(Stack) > 1
    BY <1>1, <1>2, <2>2 DEF ScopesOpen, OpenAt
  <2> QED
    BY <1>2, <2>1, <2>2
<1> QED
  BY <1>1, <1>2, <1>3, Current DEF ScopesOpen

\* What a step that writes token i and changes only the innermost scope has to show.
LEMMA InScopeStep ==
  ASSUME Inv, in' = in, hint = 0, hint' = 0, outer' = outer, i <= in.n,
         sc' \in Scopes, sc'.open = sc.open, sc'.close = sc.close,
         Len(sc'.cases) = Len(sc'.caseEnds), ~ EndOf(in.subqueries, i),
         NEW lead \in Seq(Piece), NEW text \in Seq(Piece), NEW trail \in Seq(Piece),
         Write(lead, text, trail),
         Tracked(in.condGroups, GroupStacks', Opens, Len(Stack), i + 1),
         Tracked(in.caseEnd, CaseStacks', Opens, Len(Stack), i + 1)
  PROVE  Inv'
<1>1. /\ WellFormed(in) /\ TypeOK /\ i \in Nat /\ Len(Stack) \in Nat \ {0}
      /\ \A k \in 1..Len(Stack) : Len(Stack[k].cases) = Len(Stack[k].caseEnds)
  BY Facts
<1>2. i' = i + 1
  BY DEF Write
<1>3. TypeOK'
  BY <1>1, WriteType DEF TypeOK
<1>4. /\ DOMAIN Stack' = 1..Len(Stack) /\ Len(Stack') = Len(Stack)
      /\ Opens' = Opens /\ Closes' = Closes
      /\ \A k \in 1..(Len(Stack) - 1) : Stack'[k] = Stack[k]
      /\ Stack'[Len(Stack)] = sc'
  BY SameLevels
<1>5. ScopesOpen(in.subqueries, Opens, Closes, Len(Stack), i + 1)
  <2>1. ScopesOpen(in.subqueries, Opens, Closes, Len(Stack), i)
    BY Facts
  <2>2. Ordered(in.subqueries)
    BY <1>1, Parts
  <2> QED
    BY <1>1, <2>1, <2>2, ScopesAdvance
<1>6. ASSUME NEW k \in 1..Len(Stack)
      PROVE  Len(Stack'[k].cases) = Len(Stack'[k].caseEnds)
  <2>1. CASE k = Len(Stack)
    <3>1. Stack'[k] = sc'
      BY <1>4, <2>1
    <3> QED
      BY <3>1
  <2>2. CASE k # Len(Stack)
    <3>1. \A m \in 1..(Len(Stack) - 1) : Stack'[m] = Stack[m]
      BY <1>4
    <3>2. k \in 1..(Len(Stack) - 1)
      BY <1>1, <2>2
    <3>3. Stack'[k] = Stack[k]
      BY <3>1, <3>2
    <3> QED
      BY <1>1, <3>3
  <2> QED
    BY <2>1, <2>2
<1>7. StacksMatch'
  BY <1>2, <1>4, <1>5, <1>6 DEF StacksMatch
<1> QED
  BY <1>3, <1>7 DEF Inv, HintInv

LEMMA StepOpenCondGroup == Inv /\ OpenCondGroup => Inv'
<1> SUFFICES ASSUME Inv, OpenCondGroup PROVE Inv'
  OBVIOUS
<1>1. /\ WellFormed(in) /\ LayoutType(in) /\ TypeOK /\ i \in Nat \ {0} /\ in.n \in Nat
      /\ sc \in Scopes /\ Len(Stack) \in Nat \ {0}
  BY Facts
<1>2. /\ hint = 0 /\ i <= in.n /\ Role = "openCondGroup" /\ i \in DOMAIN in.condGroups
      /\ in' = in /\ hint' = 0 /\ outer' = outer
      /\ sc' = [sc EXCEPT !.condGroups = Append(sc.condGroups, in.condGroups[i])]
      /\ Write(Space, <<Tok(i, FALSE)>>, <<Nl(CondIndent(sc'))>>)
  BY <1>1, Roles DEF OpenCondGroup, At, Write
<1>3. /\ Ordered(in.condGroups) /\ Laminar(in.condGroups) /\ Ordered(in.caseEnd)
      /\ in.condGroups[i] \in Nat
  BY <1>1, <1>2, Parts DEF Ordered
<1>4. /\ sc' \in Scopes /\ sc'.open = sc.open /\ sc'.close = sc.close
      /\ sc'.condGroups = Append(sc.condGroups, in.condGroups[i])
      /\ sc'.cases = sc.cases /\ sc'.caseEnds = sc.caseEnds
  <2>1. sc.condGroups \in Seq(Nat)
    BY <1>1 DEF Scopes
  <2>2. Append(sc.condGroups, in.condGroups[i]) \in Seq(Nat)
    BY <1>3, <2>1, AppendProperties
  <2> QED
    BY <1>1, <1>2, <2>2 DEF Scopes
<1>5. Len(sc'.cases) = Len(sc'.caseEnds)
  BY <1>1, <1>4, Facts, SameLevels, <1>2
<1>6. ~ EndOf(in.subqueries, i) /\ ~ EndOf(in.caseEnd, i)
  BY <1>2, RoleEnds
<1>7. /\ Space \in Seq(Piece) /\ <<Tok(i, FALSE)>> \in Seq(Piece)
      /\ <<Nl(CondIndent(sc'))>> \in Seq(Piece)
  BY <1>1, <1>4, ScopeIndents, PieceSeqs
<1>8. Tracked(in.condGroups, GroupStacks', Opens, Len(Stack), i + 1)
  <2>1. Tracked(in.condGroups, GroupStacks, Opens, Len(Stack), i)
    BY Facts
  <2>2. GroupStacks[Len(Stack)] = sc.condGroups /\ GroupStacks[Len(Stack)] \in Seq(Nat)
    BY <1>1, Current
  <2>3. \A k \in 1..(Len(Stack) - 1) : GroupStacks'[k] = GroupStacks[k]
    BY <1>2, <1>4, SameLevels
  <2>4. GroupStacks'[Len(Stack)] = Append(GroupStacks[Len(Stack)], in.condGroups[i])
    BY <1>2, <1>4, <2>2, SameLevels
  <2>5. Opens[Len(Stack)] < i
    BY ScopeStart
  <2> QED
    BY <1>1, <1>2, <1>3, <2>1, <2>2, <2>3, <2>4, <2>5, PushGroup
<1>9. Tracked(in.caseEnd, CaseStacks', Opens, Len(Stack), i + 1)
  <2>1. Tracked(in.caseEnd, CaseStacks, Opens, Len(Stack), i)
    BY Facts
  <2>2. CaseStacks' = CaseStacks
    BY <1>2, <1>4, SameLevels
  <2>3. Tracked(in.caseEnd, CaseStacks, Opens, Len(Stack), i + 1)
    BY <1>1, <1>3, <1>6, <2>1, TrackAdvance
  <2> QED
    BY <2>2, <2>3
<1> QED
  BY <1>2, <1>4, <1>5, <1>6, <1>7, <1>8, <1>9, InScopeStep

LEMMA StepCloseCondGroup == Inv /\ CloseCondGroup => Inv'
<1> SUFFICES ASSUME Inv, CloseCondGroup PROVE Inv'
  OBVIOUS
<1>1. /\ WellFormed(in) /\ LayoutType(in) /\ TypeOK /\ i \in Nat \ {0} /\ in.n \in Nat
      /\ sc \in Scopes /\ Len(Stack) \in Nat \ {0}
  BY Facts
<1>2. /\ hint = 0 /\ i <= in.n /\ Role = "closeCondGroup"
      /\ sc.condGroups # <<>> /\ Top(sc.condGroups) = i
      /\ in' = in /\ hint' = 0 /\ outer' = outer
      /\ sc' = [sc EXCEPT !.condGroups = Pop(sc.condGroups)]
      /\ Write(<<Nl(CondIndent(sc'))>>, <<Tok(i, FALSE)>>, <<>>)
  BY <1>1, Roles DEF CloseCondGroup, At, Write
<1>3. Ordered(in.condGroups) /\ Laminar(in.condGroups) /\ Ordered(in.caseEnd)
  BY <1>1, Parts
<1>4. /\ sc' \in Scopes /\ sc'.open = sc.open /\ sc'.close = sc.close
      /\ sc'.condGroups = Pop(sc.condGroups)
      /\ sc'.cases = sc.cases /\ sc'.caseEnds = sc.caseEnds
  <2>1. sc.condGroups \in Seq(Nat)
    BY <1>1 DEF Scopes
  <2>2. Pop(sc.condGroups) \in Seq(Nat)
    BY <1>2, <2>1, PopTop
  <2> QED
    BY <1>1, <1>2, <2>2 DEF Scopes
<1>5. Len(sc'.cases) = Len(sc'.caseEnds)
  BY <1>1, <1>4, Facts, SameLevels, <1>2
<1>6. ~ EndOf(in.subqueries, i) /\ ~ EndOf(in.caseEnd, i)
  BY <1>2, RoleEnds
<1>7. /\ <<>> \in Seq(Piece) /\ <<Tok(i, FALSE)>> \in Seq(Piece)
      /\ <<Nl(CondIndent(sc'))>> \in Seq(Piece)
  BY <1>1, <1>4, ScopeIndents, PieceSeqs
<1>8. Tracked(in.condGroups, GroupStacks', Opens, Len(Stack), i + 1)
  <2>1. Tracked(in.condGroups, GroupStacks, Opens, Len(Stack), i)
    BY Facts
  <2>2. GroupStacks[Len(Stack)] = sc.condGroups /\ GroupStacks[Len(Stack)] \in Seq(Nat)
    BY <1>1, Current
  <2>3. \A k \in 1..(Len(Stack) - 1) : GroupStacks'[k] = GroupStacks[k]
    BY <1>2, <1>4, SameLevels
  <2>4. GroupStacks'[Len(Stack)] = Pop(GroupStacks[Len(Stack)])
    BY <1>2, <1>4, <2>2, SameLevels
  <2>5. GroupStacks[Len(Stack)] # <<>> /\ Top(GroupStacks[Len(Stack)]) = i
    BY <1>2, <2>2
  <2>6. \A k \in 1..Len(Stack) : Opens[k] \in Nat
    BY ScopeStart
  <2>7. \A k, l \in 1..Len(Stack) : k < l => Opens[k] < Opens[l]
    BY ScopeStart
  <2> QED
    BY <1>1, <1>3, <2>1, <2>2, <2>3, <2>4, <2>5, <2>6, <2>7, PopGroup
<1>9. Tracked(in.caseEnd, CaseStacks', Opens, Len(Stack), i + 1)
  <2>1. Tracked(in.caseEnd, CaseStacks, Opens, Len(Stack), i)
    BY Facts
  <2>2. CaseStacks' = CaseStacks
    BY <1>2, <1>4, SameLevels
  <2>3. Tracked(in.caseEnd, CaseStacks, Opens, Len(Stack), i + 1)
    BY <1>1, <1>3, <1>6, <2>1, TrackAdvance
  <2> QED
    BY <2>2, <2>3
<1> QED
  BY <1>2, <1>4, <1>5, <1>6, <1>7, <1>8, <1>9, InScopeStep

LEMMA StepOpenCase == Inv /\ OpenCase => Inv'
<1> SUFFICES ASSUME Inv, OpenCase PROVE Inv'
  OBVIOUS
<1> DEFINE indent == IF sc.cases # <<>> THEN CaseIndent + 4 ELSE CondIndent(sc)
           lead == IF sc.cases # <<>> THEN <<Nl(indent)>> ELSE Space
<1>1. /\ WellFormed(in) /\ LayoutType(in) /\ TypeOK /\ i \in Nat \ {0} /\ in.n \in Nat
      /\ sc \in Scopes /\ Len(Stack) \in Nat \ {0}
  BY Facts
<1>2. /\ hint = 0 /\ i <= in.n /\ Role = "case" /\ i \in DOMAIN in.cases /\ in.cases[i] = "case"
      /\ in' = in /\ hint' = 0 /\ outer' = outer
      /\ sc' = [sc EXCEPT !.cases = Append(sc.cases, indent),
                          !.caseEnds = Append(sc.caseEnds, in.caseEnd[i])]
      /\ Write(lead, <<Upper(i)>>, <<>>)
  BY <1>1, Roles DEF OpenCase, At, Write
<1>3. /\ Ordered(in.caseEnd) /\ Laminar(in.caseEnd) /\ Ordered(in.condGroups)
      /\ i \in DOMAIN in.caseEnd /\ in.caseEnd[i] \in Nat
  BY <1>1, <1>2, Parts DEF Ordered, WellFormed, CasesNested
<1>4. indent \in Int
  <2>1. sc.cases # <<>> => CaseIndent \in Int
    BY <1>1 DEF CaseIndent, Top, Scopes
  <2> QED
    BY <1>1, <2>1, ScopeIndents
<1>5. lead \in Seq(Piece) /\ <<Upper(i)>> \in Seq(Piece) /\ <<>> \in Seq(Piece)
  BY <1>1, <1>4, PieceSeqs
<1> HIDE DEF indent, lead
<1>6. /\ sc.cases \in Seq(Int) /\ sc.caseEnds \in Seq(Nat)
      /\ Append(sc.cases, indent) \in Seq(Int)
      /\ Append(sc.caseEnds, in.caseEnd[i]) \in Seq(Nat)
      /\ Len(Append(sc.cases, indent)) = Len(sc.cases) + 1
      /\ Len(Append(sc.caseEnds, in.caseEnd[i])) = Len(sc.caseEnds) + 1
  <2>1. sc.cases \in Seq(Int) /\ sc.caseEnds \in Seq(Nat)
    BY <1>1 DEF Scopes
  <2> QED
    BY <1>3, <1>4, <2>1, AppendProperties
<1>7. /\ sc' \in Scopes /\ sc'.open = sc.open /\ sc'.close = sc.close
      /\ sc'.condGroups = sc.condGroups
      /\ sc'.cases = Append(sc.cases, indent)
      /\ sc'.caseEnds = Append(sc.caseEnds, in.caseEnd[i])
  BY <1>1, <1>2, <1>6 DEF Scopes
<1>8. Len(sc'.cases) = Len(sc'.caseEnds)
  <2>1. Len(sc.cases) = Len(sc.caseEnds)
    BY <1>1, <1>2, <1>7, Facts, SameLevels
  <2> QED
    BY <1>6, <1>7, <2>1
<1>9. ~ EndOf(in.subqueries, i) /\ ~ EndOf(in.condGroups, i)
  BY <1>2, RoleEnds
<1>10. Tracked(in.caseEnd, CaseStacks', Opens, Len(Stack), i + 1)
  <2>1. Tracked(in.caseEnd, CaseStacks, Opens, Len(Stack), i)
    BY Facts
  <2>2. CaseStacks[Len(Stack)] = sc.caseEnds /\ CaseStacks[Len(Stack)] \in Seq(Nat)
    BY <1>1, Current
  <2>3. \A k \in 1..(Len(Stack) - 1) : CaseStacks'[k] = CaseStacks[k]
    BY <1>2, <1>7, SameLevels
  <2>4. CaseStacks'[Len(Stack)] = Append(CaseStacks[Len(Stack)], in.caseEnd[i])
    BY <1>2, <1>7, <2>2, SameLevels
  <2>5. Opens[Len(Stack)] < i
    BY ScopeStart
  <2> QED
    BY <1>1, <1>3, <2>1, <2>2, <2>3, <2>4, <2>5, PushCase
<1>11. Tracked(in.condGroups, GroupStacks', Opens, Len(Stack), i + 1)
  <2>1. Tracked(in.condGroups, GroupStacks, Opens, Len(Stack), i)
    BY Facts
  <2>2. GroupStacks' = GroupStacks
    BY <1>2, <1>7, SameLevels
  <2>3. Tracked(in.condGroups, GroupStacks, Opens, Len(Stack), i + 1)
    BY <1>1, <1>3, <1>9, <2>1, TrackAdvance
  <2> QED
    BY <2>2, <2>3
<1> QED
  BY <1>2, <1>5, <1>7, <1>8, <1>9, <1>10, <1>11, InScopeStep

\* An END is the end of the CASE opened last in the innermost scope.
LEMMA AtEnd ==
  ASSUME Inv, hint = 0, i <= in.n, Role = "end"
  PROVE  CaseStacks[Len(Stack)] # <<>> /\ Top(CaseStacks[Len(Stack)]) = i
<1>1. /\ WellFormed(in) /\ LayoutType(in) /\ TypeOK /\ i \in Nat \ {0}
      /\ Len(Stack) \in Nat \ {0}
  BY Facts
<1>2. i \in DOMAIN in.cases /\ in.cases[i] = "end"
  BY <1>1, Roles
<1>3. PICK o \in DOMAIN in.caseEnd : in.caseEnd[o] = i
  BY <1>1, <1>2 DEF WellFormed, CasesNested, Range
<1>4. Ordered(in.subqueries) /\ Ordered(in.caseEnd) /\ Separate(in.subqueries, in.caseEnd)
  BY <1>1, Parts
<1>5. ScopesOpen(in.subqueries, Opens, Closes, Len(Stack), i)
  BY Facts
<1>6. Tracked(in.caseEnd, CaseStacks, Opens, Len(Stack), i)
  BY Facts
<1>7. CaseStacks[Len(Stack)] \in Seq(Nat)
  BY <1>1, Current
<1> QED
  BY <1>1, <1>3, <1>4, <1>5, <1>6, <1>7, InnermostPart

LEMMA StepCloseCase == Inv /\ CloseCase => Inv'
<1> SUFFICES ASSUME Inv, CloseCase PROVE Inv'
  OBVIOUS
<1>1. /\ WellFormed(in) /\ LayoutType(in) /\ TypeOK /\ i \in Nat \ {0} /\ in.n \in Nat
      /\ sc \in Scopes /\ Len(Stack) \in Nat \ {0}
  BY Facts
<1>2. /\ hint = 0 /\ i <= in.n /\ Role = "end" /\ sc.cases # <<>>
      /\ in' = in /\ hint' = 0 /\ outer' = outer
      /\ sc' = [sc EXCEPT !.cases = Pop(sc.cases), !.caseEnds = Pop(sc.caseEnds)]
      /\ Write(<<Nl(CaseIndent)>>, <<Upper(i)>>, <<>>)
  BY <1>1 DEF CloseCase, At, Write
<1>3. Ordered(in.caseEnd) /\ Laminar(in.caseEnd) /\ Ordered(in.condGroups)
  BY <1>1, Parts
<1>4. CaseStacks[Len(Stack)] # <<>> /\ Top(CaseStacks[Len(Stack)]) = i
  BY <1>2, AtEnd
<1>5. CaseStacks[Len(Stack)] = sc.caseEnds /\ sc.caseEnds \in Seq(Nat) /\ sc.cases \in Seq(Int)
  BY <1>1, Current DEF Scopes
<1>6. /\ Pop(sc.cases) \in Seq(Int) /\ Len(Pop(sc.cases)) = Len(sc.cases) - 1
      /\ Pop(sc.caseEnds) \in Seq(Nat) /\ Len(Pop(sc.caseEnds)) = Len(sc.caseEnds) - 1
  BY <1>2, <1>4, <1>5, PopTop
<1>7. /\ sc' \in Scopes /\ sc'.open = sc.open /\ sc'.close = sc.close
      /\ sc'.condGroups = sc.condGroups
      /\ sc'.cases = Pop(sc.cases) /\ sc'.caseEnds = Pop(sc.caseEnds)
  BY <1>1, <1>2, <1>6 DEF Scopes
<1>8. Len(sc'.cases) = Len(sc'.caseEnds)
  <2>1. Len(sc.cases) = Len(sc.caseEnds)
    BY <1>1, <1>2, <1>7, Facts, SameLevels
  <2> QED
    BY <1>6, <1>7, <2>1
<1>9. ~ EndOf(in.subqueries, i) /\ ~ EndOf(in.condGroups, i)
  BY <1>2, RoleEnds
<1>10. /\ <<Nl(CaseIndent)>> \in Seq(Piece) /\ <<Upper(i)>> \in Seq(Piece)
       /\ <<>> \in Seq(Piece)
  <2>1. CaseIndent \in Int
    BY <1>2, <1>5 DEF CaseIndent, Top
  <2> QED
    BY <1>1, <2>1, PieceSeqs
<1>11. Tracked(in.caseEnd, CaseStacks', Opens, Len(Stack), i + 1)
  <2>1. Tracked(in.caseEnd, CaseStacks, Opens, Len(Stack), i)
    BY Facts
  <2>2. CaseStacks[Len(Stack)] \in Seq(Nat)
    BY <1>5
  <2>3. \A k \in 1..(Len(Stack) - 1) : CaseStacks'[k] = CaseStacks[k]
    BY <1>2, <1>7, SameLevels
  <2>4. CaseStacks'[Len(Stack)] = Pop(CaseStacks[Len(Stack)])
    BY <1>2, <1>5, <1>7, SameLevels
  <2>5. \A k \in 1..Len(Stack) : Opens[k] \in Nat
    BY ScopeStart
  <2>6. \A k, l \in 1..Len(Stack) : k < l => Opens[k] < Opens[l]
    BY ScopeStart
  <2> QED
    BY <1>1, <1>3, <1>4, <2>1, <2>2, <2>3, <2>4, <2>5, <2>6, PopCase
<1>12. Tracked(in.condGroups, GroupStacks', Opens, Len(Stack), i + 1)
  <2>1. Tracked(in.condGroups, GroupStacks, Opens, Len(Stack), i)
    BY Facts
  <2>2. GroupStacks' = GroupStacks
    BY <1>2, <1>7, SameLevels
  <2>3. Tracked(in.condGroups, GroupStacks, Opens, Len(Stack), i + 1)
    BY <1>1, <1>3, <1>9, <2>1, TrackAdvance
  <2> QED
    BY <2>2, <2>3
<1> QED
  BY <1>2, <1>7, <1>8, <1>9, <1>10, <1>11, <1>12, InScopeStep

-----------------------------------------------------------------------------
(***************************************************************************)
(* The invariant, and what follows from it.                                *)
(***************************************************************************)
LEMMA InitInv == Init => Inv
<1> SUFFICES ASSUME Init PROVE Inv
  OBVIOUS
<1>1. /\ in \in Inputs /\ WellFormed(in) /\ LayoutType(in)
      /\ i = 1 /\ hint = 0 /\ b = <<>>
      /\ starts = [k \in 1..in.n |-> 0] /\ ends = [k \in 1..in.n |-> 0]
      /\ prev = 0 /\ suppressSpace = FALSE /\ outer = <<>>
      /\ sc = [open |-> 0, close |-> 0, clauseIndent |-> 0,
               condGroups |-> <<>>, cases |-> <<>>, caseEnds |-> <<>>]
  BY InputsWellFormed DEF Init, Start, WellFormed, Scope
<1>2. sc \in Scopes /\ outer \in Seq(Scopes) /\ b \in Seq(Piece)
  BY <1>1 DEF Scopes
<1>3. TypeOK
  <2>1. in.n \in Nat
    BY <1>1 DEF LayoutType
  <2>2. starts \in [1..in.n -> Nat] /\ ends \in [1..in.n -> Nat]
    BY <1>1
  <2>3. i \in 1..(in.n + 1) /\ hint \in 0..in.n /\ prev \in 0..in.n
    BY <1>1, <2>1
  <2>4. suppressSpace \in BOOLEAN
    BY <1>1
  <2> QED
    BY <1>1, <1>2, <2>2, <2>3, <2>4 DEF TypeOK
<1>4. /\ DOMAIN Stack = 1..1 /\ Len(Stack) = 1 /\ Stack[1] = sc
  BY <1>1, <1>2, Levels DEF Stack
<1>5. /\ Opens[1] = 0 /\ Closes[1] = 0
      /\ GroupStacks[1] = <<>> /\ CaseStacks[1] = <<>>
  BY <1>1, <1>4 DEF Opens, Closes, GroupStacks, CaseStacks
<1>6. /\ \A o \in DOMAIN in.subqueries : ~ OpenAt(in.subqueries, o, 1)
      /\ \A o \in DOMAIN in.condGroups : ~ OpenAt(in.condGroups, o, 1)
      /\ \A o \in DOMAIN in.caseEnd : ~ OpenAt(in.caseEnd, o, 1)
  <2>1. /\ \A o \in DOMAIN in.subqueries : o >= 1
        /\ \A o \in DOMAIN in.condGroups : o >= 1
        /\ \A o \in DOMAIN in.caseEnd : o >= 1
    BY <1>1, SpansApart DEF Spans
  <2> QED
    BY <1>1, <2>1, Parts DEF OpenAt, Ordered
<1>7. ScopesOpen(in.subqueries, Opens, Closes, 1, 1)
  BY <1>5, <1>6 DEF ScopesOpen
<1>8. Tracked(in.condGroups, GroupStacks, Opens, 1, 1)
  BY <1>5, <1>6 DEF Tracked, Closers, Decreasing, AllOpen
<1>9. Tracked(in.caseEnd, CaseStacks, Opens, 1, 1)
  BY <1>5, <1>6 DEF Tracked, Closers, Decreasing, AllOpen
<1>10. StacksMatch
  BY <1>1, <1>4, <1>7, <1>8, <1>9 DEF StacksMatch
<1> QED
  BY <1>1, <1>3, <1>10 DEF Inv, HintInv

LEMMA NextInv == Inv /\ [Token]_vars => Inv'
<1>1. Inv /\ UNCHANGED vars => Inv'
  BY DEF vars, Inv, TypeOK, HintInv, StacksMatch, Stack, Opens, Closes, GroupStacks, CaseStacks
<1> QED
  BY <1>1, StepStartHint, StepHintToken, StepOpenSubquery, StepCloseSubquery,
     StepOpenCondGroup, StepCloseCondGroup, StepOpenCase, StepCaseBranch, StepCloseCase,
     StepListSep, StepCondOp, StepPlain DEF Token

LEMMA SpecInv == Spec => []Inv
  BY InitInv, NextInv, PTL DEF Spec

\* The types of the printer's state, in every state of every statement.
THEOREM Spec_TypeOK == Spec => []TypeOK
<1>1. Inv => TypeOK
  BY DEF Inv
<1> QED
  BY <1>1, SpecInv, PTL

\* The stacks are the open parts of the statement.
THEOREM Spec_StacksMatch == Spec => []StacksMatch
<1>1. Inv => StacksMatch
  BY DEF Inv
<1> QED
  BY <1>1, SpecInv, PTL

(***************************************************************************)
(* No step of token indexes an empty stack.                                *)
(***************************************************************************)
LEMMA InvNoPanic == Inv => NoPanic
<1> SUFFICES ASSUME Inv PROVE NoPanic
  OBVIOUS
<1>1. /\ WellFormed(in) /\ LayoutType(in) /\ TypeOK /\ i \in Nat \ {0}
      /\ sc \in Scopes /\ Len(Stack) \in Nat \ {0}
  BY Facts
<1>2. DOMAIN Stack = 1..Len(Stack) /\ CaseStacks[Len(Stack)] = sc.caseEnds
  BY <1>1, Current
<1>3. Stack[Len(Stack)] = sc
  BY <1>1, Levels, Facts DEF Stack
<1>4. CaseStacks[Len(Stack)] # <<>> => sc.cases # <<>>
  <2>1. Len(sc.cases) = Len(sc.caseEnds)
    BY <1>1, <1>3, Facts
  <2>2. sc.caseEnds \in Seq(Nat) /\ sc.cases \in Seq(Int)
    BY <1>1 DEF Scopes
  <2> QED
    BY <1>2, <2>1, <2>2
<1>5. ASSUME At("when") \/ At("else") PROVE sc.cases # <<>>
  <2>1. i \in DOMAIN in.cases /\ in.cases[i] \in {"when", "else"}
    BY <1>1, <1>5, Roles DEF At
  <2>2. PICK o \in DOMAIN in.caseEnd :
          /\ o < i /\ i < in.caseEnd[o]
          /\ \A q \in DOMAIN in.subqueries : ~ (o < q /\ q <= i /\ i <= in.subqueries[q])
    <3>1. Within(in, in.caseEnd, i)
      BY <1>1, <2>1 DEF WellFormed, CasesNested
    <3> QED
      BY <3>1, Zenon DEF Within
  <2>3. Ordered(in.subqueries) /\ Ordered(in.caseEnd) /\ Laminar(in.caseEnd)
    BY <1>1, Parts
  <2>4. OpenAt(in.caseEnd, o, i)
    BY <1>1, <2>2, <2>3 DEF OpenAt, Ordered
  <2>5. ScopesOpen(in.subqueries, Opens, Closes, Len(Stack), i)
    BY Facts
  <2>6. Tracked(in.caseEnd, CaseStacks, Opens, Len(Stack), i)
    BY Facts
  <2>7. CaseStacks[Len(Stack)] # <<>>
    BY <1>1, <2>2, <2>3, <2>4, <2>5, <2>6, PartInScope
  <2> QED
    BY <1>4, <2>7
<1>6. ASSUME At("end") PROVE sc.cases # <<>>
  BY <1>4, <1>6, AtEnd DEF At
<1>7. ASSUME At("closeSubquery") PROVE outer # <<>>
  <2>1. i = sc.close
    BY <1>1, <1>7, Roles DEF At
  <2> QED
    BY <2>1, AtClose
<1> QED
  BY <1>5, <1>6, <1>7 DEF NoPanic

\* No step of the printer reads before the start of a stack (token, casePart and
\* closeSubquery in formatter.go).
THEOREM Spec_NoPanic == Spec => []NoPanic
BY SpecInv, InvNoPanic, PTL

(***************************************************************************)
(* All parts are closed when the last token is written.                    *)
(***************************************************************************)
LEMMA InvAllClosed == Inv => AllClosed
<1> SUFFICES ASSUME Inv, i > in.n
             PROVE  outer = <<>> /\ sc.close = 0 /\ sc.condGroups = <<>> /\ sc.cases = <<>>
  BY DEF AllClosed
<1>1. /\ WellFormed(in) /\ LayoutType(in) /\ TypeOK /\ i \in Nat \ {0} /\ in.n \in Nat
      /\ outer \in Seq(Scopes) /\ sc \in Scopes
      /\ Len(Stack) \in Nat \ {0} /\ Len(Stack) = Len(outer) + 1 /\ Len(outer) \in Nat
  BY Facts
<1>2. ScopesOpen(in.subqueries, Opens, Closes, Len(Stack), i)
  BY Facts
<1>3. /\ \A o \in DOMAIN in.subqueries : ~ OpenAt(in.subqueries, o, i)
      /\ \A o \in DOMAIN in.condGroups : ~ OpenAt(in.condGroups, o, i)
      /\ \A o \in DOMAIN in.caseEnd : ~ OpenAt(in.caseEnd, o, i)
  BY <1>1, Parts DEF OpenAt
<1>4. Len(Stack) = 1
  <2>1. CASE Len(Stack) \in 2..Len(Stack)
    BY <1>2, <1>3, <2>1 DEF ScopesOpen
  <2> QED
    BY <1>1, <2>1
<1>5. /\ Closes[1] = sc.close /\ GroupStacks[1] = sc.condGroups /\ CaseStacks[1] = sc.caseEnds
      /\ sc.condGroups \in Seq(Nat) /\ sc.caseEnds \in Seq(Nat) /\ sc.cases \in Seq(Int)
  BY <1>1, <1>4, Current DEF Scopes
<1>6. outer = <<>> /\ sc.close = 0
  <2>1. Closes[1] = 0
    BY <1>2 DEF ScopesOpen
  <2>2. Len(outer) \in Nat /\ Len(Stack) = Len(outer) + 1
    BY <1>1
  <2>3. Len(outer) = 0
    BY <1>4, <2>2
  <2>4. outer \in Seq(Scopes)
    BY <1>1
  <2>5. outer = <<>>
    BY <2>3, <2>4
  <2> QED
    BY <1>5, <2>1, <2>5
<1>7. ASSUME sc.condGroups # <<>> PROVE FALSE
  <2>1. 1 \in 1..1 /\ 1 \in 1..Len(GroupStacks[1])
    BY <1>5, <1>7
  <2>2. Tracked(in.condGroups, GroupStacks, Opens, 1, i)
    BY <1>4, Facts
  <2> QED
    BY <1>3, <2>1, <2>2 DEF Tracked, Closers
<1>8. ASSUME sc.caseEnds # <<>> PROVE FALSE
  <2>1. 1 \in 1..1 /\ 1 \in 1..Len(CaseStacks[1])
    BY <1>5, <1>8
  <2>2. Tracked(in.caseEnd, CaseStacks, Opens, 1, i)
    BY <1>4, Facts
  <2> QED
    BY <1>3, <2>1, <2>2 DEF Tracked, Closers
<1>9. sc.cases = <<>>
  <2>1. Stack[1] = sc
    BY <1>1, <1>4, Levels DEF Stack
  <2>2. Len(sc.cases) = Len(sc.caseEnds)
    BY <1>4, <2>1, Facts
  <2> QED
    BY <1>5, <1>8, <2>2
<1> QED
  BY <1>6, <1>7, <1>9

\* At the end of a statement formatTokens has no scope, group or CASE open.
THEOREM Spec_AllClosed == Spec => []AllClosed
BY SpecInv, InvAllClosed, PTL
-----------------------------------------------------------------------------
(***************************************************************************)
(* Every token is written once: a step appends one token, with spaces and  *)
(* line breaks around it, and records where.                               *)
(***************************************************************************)
NoToken(s) == \A m \in 1..Len(s) : s[m].k # "tok"
OneToken(s, k) ==
  Len(s) > 0 /\ s[1].k = "tok" /\ s[1].v = k /\ \A m \in 2..Len(s) : s[m].k = "sp"

\* Token i is written between the pieces lead and trail.
Writes(lead, text, trail) ==
  /\ NoToken(lead) /\ OneToken(text, i) /\ NoToken(trail)
  /\ b' = b \o lead \o text \o trail
  /\ starts' = [starts EXCEPT ![i] = Len(b) + Len(lead)]
  /\ ends' = [ends EXCEPT ![i] = Len(b) + Len(lead) + Len(text)]
  /\ i' = i + 1

LEMMA Blanks ==
  /\ NoToken(<<>>) /\ NoToken(Space)
  /\ \A x : NoToken(<<Nl(x)>>)
  /\ \A x, y : NoToken(<<Nl(x), Nl(y)>>)
<1>1. NoToken(<<>>)
  BY DEF NoToken
<1>2. \A x : NoToken(<<Nl(x)>>)
  BY DEF NoToken, Nl
<1>3. \A x, y : NoToken(<<Nl(x), Nl(y)>>)
  BY DEF NoToken, Nl
<1>4. NoToken(<<Sp>>)
  BY DEF NoToken, Sp
<1>5. NoToken(Space)
  BY <1>1, <1>4, Zenon DEF Space
<1> QED
  BY <1>1, <1>2, <1>3, <1>5

LEMMA Tokens ==
  /\ \A k, up : OneToken(<<Tok(k, up)>>, k) /\ OneToken(<<Tok(k, up), Sp>>, k)
  /\ \A k : OneToken(<<Upper(k)>>, k)
<1>1. \A k, up : OneToken(<<Tok(k, up)>>, k) /\ OneToken(<<Tok(k, up), Sp>>, k)
  BY DEF OneToken, Tok, Sp
<1>2. \A k : OneToken(<<Upper(k)>>, k)
  BY <1>1, Zenon DEF Upper
<1> QED
  BY <1>1, <1>2

\* What is where in a concatenation.
LEMMA Joined ==
  \A s, t \in Seq(Piece) :
    /\ s \o t \in Seq(Piece) /\ Len(s \o t) = Len(s) + Len(t)
    /\ \A m \in 1..(Len(s) + Len(t)) : (s \o t)[m] = IF m <= Len(s) THEN s[m] ELSE t[m - Len(s)]
BY ConcatProperties

\* out \o lead \o text \o trail, cut at l, p and q.
Cut(whole, out, lead, text, trail, l, p, q) ==
  /\ l \in Nat /\ p \in Nat /\ q \in Nat /\ l <= p /\ p <= q
  /\ whole \in Seq(Piece) /\ Len(whole) \in Nat /\ q <= Len(whole)
  /\ \A m \in 1..l : whole[m] = out[m]
  /\ \A m \in (l + 1)..p : m - l \in 1..Len(lead) /\ whole[m] = lead[m - l]
  /\ \A m \in (p + 1)..q : m - p \in 1..Len(text) /\ whole[m] = text[m - p]
  /\ \A m \in (q + 1)..Len(whole) : m - q \in 1..Len(trail) /\ whole[m] = trail[m - q]

LEMMA CutAt ==
  ASSUME NEW out \in Seq(Piece), NEW lead \in Seq(Piece), NEW text \in Seq(Piece), NEW trail \in Seq(Piece)
  PROVE  Cut(out \o lead \o text \o trail, out, lead, text, trail,
             Len(out), Len(out) + Len(lead), Len(out) + Len(lead) + Len(text))
<1>1. Len(out) \in Nat /\ Len(lead) \in Nat /\ Len(text) \in Nat /\ Len(trail) \in Nat
  OBVIOUS
<1>2. PICK one \in Seq(Piece) :
        /\ one = out \o lead /\ Len(one) = Len(out) + Len(lead)
        /\ \A m \in 1..(Len(out) + Len(lead)) : one[m] = IF m <= Len(out) THEN out[m] ELSE lead[m - Len(out)]
  BY Joined, Zenon
<1>3. PICK two \in Seq(Piece) :
        /\ two = one \o text /\ Len(two) = Len(one) + Len(text)
        /\ \A m \in 1..(Len(one) + Len(text)) : two[m] = IF m <= Len(one) THEN one[m] ELSE text[m - Len(one)]
  BY Joined, Zenon
<1>4. PICK whole \in Seq(Piece) :
        /\ whole = two \o trail /\ Len(whole) = Len(two) + Len(trail)
        /\ \A m \in 1..(Len(two) + Len(trail)) : whole[m] = IF m <= Len(two) THEN two[m] ELSE trail[m - Len(two)]
  BY Joined, Zenon
<1>5. \A m \in 1..Len(out) : whole[m] = out[m]
  BY <1>1, <1>2, <1>3, <1>4
<1>6. \A m \in (Len(out) + 1)..(Len(out) + Len(lead)) :
        m - Len(out) \in 1..Len(lead) /\ whole[m] = lead[m - Len(out)]
  BY <1>1, <1>2, <1>3, <1>4
<1>7. \A m \in (Len(one) + 1)..(Len(one) + Len(text)) :
        m - Len(one) \in 1..Len(text) /\ whole[m] = text[m - Len(one)]
  BY <1>1, <1>2, <1>3, <1>4
<1>8. \A m \in (Len(two) + 1)..Len(whole) : m - Len(two) \in 1..Len(trail) /\ whole[m] = trail[m - Len(two)]
  BY <1>1, <1>2, <1>3, <1>4
<1>9. Len(two) = Len(out) + Len(lead) + Len(text) /\ Len(whole) = Len(two) + Len(trail)
  BY <1>2, <1>3, <1>4
<1>10. Cut(whole, out, lead, text, trail, Len(out), Len(one), Len(two))
  BY <1>1, <1>2, <1>5, <1>6, <1>7, <1>8, <1>9 DEF Cut
<1> QED
  BY <1>2, <1>3, <1>4, <1>9, <1>10, Zenon

\* After its token, a token's part of the output has at most a space.
InLine == \A k \in 1..(i - 1) : \A m \in (starts[k] + 2)..ends[k] : b[m].k = "sp"

Written == WrittenOnce /\ InLine

LEMMA WritesOnce ==
  ASSUME TypeOK, i <= in.n, Written,
         NEW lead \in Seq(Piece), NEW text \in Seq(Piece), NEW trail \in Seq(Piece),
         Writes(lead, text, trail)
  PROVE  Written'
<1> DEFINE l == Len(b)
           p == Len(b) + Len(lead)
           q == Len(b) + Len(lead) + Len(text)
<1>1. /\ b \in Seq(Piece) /\ starts \in [1..in.n -> Nat] /\ ends \in [1..in.n -> Nat]
      /\ i \in 1..in.n /\ in.n \in Nat
  BY DEF TypeOK, LayoutType
<1>2. /\ l \in Nat /\ p \in Nat /\ q \in Nat /\ l <= p /\ p < q
      /\ q <= Len(b') /\ Len(b') \in Nat
      /\ \A m \in 1..l : b'[m] = b[m]
      /\ \A m \in (l + 1)..p : b'[m].k # "tok"
      /\ b'[p + 1].k = "tok" /\ b'[p + 1].v = i
      /\ \A m \in (p + 2)..q : b'[m].k = "sp"
      /\ \A m \in (q + 1)..Len(b') : b'[m].k # "tok"
  <2>1. b' = b \o lead \o text \o trail /\ NoToken(lead) /\ OneToken(text, i) /\ NoToken(trail)
    BY DEF Writes
  <2>2. Len(text) \in Nat /\ Len(text) > 0
    BY <2>1 DEF OneToken
  <2>3. Cut(b', b, lead, text, trail, l, p, q)
    BY <1>1, <2>1, CutAt, Zenon
  <2>4. q = p + Len(text)
    OBVIOUS
  <2> HIDE DEF l, p, q
  <2>5. \A m \in (l + 1)..p : b'[m].k # "tok"
    BY <2>1, <2>3 DEF NoToken, Cut
  <2>6. \A m \in (q + 1)..Len(b') : b'[m].k # "tok"
    BY <2>1, <2>3 DEF NoToken, Cut
  <2>7. b'[p + 1].k = "tok" /\ b'[p + 1].v = i
    <3>1. p + 1 \in (p + 1)..q /\ (p + 1) - p = 1
      BY <2>2, <2>3, <2>4 DEF Cut
    <3>2. b'[p + 1] = text[(p + 1) - p]
      BY <2>3, <3>1 DEF Cut
    <3>3. b'[p + 1] = text[1]
      BY <3>1, <3>2
    <3> QED
      BY <2>1, <3>3 DEF OneToken
  <2>8. \A m \in (p + 2)..q : b'[m].k = "sp"
    <3> SUFFICES ASSUME NEW m \in (p + 2)..q PROVE b'[m].k = "sp"
      OBVIOUS
    <3>1. m \in (p + 1)..q /\ m - p >= 2
      BY <2>3 DEF Cut
    <3>2. m - p \in 2..Len(text) /\ b'[m] = text[m - p]
      BY <2>3, <3>1 DEF Cut
    <3> QED
      BY <2>1, <3>2 DEF OneToken
  <2>9. p < q
    BY <2>2, <2>3, <2>4 DEF Cut
  <2> QED
    BY <2>3, <2>5, <2>6, <2>7, <2>8, <2>9 DEF Cut
<1>3. /\ starts' = [starts EXCEPT ![i] = p] /\ ends' = [ends EXCEPT ![i] = q] /\ i' = i + 1
  BY DEF Writes
<1> HIDE DEF l, p, q
<1>4. /\ starts'[i] = p /\ ends'[i] = q
      /\ \A k \in 1..(i - 1) : starts'[k] = starts[k] /\ ends'[k] = ends[k]
  BY <1>1, <1>3
<1>5. \A k \in 1..(i - 1) :
        /\ starts[k] \in Nat /\ ends[k] \in Nat /\ starts[k] < ends[k] /\ ends[k] <= l
        /\ b[starts[k] + 1].k = "tok" /\ b[starts[k] + 1].v = k
        /\ k > 1 => ends[k - 1] <= starts[k]
  <2> SUFFICES ASSUME NEW k \in 1..(i - 1)
               PROVE  /\ starts[k] \in Nat /\ ends[k] \in Nat /\ starts[k] < ends[k] /\ ends[k] <= l
                      /\ b[starts[k] + 1].k = "tok" /\ b[starts[k] + 1].v = k
                      /\ k > 1 => ends[k - 1] <= starts[k]
    OBVIOUS
  <2>1. k \in 1..in.n
    BY <1>1
  <2>2. starts[k] \in Nat /\ ends[k] \in Nat
    BY <1>1, <2>1
  <2> QED
    BY <2>2 DEF Written, WrittenOnce, l
<1>6. \A m \in 1..l : b[m].k = "tok" => b[m].v \in 1..(i - 1) /\ m = starts[b[m].v] + 1
  BY DEF Written, WrittenOnce, l
<1>7. ASSUME NEW k \in 1..(i' - 1)
      PROVE  /\ starts'[k] < ends'[k] /\ ends'[k] <= Len(b')
             /\ b'[starts'[k] + 1].k = "tok" /\ b'[starts'[k] + 1].v = k
             /\ k > 1 => ends'[k - 1] <= starts'[k]
  <2>1. k \in 1..(i - 1) \/ k = i
    BY <1>1, <1>3
  <2>2. CASE k \in 1..(i - 1)
    <3>1. starts'[k] = starts[k] /\ ends'[k] = ends[k] /\ starts[k] + 1 \in 1..l
      BY <1>2, <1>4, <1>5, <2>2
    <3>2. b'[starts'[k] + 1] = b[starts[k] + 1]
      BY <1>2, <3>1
    <3>3. ends'[k] <= Len(b') /\ starts'[k] < ends'[k]
      BY <1>2, <1>5, <2>2, <3>1
    <3>4. k > 1 => ends'[k - 1] <= starts'[k]
      <4>1. k > 1 => k - 1 \in 1..(i - 1)
        BY <1>1, <2>2
      <4> QED
        BY <1>4, <1>5, <2>2, <3>1, <4>1
    <3>5. b[starts[k] + 1].k = "tok" /\ b[starts[k] + 1].v = k
      BY <1>5, <2>2, Zenon
    <3>6. b'[starts'[k] + 1].k = "tok" /\ b'[starts'[k] + 1].v = k
      BY <3>2, <3>5, Zenon
    <3> QED
      BY <3>3, <3>4, <3>6, Zenon
  <2>3. CASE k = i
    <3>1. k > 1 => ends'[k - 1] <= p
      <4> HAVE k > 1
      <4>1. k - 1 \in 1..(i - 1)
        BY <1>1, <2>3
      <4>2. ends'[k - 1] = ends[k - 1] /\ ends[k - 1] \in Nat /\ ends[k - 1] <= l
        BY <1>4, <1>5, <4>1, Zenon
      <4>3. l \in Nat /\ p \in Nat /\ l <= p
        BY <1>2
      <4> QED
        BY <4>2, <4>3
    <3> QED
      BY <1>2, <1>4, <2>3, <3>1
  <2> QED
    BY <2>1, <2>2, <2>3
<1>8. ASSUME NEW m \in 1..Len(b'), b'[m].k = "tok"
      PROVE  b'[m].v \in 1..(i' - 1) /\ m = starts'[b'[m].v] + 1
  <2>1. m \in 1..l \/ m = p + 1
    <3>1. \/ m \in 1..l \/ m \in (l + 1)..p \/ m = p + 1 \/ m \in (p + 2)..q \/ m \in (q + 1)..Len(b')
      BY <1>2
    <3> QED
      BY <1>2, <1>8, <3>1
  <2>2. CASE m \in 1..l
    <3>1. b'[m] = b[m]
      BY <1>2, <2>2
    <3>2. b[m].v \in 1..(i - 1) /\ m = starts[b[m].v] + 1
      BY <1>6, <1>8, <2>2, <3>1
    <3>3. b'[m].v \in 1..(i - 1) /\ m = starts'[b'[m].v] + 1
      BY <1>4, <3>1, <3>2
    <3> QED
      BY <1>1, <1>3, <3>3
  <2>3. CASE m = p + 1
    <3>1. b'[m].v = i
      BY <1>2, <2>3
    <3>2. i \in 1..(i' - 1)
      BY <1>1, <1>3
    <3> QED
      BY <1>4, <2>3, <3>1, <3>2
  <2> QED
    BY <2>1, <2>2, <2>3
<1>9. ASSUME NEW k \in 1..(i' - 1), NEW m \in (starts'[k] + 2)..ends'[k]
      PROVE  b'[m].k = "sp"
  <2>1. k \in 1..(i - 1) \/ k = i
    BY <1>1, <1>3
  <2>2. CASE k \in 1..(i - 1)
    <3>1. m \in (starts[k] + 2)..ends[k]
      BY <1>4, <1>9, <2>2
    <3>2. m \in 1..l
      BY <1>2, <1>5, <2>2, <3>1
    <3>3. b[m].k = "sp"
      BY <2>2, <3>1 DEF Written, InLine
    <3> QED
      BY <1>2, <3>2, <3>3
  <2>3. CASE k = i
    BY <1>2, <1>4, <1>9, <2>3
  <2> QED
    BY <2>1, <2>2, <2>3
<1> QED
  BY <1>7, <1>8, <1>9 DEF Written, WrittenOnce, InLine

LEMMA WriteOnce ==
  ASSUME TypeOK, i <= in.n, Written,
         NEW lead \in Seq(Piece), NEW text \in Seq(Piece), NEW trail \in Seq(Piece),
         NoToken(lead), OneToken(text, i), NoToken(trail), Write(lead, text, trail)
  PROVE  Written'
<1>1. Writes(lead, text, trail)
  BY DEF Write, Writes
<1> QED
  BY <1>1, WritesOnce

\* The pieces around a token, and the token.
LEMMA Around ==
  ASSUME Inv
  PROVE  /\ <<>> \in Seq(Piece) /\ NoToken(<<>>)
         /\ Space \in Seq(Piece) /\ NoToken(Space)
         /\ \A x \in Int : <<Nl(x)>> \in Seq(Piece) /\ NoToken(<<Nl(x)>>)
         /\ \A x, y \in Int : <<Nl(x), Nl(y)>> \in Seq(Piece) /\ NoToken(<<Nl(x), Nl(y)>>)
         /\ <<Upper(i)>> \in Seq(Piece) /\ OneToken(<<Upper(i)>>, i)
         /\ <<Tok(i, FALSE)>> \in Seq(Piece) /\ OneToken(<<Tok(i, FALSE)>>, i)
         /\ <<Tok(i, FALSE), Sp>> \in Seq(Piece) /\ OneToken(<<Tok(i, FALSE), Sp>>, i)
         /\ TypeOK /\ sc \in Scopes
<1>1. TypeOK /\ sc \in Scopes /\ LayoutType(in) /\ i \in 1..(in.n + 1)
  BY DEF Inv, TypeOK
<1>2. i \in Nat
  BY <1>1 DEF LayoutType
<1> QED
  BY <1>1, <1>2, PieceSeqs, Blanks, Tokens

LEMMA OnceStartHint == Inv /\ Written /\ StartHint => Written'
<1> SUFFICES ASSUME Inv, Written, StartHint PROVE Written'
  OBVIOUS
<1>1. /\ b \in Seq(Piece) /\ Space \in Seq(Piece) /\ NoToken(Space)
      /\ starts \in [1..in.n -> Nat] /\ ends \in [1..in.n -> Nat] /\ i \in 1..(in.n + 1) /\ in.n \in Nat
  BY Around DEF TypeOK, LayoutType
<1>2. b' = b \o Space /\ starts' = starts /\ ends' = ends /\ i' = i
  BY DEF StartHint
<1>3. /\ Len(b) \in Nat /\ Len(b') \in Nat /\ Len(b) <= Len(b')
      /\ \A m \in 1..Len(b) : b'[m] = b[m]
      /\ \A m \in (Len(b) + 1)..Len(b') : b'[m].k # "tok"
  <2>1. /\ Len(b) \in Nat /\ Len(Space) \in Nat /\ Len(b') = Len(b) + Len(Space)
        /\ \A m \in 1..(Len(b) + Len(Space)) : b'[m] = IF m <= Len(b) THEN b[m] ELSE Space[m - Len(b)]
    BY <1>1, <1>2, Joined
  <2>2. \A m \in (Len(b) + 1)..Len(b') : m - Len(b) \in 1..Len(Space) /\ b'[m] = Space[m - Len(b)]
    BY <2>1
  <2>3. Len(b') \in Nat /\ Len(b) <= Len(b')
    BY <2>1
  <2>4. \A m \in 1..Len(b) : b'[m] = b[m]
    BY <2>1
  <2>5. \A m \in 1..Len(Space) : Space[m].k # "tok"
    BY <1>1, Zenon DEF NoToken
  <2>6. \A m \in (Len(b) + 1)..Len(b') : b'[m].k # "tok"
    BY <2>2, <2>5, Zenon
  <2> QED
    BY <2>1, <2>3, <2>4, <2>6
<1>4. ASSUME NEW k \in 1..(i - 1)
      PROVE  /\ starts[k] < ends[k] /\ ends[k] <= Len(b')
             /\ b'[starts[k] + 1].k = "tok" /\ b'[starts[k] + 1].v = k
             /\ k > 1 => ends[k - 1] <= starts[k]
  <2>1. k \in 1..in.n
    BY <1>1
  <2>2. starts[k] \in Nat /\ ends[k] \in Nat
    BY <1>1, <2>1
  <2>3. /\ starts[k] < ends[k] /\ ends[k] <= Len(b)
        /\ b[starts[k] + 1].k = "tok" /\ b[starts[k] + 1].v = k
        /\ k > 1 => ends[k - 1] <= starts[k]
    BY DEF Written, WrittenOnce
  <2>4. starts[k] + 1 \in 1..Len(b)
    BY <1>3, <2>2, <2>3
  <2> QED
    BY <1>3, <2>2, <2>3, <2>4
<1>5. ASSUME NEW m \in 1..Len(b'), b'[m].k = "tok"
      PROVE  b'[m].v \in 1..(i - 1) /\ m = starts[b'[m].v] + 1
  <2>1. m \in 1..Len(b) /\ b'[m] = b[m]
    BY <1>3, <1>5
  <2> QED
    BY <1>5, <2>1 DEF Written, WrittenOnce
<1>6. ASSUME NEW k \in 1..(i - 1), NEW m \in (starts[k] + 2)..ends[k]
      PROVE  b'[m].k = "sp"
  <2>1. k \in 1..in.n
    BY <1>1
  <2>2. starts[k] \in Nat /\ ends[k] \in Nat /\ ends[k] <= Len(b)
    BY <1>1, <2>1 DEF Written, WrittenOnce
  <2>3. m \in 1..Len(b)
    BY <1>3, <2>2
  <2> QED
    BY <1>3, <2>3 DEF Written, InLine
<1> QED
  BY <1>2, <1>4, <1>5, <1>6, Zenon DEF Written, WrittenOnce, InLine

LEMMA OnceHintToken == Inv /\ Written /\ HintToken => Written'
<1> SUFFICES ASSUME Inv, Written, HintToken PROVE Written'
  OBVIOUS
<1> DEFINE text == IF in.kind[i] = "," THEN <<Tok(i, FALSE), Sp>> ELSE <<Tok(i, FALSE)>>
<1>1. text \in Seq(Piece) /\ OneToken(text, i)
  BY Around, Zenon
<1>2. i <= in.n
  BY InHint DEF HintToken
<1>3. Write(<<>>, text, <<>>)
  BY DEF HintToken
<1> HIDE DEF text
<1> QED
  BY <1>1, <1>2, <1>3, Around, WriteOnce, Zenon

LEMMA OnceOpenSubquery == Inv /\ Written /\ OpenSubquery => Written'
<1> SUFFICES ASSUME Inv, Written, OpenSubquery PROVE Written'
  OBVIOUS
<1> DEFINE lead == IF prev \in DOMAIN in.subqueries THEN <<Nl(sc.clauseIndent)>> ELSE Space
           text == <<Tok(i, FALSE)>>
<1>1. lead \in Seq(Piece) /\ NoToken(lead)
  BY Around, ScopeIndents, Zenon
<1>2. i <= in.n
  BY DEF OpenSubquery, At
<1>3. /\ b' = b \o lead \o text
      /\ starts' = [starts EXCEPT ![i] = Len(b) + Len(lead)]
      /\ ends' = [ends EXCEPT ![i] = Len(b) + Len(lead) + 1]
      /\ i' = i + 1
  BY DEF OpenSubquery
<1>4. Len(text) = 1
  OBVIOUS
<1> HIDE DEF lead, text
<1>5. text \in Seq(Piece) /\ OneToken(text, i)
  BY Around DEF text
<1>6. b \o lead \o text = b \o lead \o text \o <<>>
  <2>1. b \in Seq(Piece)
    BY DEF Inv, TypeOK
  <2>2. b \o lead \o text \in Seq(Piece)
    BY <1>1, <1>5, <2>1, Joined, Zenon
  <2> QED
    BY <2>2, ConcatEmptySeq
<1>7. Writes(lead, text, <<>>)
  BY <1>1, <1>3, <1>4, <1>5, <1>6, Blanks DEF Writes
<1> QED
  BY <1>1, <1>2, <1>5, <1>7, Around, WritesOnce, Zenon

LEMMA OnceCloseSubquery == Inv /\ Written /\ CloseSubquery => Written'
<1> SUFFICES ASSUME Inv, Written, CloseSubquery PROVE Written'
  OBVIOUS
<1>1. sc.clauseIndent - 2 \in Int
  BY Around, ScopeIndents
<1>2. i <= in.n /\ Write(<<Nl(sc.clauseIndent - 2)>>, <<Tok(i, FALSE)>>, <<>>)
  BY DEF CloseSubquery, At
<1> QED
  BY <1>1, <1>2, Around, WriteOnce, Zenon

LEMMA OnceOpenCondGroup == Inv /\ Written /\ OpenCondGroup /\ Inv' => Written'
<1> SUFFICES ASSUME Inv, Written, OpenCondGroup, Inv' PROVE Written'
  OBVIOUS
<1>1. CondIndent(sc') \in Int
  BY ScopeIndents DEF Inv, TypeOK
<1>2. i <= in.n /\ Write(Space, <<Tok(i, FALSE)>>, <<Nl(CondIndent(sc'))>>)
  BY DEF OpenCondGroup, At
<1> QED
  BY <1>1, <1>2, Around, WriteOnce, Zenon

LEMMA OnceCloseCondGroup == Inv /\ Written /\ CloseCondGroup /\ Inv' => Written'
<1> SUFFICES ASSUME Inv, Written, CloseCondGroup, Inv' PROVE Written'
  OBVIOUS
<1>1. CondIndent(sc') \in Int
  BY ScopeIndents DEF Inv, TypeOK
<1>2. i <= in.n /\ Write(<<Nl(CondIndent(sc'))>>, <<Tok(i, FALSE)>>, <<>>)
  BY DEF CloseCondGroup, At
<1> QED
  BY <1>1, <1>2, Around, WriteOnce, Zenon

LEMMA CaseIndents == ASSUME Inv, sc.cases # <<>> PROVE CaseIndent \in Int
<1>1. sc.cases \in Seq(Int)
  BY DEF Inv, TypeOK, Scopes
<1>2. Len(sc.cases) \in 1..Len(sc.cases)
  BY <1>1
<1> QED
  BY <1>1, <1>2 DEF CaseIndent, Top

LEMMA OnceOpenCase == Inv /\ Written /\ OpenCase => Written'
<1> SUFFICES ASSUME Inv, Written, OpenCase PROVE Written'
  OBVIOUS
<1> DEFINE nested == sc.cases # <<>>
           indent == IF nested THEN CaseIndent + 4 ELSE CondIndent(sc)
           lead == IF nested THEN <<Nl(indent)>> ELSE Space
<1>1. nested => indent \in Int
  BY CaseIndents
<1>2. i <= in.n /\ Write(lead, <<Upper(i)>>, <<>>)
  BY DEF OpenCase, At
<1> HIDE DEF indent
<1>3. lead \in Seq(Piece) /\ NoToken(lead)
  BY <1>1, Around, Zenon
<1> HIDE DEF lead
<1> QED
  BY <1>2, <1>3, Around, WriteOnce, Zenon

LEMMA OnceCaseBranch == Inv /\ Written /\ CaseBranch => Written'
<1> SUFFICES ASSUME Inv, Written, CaseBranch PROVE Written'
  OBVIOUS
<1>1. CaseIndent + 2 \in Int
  BY CaseIndents DEF CaseBranch
<1>2. i <= in.n /\ Write(<<Nl(CaseIndent + 2)>>, <<Upper(i)>>, <<>>)
  BY DEF CaseBranch, At
<1> QED
  BY <1>1, <1>2, Around, WriteOnce, Zenon

LEMMA OnceCloseCase == Inv /\ Written /\ CloseCase => Written'
<1> SUFFICES ASSUME Inv, Written, CloseCase PROVE Written'
  OBVIOUS
<1>1. CaseIndent \in Int
  BY CaseIndents DEF CloseCase
<1>2. i <= in.n /\ Write(<<Nl(CaseIndent)>>, <<Upper(i)>>, <<>>)
  BY DEF CloseCase, At
<1> QED
  BY <1>1, <1>2, Around, WriteOnce, Zenon

LEMMA OnceListSep == Inv /\ Written /\ ListSep => Written'
<1> SUFFICES ASSUME Inv, Written, ListSep PROVE Written'
  OBVIOUS
<1> DEFINE indent == IF in.listSeps[i] = "cte" THEN sc.clauseIndent ELSE BodyIndent(sc)
<1>1. indent \in Int
  BY Around, ScopeIndents
<1>2. i <= in.n /\ Write(<<>>, <<Tok(i, FALSE)>>, <<Nl(indent)>>)
  BY DEF ListSep, At
<1> HIDE DEF indent
<1> QED
  BY <1>1, <1>2, Around, WriteOnce, Zenon

LEMMA OnceCondOp == Inv /\ Written /\ CondOp => Written'
<1> SUFFICES ASSUME Inv, Written, CondOp PROVE Written'
  OBVIOUS
<1>1. CondIndent(sc) \in Int
  BY Around, ScopeIndents
<1>2. i <= in.n /\ Write(<<Nl(CondIndent(sc))>>, <<Upper(i)>>, <<>>)
  BY DEF CondOp, At
<1> QED
  BY <1>1, <1>2, Around, WriteOnce, Zenon

LEMMA OncePlain == Inv /\ Written /\ Plain => Written'
<1> SUFFICES ASSUME Inv, Written, Plain PROVE Written'
  OBVIOUS
<1> DEFINE starting == i \in DOMAIN in.clauseStarts
           setOp == starting /\ in.clauseStarts[i] = "setop"
           lead == IF ~starting THEN Space
                   ELSE IF setOp THEN <<Nl(0), Nl(sc.clauseIndent)>>
                   ELSE IF b # <<>> THEN <<Nl(sc.clauseIndent)>>
                   ELSE <<>>
           block == i \in DOMAIN in.clauseEnds /\ in.clauseEnds[i] = "block"
           trail == IF block THEN <<Nl(BodyIndent(sc))>> ELSE <<>>
<1>1. sc.clauseIndent \in Int /\ BodyIndent(sc) \in Int /\ 0 \in Int
  BY Around, ScopeIndents
<1>2. i <= in.n /\ Write(lead, <<Upper(i)>>, trail)
  BY DEF Plain, At
<1> HIDE DEF starting, setOp, block
<1>3. lead \in Seq(Piece) /\ NoToken(lead)
  BY <1>1, Around, Zenon
<1>4. trail \in Seq(Piece) /\ NoToken(trail)
  BY <1>1, Around, Zenon
<1> HIDE DEF lead, trail
<1> QED
  BY <1>2, <1>3, <1>4, Around, WriteOnce, Zenon

LEMMA NextOnce == Inv /\ Written /\ [Token]_vars /\ Inv' => Written'
<1>1. Inv /\ Written /\ UNCHANGED vars => Written'
  BY DEF vars, Written, WrittenOnce, InLine
<1> QED
  BY <1>1, OnceStartHint, OnceHintToken, OnceOpenSubquery, OnceCloseSubquery, OnceOpenCondGroup,
     OnceCloseCondGroup, OnceOpenCase, OnceCaseBranch, OnceCloseCase, OnceListSep, OnceCondOp,
     OncePlain, Zenon DEF Token

\* Nothing is written at first.
LEMMA InitWritten == Init => Written
  BY DEF Init, Start, Written, WrittenOnce, InLine

\* The printer writes every token of a statement once and in order, and the
\* starts and ends it returns to placeComments are where they are.
THEOREM Spec_WrittenOnce == Spec => []WrittenOnce
<1>1. Written => WrittenOnce
  BY DEF Written
<1> QED
  BY <1>1, InitWritten, SpecInv, NextOnce, PTL DEF Spec

=============================================================================
