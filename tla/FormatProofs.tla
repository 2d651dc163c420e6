---------------------------- MODULE FormatProofs ----------------------------
(***************************************************************************)
(* Proofs about FormatSQL, for every statement and all its comments.       *)
(*                                                                         *)
(* Most of the module is about the operators of Comments, which are pure:  *)
(* what FlattenSeq joins (Flattened), where Splice puts the pieces and the *)
(* insertions (SpliceMerges), where the comments are then among the tokens *)
(* and the line breaks (SplicedPlaced, CommentsPlaced), and what the lexer *)
(* makes of it (Reading, CommentsReadBack).  The last part takes the       *)
(* invariants of the printer over (PP) and adds that of FormatSQL (FInv).  *)
(***************************************************************************)
EXTENDS FormatSQL, SequenceTheorems, FiniteSetTheorems, WellFoundedInduction, TLAPS

-----------------------------------------------------------------------------
(* Joined sequences. *)

\* Every set of numbers has a least one.
LEMMA LeastOf ==
  ASSUME NEW S, S \subseteq Nat, S # {}
  PROVE  \E n \in S : \A m \in S : n <= m
<1>1. PICK n \in S : \A m \in S : ~ (<<m, n>> \in OpToRel(<, Nat))
  BY WFMin, NatLessThanWellFounded, Zenon
<1>2. \A m \in S : n <= m
  <2> SUFFICES ASSUME NEW m \in S PROVE n <= m
    OBVIOUS
  <2>1. m \in Nat /\ n \in Nat
    OBVIOUS
  <2>2. ~ (m < n)
    BY <1>1, <2>1 DEF OpToRel
  <2> QED
    BY <2>1, <2>2
<1> QED
  BY <1>2

\* f has what the first k sequences of s make together, for each k up to n.
Joining(X, s, n, f) ==
  /\ f \in [1..n -> Seq(X)]
  /\ \A k \in 1..n : f[k] = IF k = 1 THEN s[k] ELSE f[k - 1] \o s[k]

\* There are such functions.
LEMMA JoiningExists ==
  ASSUME NEW X, NEW s \in Seq(Seq(X)), NEW n \in 1..Len(s)
  PROVE  \E f : Joining(X, s, n, f)
<1> DEFINE wrong == {m \in 1..Len(s) : ~ \E f : Joining(X, s, m, f)}
<1> SUFFICES ASSUME wrong # {} PROVE FALSE
  OBVIOUS
<1>1. wrong \subseteq Nat
  OBVIOUS
<1>2. PICK m \in wrong : \A x \in wrong : m <= x
  BY <1>1, LeastOf, Zenon
<1>3. m \in 1..Len(s) /\ Len(s) \in Nat /\ ~ \E f : Joining(X, s, m, f)
  OBVIOUS
<1>4. CASE m = 1
  <2>1. s[1] \in Seq(X)
    BY <1>3, <1>4
  <2>2. Joining(X, s, 1, [k \in 1..1 |-> s[1]])
    BY <2>1 DEF Joining
  <2> QED
    BY <1>3, <1>4, <2>2
<1>5. CASE m # 1
  <2>1. m - 1 \in 1..Len(s) /\ ~ (m <= m - 1)
    BY <1>3, <1>5
  <2>2. m - 1 \notin wrong
    BY <1>2, <2>1, Zenon
  <2>3. PICK f : Joining(X, s, m - 1, f)
    BY <2>1, <2>2
  <2> DEFINE g == [k \in 1..m |-> IF k = m THEN f[m - 1] \o s[m] ELSE f[k]]
  <2>4. f[m - 1] \in Seq(X) /\ s[m] \in Seq(X)
    BY <1>3, <1>5, <2>3 DEF Joining
  <2>5. f[m - 1] \o s[m] \in Seq(X)
    BY <2>4, ConcatProperties
  <2>6. \A k \in 1..m : g[k] \in Seq(X)
    <3> SUFFICES ASSUME NEW k \in 1..m PROVE g[k] \in Seq(X)
      OBVIOUS
    <3>1. k # m => k \in 1..(m - 1)
      BY <1>3
    <3>2. f \in [1..(m - 1) -> Seq(X)]
      BY <2>3 DEF Joining
    <3>3. g[k] = IF k = m THEN f[m - 1] \o s[m] ELSE f[k]
      OBVIOUS
    <3> QED
      BY <2>5, <3>1, <3>2, <3>3
  <2>7. \A k \in 1..m : g[k] = IF k = 1 THEN s[k] ELSE g[k - 1] \o s[k]
    <3> SUFFICES ASSUME NEW k \in 1..m
                 PROVE  g[k] = IF k = 1 THEN s[k] ELSE g[k - 1] \o s[k]
      OBVIOUS
    <3>1. k # m => k \in 1..(m - 1)
      BY <1>3
    <3>2. k # 1 => k - 1 \in 1..m /\ k - 1 # m
      BY <1>3
    <3>3. k \in 1..(m - 1) => f[k] = IF k = 1 THEN s[k] ELSE f[k - 1] \o s[k]
      BY <2>3 DEF Joining
    <3>4. \A x \in 1..m : g[x] = IF x = m THEN f[m - 1] \o s[m] ELSE f[x]
      OBVIOUS
    <3> HIDE DEF g
    <3> QED
      BY <1>5, <3>1, <3>2, <3>3, <3>4
  <2>8. Joining(X, s, m, g)
    BY <2>6, <2>7, Zenon DEF Joining
  <2> QED
    BY <1>3, <2>8
<1> QED
  BY <1>4, <1>5

\* FlattenSeq is a CHOOSE among functions like f, which agree.
LEMMA FlattenIs ==
  ASSUME NEW X, NEW s \in Seq(Seq(X)), Len(s) # 0, NEW f, Joining(X, s, Len(s), f)
  PROVE  Seqs!FlattenSeq(s) = f[Len(s)]
<1> DEFINE n == Len(s)
           F(g) == g = [m \in 1..Len(s) |-> IF m = 1 THEN s[m] ELSE g[m - 1] \o s[m]]
           h == CHOOSE g : F(g)
           wrong == {m \in 1..n : h[m] # f[m]}
<1>0. n \in Nat /\ n # 0
  OBVIOUS
<1>1. F(f)
  BY DEF Joining
<1>2. F(h)
  BY <1>1, Zenon
<1>3. Seqs!FlattenSeq(s) = h[n]
  BY Zenon DEF Seqs!FlattenSeq
<1>4. \A m \in 1..n : h[m] = IF m = 1 THEN s[m] ELSE h[m - 1] \o s[m]
  <2>1. \A g : F(g) => \A m \in 1..Len(s) : g[m] = IF m = 1 THEN s[m] ELSE g[m - 1] \o s[m]
    OBVIOUS
  <2> QED
    BY <1>2, <2>1, Zenon
<1>7. \A m \in 1..n : f[m] = IF m = 1 THEN s[m] ELSE f[m - 1] \o s[m]
  BY DEF Joining
<1> HIDE DEF F, h
<1>5. wrong = {}
  <2> SUFFICES ASSUME wrong # {} PROVE FALSE
    OBVIOUS
  <2>1. wrong \subseteq Nat
    OBVIOUS
  <2>2. PICK m \in wrong : \A x \in wrong : m <= x
    BY <2>1, LeastOf, Zenon
  <2>4. m \in 1..n /\ h[m] # f[m]
    OBVIOUS
  <2>5. CASE m = 1
    BY <1>4, <1>7, <2>4, <2>5
  <2>6. CASE m # 1
    <3>1. m - 1 \in 1..n /\ ~ (m <= m - 1)
      BY <1>0, <2>4, <2>6
    <3>2. h[m - 1] = f[m - 1]
      BY <2>2, <3>1
    <3> QED
      BY <1>4, <1>7, <2>4, <2>6, <3>2
  <2> QED
    BY <2>5, <2>6
<1>6. n \in 1..n
  BY <1>0
<1> QED
  BY <1>3, <1>5, <1>6

\* Numbers that do not fall from one step to the next.
LEMMA StepsRise ==
  ASSUME NEW a \in Nat, NEW n \in Nat, NEW f \in [a..n -> Nat],
         \A k \in (a + 1)..n : f[k - 1] <= f[k]
  PROVE  \A k, l \in a..n : k <= l => f[k] <= f[l]
<1> SUFFICES ASSUME NEW k \in a..n PROVE \A l \in a..n : k <= l => f[k] <= f[l]
  OBVIOUS
<1> DEFINE wrong == {l \in a..n : k <= l /\ ~ (f[k] <= f[l])}
<1> SUFFICES ASSUME wrong # {} PROVE FALSE
  OBVIOUS
<1>1. wrong \subseteq Nat
  OBVIOUS
<1>2. PICK l \in wrong : \A x \in wrong : l <= x
  BY <1>1, LeastOf, Zenon
<1>3. l \in a..n /\ k <= l /\ ~ (f[k] <= f[l])
  OBVIOUS
<1>4. l # k
  BY <1>3
<1>5. l - 1 \in a..n /\ k <= l - 1 /\ ~ (l <= l - 1) /\ l \in (a + 1)..n
  BY <1>3, <1>4
<1>6. l - 1 \notin wrong
  BY <1>2, <1>5, Zenon
<1>7. f[k] <= f[l - 1] /\ f[l - 1] <= f[l]
  BY <1>5, <1>6
<1>8. f[k] \in Nat /\ f[l - 1] \in Nat /\ f[l] \in Nat
  BY <1>3, <1>5
<1> QED
  BY <1>3, <1>7, <1>8

(***************************************************************************)
(* w is the sequences of s one after the other; the k-th ends at off[k].   *)
(***************************************************************************)
Offsets(s, off) ==
  /\ off \in [0..Len(s) -> Nat]
  /\ off[0] = 0
  /\ \A k \in 1..Len(s) : off[k] = off[k - 1] + Len(s[k])
  /\ \A k, l \in 0..Len(s) : k <= l => off[k] <= off[l]

Laid(X, s, w, off) ==
  /\ w \in Seq(X)
  /\ Offsets(s, off)
  /\ Len(w) = off[Len(s)]
  /\ \A k \in 1..Len(s) : \A j \in 1..Len(s[k]) : w[off[k - 1] + j] = s[k][j]
  /\ \A p \in 1..Len(w) : \E k \in 1..Len(s) : \E j \in 1..Len(s[k]) : p = off[k - 1] + j

\* Every position up to the last offset is in one of the sequences.
LEMMA Covered ==
  ASSUME NEW s, Len(s) \in Nat, NEW off, Offsets(s, off), NEW p \in 1..off[Len(s)],
         \A k \in 1..Len(s) : Len(s[k]) \in Nat
  PROVE  \E k \in 1..Len(s) : \E j \in 1..Len(s[k]) : p = off[k - 1] + j
<1> DEFINE past == {k \in 0..Len(s) : p <= off[k]}
<1>1. Len(s) \in past /\ past \subseteq Nat
  BY DEF Offsets
<1>2. PICK k \in past : \A x \in past : k <= x
  BY <1>1, LeastOf, Zenon
<1>3. k \in 0..Len(s) /\ p <= off[k]
  OBVIOUS
<1>4. k # 0
  BY <1>3 DEF Offsets
<1>5. k \in 1..Len(s) /\ k - 1 \in 0..Len(s) /\ ~ (k <= k - 1)
  BY <1>3, <1>4
<1>6. k - 1 \notin past
  BY <1>2, <1>5, Zenon
<1>7. off[k - 1] \in Nat /\ off[k] = off[k - 1] + Len(s[k]) /\ off[Len(s)] \in Nat /\ Len(s[k]) \in Nat
  BY <1>5 DEF Offsets
<1>8. ~ (p <= off[k - 1])
  BY <1>5, <1>6
<1>9. p - off[k - 1] \in 1..Len(s[k]) /\ p = off[k - 1] + (p - off[k - 1])
  BY <1>3, <1>7, <1>8
<1> QED
  BY <1>5, <1>9

\* What is where in c \o d.
LEMMA JoinedAt ==
  ASSUME NEW X, NEW c \in Seq(X), NEW d \in Seq(X)
  PROVE  /\ c \o d \in Seq(X)
         /\ Len(c \o d) = Len(c) + Len(d)
         /\ \A z \in 1..Len(c) : (c \o d)[z] = c[z]
         /\ \A z \in 1..Len(d) : (c \o d)[Len(c) + z] = d[z]
  OBVIOUS

Filled(s, off, f) ==
  \A m \in 1..Len(s) : \A k \in 1..m : \A j \in 1..Len(s[k]) : f[m][off[k - 1] + j] = s[k][j]

\* A joining has the elements of each sequence at its offset.
LEMMA Content ==
  ASSUME NEW X, NEW s \in Seq(Seq(X)), NEW f, Joining(X, s, Len(s), f),
         NEW off, Offsets(s, off), \A k \in 1..Len(s) : off[k] = Len(f[k])
  PROVE  Filled(s, off, f)
<1> DEFINE n == Len(s)
           Good(m) == \A k \in 1..m : \A j \in 1..Len(s[k]) : f[m][off[k - 1] + j] = s[k][j]
           wrong == {m \in 1..n : ~Good(m)}
<1> SUFFICES ASSUME wrong # {} PROVE FALSE
  BY DEF Filled
<1>1. wrong \subseteq Nat
  OBVIOUS
<1>2. PICK m \in wrong : \A x \in wrong : m <= x
  BY <1>1, LeastOf, Zenon
<1>3. m \in 1..n /\ ~Good(m)
  OBVIOUS
<1>8. \A x \in 1..n : x \notin wrong => Good(x)
  OBVIOUS
<1> HIDE DEF wrong
<1>4. \A k \in 1..n : off[k - 1] \in Nat /\ off[k] = off[k - 1] + Len(s[k]) /\ s[k] \in Seq(X) /\ Len(s[k]) \in Nat
  BY DEF Offsets
<1>5. f[m] \in Seq(X) /\ f[m] = IF m = 1 THEN s[m] ELSE f[m - 1] \o s[m]
  BY <1>3 DEF Joining
<1>6. CASE m = 1
  <2>1. off[0] = 0
    BY DEF Offsets
  <2>2. Good(1)
    BY <1>4, <1>5, <1>6, <2>1
  <2> QED
    BY <1>3, <1>6, <2>2
<1>7. CASE m # 1
  <2>1. m - 1 \in 1..n /\ ~ (m <= m - 1)
    BY <1>3, <1>7
  <2>2. m - 1 \notin wrong
    BY <1>2, <2>1, Zenon
  <2>3. Good(m - 1)
    BY <1>8, <2>1, <2>2
  <2> HIDE DEF Good
  <2>4. f[m - 1] \in Seq(X) /\ Len(f[m - 1]) = off[m - 1] /\ s[m] \in Seq(X)
    BY <1>3, <1>4, <2>1 DEF Joining
  <2>8. f[m] = f[m - 1] \o s[m]
    BY <1>5, <1>7
  <2>9. \A x \in 1..Len(f[m - 1]) : f[m][x] = f[m - 1][x]
    <3>1. \A x \in 1..Len(f[m - 1]) : (f[m - 1] \o s[m])[x] = f[m - 1][x]
      BY <2>4, JoinedAt, Zenon
    <3> QED
      BY <2>8, <3>1, Zenon
  <2>10. \A x \in 1..Len(s[m]) : f[m][Len(f[m - 1]) + x] = s[m][x]
    <3>1. \A x \in 1..Len(s[m]) : (f[m - 1] \o s[m])[Len(f[m - 1]) + x] = s[m][x]
      <4> HIDE DEF n
      <4>1. \A c, d \in Seq(X) : \A x \in 1..Len(d) : (c \o d)[Len(c) + x] = d[x]
        OBVIOUS
      <4> QED
        BY <2>4, <4>1, Zenon
    <3> QED
      BY <2>8, <3>1, Zenon
  <2>5. \A k \in 1..(m - 1) : \A j \in 1..Len(s[k]) : f[m][off[k - 1] + j] = s[k][j]
    <3> SUFFICES ASSUME NEW k \in 1..(m - 1), NEW j \in 1..Len(s[k])
                 PROVE  f[m][off[k - 1] + j] = s[k][j]
      OBVIOUS
    <3>1. f[m - 1][off[k - 1] + j] = s[k][j]
      BY <2>3 DEF Good
    <3>2. k \in 1..n /\ k \in 0..Len(s) /\ m - 1 \in 0..Len(s) /\ k <= m - 1
      BY <1>3
    <3>3. off[k] <= off[m - 1] /\ off[m - 1] \in Nat
      BY <3>2 DEF Offsets
    <3>4. off[k - 1] \in Nat /\ off[k] = off[k - 1] + Len(s[k]) /\ Len(s[k]) \in Nat
      BY <1>4, <3>2
    <3>5. off[k - 1] + j \in 1..Len(f[m - 1])
      BY SMTT(30), <2>4, <3>3, <3>4
    <3> QED
      BY <2>9, <3>1, <3>5
  <2>6. \A j \in 1..Len(s[m]) : f[m][off[m - 1] + j] = s[m][j]
    BY <2>4, <2>10
  <2>7. Good(m)
    <3> SUFFICES ASSUME NEW k \in 1..m
                 PROVE  \A j \in 1..Len(s[k]) : f[m][off[k - 1] + j] = s[k][j]
      BY Zenon DEF Good
    <3>1. k = m \/ k \in 1..(m - 1)
      BY <1>3
    <3> QED
      BY <2>5, <2>6, <3>1, Zenon
  <2> QED
    BY <1>3, <2>7
<1> QED
  BY <1>6, <1>7

\* FlattenSeq, on any sequence of sequences.
LEMMA Flattened ==
  ASSUME NEW X, NEW s \in Seq(Seq(X))
  PROVE  \E off : Laid(X, s, Seqs!FlattenSeq(s), off)
<1>1. CASE Len(s) = 0
  <2>1. s = <<>>
    BY <1>1
  <2>2. Seqs!FlattenSeq(s) = <<>>
    BY <2>1, Zenon DEF Seqs!FlattenSeq
  <2>3. Laid(X, s, <<>>, [k \in 0..0 |-> 0])
    BY <1>1 DEF Laid, Offsets
  <2> QED
    BY <2>2, <2>3, Zenon
<1>2. CASE Len(s) # 0
  <2> DEFINE n == Len(s)
  <2>1. n \in Nat /\ n \in 1..n
    BY <1>2
  <2>2. PICK f : Joining(X, s, n, f)
    BY <2>1, JoiningExists
  <2>3. Seqs!FlattenSeq(s) = f[n]
    BY <1>2, <2>2, FlattenIs
  <2> DEFINE off == [k \in 0..n |-> IF k = 0 THEN 0 ELSE Len(f[k])]
             w == f[n]
  <2>4. \A k \in 1..n : off[k] = off[k - 1] + Len(s[k])
    <3> SUFFICES ASSUME NEW k \in 1..n PROVE off[k] = off[k - 1] + Len(s[k])
      OBVIOUS
    <3>1. f[k] \in Seq(X) /\ f[k] = IF k = 1 THEN s[k] ELSE f[k - 1] \o s[k]
      BY <2>2 DEF Joining
    <3>2. s[k] \in Seq(X) /\ Len(s[k]) \in Nat
      OBVIOUS
    <3>3. off[k] = Len(f[k]) /\ k - 1 \in 0..n
      BY <2>1
    <3>4. CASE k = 1
      BY <2>1, <3>1, <3>2, <3>3, <3>4
    <3>5. CASE k # 1
      <4>1. k - 1 \in 1..n
        BY <3>5
      <4>2. f[k - 1] \in Seq(X)
        BY <2>2, <4>1 DEF Joining
      <4>3. off[k - 1] = Len(f[k - 1])
        BY <3>3, <4>1
      <4>4. Len(f[k - 1] \o s[k]) = Len(f[k - 1]) + Len(s[k])
        BY <3>2, <4>2
      <4> QED
        BY <3>1, <3>3, <3>5, <4>3, <4>4
    <3> QED
      BY <3>4, <3>5
  <2>5. off \in [0..n -> Nat] /\ off[0] = 0
    <3>1. \A k \in 1..n : Len(f[k]) \in Nat
      BY <2>2 DEF Joining
    <3> QED
      BY <2>1, <3>1
  <2>6. \A k \in 1..n : off[k] = Len(f[k])
    OBVIOUS
  <2>7. w \in Seq(X) /\ Len(w) = off[n]
    BY <2>1, <2>2, <2>6 DEF Joining
  <2> HIDE DEF off, w
  <2>8. \A k, l \in 0..n : k <= l => off[k] <= off[l]
    <3>1. \A k \in (0 + 1)..n : off[k - 1] <= off[k]
      <4> SUFFICES ASSUME NEW k \in 1..n PROVE off[k - 1] <= off[k]
        OBVIOUS
      <4>1. off[k - 1] \in Nat /\ off[k] = off[k - 1] + Len(s[k]) /\ Len(s[k]) \in Nat
        BY <2>4, <2>5
      <4> QED
        BY <4>1
    <3> QED
      BY <2>1, <2>5, <3>1, StepsRise
  <2>9. Offsets(s, off)
    BY <2>4, <2>5, <2>8, Zenon DEF Offsets
  <2>10. \A k \in 1..n : \A j \in 1..Len(s[k]) : w[off[k - 1] + j] = s[k][j]
    <3>1. Filled(s, off, f)
      <4>1. \A k \in 1..Len(s) : off[k] = Len(f[k])
        BY <2>6
      <4>2. Joining(X, s, Len(s), f)
        BY <2>2
      <4> QED
        BY <2>9, <4>1, <4>2, Content, Zenon
    <3> QED
      BY <2>1, <3>1 DEF w, Filled
  <2>11. \A k \in 1..Len(s) : Len(s[k]) \in Nat
    OBVIOUS
  <2>12. \A p \in 1..Len(w) : \E k \in 1..Len(s) : \E j \in 1..Len(s[k]) : p = off[k - 1] + j
    BY <2>1, <2>7, <2>9, <2>11, Covered
  <2>13. Laid(X, s, w, off)
    BY <2>7, <2>9, <2>10, <2>12, Zenon DEF Laid
  <2> QED
    BY <2>3, <2>13, Zenon DEF w
<1> QED
  BY <1>1, <1>2

-----------------------------------------------------------------------------
(* Rising sequences. *)

Rising(e) == \A x, y \in 1..Len(e) : x < y => e[x] < e[y]

\* Every number of e is in f.
Covers(f, e) == \A x \in 1..Len(e) : \E y \in 1..Len(f) : e[x] = f[y]

\* A function on 1..n is a sequence.
LEMMA MadeSeq ==
  ASSUME NEW X, NEW n \in Nat, NEW s \in [1..n -> X]
  PROVE  s \in Seq(X) /\ Len(s) = n
  BY SeqDef

\* InOrder makes the rising sequence of the numbers of S up to n.
LEMMA InOrderIs ==
  ASSUME NEW n \in Nat, NEW S
  PROVE  /\ InOrder(n, S) \in Seq(1..n) /\ Rising(InOrder(n, S))
         /\ \A x \in 1..Len(InOrder(n, S)) : InOrder(n, S)[x] \in S
         /\ \A m \in 1..n : m \in S => \E x \in 1..Len(InOrder(n, S)) : InOrder(n, S)[x] = m
<1> DEFINE s == [m \in 1..n |-> IF m \in S THEN <<m>> ELSE <<>>]
           e == InOrder(n, S)
<1>1. s \in Seq(Seq(1..n)) /\ Len(s) = n
  <2>1. \A m \in 1..n : <<m>> \in Seq(1..n) /\ <<>> \in Seq(1..n)
    OBVIOUS
  <2>2. s \in [1..n -> Seq(1..n)]
    BY <2>1
  <2> QED
    BY <2>2, MadeSeq, Zenon
<1>2. PICK off : Laid(1..n, s, Seqs!FlattenSeq(s), off)
  BY <1>1, Flattened, Zenon
<1>3. Laid(1..n, s, e, off)
  BY <1>2 DEF InOrder
<1>4. \A k \in 1..n : IF k \in S THEN Len(s[k]) = 1 /\ s[k][1] = k ELSE Len(s[k]) = 0
  OBVIOUS
<1> HIDE DEF s, e
<1>5. /\ \A k \in 1..n : \A j \in 1..Len(s[k]) : e[off[k - 1] + j] = s[k][j]
      /\ \A p \in 1..Len(e) : \E k \in 1..n : \E j \in 1..Len(s[k]) : p = off[k - 1] + j
      /\ e \in Seq(1..n) /\ Len(e) = off[n]
  BY <1>1, <1>3 DEF Laid
<1>6. /\ \A k \in 0..n : off[k] \in Nat
      /\ \A k \in 1..n : off[k] = off[k - 1] + Len(s[k])
      /\ \A k, l \in 0..n : k <= l => off[k] <= off[l]
  BY <1>1, <1>3 DEF Laid, Offsets
<1>7. \A p \in 1..Len(e) : e[p] \in S /\ p = off[e[p]]
  <2> SUFFICES ASSUME NEW p \in 1..Len(e) PROVE e[p] \in S /\ p = off[e[p]]
    OBVIOUS
  <2>0. PICK k \in 1..n : \E j \in 1..Len(s[k]) : p = off[k - 1] + j
    BY <1>5, Zenon
  <2>1. PICK j \in 1..Len(s[k]) : p = off[k - 1] + j
    BY <2>0, Zenon
  <2>2. k \in S /\ Len(s[k]) = 1 /\ s[k][1] = k
    <3>1. Len(s[k]) # 0
      BY <2>1
    <3> QED
      BY <1>4, <3>1
  <2>3. j = 1
    BY <2>2
  <2>4. e[p] = k
    BY <1>5, <2>1, <2>2, <2>3
  <2>5. off[k] = p
    BY <1>6, <2>1, <2>2, <2>3
  <2> QED
    BY <2>2, <2>4, <2>5
<1>8. Rising(e)
  <2> SUFFICES ASSUME NEW p \in 1..Len(e), NEW q \in 1..Len(e), p < q, ~ (e[p] < e[q])
               PROVE  FALSE
    BY DEF Rising
  <2>1. p = off[e[p]] /\ q = off[e[q]]
    BY <1>7
  <2>2. e[p] \in 0..n /\ e[q] \in 0..n /\ Len(e) \in Nat
    <3>1. e[p] \in 1..n /\ e[q] \in 1..n /\ Len(e) \in Nat
      BY <1>5, ElementOfSeq, LenProperties
    <3> QED
      BY <3>1
  <2>3. e[q] <= e[p]
    BY <2>2
  <2>4. off[e[q]] <= off[e[p]]
    BY <1>6, <2>2, <2>3
  <2> QED
    BY <2>1, <2>2, <2>4
<1>9. \A m \in 1..n : m \in S => \E x \in 1..Len(e) : e[x] = m
  <2> SUFFICES ASSUME NEW m \in 1..n, m \in S PROVE \E x \in 1..Len(e) : e[x] = m
    OBVIOUS
  <2>1. Len(s[m]) = 1 /\ s[m][1] = m
    BY <1>4
  <2>2. e[off[m - 1] + 1] = m
    <3>1. 1 \in 1..Len(s[m])
      BY <2>1
    <3> QED
      BY <1>5, <2>1, <3>1
  <2>3. m \in 0..n /\ n \in 0..n /\ m - 1 \in 0..n /\ m <= n
    OBVIOUS
  <2>4. off[m - 1] \in Nat /\ off[m] = off[m - 1] + 1 /\ off[m] <= off[n] /\ off[n] \in Nat
    BY <1>6, <2>1, <2>3
  <2>5. off[m - 1] + 1 \in 1..Len(e)
    BY <1>5, <2>4
  <2> QED
    BY <2>2, <2>5
<1> QED
  BY <1>5, <1>7, <1>8, <1>9, Zenon DEF e

\* A rising sequence that has every number of e is not ahead of e.
LEMMA NotAhead ==
  ASSUME NEW e \in Seq(Nat), NEW f \in Seq(Nat), Rising(e), Rising(f), Covers(f, e),
         NEW x \in 1..Len(e), \A y \in 1..(x - 1) : y \in 1..Len(f) /\ f[y] = e[y]
  PROVE  x \in 1..Len(f) /\ f[x] <= e[x]
<1>1. PICK y \in 1..Len(f) : e[x] = f[y]
  BY Zenon DEF Covers
<1>2. x \in Nat /\ y \in Nat /\ Len(f) \in Nat /\ Len(e) \in Nat
  OBVIOUS
<1>3. ~ (y < x)
  <2> SUFFICES ASSUME y < x PROVE FALSE
    OBVIOUS
  <2>1. y \in 1..(x - 1)
    BY <1>2
  <2>2. f[y] = e[y] /\ y \in 1..Len(e)
    BY <1>2, <2>1
  <2>3. e[y] < e[x]
    BY <2>2 DEF Rising
  <2> QED
    BY <1>1, <2>2, <2>3
<1>4. x \in 1..Len(f) /\ (x = y \/ x < y)
  BY <1>2, <1>3
<1>5. f[x] <= f[y]
  <2>1. f[x] \in Nat /\ f[y] \in Nat
    BY <1>4
  <2>2. x < y => f[x] < f[y]
    BY <1>4 DEF Rising
  <2> QED
    BY <1>4, <2>1, <2>2
<1> QED
  BY <1>1, <1>4, <1>5

\* There is one rising sequence of a set of numbers.
LEMMA SameOrder ==
  ASSUME NEW e \in Seq(Nat), NEW f \in Seq(Nat), Rising(e), Rising(f), Covers(f, e), Covers(e, f)
  PROVE  e = f
<1> DEFINE wrong == {x \in Nat \ {0} : (x \in 1..Len(e) \/ x \in 1..Len(f))
                                       /\ ~ (x \in 1..Len(e) /\ x \in 1..Len(f) /\ e[x] = f[x])}
<1>1. wrong = {}
  <2> SUFFICES ASSUME wrong # {} PROVE FALSE
    OBVIOUS
  <2>1. wrong \subseteq Nat
    OBVIOUS
  <2>2. PICK x \in wrong : \A y \in wrong : x <= y
    BY <2>1, LeastOf, Zenon
  <2>3. /\ x \in Nat \ {0}
        /\ x \in 1..Len(e) \/ x \in 1..Len(f)
        /\ ~ (x \in 1..Len(e) /\ x \in 1..Len(f) /\ e[x] = f[x])
    OBVIOUS
  <2>4. \A y \in 1..(x - 1) : y \in 1..Len(e) /\ y \in 1..Len(f) /\ e[y] = f[y]
    <3> SUFFICES ASSUME NEW y \in 1..(x - 1)
                 PROVE  y \in 1..Len(e) /\ y \in 1..Len(f) /\ e[y] = f[y]
      OBVIOUS
    <3>1. y \in Nat \ {0} /\ ~ (x <= y) /\ (y \in 1..Len(e) \/ y \in 1..Len(f))
      BY <2>3
    <3>2. y \notin wrong
      BY <2>2, <3>1, Zenon
    <3> QED
      BY <3>1, <3>2
  <2> HIDE DEF wrong
  <2>5. \A y \in 1..(x - 1) : y \in 1..Len(f) /\ f[y] = e[y]
    BY <2>4
  <2>6. \A y \in 1..(x - 1) : y \in 1..Len(e) /\ e[y] = f[y]
    BY <2>4
  <2>7. x \in 1..Len(e) => x \in 1..Len(f) /\ f[x] <= e[x]
    BY <2>5, NotAhead, Zenon
  <2>8. x \in 1..Len(f) => x \in 1..Len(e) /\ e[x] <= f[x]
    BY <2>6, NotAhead, Zenon
  <2>9. x \in 1..Len(e) /\ x \in 1..Len(f) /\ f[x] <= e[x] /\ e[x] <= f[x]
    BY <2>3, <2>7, <2>8
  <2>10. e[x] \in Nat /\ f[x] \in Nat
    BY <2>9
  <2> QED
    BY <2>3, <2>9, <2>10
<1>2. \A x \in 1..Len(e) : x \in 1..Len(f) /\ e[x] = f[x]
  BY <1>1
<1>3. \A x \in 1..Len(f) : x \in 1..Len(e)
  BY <1>1
<1>4. Len(e) \in Nat /\ Len(f) \in Nat
  OBVIOUS
<1>5. ~ (Len(e) < Len(f))
  <2>1. Len(e) < Len(f) => Len(f) \in 1..Len(f) /\ ~ (Len(f) \in 1..Len(e))
    BY <1>4
  <2> QED
    BY <1>3, <2>1
<1>6. ~ (Len(f) < Len(e))
  <2>1. Len(f) < Len(e) => Len(e) \in 1..Len(e) /\ ~ (Len(e) \in 1..Len(f))
    BY <1>4
  <2> QED
    BY <1>2, <2>1
<1>7. Len(e) = Len(f)
  BY <1>4, <1>5, <1>6
<1> QED
  BY <1>2, <1>7

(***************************************************************************)
(* w is out with the text t[a] after its first a pieces; piece q of out is *)
(* at g[q].                                                                *)
(***************************************************************************)
Woven(Q, out, t, w, g) ==
  /\ w \in Seq(Q)
  /\ g \in [0..Len(out) -> Nat] /\ g[0] = 0
  /\ Len(w) = g[Len(out)] + Len(t[Len(out)])
  /\ \A q \in 1..Len(out) : g[q] = g[q - 1] + Len(t[q - 1]) + 1 /\ w[g[q]] = out[q]
  /\ \A a, c \in 0..Len(out) : a <= c => g[a] <= g[c]
  /\ \A a \in 0..Len(out) : \A j \in 1..Len(t[a]) : w[g[a] + j] = t[a][j]
  /\ \A p \in 1..Len(w) : \/ \E q \in 1..Len(out) : p = g[q]
                          \/ \E a \in 0..Len(out) : \E j \in 1..Len(t[a]) : p = g[a] + j

\* A text before each piece and one at the end: the shape of what Splice makes.
LEMMA Weave ==
  ASSUME NEW Q, NEW out \in Seq(Q), NEW t \in [0..Len(out) -> Seq(Q)]
  PROVE  \E g : Woven(Q, out, t,
                      Seqs!FlattenSeq([q \in 1..Len(out) |-> t[q - 1] \o <<out[q]>>]) \o t[Len(out)], g)
<1> DEFINE n == Len(out)
           s == [q \in 1..n |-> t[q - 1] \o <<out[q]>>]
           v == Seqs!FlattenSeq(s)
           w == v \o t[n]
<1>1. n \in Nat /\ \A a \in 0..n : t[a] \in Seq(Q) /\ Len(t[a]) \in Nat
  OBVIOUS
<1>2. \A q \in 1..n : /\ t[q - 1] \in Seq(Q) /\ Len(t[q - 1]) \in Nat
                      /\ <<out[q]>> \in Seq(Q)
                      /\ s[q] = t[q - 1] \o <<out[q]>>
  BY <1>1
<1>3. \A q \in 1..n : /\ s[q] \in Seq(Q) /\ Len(s[q]) = Len(t[q - 1]) + 1
                      /\ \A j \in 1..Len(t[q - 1]) : s[q][j] = t[q - 1][j]
                      /\ s[q][Len(t[q - 1]) + 1] = out[q]
  BY <1>2
<1>4. s \in Seq(Seq(Q)) /\ Len(s) = n
  <2>1. s \in [1..n -> Seq(Q)]
    BY <1>3
  <2> QED
    BY <1>1, <2>1, MadeSeq, Zenon
<1>5. PICK g : Laid(Q, s, v, g)
  BY <1>4, Flattened, Zenon
<1> HIDE DEF n, s, v
<1>6. /\ v \in Seq(Q) /\ Len(v) = g[n]
      /\ \A q \in 1..n : \A j \in 1..Len(s[q]) : v[g[q - 1] + j] = s[q][j]
      /\ \A p \in 1..Len(v) : \E q \in 1..n : \E j \in 1..Len(s[q]) : p = g[q - 1] + j
  BY <1>4, <1>5 DEF Laid
<1>7. /\ g \in [0..n -> Nat] /\ g[0] = 0
      /\ \A q \in 1..n : g[q] = g[q - 1] + Len(s[q])
      /\ \A a, c \in 0..n : a <= c => g[a] <= g[c]
  BY <1>4, <1>5 DEF Laid, Offsets
<1>8. /\ w \in Seq(Q) /\ Len(w) = g[n] + Len(t[n])
      /\ \A p \in 1..g[n] : w[p] = v[p]
      /\ \A j \in 1..Len(t[n]) : w[g[n] + j] = t[n][j]
  <2>1. n \in 0..n
    BY <1>1
  <2>2. v \in Seq(Q) /\ t[n] \in Seq(Q)
    BY <1>1, <1>6, <2>1
  <2>3. /\ w \in Seq(Q) /\ Len(w) = Len(v) + Len(t[n])
        /\ \A p \in 1..Len(v) : w[p] = v[p]
        /\ \A j \in 1..Len(t[n]) : w[Len(v) + j] = t[n][j]
    BY <2>2, JoinedAt
  <2> QED
    BY <1>6, <2>3
<1> HIDE DEF w
<1>9. \A q \in 1..n : g[q - 1] \in Nat /\ g[q] \in Nat /\ g[n] \in Nat /\ g[q] <= g[n]
                      /\ g[q] = g[q - 1] + Len(t[q - 1]) + 1
  <2> SUFFICES ASSUME NEW q \in 1..n
               PROVE  g[q - 1] \in Nat /\ g[q] \in Nat /\ g[n] \in Nat /\ g[q] <= g[n]
                      /\ g[q] = g[q - 1] + Len(t[q - 1]) + 1
    OBVIOUS
  <2>1. q - 1 \in 0..n /\ q \in 0..n /\ n \in 0..n /\ q <= n
    BY <1>1
  <2>2. g[q - 1] \in Nat /\ g[q] \in Nat /\ g[n] \in Nat /\ g[q] <= g[n]
    BY <1>7, <2>1
  <2>3. Len(s[q]) = Len(t[q - 1]) + 1 /\ Len(t[q - 1]) \in Nat
    BY <1>2, <1>3
  <2>4. g[q] = g[q - 1] + Len(s[q])
    BY <1>7
  <2> QED
    BY SMTT(30), <2>2, <2>3, <2>4
<1>10. \A q \in 1..n : w[g[q]] = out[q]
  <2> SUFFICES ASSUME NEW q \in 1..n PROVE w[g[q]] = out[q]
    OBVIOUS
  <2>1. Len(t[q - 1]) \in Nat /\ Len(s[q]) = Len(t[q - 1]) + 1
    BY <1>2, <1>3
  <2>2. Len(t[q - 1]) + 1 \in 1..Len(s[q])
    BY <2>1
  <2>3. v[g[q - 1] + (Len(t[q - 1]) + 1)] = out[q]
    BY <1>3, <1>6, <2>2
  <2>4. g[q] = g[q - 1] + (Len(t[q - 1]) + 1) /\ g[q] \in 1..g[n]
    <3>1. g[q - 1] \in Nat /\ g[q] \in Nat /\ g[n] \in Nat /\ g[q] <= g[n]
          /\ g[q] = g[q - 1] + Len(t[q - 1]) + 1
      BY <1>9, Zenon
    <3> QED
      BY <2>1, <3>1
  <2> QED
    BY <1>8, <2>3, <2>4
<1>11. \A a \in 0..n : \A j \in 1..Len(t[a]) : w[g[a] + j] = t[a][j]
  <2> SUFFICES ASSUME NEW a \in 0..n, NEW j \in 1..Len(t[a]) PROVE w[g[a] + j] = t[a][j]
    OBVIOUS
  <2>1. CASE a = n
    BY <1>8, <2>1
  <2>2. CASE a # n
    <3>1. a + 1 \in 1..n /\ (a + 1) - 1 = a
      BY <1>1, <2>2
    <3>2. Len(t[a]) \in Nat /\ Len(s[a + 1]) = Len(t[a]) + 1 /\ s[a + 1][j] = t[a][j]
      BY <1>1, <1>3, <3>1
    <3>3. v[g[a] + j] = t[a][j]
      <4>1. j \in 1..Len(s[a + 1])
        BY <3>2
      <4> QED
        BY <1>6, <3>1, <3>2, <4>1
    <3>4. g[a] + j \in 1..g[n]
      <4>1. g[a] \in Nat /\ g[a + 1] \in Nat /\ g[n] \in Nat /\ g[a + 1] <= g[n]
            /\ g[a + 1] = g[a] + Len(t[a]) + 1
        BY <1>9, <3>1
      <4>2. j \in Nat /\ 1 <= j /\ j <= Len(t[a])
        BY <3>2
      <4> QED
        BY SMTT(30), <3>2, <4>1, <4>2
    <3> QED
      BY <1>8, <3>3, <3>4
  <2> QED
    BY <2>1, <2>2
<1>12. \A p \in 1..Len(w) : \/ \E q \in 1..n : p = g[q]
                            \/ \E a \in 0..n : \E j \in 1..Len(t[a]) : p = g[a] + j
  <2> SUFFICES ASSUME NEW p \in 1..Len(w)
               PROVE  \/ \E q \in 1..n : p = g[q]
                      \/ \E a \in 0..n : \E j \in 1..Len(t[a]) : p = g[a] + j
    OBVIOUS
  <2>1. n \in 0..n /\ g[n] \in Nat /\ Len(t[n]) \in Nat
    BY <1>1, <1>7
  <2>2. CASE p <= g[n]
    <3>1. p \in 1..Len(v)
      BY <1>6, <2>1, <2>2
    <3>2. PICK q \in 1..n : \E j \in 1..Len(s[q]) : p = g[q - 1] + j
      BY <1>6, <3>1, Zenon
    <3>3. PICK j \in 1..Len(s[q]) : p = g[q - 1] + j
      BY <3>2, Zenon
    <3>4. Len(t[q - 1]) \in Nat /\ Len(s[q]) = Len(t[q - 1]) + 1 /\ q - 1 \in 0..n
      BY <1>1, <1>2, <1>3
    <3>5. CASE j = Len(t[q - 1]) + 1
      <4>1. p = g[q]
        BY <1>9, <3>3, <3>4, <3>5
      <4> QED
        BY <4>1
    <3>6. CASE j # Len(t[q - 1]) + 1
      <4>1. j \in 1..Len(t[q - 1])
        BY <3>4, <3>6
      <4> QED
        BY <3>3, <3>4, <4>1
    <3> QED
      BY <3>5, <3>6
  <2>3. CASE ~ (p <= g[n])
    <3>1. p - g[n] \in 1..Len(t[n]) /\ p = g[n] + (p - g[n])
      BY <1>8, <2>1, <2>3
    <3> QED
      BY <2>1, <3>1
  <2> QED
    BY <2>2, <2>3
<1>13. Woven(Q, out, t, w, g)
  <2>1. \A q \in 1..n : g[q] = g[q - 1] + Len(t[q - 1]) + 1 /\ w[g[q]] = out[q]
    BY <1>9, <1>10
  <2> QED
    BY <1>7, <1>8, <1>11, <1>12, <2>1, Zenon DEF Woven, n
<1> QED
  BY <1>13 DEF w, v, s, n

Inserts(Q, n) == [at : 0..n, text : Seq(Q)]

\* t is the text inserted at a; that of the x-th insertion ends at o[x] of it.
TextParts(ins, a, t, o) ==
  /\ o \in [0..Len(ins) -> Nat]
  /\ \A x, y \in 0..Len(ins) : x <= y => o[x] <= o[y]
  /\ Len(t) = o[Len(ins)]
  /\ \A x \in 1..Len(ins) :
       ins[x].at = a => /\ o[x] = o[x - 1] + Len(ins[x].text)
                        /\ \A d \in 1..Len(ins[x].text) : t[o[x - 1] + d] = ins[x].text[d]
  /\ \A p \in 1..Len(t) :
       \E x \in 1..Len(ins) : ins[x].at = a /\ \E d \in 1..Len(ins[x].text) : p = o[x - 1] + d

\* TextAt joins the texts of one place, in the order of the insertions.
LEMMA TextAtIs ==
  ASSUME NEW Q, NEW n \in Nat, NEW ins \in Seq(Inserts(Q, n)), NEW a \in 0..n
  PROVE  TextAt(ins, a) \in Seq(Q) /\ \E o : TextParts(ins, a, TextAt(ins, a), o)
<1> DEFINE s == [x \in DOMAIN ins |-> IF ins[x].at = a THEN ins[x].text ELSE <<>>]
           t == TextAt(ins, a)
           m == Len(ins)
<1>1. m \in Nat /\ DOMAIN ins = 1..m
  OBVIOUS
<1>2. \A x \in 1..m : ins[x].text \in Seq(Q) /\ Len(ins[x].text) \in Nat
  <2>1. \A x \in 1..m : ins[x] \in Inserts(Q, n)
    BY <1>1, ElementOfSeq
  <2> QED
    BY <2>1 DEF Inserts
<1>3. \A x \in 1..m : IF ins[x].at = a THEN s[x] = ins[x].text ELSE s[x] = <<>> /\ Len(s[x]) = 0
  BY <1>1
<1>4. s \in Seq(Seq(Q)) /\ Len(s) = m
  <2>1. <<>> \in Seq(Q)
    OBVIOUS
  <2>2. s \in [1..m -> Seq(Q)]
    BY <1>1, <1>2, <2>1
  <2> QED
    BY <1>1, <2>2, MadeSeq, Zenon
<1>5. PICK o : Laid(Q, s, t, o)
  BY <1>4, Flattened, Zenon DEF TextAt
<1> HIDE DEF s, t, m
<1>6. /\ t \in Seq(Q) /\ Len(t) = o[m]
      /\ \A x \in 1..m : \A d \in 1..Len(s[x]) : t[o[x - 1] + d] = s[x][d]
      /\ \A p \in 1..Len(t) : \E x \in 1..m : \E d \in 1..Len(s[x]) : p = o[x - 1] + d
  BY <1>4, <1>5 DEF Laid
<1>7. /\ o \in [0..m -> Nat]
      /\ \A x \in 1..m : o[x] = o[x - 1] + Len(s[x])
      /\ \A x, y \in 0..m : x <= y => o[x] <= o[y]
  BY <1>4, <1>5 DEF Laid, Offsets
<1>8. \A x \in 1..m :
        ins[x].at = a => /\ o[x] = o[x - 1] + Len(ins[x].text)
                         /\ \A d \in 1..Len(ins[x].text) : t[o[x - 1] + d] = ins[x].text[d]
  <2> SUFFICES ASSUME NEW x \in 1..m, ins[x].at = a
               PROVE  /\ o[x] = o[x - 1] + Len(ins[x].text)
                      /\ \A d \in 1..Len(ins[x].text) : t[o[x - 1] + d] = ins[x].text[d]
    OBVIOUS
  <2>1. s[x] = ins[x].text
    BY <1>3
  <2>2. o[x] = o[x - 1] + Len(s[x]) /\ \A d \in 1..Len(s[x]) : t[o[x - 1] + d] = s[x][d]
    BY <1>6, <1>7, Zenon
  <2> QED
    BY <2>1, <2>2, Zenon
<1>9. \A p \in 1..Len(t) :
        \E x \in 1..m : ins[x].at = a /\ \E d \in 1..Len(ins[x].text) : p = o[x - 1] + d
  <2> SUFFICES ASSUME NEW p \in 1..Len(t)
               PROVE  \E x \in 1..m : ins[x].at = a /\ \E d \in 1..Len(ins[x].text) : p = o[x - 1] + d
    OBVIOUS
  <2>1. PICK x \in 1..m : \E d \in 1..Len(s[x]) : p = o[x - 1] + d
    BY <1>6, Zenon
  <2>2. Len(s[x]) # 0
    BY <2>1
  <2>3. ins[x].at = a /\ s[x] = ins[x].text
    BY <1>3, <2>2, Zenon
  <2> QED
    BY <2>1, <2>3, Zenon
<1>10. TextParts(ins, a, t, o)
  BY <1>6, <1>7, <1>8, <1>9, Zenon DEF TextParts, m
<1> QED
  BY <1>6, <1>10, Zenon DEF t

(***************************************************************************)
(* w is out with the insertions ins: piece q of out is at g[q], and the    *)
(* text of insertion x comes after h[x].  Insertions of one place, or of   *)
(* rising places, keep their order.                                        *)
(***************************************************************************)
PiecesKept(out, w, g) ==
  /\ g \in [1..Len(out) -> Nat]
  /\ \A q \in 1..Len(out) : g[q] \in 1..Len(w) /\ w[g[q]] = out[q]
  /\ \A q, z \in 1..Len(out) : q < z => g[q] < g[z]

TextsIn(ins, w, h) ==
  /\ h \in [1..Len(ins) -> Nat]
  /\ \A x \in 1..Len(ins) : \A d \in 1..Len(ins[x].text) :
       h[x] + d \in 1..Len(w) /\ w[h[x] + d] = ins[x].text[d]
  /\ \A x, y \in 1..Len(ins) :
       x < y /\ ins[x].at <= ins[y].at => h[x] + Len(ins[x].text) <= h[y]

Merged(out, ins, w, g, h) ==
  /\ PiecesKept(out, w, g) /\ TextsIn(ins, w, h)
  /\ \A q \in 1..Len(out), x \in 1..Len(ins) :
       IF q <= ins[x].at THEN g[q] <= h[x] ELSE h[x] + Len(ins[x].text) < g[q]
  /\ \A p \in 1..Len(w) :
       \/ \E q \in 1..Len(out) : p = g[q]
       \/ \E x \in 1..Len(ins) : \E d \in 1..Len(ins[x].text) : p = h[x] + d

\* Sums of places.
LEMMA PlaceSums ==
  /\ \A a, c, d, e, f \in Nat : a = c + d + 1 /\ a + e <= f => a \in 1..f
  /\ \A a, f, l, t, c, e \in Nat : f + l <= t /\ a + t < c => (a + f) + l <= c + e
  OBVIOUS

\* placeComments keeps the pieces of the output and the order of the insertions,
\* as sort.SliceStable does.
LEMMA SpliceMerges ==
  ASSUME NEW Q, NEW out \in Seq(Q), NEW ins \in Seq(Inserts(Q, Len(out)))
  PROVE  Splice(out, ins) \in Seq(Q) /\ \E g, h : Merged(out, ins, Splice(out, ins), g, h)
<1> DEFINE n == Len(out)
           m == Len(ins)
           t == [a \in 0..n |-> TextAt(ins, a)]
           w == Splice(out, ins)
           o == [a \in 0..n |-> CHOOSE f : TextParts(ins, a, t[a], f)]
<1>1. n \in Nat /\ m \in Nat
  OBVIOUS
<1>2. \A a \in 0..n : t[a] \in Seq(Q) /\ \E f : TextParts(ins, a, t[a], f)
  BY <1>1, TextAtIs, Zenon
<1>3. \A a \in 0..n : TextParts(ins, a, t[a], o[a])
  BY <1>2, Zenon
<1>4. t \in [0..n -> Seq(Q)]
  BY <1>2
<1>5. \A q \in 1..n : q - 1 \in 0..n
  BY <1>1
<1>6. n \in 0..n
  BY <1>1
<1>7. w = Seqs!FlattenSeq([q \in 1..n |-> t[q - 1] \o <<out[q]>>]) \o t[n]
  <2>1. [q \in 1..n |-> TextAt(ins, q - 1) \o <<out[q]>>] = [q \in 1..n |-> t[q - 1] \o <<out[q]>>]
    BY <1>5, Zenon
  <2>2. TextAt(ins, n) = t[n]
    BY <1>6
  <2> QED
    BY <2>1, <2>2, Zenon DEF Splice
<1> HIDE DEF t, w, o
<1>8. PICK g : Woven(Q, out, t, w, g)
  BY <1>4, <1>7, Weave, Zenon
<1> HIDE DEF n, m
<1>9. /\ w \in Seq(Q)
      /\ g \in [0..n -> Nat]
      /\ Len(w) = g[n] + Len(t[n])
      /\ \A q \in 1..n : g[q] = g[q - 1] + Len(t[q - 1]) + 1 /\ w[g[q]] = out[q]
  BY <1>8, Zenon DEF Woven, n
<1>10. \A a, c \in 0..n : a <= c => g[a] <= g[c]
  BY <1>8, Zenon DEF Woven, n
<1>11. \A a \in 0..n : \A j \in 1..Len(t[a]) : w[g[a] + j] = t[a][j]
  BY <1>8, Zenon DEF Woven, n
<1>12. \A p \in 1..Len(w) : \/ \E q \in 1..n : p = g[q]
                            \/ \E a \in 0..n : \E j \in 1..Len(t[a]) : p = g[a] + j
  BY <1>8, Zenon DEF Woven, n
<1>13. \A a \in 0..n : /\ o[a] \in [0..m -> Nat] /\ Len(t[a]) = o[a][m]
                       /\ \A x, y \in 0..m : x <= y => o[a][x] <= o[a][y]
  BY <1>3, Zenon DEF TextParts, m
<1>14. \A x \in 1..m : ins[x].at \in 0..n /\ ins[x].text \in Seq(Q) /\ Len(ins[x].text) \in Nat
  <2>1. \A x \in 1..m : ins[x] \in Inserts(Q, n)
    BY ElementOfSeq DEF n, m
  <2> QED
    BY <2>1 DEF Inserts
<1> DEFINE at(x) == ins[x].at
           len(x) == Len(ins[x].text)
           h == [x \in 1..m |-> g[at(x)] + o[at(x)][x - 1]]
           G == [q \in 1..n |-> g[q]]
<1>15. \A x \in 1..m : /\ o[at(x)][x] = o[at(x)][x - 1] + len(x)
                       /\ \A d \in 1..len(x) : t[at(x)][o[at(x)][x - 1] + d] = ins[x].text[d]
  BY <1>3, <1>14, Zenon DEF TextParts, m
\* The text of x ends before or where the text at its place does.
<1>16. \A x \in 1..m : /\ h[x] \in Nat /\ h[x] = g[at(x)] + o[at(x)][x - 1]
                       /\ g[at(x)] \in Nat /\ o[at(x)][x - 1] \in Nat /\ Len(t[at(x)]) \in Nat
                       /\ o[at(x)][x - 1] + len(x) <= Len(t[at(x)])
  <2> SUFFICES ASSUME NEW x \in 1..m
               PROVE  /\ h[x] \in Nat /\ h[x] = g[at(x)] + o[at(x)][x - 1]
                      /\ g[at(x)] \in Nat /\ o[at(x)][x - 1] \in Nat /\ Len(t[at(x)]) \in Nat
                      /\ o[at(x)][x - 1] + len(x) <= Len(t[at(x)])
    OBVIOUS
  <2>1. x - 1 \in 0..m /\ x \in 0..m /\ m \in 0..m /\ x <= m /\ at(x) \in 0..n
    BY <1>1, <1>14
  <2> DEFINE f == o[at(x)]
  <2>2. f \in [0..m -> Nat] /\ Len(t[at(x)]) = f[m] /\ f[x] <= f[m]
    BY <1>13, <2>1
  <2>3. f[x] = f[x - 1] + len(x) /\ g[at(x)] \in Nat
    BY <1>9, <1>15, <2>1
  <2> HIDE DEF f
  <2>4. f[x - 1] \in Nat /\ f[m] \in Nat
    BY <2>1, <2>2
  <2>5. h[x] = g[at(x)] + f[x - 1]
    BY DEF f
  <2> QED
    BY <2>2, <2>3, <2>4, <2>5 DEF f
<1> HIDE DEF h, G
<1>17. \A q \in 1..n : g[q] \in Nat /\ g[q - 1] \in Nat /\ Len(t[q - 1]) \in Nat
  <2>1. \A a \in 0..n : g[a] \in Nat /\ Len(t[a]) \in Nat
    BY SMTT(30), <1>2, <1>9
  <2>2. \A q \in 1..n : q \in 0..n
    BY <1>1
  <2> QED
    BY <1>5, <2>1, <2>2, Zenon
<1>23. \A a, c \in 0..n : a < c => g[a] + Len(t[a]) < g[c]
  <2> SUFFICES ASSUME NEW a \in 0..n, NEW c \in 0..n, a < c PROVE g[a] + Len(t[a]) < g[c]
    OBVIOUS
  <2>1. a + 1 \in 1..n /\ a + 1 \in 0..n /\ a + 1 <= c /\ (a + 1) - 1 = a
    BY <1>1
  <2>2. g[a + 1] = g[a] + Len(t[a]) + 1 /\ g[a + 1] \in Nat /\ g[a] \in Nat /\ Len(t[a]) \in Nat
    BY <1>9, <1>17, <2>1
  <2>3. g[a + 1] <= g[c] /\ g[c] \in Nat
    BY <1>9, <1>10, <2>1
  <2> QED
    BY <2>2, <2>3
<1>24. Len(w) \in Nat /\ \A a \in 0..n : g[a] + Len(t[a]) <= Len(w)
  <2> SUFFICES ASSUME NEW a \in 0..n PROVE Len(w) \in Nat /\ g[a] + Len(t[a]) <= Len(w)
    BY <1>1, <1>6
  <2>4. \A c \in 0..n : g[c] \in Nat /\ Len(t[c]) \in Nat
    BY <1>2, <1>9
  <2>1. g[a] \in Nat /\ Len(t[a]) \in Nat /\ g[n] \in Nat /\ Len(t[n]) \in Nat
    BY <1>6, <2>4, Zenon
  <2>2. a < n => g[a] + Len(t[a]) < g[n]
    BY <1>6, <1>23
  <2>3. a = n \/ a < n
    BY <1>1
  <2> QED
    BY <1>9, <2>1, <2>2, <2>3
<1>25. \A q \in 1..n : G[q] = g[q]
  BY DEF G
<1>18. PiecesKept(out, w, G)
  <2>1. G \in [1..n -> Nat]
    BY <1>17 DEF G
  <2>2. \A q \in 1..n : G[q] \in 1..Len(w) /\ w[G[q]] = out[q]
    <3> SUFFICES ASSUME NEW q \in 1..n PROVE G[q] \in 1..Len(w) /\ w[G[q]] = out[q]
      OBVIOUS
    <3>1. q \in 0..n
      BY <1>1
    <3>2. g[q] = g[q - 1] + Len(t[q - 1]) + 1 /\ w[g[q]] = out[q]
      BY <1>9, Zenon
    <3>3. Len(t[q]) \in Nat /\ g[q] + Len(t[q]) <= Len(w)
      BY <1>2, <1>24, <3>1
    <3>4. g[q] \in Nat /\ g[q - 1] \in Nat /\ Len(t[q - 1]) \in Nat /\ Len(w) \in Nat
      BY <1>17, <1>24
    <3>5. g[q] \in 1..Len(w)
      BY <3>2, <3>3, <3>4, PlaceSums, Zenon
    <3> QED
      BY <1>25, <3>2, <3>5, Zenon
  <2>3. \A q, z \in 1..n : q < z => G[q] < G[z]
    <3> SUFFICES ASSUME NEW q \in 1..n, NEW z \in 1..n, q < z PROVE g[q] < g[z]
      BY <1>25, Zenon
    <3>1. q \in 0..n /\ z \in 0..n
      BY <1>1
    <3>2. g[q] + Len(t[q]) < g[z] /\ Len(t[q]) \in Nat /\ g[q] \in Nat /\ g[z] \in Nat
      BY <1>2, <1>17, <1>23, <3>1
    <3> QED
      BY <3>2
  <2> QED
    BY <2>1, <2>2, <2>3, Zenon DEF PiecesKept, n
<1>19. TextsIn(ins, w, h)
  <2>1. h \in [1..m -> Nat]
    BY <1>16 DEF h
  <2>2. \A x \in 1..m : \A d \in 1..Len(ins[x].text) :
          h[x] + d \in 1..Len(w) /\ w[h[x] + d] = ins[x].text[d]
    <3> SUFFICES ASSUME NEW x \in 1..m, NEW d \in 1..Len(ins[x].text)
                 PROVE  h[x] + d \in 1..Len(w) /\ w[h[x] + d] = ins[x].text[d]
      OBVIOUS
    <3> DEFINE a == ins[x].at
               f == o[a][x - 1]
    <3>1. a \in 0..n /\ Len(ins[x].text) \in Nat
      BY <1>14
    <3>2. /\ h[x] = g[a] + f /\ g[a] \in Nat /\ f \in Nat /\ Len(t[a]) \in Nat
          /\ f + Len(ins[x].text) <= Len(t[a])
      BY <1>16, Zenon
    <3>3. g[a] + Len(t[a]) <= Len(w) /\ Len(w) \in Nat
      BY <1>24, <3>1
    <3>4. t[a][f + d] = ins[x].text[d]
      BY <1>15, Zenon
    <3> HIDE DEF a, f
    <3>7. d \in Nat
      BY <3>1
    <3>8. f + d \in 1..Len(t[a]) /\ (g[a] + f) + d \in 1..Len(w) /\ (g[a] + f) + d = g[a] + (f + d)
      <4> DEFINE l == Len(ins[x].text)
                 t1 == Len(t[a])
                 w1 == Len(w)
                 g1 == g[a]
      <4>1. /\ l \in Nat /\ t1 \in Nat /\ w1 \in Nat /\ g1 \in Nat /\ d \in 1..l /\ f \in Nat
            /\ f + l <= t1 /\ g1 + t1 <= w1
        BY <3>1, <3>2, <3>3
      <4> HIDE DEF l, t1, w1, g1
      <4>2. f + d \in 1..t1 /\ (g1 + f) + d \in 1..w1 /\ (g1 + f) + d = g1 + (f + d)
        BY <4>1
      <4> QED
        BY <4>2 DEF t1, w1, g1
    <3>5. f + d \in 1..Len(t[a]) /\ h[x] + d = g[a] + (f + d) /\ h[x] + d \in 1..Len(w)
      BY <3>2, <3>8, Zenon
    <3>6. w[g[a] + (f + d)] = t[a][f + d]
      BY <1>11, <3>1, <3>5, Zenon
    <3> QED
      BY <3>4, <3>5, <3>6, Zenon
  <2>3. \A x, y \in 1..m : x < y /\ ins[x].at <= ins[y].at => h[x] + Len(ins[x].text) <= h[y]
    <3> SUFFICES ASSUME NEW x \in 1..m, NEW y \in 1..m, x < y, ins[x].at <= ins[y].at
                 PROVE  h[x] + Len(ins[x].text) <= h[y]
      OBVIOUS
    <3> DEFINE a == ins[x].at
               c == ins[y].at
               len1 == Len(ins[x].text)
    <3>1. a \in 0..n /\ c \in 0..n /\ len1 \in Nat
      BY <1>14
    <3>2. /\ h[x] = g[a] + o[a][x - 1] /\ g[a] \in Nat /\ o[a][x - 1] \in Nat /\ Len(t[a]) \in Nat
          /\ o[a][x - 1] + len1 <= Len(t[a])
      BY <1>16, Zenon
    <3>3. h[y] = g[c] + o[c][y - 1] /\ g[c] \in Nat /\ o[c][y - 1] \in Nat
      BY <1>16, Zenon
    <3>4. o[a][x] = o[a][x - 1] + len1
      BY <1>15, Zenon
    <3>5. a < c => g[a] + Len(t[a]) < g[c]
      BY <1>23, <3>1, Zenon
    <3>6. x \in 0..m /\ y - 1 \in 0..m /\ x <= y - 1
      BY <1>1
    <3>7. o[a][x] <= o[a][y - 1]
      BY <1>13, <3>1, <3>6, Zenon
    <3>8. a <= c
      OBVIOUS
    <3> HIDE DEF a, c, len1
    <3>9. CASE a = c
      BY <3>2, <3>3, <3>4, <3>7, <3>9, SMTT(30) DEF len1
    <3>10. CASE a # c
      <4>1. a < c
        BY <3>1, <3>8, <3>10
      <4>2. (g[a] + o[a][x - 1]) + len1 <= g[c] + o[c][y - 1]
        BY <3>1, <3>2, <3>3, <3>5, <4>1, PlaceSums, Zenon
      <4>3. h[x] + len1 <= h[y]
        BY <3>2, <3>3, <4>2, Zenon
      <4> QED
        BY <4>3 DEF len1
    <3> QED
      BY <3>9, <3>10
  <2> QED
    BY <2>1, <2>2, <2>3, Zenon DEF TextsIn, m
<1>20. \A q \in 1..n, x \in 1..m :
         IF q <= ins[x].at THEN G[q] <= h[x] ELSE h[x] + Len(ins[x].text) < G[q]
  <2> SUFFICES ASSUME NEW q \in 1..n, NEW x \in 1..m
               PROVE  IF q <= ins[x].at THEN g[q] <= h[x] ELSE h[x] + Len(ins[x].text) < g[q]
    BY <1>25, Zenon
  <2> DEFINE a == ins[x].at
             f == o[a][x - 1]
             len1 == Len(ins[x].text)
  <2>1. a \in 0..n /\ len1 \in Nat /\ q \in 0..n /\ g[q] \in Nat
    BY <1>1, <1>14, <1>17
  <2>2. /\ h[x] = g[a] + f /\ g[a] \in Nat /\ f \in Nat /\ Len(t[a]) \in Nat
        /\ f + len1 <= Len(t[a])
    BY <1>16, Zenon
  <2>3. q <= a => g[q] <= g[a]
    BY <1>10, <2>1, Zenon
  <2>4. a < q => g[a] + Len(t[a]) < g[q]
    BY <1>23, <2>1, Zenon
  <2> HIDE DEF a, f, len1
  <2>5. IF q <= a THEN g[q] <= h[x] ELSE h[x] + len1 < g[q]
    BY SMTT(30), <2>1, <2>2, <2>3, <2>4
  <2> QED
    BY <2>5 DEF a, len1
<1>21. \A p \in 1..Len(w) :
         \/ \E q \in 1..n : p = G[q]
         \/ \E x \in 1..m : \E d \in 1..Len(ins[x].text) : p = h[x] + d
  <2> SUFFICES ASSUME NEW p \in 1..Len(w)
               PROVE  \/ \E q \in 1..n : p = G[q]
                      \/ \E x \in 1..m : \E d \in 1..Len(ins[x].text) : p = h[x] + d
    OBVIOUS
  <2>1. CASE \E q \in 1..n : p = g[q]
    BY <1>25, <2>1, Zenon
  <2>2. CASE \E a \in 0..n : \E j \in 1..Len(t[a]) : p = g[a] + j
    <3>1. PICK a \in 0..n : \E j \in 1..Len(t[a]) : p = g[a] + j
      BY <2>2
    <3>2. PICK j \in 1..Len(t[a]) : p = g[a] + j
      BY <3>1, Zenon
    <3>3. PICK x \in 1..m : ins[x].at = a /\ \E d \in 1..Len(ins[x].text) : j = o[a][x - 1] + d
      BY <1>3, Zenon DEF TextParts, m
    <3>4. PICK d \in 1..Len(ins[x].text) : j = o[a][x - 1] + d
      BY <3>3, Zenon
    <3>5. h[x] = g[a] + o[a][x - 1] /\ g[a] \in Nat /\ o[a][x - 1] \in Nat /\ Len(ins[x].text) \in Nat
      BY <1>14, <1>16, <3>3, Zenon
    <3> DEFINE f == o[a][x - 1]
               g1 == g[a]
    <3>7. f \in Nat /\ g1 \in Nat /\ d \in Nat /\ h[x] = g1 + f /\ j = f + d /\ p = g1 + j
      BY <1>16, <3>2, <3>3, <3>4, <3>5
    <3> HIDE DEF f, g1
    <3>6. p = h[x] + d
      BY <3>7
    <3> QED
      BY <3>6
  <2> QED
    BY <1>12, <2>1, <2>2, Zenon
<1>22. Merged(out, ins, w, G, h)
  BY <1>18, <1>19, <1>20, <1>21, Zenon DEF Merged, n, m
<1> QED
  BY <1>9, <1>22, Zenon DEF w

-----------------------------------------------------------------------------
(* The insertions. *)

TextPiece == [k : {"tok", "nl", "sp", "line", "block"}, v : Int, up : BOOLEAN, last : Int]

\* out is the output of the printer for n tokens: token k is in st[k]+1..en[k], and
\* the rest of it is spaces.
Printed(out, n, st, en) ==
  /\ n \in Nat \ {0} /\ out \in Seq(TextPiece)
  /\ st \in [1..n -> Nat] /\ en \in [1..n -> Nat]
  /\ \A k \in 1..n :
       /\ st[k] < en[k] /\ en[k] <= Len(out)
       /\ out[st[k] + 1].k = "tok" /\ out[st[k] + 1].v = k
       /\ k > 1 => en[k - 1] <= st[k]
       /\ \A m \in (st[k] + 2)..en[k] : out[m].k = "sp"
  /\ \A m \in 1..Len(out) :
       /\ out[m].k \in {"tok", "nl", "sp"}
       /\ out[m].k = "tok" => out[m].v \in 1..n /\ m = st[out[m].v] + 1

\* The tokens of the output are in order.
LEMMA PrintedInOrder ==
  ASSUME NEW out, NEW n, NEW st, NEW en, Printed(out, n, st, en)
  PROVE  \A k, l \in 1..n : k < l => en[k] <= st[l]
<1>1. n \in Nat /\ 1 \in Nat /\ st \in [1..n -> Nat] /\ en \in [1..n -> Nat]
  BY DEF Printed
<1>2. \A k \in 1..n : st[k] < en[k] /\ (k > 1 => en[k - 1] <= st[k])
  BY DEF Printed
<1>3. \A k \in (1 + 1)..n : en[k - 1] <= en[k]
  <2> SUFFICES ASSUME NEW k \in 2..n PROVE en[k - 1] <= en[k]
    BY <1>1
  <2>1. k \in 1..n /\ k - 1 \in 1..n /\ k > 1
    BY <1>1
  <2>2. en[k - 1] \in Nat /\ en[k] \in Nat /\ st[k] \in Nat
    BY <1>1, <2>1
  <2> QED
    BY <1>2, <2>1, <2>2
<1>4. \A k, l \in 1..n : k <= l => en[k] <= en[l]
  BY <1>1, <1>3, StepsRise
<1> SUFFICES ASSUME NEW k \in 1..n, NEW l \in 1..n, k < l PROVE en[k] <= st[l]
  OBVIOUS
<1>5. l - 1 \in 1..n /\ k <= l - 1 /\ l > 1
  BY <1>1
<1>6. en[k] <= en[l - 1] /\ en[l - 1] <= st[l]
  BY <1>2, <1>4, <1>5
<1>7. en[k] \in Nat /\ en[l - 1] \in Nat /\ st[l] \in Nat
  BY <1>1, <1>5
<1> QED
  BY <1>6, <1>7

\* A set of numbers up to p has a greatest one.
LEMMA GreatestOf ==
  ASSUME NEW p \in Nat, NEW S, S \subseteq 1..p, S # {}
  PROVE  \E m \in S : \A x \in S : x <= m
<1> DEFINE above == {u \in 0..p : \A x \in S : x <= u}
<1>1. p \in above /\ above \subseteq Nat
  OBVIOUS
<1>2. PICK u \in above : \A x \in above : u <= x
  BY <1>1, LeastOf, Zenon
<1>3. u \in 0..p /\ \A x \in S : x <= u
  OBVIOUS
<1>4. u \in S
  <2> SUFFICES ASSUME u \notin S PROVE FALSE
    OBVIOUS
  <2>1. \A x \in S : x \in Nat /\ x >= 1 /\ x <= u /\ x # u
    BY <1>3
  <2>5. PICK y \in S : y \in Nat /\ y >= 1 /\ y <= u
    BY <2>1
  <2>2. u - 1 \in 0..p /\ ~ (u <= u - 1)
    BY <1>3, <2>5
  <2>3. \A x \in S : x <= u - 1
    BY <1>3, <2>1
  <2>4. u - 1 \in above
    BY <2>2, <2>3
  <2> QED
    BY <1>2, <2>2, <2>4, Zenon
<1> QED
  BY <1>3, <1>4

\* LastOf finds the last of the positions up to p.
LEMMA LastOfIs ==
  /\ LastOf({}) = 0
  /\ \A p \in Nat : \A S :
       S # {} /\ (\A m \in S : m \in 1..p) => LastOf(S) \in S /\ \A x \in S : x <= LastOf(S)
<1>1. LastOf({}) = 0
  BY DEF LastOf
<1>2. ASSUME NEW p \in Nat, NEW S, S # {}, \A m \in S : m \in 1..p
      PROVE  LastOf(S) \in S /\ \A x \in S : x <= LastOf(S)
  <2>1. \E m \in S : \A x \in S : x <= m
    BY <1>2, GreatestOf
  <2>2. LastOf(S) = CHOOSE m \in S : \A x \in S : x <= m
    BY <1>2, Zenon DEF LastOf
  <2> QED
    BY <2>1, <2>2, Zenon
<1> QED
  BY <1>1, <1>2

\* LineStart finds the last line break up to p.
LEMMA LineStartIs ==
  ASSUME NEW out, NEW p \in Nat
  PROVE  \/ LineStart(out, p) = 0 /\ \A m \in 1..p : out[m].k # "nl"
         \/ /\ LineStart(out, p) \in 1..p /\ out[LineStart(out, p)].k = "nl"
            /\ \A m \in 1..p : out[m].k = "nl" => m <= LineStart(out, p)
<1> DEFINE nls == {m \in 1..p : out[m].k = "nl"}
<1>1. CASE nls = {}
  BY <1>1, LastOfIs, Zenon DEF LineStart
<1>2. CASE nls # {}
  <2>1. LineStart(out, p) \in nls /\ \A x \in nls : x <= LineStart(out, p)
    <3>1. \A m \in nls : m \in 1..p
      OBVIOUS
    <3> QED
      BY <1>2, <3>1, LastOfIs, Zenon DEF LineStart
  <2> QED
    BY <2>1
<1> QED
  BY <1>1, <1>2

\* The line break before the token at st[j], when it starts a line.
LEMMA BreakBefore ==
  ASSUME NEW out, NEW n, NEW st, NEW en, Printed(out, n, st, en), NEW j \in 2..n,
         AtLineStart(out, st[j])
  PROVE  \E q \in 1..Len(out) : out[q].k = "nl" /\ en[j - 1] < q /\ q <= st[j]
<1> DEFINE q == LineStart(out, st[j])
           p == st[j]
           a == st[j - 1]
           z == en[j - 1]
<1>1. n \in Nat /\ j \in 1..n /\ j - 1 \in 1..n /\ j > 1
  BY DEF Printed
<1>2. /\ p \in Nat /\ a \in Nat /\ z \in Nat /\ a < z /\ z <= p /\ Len(out) \in Nat
      /\ p <= Len(out)
  <2>1. st \in [1..n -> Nat] /\ en \in [1..n -> Nat] /\ Len(out) \in Nat
    BY SMTT(30) DEF Printed
  <2>2. st[j] < en[j] /\ en[j] <= Len(out) /\ st[j - 1] < en[j - 1] /\ en[j - 1] <= st[j]
    BY <1>1 DEF Printed
  <2>3. st[j] \in Nat /\ st[j - 1] \in Nat /\ en[j] \in Nat /\ en[j - 1] \in Nat
    BY <1>1, <2>1
  <2> QED
    BY <2>1, <2>2, <2>3
<1>3. out[a + 1].k = "tok" /\ \A m \in (a + 2)..z : out[m].k = "sp"
  BY <1>1 DEF Printed
<1>4. \A m \in (q + 1)..p : out[m].k = "sp"
  BY DEF AtLineStart
<1>5. (q \in 1..p /\ out[q].k = "nl") \/ q = 0
  BY <1>2, LineStartIs, Zenon
<1> HIDE DEF q, p, a, z
<1>6. ~ (q <= a)
  <2> SUFFICES ASSUME q <= a PROVE FALSE
    OBVIOUS
  <2>1. a + 1 \in (q + 1)..p
    BY <1>2, <1>5
  <2> QED
    BY <1>3, <1>4, <2>1
<1>7. q \in 1..p /\ out[q].k = "nl"
  BY <1>2, <1>5, <1>6
<1>8. q # a + 1 /\ q \notin (a + 2)..z
  BY <1>3, <1>7
<1>9. z < q /\ q <= p /\ q \in 1..Len(out)
  BY <1>2, <1>6, <1>7, <1>8
<1> QED
  BY <1>7, <1>9 DEF q, p, z

\* The tokens the lines of the output start with, and the end: FirstOnLine.
LineFirst(out, n, st) == {j \in 1..(n + 1) : j = n + 1 \/ (j > 1 /\ AtLineStart(out, st[j]))}

\* Where the comment is in the text of an insertion.
CommentAt(s) == IF s.text[1].k \in {"sp", "nl"} THEN 2 ELSE 1

(***************************************************************************)
(* The insertion s of a comment c of token j: between the tokens j - 1 and *)
(* j, after a space or a line break or at once, and a line comment in the  *)
(* middle of the output has a line break after it.                         *)
(***************************************************************************)
BetweenTokens(out, n, st, en, j, s) ==
  /\ s \in Inserts(TextPiece, Len(out))
  /\ j > 1 => en[j - 1] <= s.at
  /\ j <= n => s.at <= st[j]

HasComment(c, s) ==
  /\ CommentAt(s) \in 1..Len(s.text) /\ s.text[CommentAt(s)] = CommentPiece(c)
  /\ \A e \in 1..Len(s.text) : e # CommentAt(s) => s.text[e].k \in {"sp", "nl"}

InLinePlace(out, n, st, en, j, c, prevLine, s) ==
  IF j \in LineFirst(out, n, st) /\ prevLine
    THEN /\ s.at = en[j - 1] /\ Len(s.text) = 2 /\ s.text[1].k = "sp"
    ELSE IF j = n + 1 THEN s.at = en[j - 1] /\ s.text[1].k = "nl"
    ELSE /\ s.at = st[j]
         /\ c.line => CommentAt(s) + 1 \in 1..Len(s.text) /\ s.text[CommentAt(s) + 1].k = "nl"

Inserted(out, n, st, en, j, c, prevLine, s) ==
  BetweenTokens(out, n, st, en, j, s) /\ HasComment(c, s)
    /\ InLinePlace(out, n, st, en, j, c, prevLine, s)

\* The indentation of a line is a number.
LEMMA IndentIs ==
  ASSUME NEW out \in Seq(TextPiece), NEW p \in 0..Len(out)
  PROVE  IndentOf(out, p) \in Int
<1> DEFINE breaks == {m \in 1..p : out[m].k = "nl" \/ out[m].last >= 0}
           start == LastOf(breaks)
<1>1. start = 0 \/ start \in 1..p
  <2>1. \A m \in breaks : m \in 1..p
    OBVIOUS
  <2>2. start = 0 \/ start \in breaks
    <3>1. p \in Nat
      OBVIOUS
    <3> QED
      BY <2>1, <3>1, LastOfIs, Zenon
  <2> QED
    BY <2>1, <2>2
<1>2. start # 0 => start \in 1..Len(out)
  BY <1>1
<1>3. start # 0 => out[start] \in TextPiece
  BY <1>2, ElementOfSeq
<1>4. IndentOf(out, p) = IF start = 0 THEN 0 ELSE IF out[start].k = "nl" THEN out[start].v ELSE out[start].last
  BY Zenon DEF IndentOf
<1>5. start # 0 => out[start].v \in Int /\ out[start].last \in Int
  BY <1>3 DEF TextPiece
<1> HIDE DEF start
<1> QED
  BY <1>4, <1>5

\* The pieces placeComments makes.
LEMMA PiecesAre ==
  /\ \A x \in Int : NlPiece(x) \in TextPiece /\ NlPiece(x).k = "nl"
  /\ SpPiece \in TextPiece /\ SpPiece.k = "sp"
  /\ \A c \in CommentRecord :
       /\ CommentPiece(c) \in TextPiece /\ CommentPiece(c).v = c.id
       /\ CommentPiece(c).k = IF c.line THEN "line" ELSE "block"
BY DEF NlPiece, SpPiece, CommentPiece, CommentRecord, TextPiece

\* The texts placeComments inserts.
LEMMA TextsAre ==
  ASSUME NEW c \in CommentRecord, NEW n \in Nat, NEW a \in 0..n,
         NEW x \in TextPiece, x.k \in {"sp", "nl"}
  PROVE  /\ LET s == [at |-> a, text |-> <<x, CommentPiece(c)>>]
            IN  s \in Inserts(TextPiece, n) /\ HasComment(c, s) /\ CommentAt(s) = 2
         /\ LET s == [at |-> a, text |-> <<CommentPiece(c), x>>]
            IN  s \in Inserts(TextPiece, n) /\ HasComment(c, s) /\ CommentAt(s) = 1
         /\ LET s == [at |-> a, text |-> <<SpPiece, CommentPiece(c), x>>]
            IN  s \in Inserts(TextPiece, n) /\ HasComment(c, s) /\ CommentAt(s) = 2
<1> DEFINE C == CommentPiece(c)
           y == SpPiece
<1>1. C \in TextPiece /\ C.k \notin {"sp", "nl"} /\ y \in TextPiece /\ y.k = "sp"
  <2>1. C \in TextPiece /\ C.k = IF c.line THEN "line" ELSE "block"
    BY PiecesAre, Zenon
  <2> QED
    BY <2>1, PiecesAre
<1> HIDE DEF C, y
<1>2. \A u, v \in TextPiece : <<u, v>> \in Seq(TextPiece) /\ Len(<<u, v>>) = 2
  OBVIOUS
<1>3. \A u, v, w \in TextPiece : <<u, v, w>> \in Seq(TextPiece) /\ Len(<<u, v, w>>) = 3
  OBVIOUS
<1>4. \A t \in Seq(TextPiece) : [at |-> a, text |-> t] \in Inserts(TextPiece, n)
  BY DEF Inserts
<1>5. LET s == [at |-> a, text |-> <<x, C>>]
      IN  s \in Inserts(TextPiece, n) /\ HasComment(c, s) /\ CommentAt(s) = 2
  <2> DEFINE s == [at |-> a, text |-> <<x, C>>]
  <2>1. s \in Inserts(TextPiece, n)
    BY <1>1, <1>2, <1>4
  <2>2. Len(s.text) = 2 /\ s.text[1] = x /\ s.text[2] = C
    OBVIOUS
  <2> HIDE DEF s
  <2>3. CommentAt(s) = 2
    BY <2>2 DEF CommentAt
  <2>4. HasComment(c, s)
    BY <2>2, <2>3 DEF HasComment, C
  <2> QED
    BY <2>1, <2>3, <2>4 DEF s
<1>6. LET s == [at |-> a, text |-> <<C, x>>]
      IN  s \in Inserts(TextPiece, n) /\ HasComment(c, s) /\ CommentAt(s) = 1
  <2> DEFINE s == [at |-> a, text |-> <<C, x>>]
  <2>1. s \in Inserts(TextPiece, n)
    BY <1>1, <1>2, <1>4
  <2>2. Len(s.text) = 2 /\ s.text[1] = C /\ s.text[2] = x
    OBVIOUS
  <2> HIDE DEF s
  <2>3. CommentAt(s) = 1
    BY <1>1, <2>2 DEF CommentAt
  <2>4. HasComment(c, s)
    BY <2>2, <2>3 DEF HasComment, C
  <2> QED
    BY <2>1, <2>3, <2>4 DEF s
<1>7. LET s == [at |-> a, text |-> <<y, C, x>>]
      IN  s \in Inserts(TextPiece, n) /\ HasComment(c, s) /\ CommentAt(s) = 2
  <2> DEFINE s == [at |-> a, text |-> <<y, C, x>>]
  <2>1. s \in Inserts(TextPiece, n)
    BY <1>1, <1>3, <1>4
  <2>2. Len(s.text) = 3 /\ s.text[1] = y /\ s.text[2] = C /\ s.text[3] = x
    OBVIOUS
  <2> HIDE DEF s
  <2>3. CommentAt(s) = 2
    BY <1>1, <2>2 DEF CommentAt
  <2>4. HasComment(c, s)
    BY <1>1, <2>2, <2>3 DEF HasComment, C
  <2> QED
    BY <2>1, <2>3, <2>4 DEF s
<1> QED
  BY <1>5, <1>6, <1>7 DEF C, y

\* The text of an insertion with and without the space before it.
LEMMA PairsJoined ==
  ASSUME NEW X, NEW u \in X, NEW v \in X, NEW y \in X
  PROVE  <<>> \o <<u, v>> = <<u, v>> /\ <<y>> \o <<u, v>> = <<y, u, v>>
<1>1. <<u, v>> \in Seq(X) /\ <<y>> \in Seq(X) /\ <<y, u, v>> \in Seq(X)
  OBVIOUS
<1>2. <<>> \o <<u, v>> = <<u, v>>
  BY <1>1, ConcatEmptySeq
<1>3. <<y>> \o <<u, v>> \in Seq(X) /\ Len(<<y>> \o <<u, v>>) = 3
  BY <1>1
<1>4. \A z \in 1..3 : (<<y>> \o <<u, v>>)[z] = <<y, u, v>>[z]
  BY <1>1
<1>5. <<y>> \o <<u, v>> = <<y, u, v>>
  BY <1>1, <1>3, <1>4, SeqEqual
<1> QED
  BY <1>2, <1>5

\* Every case of placeComments puts a comment between its tokens.
LEMMA InsertionIs ==
  ASSUME NEW out, NEW n, NEW st, NEW en, Printed(out, n, st, en), NEW kind,
         NEW c \in CommentRecord, NEW j \in 1..(n + 1), NEW prevLine \in BOOLEAN
  PROVE  Inserted(out, n, st, en, j, c, prevLine,
                  Insertion(out, kind, en, c, j, IF j > Len(st) THEN 0 ELSE st[j], prevLine))
<1> DEFINE s == Insertion(out, kind, en, c, j, IF j > Len(st) THEN 0 ELSE st[j], prevLine)
           p == st[j]
           C == CommentPiece(c)
           I == NlPiece(IndentOf(out, p))
<1>1. n \in Nat \ {0} /\ st \in [1..n -> Nat] /\ en \in [1..n -> Nat] /\ out \in Seq(TextPiece)
  BY DEF Printed
<1>2. Len(st) = n /\ Len(en) = n
  BY <1>1, MadeSeq, Zenon
<1>3. \A k \in 1..n : /\ st[k] \in Nat /\ en[k] \in Nat /\ st[k] < en[k] /\ en[k] <= Len(out)
                      /\ k > 1 => en[k - 1] <= st[k]
  BY <1>1 DEF Printed
<1>4. C \in TextPiece /\ C.k \notin {"sp", "nl"} /\ (c.line => C.k = "line") /\ Len(out) \in Nat
  BY <1>1, PiecesAre
<1>9. Len(out) \in Nat
  BY <1>1
<1>5. CASE j = n + 1
  <2> DEFINE x == IF prevLine THEN SpPiece ELSE NlPiece(0)
  <2>1. s = [at |-> en[n], text |-> <<x, C>>]
    BY <1>1, <1>2, <1>5 DEF Insertion
  <2>2. x \in TextPiece /\ (x.k = IF prevLine THEN "sp" ELSE "nl") /\ x.k \in {"sp", "nl"}
    BY PiecesAre
  <2>3. n \in 1..n /\ j - 1 = n /\ j > 1 /\ ~ (j <= n) /\ j \in LineFirst(out, n, st)
    BY <1>1, <1>5 DEF LineFirst
  <2>4. en[n] \in 0..Len(out) /\ en[n] <= en[n]
    BY <1>3, <1>9, <2>3
  <2> HIDE DEF x
  <2>5. s \in Inserts(TextPiece, Len(out)) /\ HasComment(c, s) /\ CommentAt(s) = 2
    BY ZenonT(30), <1>9, <2>1, <2>2, <2>4, TextsAre
  <2>6. s.at = en[j - 1] /\ s.text[1] = x /\ Len(s.text) = 2
    BY <2>1, <2>3
  <2> HIDE DEF s
  <2>7. BetweenTokens(out, n, st, en, j, s)
    BY <2>3, <2>4, <2>5, <2>6 DEF BetweenTokens
  <2>8. InLinePlace(out, n, st, en, j, c, prevLine, s)
    BY <1>5, <2>2, <2>3, <2>6 DEF InLinePlace
  <2> QED
    BY <2>5, <2>7, <2>8 DEF Inserted, s
<1>6. CASE j # n + 1 /\ j \in LineFirst(out, n, st) /\ prevLine
  <2>1. j \in 1..n /\ j > 1 /\ AtLineStart(out, p) /\ j - 1 \in 1..n /\ ~ (j > n)
    BY <1>1, <1>6 DEF LineFirst
  <2>2. s = [at |-> en[j - 1], text |-> <<SpPiece, C>>]
    BY <1>2, <1>6, <2>1 DEF Insertion
  <2>3. en[j - 1] \in 0..Len(out) /\ en[j - 1] <= st[j] /\ en[j - 1] <= en[j - 1]
    BY <1>3, <1>9, <2>1
  <2>4. SpPiece \in TextPiece /\ SpPiece.k = "sp"
    BY PiecesAre
  <2>5. s \in Inserts(TextPiece, Len(out)) /\ HasComment(c, s)
    BY <1>9, <2>2, <2>3, <2>4, TextsAre
  <2>6. s.at = en[j - 1] /\ s.text[1] = SpPiece /\ Len(s.text) = 2
    BY <2>2
  <2> HIDE DEF s
  <2>7. BetweenTokens(out, n, st, en, j, s)
    BY <2>3, <2>5, <2>6 DEF BetweenTokens
  <2>8. InLinePlace(out, n, st, en, j, c, prevLine, s)
    BY <1>6, <2>4, <2>6 DEF InLinePlace
  <2> QED
    BY <2>5, <2>7, <2>8 DEF Inserted, s
<1>7. CASE j # n + 1 /\ ~ (j \in LineFirst(out, n, st) /\ prevLine)
  <2>1. j \in 1..n /\ ~ (j > n) /\ ~ (j > 1 /\ AtLineStart(out, p) /\ prevLine)
    BY <1>1, <1>7 DEF LineFirst
  <2>2. p \in 0..Len(out) /\ p <= p /\ (j > 1 => en[j - 1] <= p)
    BY <1>3, <1>9, <2>1
  <2>3. I \in TextPiece /\ I.k = "nl" /\ SpPiece \in TextPiece /\ SpPiece.k = "sp"
    BY <1>1, <2>2, IndentIs, PiecesAre
  <2> DEFINE x == IF c.line THEN I ELSE SpPiece
  <2>4. x \in TextPiece /\ x.k \in {"sp", "nl"} /\ (c.line => x.k = "nl")
    BY <2>3
  <2>5. \/ s = [at |-> p, text |-> <<C, I>>]
        \/ s = [at |-> p, text |-> <<C, x>>]
        \/ s = [at |-> p, text |-> <<SpPiece, C, x>>]
    <3>1. s = IF AtLineStart(out, p) THEN [at |-> p, text |-> <<C, I>>]
              ELSE [at |-> p, text |-> (IF SpacedBefore(out, p, kind) THEN <<>> ELSE <<SpPiece>>) \o <<C, x>>]
      BY <1>2, <2>1 DEF Insertion
    <3>2. <<>> \o <<C, x>> = <<C, x>> /\ <<SpPiece>> \o <<C, x>> = <<SpPiece, C, x>>
      <4> HIDE DEF x, C
      <4> QED
        BY <1>4, <2>3, <2>4, PairsJoined, Zenon
    <3> DEFINE t == IF SpacedBefore(out, p, kind) THEN <<>> ELSE <<SpPiece>>
    <3>3. t \o <<C, x>> = <<C, x>> \/ t \o <<C, x>> = <<SpPiece, C, x>>
      <4> HIDE DEF x, C
      <4> QED
        BY <3>2, Zenon
    <3>4. s = IF AtLineStart(out, p) THEN [at |-> p, text |-> <<C, I>>] ELSE [at |-> p, text |-> t \o <<C, x>>]
      BY <3>1, Zenon
    <3> HIDE DEF t, x, C, I, s, p
    <3> QED
      BY <3>3, <3>4, Zenon
  <2> HIDE DEF x, I, s
  <2>6. s.at = p /\ s \in Inserts(TextPiece, Len(out)) /\ HasComment(c, s)
    <3>1. ASSUME s = [at |-> p, text |-> <<C, I>>]
          PROVE  s.at = p /\ s \in Inserts(TextPiece, Len(out)) /\ HasComment(c, s)
      BY <3>1, <1>9, <2>2, <2>3, TextsAre
    <3>2. ASSUME s = [at |-> p, text |-> <<C, x>>]
          PROVE  s.at = p /\ s \in Inserts(TextPiece, Len(out)) /\ HasComment(c, s)
      BY <3>2, <1>9, <2>2, <2>4, TextsAre
    <3>3. ASSUME s = [at |-> p, text |-> <<SpPiece, C, x>>]
          PROVE  s.at = p /\ s \in Inserts(TextPiece, Len(out)) /\ HasComment(c, s)
      BY <3>3, <1>9, <2>2, <2>4, TextsAre
    <3> QED
      BY <2>5, <3>1, <3>2, <3>3
  <2>7. c.line => CommentAt(s) + 1 \in 1..Len(s.text) /\ s.text[CommentAt(s) + 1].k = "nl"
    <3>1. CASE s = [at |-> p, text |-> <<C, I>>]
      <4>1. CommentAt(s) = 1
        BY <1>9, <2>2, <2>3, <3>1, TextsAre
      <4>2. Len(s.text) = 2 /\ s.text[2] = I
        BY <3>1
      <4> QED
        BY <2>3, <4>1, <4>2
    <3>2. CASE s = [at |-> p, text |-> <<C, x>>]
      <4>1. CommentAt(s) = 1
        BY <1>9, <2>2, <2>4, <3>2, TextsAre
      <4>2. Len(s.text) = 2 /\ s.text[2] = x
        BY <3>2
      <4> QED
        BY <2>4, <4>1, <4>2
    <3>3. CASE s = [at |-> p, text |-> <<SpPiece, C, x>>]
      <4>1. CommentAt(s) = 2
        BY <1>9, <2>2, <2>4, <3>3, TextsAre
      <4>2. Len(s.text) = 3 /\ s.text[3] = x
        BY <3>3
      <4> QED
        BY <2>4, <4>1, <4>2
    <3> QED
      BY <2>5, <3>1, <3>2, <3>3
  <2>8. BetweenTokens(out, n, st, en, j, s)
    BY <2>2, <2>6 DEF BetweenTokens
  <2>9. InLinePlace(out, n, st, en, j, c, prevLine, s)
    BY <1>7, <2>6, <2>7 DEF InLinePlace
  <2> QED
    BY <2>6, <2>8, <2>9 DEF Inserted, s
<1> QED
  BY <1>5, <1>6, <1>7

\* The comments of n tokens and of the end of input.
CommentsFor(n, cs) == n \in Nat \ {0} /\ cs \in Seq(Seq(CommentRecord)) /\ Len(cs) = n + 1

\* Insertion o[j - 1] + k is that of comment k of token j.
AllInserted(out, n, st, en, cs, ins, o) ==
  /\ ins \in Seq(Inserts(TextPiece, Len(out)))
  /\ Offsets(cs, o) /\ Len(ins) = o[n + 1]
  /\ \A j \in 1..(n + 1) : \A k \in 1..Len(cs[j]) :
       Inserted(out, n, st, en, j, cs[j][k], OnPrevLine(cs[j], k), ins[o[j - 1] + k])
  /\ \A x \in 1..Len(ins) : \E j \in 1..(n + 1) : \E k \in 1..Len(cs[j]) : x = o[j - 1] + k

\* placeComments inserts each comment once.
LEMMA InsertionsAre ==
  ASSUME NEW out, NEW n, NEW st, NEW en, Printed(out, n, st, en), NEW kind,
         NEW cs, CommentsFor(n, cs)
  PROVE  \E o : AllInserted(out, n, st, en, cs, Insertions(out, kind, st, en, cs), o)
<1> DEFINE new(j, k) == Insertion(out, kind, en, cs[j][k], j,
                                  IF j > Len(st) THEN 0 ELSE st[j], OnPrevLine(cs[j], k))
           s == [j \in 1..Len(cs) |-> [k \in DOMAIN cs[j] |-> new(j, k)]]
           ins == Insertions(out, kind, st, en, cs)
           Q == Inserts(TextPiece, Len(out))
<1>1. n \in Nat /\ n + 1 \in Nat /\ Len(cs) = n + 1 /\ cs \in Seq(Seq(CommentRecord))
  BY DEF CommentsFor
<1>2. \A j \in 1..(n + 1) : /\ cs[j] \in Seq(CommentRecord) /\ Len(cs[j]) \in Nat
                            /\ DOMAIN cs[j] = 1..Len(cs[j])
  BY <1>1
<1>3. \A j \in 1..(n + 1) : \A k \in 1..Len(cs[j]) :
        Inserted(out, n, st, en, j, cs[j][k], OnPrevLine(cs[j], k), new(j, k))
  <2> SUFFICES ASSUME NEW j \in 1..(n + 1), NEW k \in 1..Len(cs[j])
               PROVE  Inserted(out, n, st, en, j, cs[j][k], OnPrevLine(cs[j], k), new(j, k))
    OBVIOUS
  <2>1. cs[j][k] \in CommentRecord
    BY <1>2, ElementOfSeq
  <2>2. OnPrevLine(cs[j], k) \in BOOLEAN
    BY DEF OnPrevLine
  <2> QED
    BY <2>1, <2>2, InsertionIs, Zenon
<1>4. \A j \in 1..(n + 1) : \A k \in 1..Len(cs[j]) : new(j, k) \in Q
  BY <1>3, Zenon DEF Inserted, BetweenTokens
<1> HIDE DEF new, Q
<1>5. \A j \in 1..(n + 1) : /\ s[j] \in Seq(Q) /\ Len(s[j]) = Len(cs[j])
                            /\ \A k \in 1..Len(cs[j]) : s[j][k] = new(j, k)
  <2> SUFFICES ASSUME NEW j \in 1..(n + 1)
               PROVE  /\ s[j] \in Seq(Q) /\ Len(s[j]) = Len(cs[j])
                      /\ \A k \in 1..Len(cs[j]) : s[j][k] = new(j, k)
    OBVIOUS
  <2>1. s[j] = [k \in 1..Len(cs[j]) |-> new(j, k)]
    BY <1>1, <1>2
  <2>2. s[j] \in [1..Len(cs[j]) -> Q]
    BY <1>4, <2>1
  <2>3. s[j] \in Seq(Q) /\ Len(s[j]) = Len(cs[j])
    <3> DEFINE m == Len(cs[j])
               f == s[j]
    <3>1. m \in Nat /\ f \in [1..m -> Q]
      BY <1>2, <2>2
    <3> HIDE DEF m, f
    <3>2. f \in Seq(Q) /\ Len(f) = m
      BY <3>1, MadeSeq
    <3> QED
      BY <3>2 DEF m, f
  <2> QED
    BY <2>1, <2>3
<1>6. s \in Seq(Seq(Q)) /\ Len(s) = n + 1
  <2>1. s \in [1..(n + 1) -> Seq(Q)]
    BY <1>1, <1>5
  <2> QED
    BY <1>1, <2>1, MadeSeq
<1>7. ins = Seqs!FlattenSeq(s)
  BY Zenon DEF Insertions, new
<1> HIDE DEF s, ins
<1>8. PICK o : Laid(Q, s, ins, o)
  BY <1>6, <1>7, Flattened, Zenon
<1>9. /\ ins \in Seq(Q) /\ Len(ins) = o[n + 1]
      /\ \A j \in 1..(n + 1) : \A k \in 1..Len(s[j]) : ins[o[j - 1] + k] = s[j][k]
      /\ \A x \in 1..Len(ins) : \E j \in 1..(n + 1) : \E k \in 1..Len(s[j]) : x = o[j - 1] + k
  BY <1>6, <1>8 DEF Laid
<1>10. /\ o \in [0..(n + 1) -> Nat] /\ o[0] = 0
       /\ \A j \in 1..(n + 1) : o[j] = o[j - 1] + Len(s[j])
       /\ \A j, k \in 0..(n + 1) : j <= k => o[j] <= o[k]
  BY <1>6, <1>8, Zenon DEF Laid, Offsets
<1>11. Offsets(cs, o)
  <2>1. \A j \in 1..(n + 1) : o[j] = o[j - 1] + Len(cs[j])
    BY <1>5, <1>10
  <2> QED
    BY <1>1, <1>10, <2>1, Zenon DEF Offsets
<1>12. \A j \in 1..(n + 1) : \A k \in 1..Len(cs[j]) :
         Inserted(out, n, st, en, j, cs[j][k], OnPrevLine(cs[j], k), ins[o[j - 1] + k])
  <2> SUFFICES ASSUME NEW j \in 1..(n + 1), NEW k \in 1..Len(cs[j])
               PROVE  ins[o[j - 1] + k] = new(j, k)
    BY <1>3, Zenon
  <2> QED
    BY <1>5, <1>9
<1>13. \A x \in 1..Len(ins) : \E j \in 1..(n + 1) : \E k \in 1..Len(cs[j]) : x = o[j - 1] + k
  BY <1>5, <1>9
<1>14. AllInserted(out, n, st, en, cs, ins, o)
  BY <1>9, <1>11, <1>12, <1>13, Zenon DEF AllInserted, Q
<1> QED
  BY <1>14, Zenon DEF ins

(***************************************************************************)
(* w is out with its comments; g says where the pieces of out are in it,   *)
(* and h where the texts of the insertions.                                *)
(***************************************************************************)
Spliced(out, n, st, en, cs, ins, o, w, g, h) ==
  /\ Printed(out, n, st, en) /\ CommentsFor(n, cs)
  /\ AllInserted(out, n, st, en, cs, ins, o)
  /\ w \in Seq(TextPiece) /\ Merged(out, ins, w, g, h)

TokensAt(n, st, g) == [k \in 1..n |-> g[st[k] + 1]]
CommentsAt(n, cs, ins, o, h) ==
  [j \in 1..(n + 1) |-> [k \in 1..Len(cs[j]) |-> h[o[j - 1] + k] + CommentAt(ins[o[j - 1] + k])]]

\* The numbers of the comments are in the order of their tokens, and in their order.
LEMMA NumbersRise ==
  ASSUME NEW n, NEW cs, CommentsFor(n, cs), NEW o, Offsets(cs, o),
         NEW j \in 1..(n + 1), NEW k \in 1..Len(cs[j])
  PROVE  /\ o[j - 1] + k \in 1..o[n + 1] /\ o[j - 1] \in Nat /\ o[n + 1] \in Nat
         /\ \A l \in 1..(n + 1) : \A z \in 1..Len(cs[l]) :
              o[j - 1] + k < o[l - 1] + z => j < l \/ (j = l /\ k < z)
         /\ \A l \in 1..(n + 1) : \A z \in 1..Len(cs[l]) :
              j < l \/ (j = l /\ k < z) => o[j - 1] + k < o[l - 1] + z
<1>1. n \in Nat /\ Len(cs) = n + 1
  BY DEF CommentsFor
<1>2. /\ o \in [0..(n + 1) -> Nat]
      /\ \A a \in 1..(n + 1) : o[a] = o[a - 1] + Len(cs[a])
      /\ \A a, c \in 0..(n + 1) : a <= c => o[a] <= o[c]
  BY <1>1 DEF Offsets
<1>3. \A a \in 1..(n + 1) : Len(cs[a]) \in Nat /\ o[a] \in Nat /\ o[a - 1] \in Nat
  <2>1. \A a \in 1..(n + 1) : a \in 0..(n + 1) /\ a - 1 \in 0..(n + 1) /\ Len(cs[a]) \in Nat
    BY <1>1 DEF CommentsFor
  <2> QED
    BY <1>2, <2>1
<1>4. \A a, c \in 1..(n + 1) : a < c => o[a] <= o[c - 1]
  <2> SUFFICES ASSUME NEW a \in 1..(n + 1), NEW c \in 1..(n + 1), a < c PROVE o[a] <= o[c - 1]
    OBVIOUS
  <2>1. a \in 0..(n + 1) /\ c - 1 \in 0..(n + 1) /\ a <= c - 1
    BY <1>1
  <2> QED
    BY <1>2, <2>1
<1>5. o[j - 1] + k \in 1..o[n + 1] /\ o[j - 1] \in Nat /\ o[n + 1] \in Nat
  <2>1. j \in 0..(n + 1) /\ n + 1 \in 0..(n + 1) /\ j <= n + 1
    BY <1>1
  <2>2. o[j] <= o[n + 1] /\ o[n + 1] \in Nat /\ o[j] = o[j - 1] + Len(cs[j])
    BY <1>2, <2>1
  <2>3. o[j] \in Nat /\ o[j - 1] \in Nat /\ Len(cs[j]) \in Nat
    BY <1>3
  <2> QED
    BY <2>2, <2>3
<1>6. ASSUME NEW a \in 1..(n + 1), NEW u \in 1..Len(cs[a]),
             NEW c \in 1..(n + 1), NEW z \in 1..Len(cs[c]), a < c
      PROVE  o[a - 1] + u < o[c - 1] + z
  <2>1. o[a] <= o[c - 1] /\ o[a] = o[a - 1] + Len(cs[a])
    BY <1>2, <1>4, <1>6
  <2>2. o[a] \in Nat /\ o[a - 1] \in Nat /\ o[c - 1] \in Nat /\ Len(cs[a]) \in Nat /\ Len(cs[c]) \in Nat
    BY <1>3
  <2> QED
    BY SMTT(30), <2>1, <2>2
<1>7. ASSUME NEW l \in 1..(n + 1), NEW z \in 1..Len(cs[l]), o[j - 1] + k < o[l - 1] + z
      PROVE  j < l \/ (j = l /\ k < z)
  <2>1. ~ (l < j)
    <3> SUFFICES ASSUME l < j PROVE FALSE
      OBVIOUS
    <3>1. o[l - 1] + z < o[j - 1] + k
      BY <1>6
    <3>2. o[l - 1] \in Nat /\ o[j - 1] \in Nat /\ Len(cs[j]) \in Nat /\ Len(cs[l]) \in Nat
      BY <1>3
    <3> QED
      BY <1>7, <3>1, <3>2
  <2>2. j = l => k < z
    <3> SUFFICES ASSUME j = l PROVE k < z
      OBVIOUS
    <3>1. o[j - 1] \in Nat /\ Len(cs[j]) \in Nat /\ o[j - 1] + k < o[j - 1] + z
      BY <1>3, <1>7
    <3> QED
      BY <3>1
  <2> QED
    BY <1>1, <2>1, <2>2
<1>8. ASSUME NEW l \in 1..(n + 1), NEW z \in 1..Len(cs[l]), j < l \/ (j = l /\ k < z)
      PROVE  o[j - 1] + k < o[l - 1] + z
  <2>1. j < l => o[j - 1] + k < o[l - 1] + z
    BY <1>6
  <2>2. o[j - 1] \in Nat /\ Len(cs[j]) \in Nat /\ Len(cs[l]) \in Nat
    BY <1>3
  <2>3. j = l /\ k < z => o[j - 1] + k < o[j - 1] + z
    BY <2>2
  <2> QED
    BY <1>8, <2>1, <2>3
<1> QED
  BY <1>5, <1>7, <1>8

\* The comment k of token j, with its insertion x.
OneComment(out, n, st, en, cs, ins, o, w, g, h, j, k, x) ==
  /\ x = o[j - 1] + k /\ x \in 1..Len(ins) /\ h[x] \in Nat
  /\ Inserted(out, n, st, en, j, cs[j][k], OnPrevLine(cs[j], k), ins[x])
  /\ ins[x].at \in 0..Len(out) /\ Len(ins[x].text) \in Nat
  /\ CommentAt(ins[x]) \in 1..Len(ins[x].text)
  /\ CommentsAt(n, cs, ins, o, h)[j][k] = h[x] + CommentAt(ins[x])
  /\ cs[j][k] \in CommentRecord

\* Every comment has its insertion.
LEMMA OneCommentIs ==
  ASSUME NEW out, NEW n, NEW st, NEW en, NEW cs, NEW ins, NEW o, NEW w, NEW g, NEW h,
         Spliced(out, n, st, en, cs, ins, o, w, g, h),
         NEW j \in 1..(n + 1), NEW k \in 1..Len(cs[j])
  PROVE  OneComment(out, n, st, en, cs, ins, o, w, g, h, j, k, o[j - 1] + k)
<1> DEFINE x == o[j - 1] + k
<1>1. /\ Printed(out, n, st, en) /\ CommentsFor(n, cs)
      /\ AllInserted(out, n, st, en, cs, ins, o) /\ Merged(out, ins, w, g, h)
  BY Zenon DEF Spliced
<1>2. /\ ins \in Seq(Inserts(TextPiece, Len(out))) /\ Offsets(cs, o) /\ Len(ins) = o[n + 1]
      /\ Inserted(out, n, st, en, j, cs[j][k], OnPrevLine(cs[j], k), ins[x])
  BY <1>1, Zenon DEF AllInserted
<1>3. x \in 1..Len(ins)
  <2>1. x \in 1..o[n + 1]
    BY <1>1, <1>2, NumbersRise, Zenon
  <2> QED
    BY <1>2, <2>1
<1>4. h[x] \in Nat
  BY <1>1, <1>3 DEF Merged, TextsIn
<1>5. ins[x] \in Inserts(TextPiece, Len(out))
  BY <1>2, <1>3, ElementOfSeq
<1>6. ins[x].at \in 0..Len(out) /\ Len(ins[x].text) \in Nat
  BY <1>5 DEF Inserts
<1>7. CommentAt(ins[x]) \in 1..Len(ins[x].text)
  BY <1>2, Zenon DEF Inserted, HasComment
<1>8. CommentsAt(n, cs, ins, o, h)[j][k] = h[x] + CommentAt(ins[x])
  BY DEF CommentsAt
<1>9. cs[j][k] \in CommentRecord
  BY <1>1, ElementOfSeq DEF CommentsFor
<1> QED
  BY <1>2, <1>3, <1>4, <1>6, <1>7, <1>8, <1>9, Zenon DEF OneComment

\* The comments on the previous line come first, and no line comment but the last.
LEMMA PrevLineFirst ==
  ASSUME NEW c, NEW k \in Nat \ {0}, NEW z \in Nat, k < z, OnPrevLine(c, z)
  PROVE  OnPrevLine(c, k) /\ ~c[k].line
<1>1. 1..k \subseteq 1..z /\ 1..(k - 1) \subseteq 1..(z - 1) /\ k \in 1..(z - 1)
  OBVIOUS
<1> QED
  BY <1>1, Zenon DEF OnPrevLine

\* The insertions are in the order of the comments.
LEMMA PlacesRise ==
  ASSUME NEW out, NEW n, NEW st, NEW en, NEW cs, NEW ins, NEW o, NEW w, NEW g, NEW h,
         Spliced(out, n, st, en, cs, ins, o, w, g, h),
         NEW j \in 1..(n + 1), NEW k \in 1..Len(cs[j]),
         NEW l \in 1..(n + 1), NEW z \in 1..Len(cs[l]), j < l \/ (j = l /\ k < z)
  PROVE  /\ o[j - 1] + k < o[l - 1] + z
         /\ ins[o[j - 1] + k].at <= ins[o[l - 1] + z].at
<1> DEFINE x == o[j - 1] + k
           y == o[l - 1] + z
           s == ins[x]
           t == ins[y]
<1>1. Printed(out, n, st, en) /\ CommentsFor(n, cs) /\ AllInserted(out, n, st, en, cs, ins, o)
  BY Zenon DEF Spliced
<1>2. Offsets(cs, o)
  BY <1>1, Zenon DEF AllInserted
<1>3. x < y
  BY <1>1, <1>2, NumbersRise, Zenon
<1>4. /\ OneComment(out, n, st, en, cs, ins, o, w, g, h, j, k, x)
      /\ OneComment(out, n, st, en, cs, ins, o, w, g, h, l, z, y)
  BY OneCommentIs, Zenon
<1>5. /\ BetweenTokens(out, n, st, en, j, s) /\ BetweenTokens(out, n, st, en, l, t)
      /\ InLinePlace(out, n, st, en, j, cs[j][k], OnPrevLine(cs[j], k), s)
      /\ InLinePlace(out, n, st, en, l, cs[l][z], OnPrevLine(cs[l], z), t)
      /\ s.at \in 0..Len(out) /\ t.at \in 0..Len(out)
  BY <1>4, Zenon DEF OneComment, Inserted
<1>6. n \in Nat \ {0} /\ st \in [1..n -> Nat] /\ en \in [1..n -> Nat] /\ Len(out) \in Nat
  BY <1>1 DEF Printed
<1>7. \A a \in 1..n : st[a] < en[a] /\ st[a] \in Nat /\ en[a] \in Nat
  BY <1>1, <1>6 DEF Printed
<1> HIDE DEF s, t
<1>8. CASE j < l
  <2>1. j \in 1..n /\ l - 1 \in 1..n /\ j <= l - 1 /\ l > 1 /\ j <= n
    BY <1>6, <1>8
  <2>2. s.at <= st[j] /\ en[l - 1] <= t.at
    BY <1>5, <2>1 DEF BetweenTokens
  <2>3. j = l - 1 \/ j < l - 1
    BY <2>1
  <2>4. j < l - 1 => en[j] <= st[l - 1]
    BY <1>1, <2>1, PrintedInOrder
  <2>5. s.at \in Nat /\ t.at \in Nat
    BY <1>5, <1>6
  <2>6. st[j] < en[j] /\ st[l - 1] < en[l - 1] /\ st[j] \in Nat /\ en[j] \in Nat
        /\ st[l - 1] \in Nat /\ en[l - 1] \in Nat
    BY <1>7, <2>1
  <2>7. en[j] <= en[l - 1]
    BY <2>3, <2>4, <2>6
  <2>8. s.at <= t.at
    BY <2>2, <2>5, <2>6, <2>7
  <2> QED
    BY <1>3, <2>8 DEF s, t
<1>9. CASE ~ (j < l)
  <2>1. j = l /\ k < z
    BY <1>9
  <2>2. OnPrevLine(cs[j], z) => OnPrevLine(cs[j], k)
    <3>1. k \in Nat \ {0} /\ z \in Nat
      <4>1. Len(cs[j]) \in Nat /\ Len(cs[l]) \in Nat
        BY <1>1 DEF CommentsFor
      <4> QED
        BY <4>1
    <3> QED
      BY <2>1, <3>1, PrevLineFirst, Zenon
  <2>3. CASE j \in LineFirst(out, n, st) /\ OnPrevLine(cs[j], k)
    <3>1. s.at = en[j - 1]
      BY <1>5, <2>3 DEF InLinePlace
    <3>2. j > 1
      BY <1>6, <2>3 DEF LineFirst
    <3>3. en[j - 1] <= t.at
      BY <1>5, <2>1, <3>2 DEF BetweenTokens
    <3> QED
      BY <1>3, <3>1, <3>3 DEF s, t
  <2>4. CASE ~ (j \in LineFirst(out, n, st) /\ OnPrevLine(cs[j], k))
    <3>1. ~ (j \in LineFirst(out, n, st) /\ OnPrevLine(cs[j], z))
      BY <2>2, <2>4
    <3>2. s.at = IF j = n + 1 THEN en[j - 1] ELSE st[j]
      BY <1>5, <2>4 DEF InLinePlace
    <3>3. t.at = IF j = n + 1 THEN en[j - 1] ELSE st[j]
      BY <1>5, <2>1, <3>1 DEF InLinePlace
    <3>4. s.at <= t.at
      BY <1>5, <1>6, <3>2, <3>3
    <3> QED
      BY <1>3, <3>4 DEF s, t
  <2> QED
    BY <2>3, <2>4
<1> QED
  BY <1>8, <1>9

OneToken(out, st, en, w, g, tp, k) ==
  /\ tp[k] = g[st[k] + 1]
  /\ st[k] + 1 \in 1..Len(out) /\ st[k] \in Nat /\ en[k] \in Nat /\ st[k] + 1 <= en[k]
  /\ tp[k] \in 1..Len(w) /\ Len(w) \in Nat
  /\ w[tp[k]].k = "tok" /\ w[tp[k]].v = k

\* Every token is in w.
LEMMA OneTokenIs ==
  ASSUME NEW out, NEW n, NEW st, NEW en, NEW cs, NEW ins, NEW o, NEW w, NEW g, NEW h,
         Spliced(out, n, st, en, cs, ins, o, w, g, h), NEW tp, tp = TokensAt(n, st, g),
         NEW k \in 1..n
  PROVE  OneToken(out, st, en, w, g, tp, k)
<1>1. Printed(out, n, st, en) /\ PiecesKept(out, w, g) /\ w \in Seq(TextPiece)
  BY Zenon DEF Spliced, Merged
<1>2. /\ st[k] \in Nat /\ en[k] \in Nat /\ st[k] < en[k] /\ en[k] <= Len(out) /\ Len(out) \in Nat
      /\ out[st[k] + 1].k = "tok" /\ out[st[k] + 1].v = k
  BY <1>1 DEF Printed
<1>3. st[k] + 1 \in 1..Len(out) /\ st[k] + 1 <= en[k]
  BY <1>2
<1>4. g[st[k] + 1] \in 1..Len(w) /\ w[g[st[k] + 1]] = out[st[k] + 1]
  BY <1>1, <1>3, Zenon DEF PiecesKept
<1> QED
  BY <1>1, <1>2, <1>3, <1>4 DEF TokensAt, OneToken

\* A comment is in the text of its insertion.
LEMMA CommentPlace ==
  ASSUME NEW out, NEW n, NEW st, NEW en, NEW cs, NEW ins, NEW o, NEW w, NEW g, NEW h,
         Spliced(out, n, st, en, cs, ins, o, w, g, h),
         NEW j \in 1..(n + 1), NEW k \in 1..Len(cs[j]), NEW x,
         OneComment(out, n, st, en, cs, ins, o, w, g, h, j, k, x), NEW c,
         c = CommentsAt(n, cs, ins, o, h)[j][k]
  PROVE  /\ c \in 1..Len(w) /\ w[c].k = (IF cs[j][k].line THEN "line" ELSE "block") /\ w[c].v = cs[j][k].id
         /\ h[x] < c /\ c <= h[x] + Len(ins[x].text)
<1> DEFINE a == CommentAt(ins[x])
           m == Len(ins[x].text)
           u == h[x]
<1>1. TextsIn(ins, w, h) /\ HasComment(cs[j][k], ins[x])
  BY Zenon DEF Spliced, Merged, OneComment, Inserted
<1>2. a \in 1..m /\ m \in Nat /\ u \in Nat /\ c = u + a /\ x \in 1..Len(ins) /\ cs[j][k] \in CommentRecord
  BY Zenon DEF OneComment
<1>3. h[x] + a \in 1..Len(w) /\ w[h[x] + a] = ins[x].text[a]
  BY <1>1, <1>2, Zenon DEF TextsIn
<1>4. ins[x].text[a] = CommentPiece(cs[j][k])
  BY <1>1, Zenon DEF HasComment
<1>5. c \in 1..Len(w) /\ w[c] = CommentPiece(cs[j][k])
  BY <1>2, <1>3, <1>4, Zenon
<1>6. h[x] < c /\ c <= h[x] + Len(ins[x].text)
  <2> HIDE DEF a, m, u
  <2>1. u < c /\ c <= u + m
    BY <1>2
  <2> QED
    BY <2>1 DEF u, m
<1>7. w[c].k = (IF cs[j][k].line THEN "line" ELSE "block") /\ w[c].v = cs[j][k].id
  BY <1>2, <1>5, PiecesAre
<1> QED
  BY <1>5, <1>6, <1>7

\* The comments of token j are between the tokens j - 1 and j, in order.
LEMMA TokensInPlace ==
  ASSUME NEW out, NEW n, NEW st, NEW en, NEW cs, NEW ins, NEW o, NEW w, NEW g, NEW h,
         Spliced(out, n, st, en, cs, ins, o, w, g, h), NEW tp, tp = TokensAt(n, st, g)
  PROVE  \A j, k \in 1..n : j < k => tp[j] < tp[k]
<1> SUFFICES ASSUME NEW j \in 1..n, NEW k \in 1..n, j < k PROVE tp[j] < tp[k]
  OBVIOUS
<1>1. Printed(out, n, st, en) /\ PiecesKept(out, w, g)
  BY Zenon DEF Spliced, Merged
<1>2. en[j] <= st[k]
  BY <1>1, PrintedInOrder, Zenon
<1>3. /\ st[j] + 1 \in 1..Len(out) /\ st[j] \in Nat /\ en[j] \in Nat /\ st[j] + 1 <= en[j]
      /\ st[k] + 1 \in 1..Len(out) /\ st[k] \in Nat
      /\ tp[j] = g[st[j] + 1] /\ tp[k] = g[st[k] + 1]
  <2>1. OneToken(out, st, en, w, g, tp, j) /\ OneToken(out, st, en, w, g, tp, k)
    BY OneTokenIs
  <2> QED
    BY <2>1, Zenon DEF OneToken
<1>4. st[j] + 1 < st[k] + 1
  BY <1>2, <1>3
<1> QED
  BY <1>1, <1>3, <1>4, Zenon DEF PiecesKept

\* The text of an insertion is between the tokens.
LEMMA CommentBetween ==
  ASSUME NEW out, NEW n, NEW st, NEW en, NEW cs, NEW ins, NEW o, NEW w, NEW g, NEW h,
         Spliced(out, n, st, en, cs, ins, o, w, g, h), NEW tp, tp = TokensAt(n, st, g),
         NEW j \in 1..(n + 1), NEW k \in 1..Len(cs[j]), NEW x,
         OneComment(out, n, st, en, cs, ins, o, w, g, h, j, k, x)
  PROVE  /\ j > 1 => tp[j - 1] <= h[x]
         /\ j <= n => h[x] + Len(ins[x].text) < tp[j]
<1>1. Printed(out, n, st, en) /\ Merged(out, ins, w, g, h)
  BY Zenon DEF Spliced
<1>2. BetweenTokens(out, n, st, en, j, ins[x]) /\ ins[x].at \in 0..Len(out) /\ x \in 1..Len(ins)
  BY Zenon DEF OneComment, Inserted
<1>3. \A q \in 1..Len(out) :
        IF q <= ins[x].at THEN g[q] <= h[x] ELSE h[x] + Len(ins[x].text) < g[q]
  BY <1>1, <1>2, Zenon DEF Merged
<1>4. n \in Nat
  BY <1>1 DEF Printed
<1>5. ASSUME j > 1 PROVE tp[j - 1] <= h[x]
  <2>1. j - 1 \in 1..n
    BY <1>4, <1>5
  <2> DEFINE i1 == j - 1
  <2>2. /\ st[i1] + 1 \in 1..Len(out) /\ st[i1] \in Nat /\ en[i1] \in Nat /\ st[i1] + 1 <= en[i1]
        /\ tp[i1] = g[st[i1] + 1]
    <3>1. OneToken(out, st, en, w, g, tp, i1)
      BY <2>1, OneTokenIs
    <3> QED
      BY <3>1, Zenon DEF OneToken
  <2>3. en[i1] <= ins[x].at
    BY <1>2, <1>5 DEF BetweenTokens
  <2> HIDE DEF i1
  <2>4. st[i1] + 1 <= ins[x].at
    BY <1>2, <2>2, <2>3
  <2>5. tp[i1] <= h[x]
    BY <1>3, <2>2, <2>4, Zenon
  <2> QED
    BY <2>5 DEF i1
<1>6. ASSUME j <= n PROVE h[x] + Len(ins[x].text) < tp[j]
  <2>1. j \in 1..n
    BY <1>4, <1>6
  <2>2. /\ st[j] + 1 \in 1..Len(out) /\ st[j] \in Nat
        /\ tp[j] = g[st[j] + 1]
    <3>1. OneToken(out, st, en, w, g, tp, j)
      BY <2>1, OneTokenIs
    <3> QED
      BY <3>1, Zenon DEF OneToken
  <2>3. ins[x].at <= st[j]
    BY <1>2, <1>6 DEF BetweenTokens
  <2>4. ~ (st[j] + 1 <= ins[x].at)
    BY <1>2, <2>2, <2>3
  <2> QED
    BY <1>3, <2>2, <2>4, Zenon
<1> QED
  BY <1>5, <1>6

\* Everything that is not a space or a line break is one of them.
LEMMA InkIs ==
  ASSUME NEW out, NEW n, NEW st, NEW en, NEW cs, NEW ins, NEW o, NEW w, NEW g, NEW h,
         Spliced(out, n, st, en, cs, ins, o, w, g, h),
         NEW tp, tp = TokensAt(n, st, g), NEW cp, cp = CommentsAt(n, cs, ins, o, h),
         NEW p \in 1..Len(w), w[p].k \notin {"sp", "nl"}
  PROVE  \/ \E k \in 1..n : p = tp[k]
         \/ \E j \in 1..(n + 1) : \E k \in 1..Len(cs[j]) : p = cp[j][k]
<1>1. Printed(out, n, st, en) /\ Merged(out, ins, w, g, h) /\ AllInserted(out, n, st, en, cs, ins, o)
  BY Zenon DEF Spliced
<1>2. \/ \E q \in 1..Len(out) : p = g[q]
      \/ \E x \in 1..Len(ins) : \E d \in 1..Len(ins[x].text) : p = h[x] + d
  BY <1>1, Zenon DEF Merged
<1>3. CASE \E q \in 1..Len(out) : p = g[q]
  <2>1. PICK q \in 1..Len(out) : p = g[q]
    BY <1>3
  <2>2. w[p] = out[q]
    BY <1>1, <2>1, Zenon DEF Merged, PiecesKept
  <2>3. out[q].k \in {"tok", "nl", "sp"} /\ (out[q].k = "tok" => out[q].v \in 1..n /\ q = st[out[q].v] + 1)
    BY <1>1, Zenon DEF Printed
  <2>4. out[q].v \in 1..n /\ q = st[out[q].v] + 1
    BY <2>2, <2>3
  <2>5. tp[out[q].v] = g[q]
    BY <2>4 DEF TokensAt
  <2> QED
    BY <2>1, <2>4, <2>5, Zenon
<1>4. CASE \E x \in 1..Len(ins) : \E d \in 1..Len(ins[x].text) : p = h[x] + d
  <2>1. PICK x \in 1..Len(ins) : \E d \in 1..Len(ins[x].text) : p = h[x] + d
    BY <1>4
  <2>2. PICK d \in 1..Len(ins[x].text) : p = h[x] + d
    BY <2>1, Zenon
  <2>3. PICK j \in 1..(n + 1) : \E k \in 1..Len(cs[j]) : x = o[j - 1] + k
    BY <1>1, Zenon DEF AllInserted
  <2>4. PICK k \in 1..Len(cs[j]) : x = o[j - 1] + k
    BY <2>3, Zenon
  <2>5. OneComment(out, n, st, en, cs, ins, o, w, g, h, j, k, x)
    BY <2>4, OneCommentIs, Zenon
  <2>6. w[p] = ins[x].text[d]
    BY <1>1, <2>2, Zenon DEF Merged, TextsIn
  <2>7. HasComment(cs[j][k], ins[x]) /\ cp[j][k] = h[x] + CommentAt(ins[x])
    BY <2>5, Zenon DEF OneComment, Inserted
  <2>8. d = CommentAt(ins[x])
    BY <2>6, <2>7, Zenon DEF HasComment
  <2>9. p = cp[j][k]
    BY <2>2, <2>7, <2>8, Zenon
  <2> QED
    BY <2>9, Zenon
<1> QED
  BY <1>2, <1>3, <1>4

(***************************************************************************)
(* The tokens and the comments of cs in w: tp[k] is the position of token  *)
(* k, cp[j][k] that of comment k of token j, and the rest of w is spaces   *)
(* and line breaks.  first are the tokens the lines started with.          *)
(***************************************************************************)
Positions(w, n, cs, tp, cp) ==
  /\ \A k \in 1..n : tp[k] \in 1..Len(w) /\ w[tp[k]].k = "tok" /\ w[tp[k]].v = k
  /\ \A j \in 1..(n + 1) : \A k \in 1..Len(cs[j]) :
       /\ cp[j][k] \in 1..Len(w) /\ w[cp[j][k]].v = cs[j][k].id
       /\ w[cp[j][k]].k = IF cs[j][k].line THEN "line" ELSE "block"

PositionsRise(n, cs, tp, cp) ==
  /\ \A j, k \in 1..n : j < k => tp[j] < tp[k]
  /\ \A j \in 1..(n + 1) : \A k, z \in 1..Len(cs[j]) : k < z => cp[j][k] < cp[j][z]
  /\ \A j \in 1..(n + 1) : \A k \in 1..Len(cs[j]) :
       (j > 1 => tp[j - 1] < cp[j][k]) /\ (j <= n => cp[j][k] < tp[j])

NothingElse(w, n, cs, tp, cp) ==
  \A p \in 1..Len(w) :
    w[p].k \notin {"sp", "nl"} =>
      \/ \E k \in 1..n : p = tp[k]
      \/ \E j \in 1..(n + 1) : \E k \in 1..Len(cs[j]) : p = cp[j][k]

\* There is a line break between the positions a and c.
BreakIn(w, a, c) == \E q \in 1..Len(w) : a < q /\ q < c /\ w[q].k = "nl"

\* A line comment is the last of its line.
LinesEnd(w, n, cs, cp) ==
  \A j \in 1..(n + 1) : \A k \in 1..Len(cs[j]) :
    cs[j][k].line =>
      \A p \in 1..Len(w) : cp[j][k] < p /\ w[p].k \notin {"sp", "nl"} => BreakIn(w, cp[j][k], p)

\* Comments that follow a token do so, and the first that does not has a line
\* break before it.
StayOnLine(w, cs, first, tp, cp) ==
  \A j \in first : \A k \in 1..Len(cs[j]) :
    OnPrevLine(cs[j], k) => \A q \in 1..Len(w) : tp[j - 1] < q /\ q <= cp[j][k] => w[q].k # "nl"

StayOffLine(w, cs, first, tp, cp) ==
  \A j \in first : \A k \in 1..Len(cs[j]) :
    ~OnPrevLine(cs[j], k) /\ (k = 1 \/ OnPrevLine(cs[j], k - 1)) =>
      BreakIn(w, IF k = 1 THEN tp[j - 1] ELSE cp[j][k - 1], cp[j][k])

Placed(w, n, cs, first, tp, cp) ==
  /\ w \in Seq(TextPiece)
  /\ Positions(w, n, cs, tp, cp) /\ PositionsRise(n, cs, tp, cp) /\ NothingElse(w, n, cs, tp, cp)
  /\ LinesEnd(w, n, cs, cp) /\ StayOnLine(w, cs, first, tp, cp) /\ StayOffLine(w, cs, first, tp, cp)

\* A comment that comes later is put after the text of this one.
LEMMA TextsInOrder ==
  ASSUME NEW out, NEW n, NEW st, NEW en, NEW cs, NEW ins, NEW o, NEW w, NEW g, NEW h,
         Spliced(out, n, st, en, cs, ins, o, w, g, h),
         NEW j \in 1..(n + 1), NEW k \in 1..Len(cs[j]), NEW x,
         OneComment(out, n, st, en, cs, ins, o, w, g, h, j, k, x),
         NEW l \in 1..(n + 1), NEW z \in 1..Len(cs[l]), NEW y,
         OneComment(out, n, st, en, cs, ins, o, w, g, h, l, z, y), j < l \/ (j = l /\ k < z)
  PROVE  h[x] + Len(ins[x].text) <= h[y]
<1>1. x < y /\ ins[x].at <= ins[y].at
  <2>1. o[j - 1] + k < o[l - 1] + z /\ ins[o[j - 1] + k].at <= ins[o[l - 1] + z].at
    BY PlacesRise
  <2> QED
    BY <2>1, Zenon DEF OneComment
<1>2. x \in 1..Len(ins) /\ y \in 1..Len(ins) /\ TextsIn(ins, w, h)
  BY Zenon DEF OneComment, Spliced, Merged
<1> QED
  BY <1>1, <1>2, Zenon DEF TextsIn

\* The position c of a comment, in numbers.
LEMMA CommentIn ==
  ASSUME NEW out, NEW n, NEW st, NEW en, NEW cs, NEW ins, NEW o, NEW w, NEW g, NEW h,
         Spliced(out, n, st, en, cs, ins, o, w, g, h),
         NEW j \in 1..(n + 1), NEW k \in 1..Len(cs[j]), NEW x,
         OneComment(out, n, st, en, cs, ins, o, w, g, h, j, k, x),
         NEW cp, cp = CommentsAt(n, cs, ins, o, h)
  PROVE  /\ cp[j][k] \in 1..Len(w) /\ h[x] \in Nat /\ Len(ins[x].text) \in Nat /\ Len(w) \in Nat
         /\ cp[j][k] = h[x] + CommentAt(ins[x]) /\ CommentAt(ins[x]) \in 1..Len(ins[x].text)
         /\ h[x] < cp[j][k] /\ cp[j][k] <= h[x] + Len(ins[x].text)
<1>1. cp[j][k] \in 1..Len(w) /\ h[x] < cp[j][k] /\ cp[j][k] <= h[x] + Len(ins[x].text)
  BY CommentPlace
<1>2. /\ h[x] \in Nat /\ Len(ins[x].text) \in Nat
      /\ cp[j][k] = h[x] + CommentAt(ins[x]) /\ CommentAt(ins[x]) \in 1..Len(ins[x].text)
  BY Zenon DEF OneComment
<1>3. Len(w) \in Nat
  <2>1. w \in Seq(TextPiece)
    BY Zenon DEF Spliced
  <2> QED
    BY <2>1
<1> QED
  BY <1>1, <1>2, <1>3

\* The tokens and the comments are in w, in order, and nothing else is.
LEMMA SplicedRises ==
  ASSUME NEW out, NEW n, NEW st, NEW en, NEW cs, NEW ins, NEW o, NEW w, NEW g, NEW h,
         Spliced(out, n, st, en, cs, ins, o, w, g, h),
         NEW tp, tp = TokensAt(n, st, g), NEW cp, cp = CommentsAt(n, cs, ins, o, h)
  PROVE  Positions(w, n, cs, tp, cp) /\ PositionsRise(n, cs, tp, cp) /\ NothingElse(w, n, cs, tp, cp)
<1>1. \A j \in 1..(n + 1) : \A k \in 1..Len(cs[j]) :
        OneComment(out, n, st, en, cs, ins, o, w, g, h, j, k, o[j - 1] + k)
  BY OneCommentIs, Zenon
<1>2. \A k \in 1..n : OneToken(out, st, en, w, g, tp, k)
  BY OneTokenIs
<1>3. \A k \in 1..n : tp[k] \in 1..Len(w) /\ w[tp[k]].k = "tok" /\ w[tp[k]].v = k
  BY <1>2, Zenon DEF OneToken
<1>4. \A j \in 1..(n + 1) : \A k \in 1..Len(cs[j]) :
        /\ cp[j][k] \in 1..Len(w) /\ w[cp[j][k]].v = cs[j][k].id
        /\ w[cp[j][k]].k = IF cs[j][k].line THEN "line" ELSE "block"
  <2> SUFFICES ASSUME NEW j \in 1..(n + 1), NEW k \in 1..Len(cs[j])
               PROVE  /\ cp[j][k] \in 1..Len(w) /\ w[cp[j][k]].v = cs[j][k].id
                      /\ w[cp[j][k]].k = IF cs[j][k].line THEN "line" ELSE "block"
    OBVIOUS
  <2>1. OneComment(out, n, st, en, cs, ins, o, w, g, h, j, k, o[j - 1] + k)
    BY <1>1
  <2> QED
    BY <2>1, CommentPlace
<1>5. \A j, k \in 1..n : j < k => tp[j] < tp[k]
  BY TokensInPlace
<1>6. \A j \in 1..(n + 1) : \A k, z \in 1..Len(cs[j]) : k < z => cp[j][k] < cp[j][z]
  <2> SUFFICES ASSUME NEW j \in 1..(n + 1), NEW k \in 1..Len(cs[j]), NEW z \in 1..Len(cs[j]), k < z
               PROVE  cp[j][k] < cp[j][z]
    OBVIOUS
  <2> DEFINE x == o[j - 1] + k
             y == o[j - 1] + z
  <2>1. /\ OneComment(out, n, st, en, cs, ins, o, w, g, h, j, k, x)
        /\ OneComment(out, n, st, en, cs, ins, o, w, g, h, j, z, y)
    BY <1>1
  <2> HIDE DEF x, y
  <2>2. h[x] + Len(ins[x].text) <= h[y]
    BY <2>1, TextsInOrder
  <2>3. /\ cp[j][k] \in 1..Len(w) /\ h[x] \in Nat /\ Len(ins[x].text) \in Nat
        /\ cp[j][k] <= h[x] + Len(ins[x].text)
    BY <2>1, CommentIn
  <2>4. cp[j][z] \in 1..Len(w) /\ h[y] \in Nat /\ h[y] < cp[j][z] /\ Len(w) \in Nat
    BY <2>1, CommentIn
  <2> QED
    BY SMTT(30), <2>2, <2>3, <2>4
<1>7. \A j \in 1..(n + 1) : \A k \in 1..Len(cs[j]) :
        (j > 1 => tp[j - 1] < cp[j][k]) /\ (j <= n => cp[j][k] < tp[j])
  <2> SUFFICES ASSUME NEW j \in 1..(n + 1), NEW k \in 1..Len(cs[j])
               PROVE  (j > 1 => tp[j - 1] < cp[j][k]) /\ (j <= n => cp[j][k] < tp[j])
    OBVIOUS
  <2> DEFINE x == o[j - 1] + k
  <2>1. OneComment(out, n, st, en, cs, ins, o, w, g, h, j, k, x)
    BY <1>1
  <2> HIDE DEF x
  <2>2. (j > 1 => tp[j - 1] <= h[x]) /\ (j <= n => h[x] + Len(ins[x].text) < tp[j])
    BY <2>1, CommentBetween
  <2>3. /\ cp[j][k] \in 1..Len(w) /\ h[x] \in Nat /\ Len(ins[x].text) \in Nat /\ Len(w) \in Nat
        /\ cp[j][k] <= h[x] + Len(ins[x].text) /\ h[x] < cp[j][k]
    BY <2>1, CommentIn
  <2>4. n \in Nat
    BY DEF Spliced, CommentsFor
  <2>5. j > 1 => tp[j - 1] \in 1..Len(w)
    <3>1. j > 1 => j - 1 \in 1..n
      BY <2>4
    <3> QED
      BY <1>3, <3>1
  <2>6. j <= n => tp[j] \in 1..Len(w)
    <3>1. j <= n => j \in 1..n
      BY <2>4
    <3> QED
      BY <1>3, <3>1
  <2> QED
    BY <2>2, <2>3, <2>5, <2>6
<1>8. NothingElse(w, n, cs, tp, cp)
  <2> SUFFICES ASSUME NEW p \in 1..Len(w), w[p].k \notin {"sp", "nl"}
               PROVE  \/ \E k \in 1..n : p = tp[k]
                      \/ \E j \in 1..(n + 1) : \E k \in 1..Len(cs[j]) : p = cp[j][k]
    BY Zenon DEF NothingElse
  <2> QED
    BY InkIs
<1> QED
  BY <1>3, <1>4, <1>5, <1>6, <1>7, <1>8, Zenon DEF Positions, PositionsRise

\* What comes after a comment: the token it is for, or a later comment of it.
LEMMA LaterInk ==
  ASSUME NEW w, w \in Seq(TextPiece), NEW n, NEW cs, CommentsFor(n, cs), NEW tp, NEW cp,
         Positions(w, n, cs, tp, cp), PositionsRise(n, cs, tp, cp), NothingElse(w, n, cs, tp, cp),
         NEW j \in 1..(n + 1), NEW k \in 1..Len(cs[j]),
         NEW p \in 1..Len(w), w[p].k \notin {"sp", "nl"}, cp[j][k] < p
  PROVE  (j <= n /\ tp[j] <= p) \/ (\E z \in 1..Len(cs[j]) : k < z /\ p = cp[j][z])
<1>1. n \in Nat /\ Len(w) \in Nat
  BY DEF CommentsFor
<1>2. \A l \in 1..n : tp[l] \in Nat
  BY <1>1 DEF Positions
<1>3. \A l \in 1..(n + 1) : \A z \in 1..Len(cs[l]) : cp[l][z] \in Nat
  BY <1>1 DEF Positions
<1>4. \A a, c \in 1..n : a <= c => tp[a] <= tp[c]
  <2> SUFFICES ASSUME NEW a \in 1..n, NEW c \in 1..n, a <= c PROVE tp[a] <= tp[c]
    OBVIOUS
  <2>1. a = c \/ a < c
    BY <1>1
  <2>2. a < c => tp[a] < tp[c]
    BY DEF PositionsRise
  <2>3. tp[a] \in Nat /\ tp[c] \in Nat
    BY <1>2
  <2> QED
    BY <2>1, <2>2, <2>3
<1>5. \A l \in 1..(n + 1) : \A z \in 1..Len(cs[l]) :
        (l > 1 => tp[l - 1] < cp[l][z]) /\ (l <= n => cp[l][z] < tp[l])
  BY Zenon DEF PositionsRise
<1>6. ASSUME NEW l \in 1..n, p = tp[l]
      PROVE  j <= n /\ tp[j] <= p
  <2>1. ~ (l < j)
    <3> SUFFICES ASSUME l < j PROVE FALSE
      OBVIOUS
    <3>1. j - 1 \in 1..n /\ l <= j - 1 /\ j > 1
      BY <1>1
    <3>2. tp[l] <= tp[j - 1] /\ tp[j - 1] < cp[j][k]
      BY <1>4, <1>5, <3>1
    <3>3. tp[l] \in Nat /\ tp[j - 1] \in Nat /\ cp[j][k] \in Nat
      BY <1>2, <1>3, <3>1
    <3> QED
      BY <1>6, <3>2, <3>3
  <2>2. j \in 1..n /\ j <= l
    BY <1>1, <2>1
  <2>3. tp[j] <= tp[l]
    BY <1>4, <2>2
  <2> QED
    BY <1>6, <2>2, <2>3
<1>7. ASSUME NEW l \in 1..(n + 1), NEW z \in 1..Len(cs[l]), p = cp[l][z]
      PROVE  (j <= n /\ tp[j] <= p) \/ (l = j /\ k < z)
  <2>1. CASE l < j
    <3>1. j - 1 \in 1..n /\ l \in 1..n /\ l <= j - 1 /\ j > 1 /\ l <= n
      BY <1>1, <2>1
    <3>2. cp[l][z] < tp[l] /\ tp[l] <= tp[j - 1] /\ tp[j - 1] < cp[j][k]
      BY <1>4, <1>5, <3>1
    <3>3. tp[l] \in Nat /\ tp[j - 1] \in Nat /\ cp[j][k] \in Nat /\ cp[l][z] \in Nat
      BY <1>2, <1>3, <3>1
    <3> QED
      BY <1>7, <3>2, <3>3
  <2>2. CASE l = j
    <3>1. Len(cs[j]) \in Nat
      BY DEF CommentsFor
    <3>2. z < k => cp[j][z] < cp[j][k]
      BY <2>2 DEF PositionsRise
    <3>3. cp[j][k] \in Nat /\ cp[j][z] \in Nat
      BY <1>3, <2>2
    <3>4. z # k /\ ~ (z < k)
      BY <1>7, <2>2, <3>2, <3>3
    <3>5. k < z
      BY <2>2, <3>1, <3>4
    <3> QED
      BY <2>2, <3>5
  <2>3. CASE j < l
    <3>1. l - 1 \in 1..n /\ j \in 1..n /\ j <= l - 1 /\ l > 1 /\ j <= n
      BY <1>1, <2>3
    <3>2. tp[j] <= tp[l - 1] /\ tp[l - 1] < cp[l][z]
      BY <1>4, <1>5, <3>1
    <3>3. tp[j] \in Nat /\ tp[l - 1] \in Nat /\ cp[l][z] \in Nat
      BY <1>2, <1>3, <3>1
    <3>4. tp[j] <= cp[l][z]
      BY <3>2, <3>3
    <3> QED
      BY <1>7, <3>1, <3>4
  <2> QED
    BY <1>1, <2>1, <2>2, <2>3
<1>8. \/ \E l \in 1..n : p = tp[l]
      \/ \E l \in 1..(n + 1) : \E z \in 1..Len(cs[l]) : p = cp[l][z]
  BY Zenon DEF NothingElse
<1>9. CASE \E l \in 1..n : p = tp[l]
  BY <1>6, <1>9
<1>10. CASE \E l \in 1..(n + 1) : \E z \in 1..Len(cs[l]) : p = cp[l][z]
  BY <1>7, <1>10, Zenon
<1> QED
  BY <1>8, <1>9, <1>10

\* The line break before token j, which starts a line, in w.
LEMMA BreakKept ==
  ASSUME NEW out, NEW n, NEW st, NEW en, NEW cs, NEW ins, NEW o, NEW w, NEW g, NEW h,
         Spliced(out, n, st, en, cs, ins, o, w, g, h), NEW tp, tp = TokensAt(n, st, g),
         NEW j \in LineFirst(out, n, st), j # n + 1
  PROVE  \E a \in 1..Len(out) :
           /\ j \in 1..n /\ en[j - 1] < a /\ a <= st[j] /\ st[j] \in Nat
           /\ g[a] \in 1..Len(w) /\ w[g[a]].k = "nl" /\ g[a] < tp[j] /\ tp[j - 1] < g[a]
<1>1. Printed(out, n, st, en) /\ PiecesKept(out, w, g)
  BY Zenon DEF Spliced, Merged
<1>2. n \in Nat
  BY <1>1 DEF Printed
<1>3. j \in 2..n /\ j \in 1..n /\ j - 1 \in 1..n /\ AtLineStart(out, st[j])
  BY <1>2 DEF LineFirst
<1>4. PICK a \in 1..Len(out) : out[a].k = "nl" /\ en[j - 1] < a /\ a <= st[j]
  BY <1>1, <1>3, BreakBefore
<1>5. g[a] \in 1..Len(w) /\ w[g[a]].k = "nl"
  BY <1>1, <1>4, Zenon DEF PiecesKept
<1>6. OneToken(out, st, en, w, g, tp, j)
  BY <1>3, OneTokenIs
<1>7. st[j] + 1 \in 1..Len(out) /\ st[j] \in Nat /\ tp[j] = g[st[j] + 1]
  BY <1>6, Zenon DEF OneToken
<1> DEFINE b1 == j - 1
<1>8. OneToken(out, st, en, w, g, tp, b1)
  BY <1>3, OneTokenIs
<1>9. st[b1] + 1 \in 1..Len(out) /\ st[b1] + 1 <= en[b1] /\ en[b1] \in Nat /\ tp[b1] = g[st[b1] + 1]
  BY <1>8, Zenon DEF OneToken
<1>10. en[b1] < a
  BY <1>4
<1> HIDE DEF b1
<1>11. a < st[j] + 1 /\ st[b1] + 1 < a
  BY <1>4, <1>7, <1>9, <1>10
<1>12. g[a] < tp[j] /\ tp[b1] < g[a]
  BY <1>1, <1>7, <1>9, <1>11, Zenon DEF PiecesKept
<1> QED
  BY <1>3, <1>4, <1>5, <1>7, <1>12 DEF b1

\* placeComments breaks the line after every line comment that has something after it.
LEMMA SplicedLinesEnd ==
  ASSUME NEW out, NEW n, NEW st, NEW en, NEW cs, NEW ins, NEW o, NEW w, NEW g, NEW h,
         Spliced(out, n, st, en, cs, ins, o, w, g, h),
         NEW tp, tp = TokensAt(n, st, g), NEW cp, cp = CommentsAt(n, cs, ins, o, h)
  PROVE  LinesEnd(w, n, cs, cp)
<1> SUFFICES ASSUME NEW j \in 1..(n + 1), NEW k \in 1..Len(cs[j]), cs[j][k].line,
                    NEW p \in 1..Len(w), cp[j][k] < p, w[p].k \notin {"sp", "nl"}
             PROVE  \E q \in 1..Len(w) : cp[j][k] < q /\ q < p /\ w[q].k = "nl"
  BY Zenon DEF LinesEnd, BreakIn
<1> DEFINE x == o[j - 1] + k
           first == LineFirst(out, n, st)
           s == ins[x]
<1>1. /\ Printed(out, n, st, en) /\ CommentsFor(n, cs) /\ Merged(out, ins, w, g, h)
      /\ TextsIn(ins, w, h) /\ w \in Seq(TextPiece)
  BY Zenon DEF Spliced, Merged
<1>2. Positions(w, n, cs, tp, cp) /\ PositionsRise(n, cs, tp, cp) /\ NothingElse(w, n, cs, tp, cp)
  BY SplicedRises
<1>3. OneComment(out, n, st, en, cs, ins, o, w, g, h, j, k, x)
  BY OneCommentIs
<1>4. (j <= n /\ tp[j] <= p) \/ (\E z \in 1..Len(cs[j]) : k < z /\ p = cp[j][z])
  BY <1>1, <1>2, LaterInk
<1> HIDE DEF x
<1>5. /\ cp[j][k] \in 1..Len(w) /\ h[x] \in Nat /\ Len(s.text) \in Nat /\ Len(w) \in Nat
      /\ cp[j][k] = h[x] + CommentAt(s) /\ CommentAt(s) \in 1..Len(s.text)
      /\ cp[j][k] <= h[x] + Len(s.text)
  BY <1>3, CommentIn
<1>6. /\ InLinePlace(out, n, st, en, j, cs[j][k], OnPrevLine(cs[j], k), s)
      /\ BetweenTokens(out, n, st, en, j, s) /\ x \in 1..Len(ins)
  BY <1>3, Zenon DEF OneComment, Inserted
<1>7. n \in Nat /\ Len(cs[j]) \in Nat
  BY <1>1 DEF CommentsFor
\* The next comment is not on the line of the token before.
<1>8. ASSUME NEW z \in 1..Len(cs[j]), k < z PROVE ~OnPrevLine(cs[j], z)
  <2>1. k \in Nat \ {0} /\ z \in Nat
    BY <1>7
  <2> QED
    BY <1>8, <2>1, PrevLineFirst, Zenon
\* It has a text y.
<1>9. ASSUME NEW z \in 1..Len(cs[j]), k < z, p = cp[j][z]
      PROVE  \E y \in 1..Len(ins) :
               /\ OneComment(out, n, st, en, cs, ins, o, w, g, h, j, z, y)
               /\ InLinePlace(out, n, st, en, j, cs[j][z], OnPrevLine(cs[j], z), ins[y])
               /\ h[x] + Len(s.text) <= h[y] /\ h[y] \in Nat /\ p = h[y] + CommentAt(ins[y])
               /\ CommentAt(ins[y]) \in 1..Len(ins[y].text) /\ Len(ins[y].text) \in Nat
  <2> DEFINE y == o[j - 1] + z
  <2>1. OneComment(out, n, st, en, cs, ins, o, w, g, h, j, z, y)
    BY OneCommentIs
  <2> HIDE DEF y
  <2>2. h[x] + Len(s.text) <= h[y]
    BY <1>3, <1>9, <2>1, TextsInOrder
  <2>3. /\ h[y] \in Nat /\ cp[j][z] = h[y] + CommentAt(ins[y])
        /\ CommentAt(ins[y]) \in 1..Len(ins[y].text) /\ Len(ins[y].text) \in Nat
    BY <2>1, CommentIn
  <2>4. y \in 1..Len(ins) /\ InLinePlace(out, n, st, en, j, cs[j][z], OnPrevLine(cs[j], z), ins[y])
    BY <2>1, Zenon DEF OneComment, Inserted
  <2> QED
    BY <1>9, <2>1, <2>2, <2>3, <2>4
<1> DEFINE m == Len(s.text)
           u == h[x]
           d == CommentAt(s)
           e == cp[j][k]
<1>13. e \in Nat /\ u \in Nat /\ m \in Nat /\ d \in 1..m /\ e = u + d /\ d \in Nat /\ p \in Nat
  BY <1>5
<1> HIDE DEF first, s, m, u, d, e
<1>10. CASE j = n + 1
  <2>1. PICK z \in 1..Len(cs[j]) : k < z /\ p = cp[j][z]
    BY <1>4, <1>7, <1>10
  <2>2. PICK y \in 1..Len(ins) :
               /\ InLinePlace(out, n, st, en, j, cs[j][z], OnPrevLine(cs[j], z), ins[y])
               /\ h[x] + Len(s.text) <= h[y] /\ h[y] \in Nat /\ p = h[y] + CommentAt(ins[y])
               /\ CommentAt(ins[y]) \in 1..Len(ins[y].text) /\ Len(ins[y].text) \in Nat
    BY <1>9, <2>1, Zenon
  <2>3. ~OnPrevLine(cs[j], z)
    BY <1>8, <2>1
  <2>4. ins[y].text[1].k = "nl"
    BY <1>10, <2>2, <2>3 DEF InLinePlace
  <2>5. CommentAt(ins[y]) = 2
    BY <2>4 DEF CommentAt
  <2>6. 1 \in 1..Len(ins[y].text)
    BY <2>2, <2>5
  <2>7. h[y] + 1 \in 1..Len(w) /\ w[h[y] + 1] = ins[y].text[1]
    BY <1>1, <2>6, Zenon DEF TextsIn
  <2>8. cp[j][k] < h[y] + 1 /\ h[y] + 1 < p
    <3>1. u + m <= h[y] /\ h[y] \in Nat /\ p = h[y] + 2
      BY <2>2, <2>5, Zenon DEF u, m
    <3>2. e < h[y] + 1 /\ h[y] + 1 < p
      BY <1>13, <3>1
    <3> QED
      BY <3>2 DEF e
  <2> QED
    BY <2>4, <2>7, <2>8
<1>11. CASE j # n + 1 /\ j \in LineFirst(out, n, st) /\ OnPrevLine(cs[j], k)
  <2>1. PICK a \in 1..Len(out) :
          /\ j \in 1..n /\ en[j - 1] < a /\ a <= st[j] /\ st[j] \in Nat
          /\ g[a] \in 1..Len(w) /\ w[g[a]].k = "nl" /\ g[a] < tp[j] /\ tp[j - 1] < g[a]
    BY SMTT(30), <1>11, BreakKept
  <2>2. s.at = en[j - 1] /\ s.at \in Nat
    <3>1. s.at \in 0..Len(out)
      BY <1>3, Zenon DEF OneComment, s
    <3> QED
      BY <1>6, <1>11, <3>1 DEF InLinePlace
  <2>3. h[x] + Len(s.text) < g[a]
    <3>1. ~ (a <= s.at)
      BY <2>1, <2>2
    <3> QED
      BY <1>1, <1>6, <3>1, Zenon DEF Merged, s
  <2>4. cp[j][k] < g[a]
    <3>1. u + m < g[a]
      BY <2>3, Zenon DEF u, m
    <3>2. g[a] \in Nat
      BY <1>5, <2>1
    <3>3. e < g[a]
      BY <1>13, <3>1, <3>2
    <3> QED
      BY <3>3 DEF e
  <2>5. g[a] < p
    <3>1. CASE j <= n /\ tp[j] <= p
      <4>1. tp[j] \in Nat
        <5>1. tp[j] \in 1..Len(w)
          BY <1>2, <2>1, Zenon DEF Positions
        <5> QED
          BY <1>5, <5>1
      <4> QED
        BY <2>1, <3>1, <4>1
    <3>2. CASE \E z \in 1..Len(cs[j]) : k < z /\ p = cp[j][z]
      <4>1. PICK z \in 1..Len(cs[j]) : k < z /\ p = cp[j][z]
        BY <3>2
      <4>2. PICK y \in 1..Len(ins) :
               /\ OneComment(out, n, st, en, cs, ins, o, w, g, h, j, z, y)
               /\ InLinePlace(out, n, st, en, j, cs[j][z], OnPrevLine(cs[j], z), ins[y])
               /\ h[y] \in Nat /\ p = h[y] + CommentAt(ins[y])
               /\ CommentAt(ins[y]) \in 1..Len(ins[y].text) /\ Len(ins[y].text) \in Nat
        BY <1>9, <4>1, Zenon
      <4>3. ins[y].at = st[j]
        BY <1>8, <1>11, <4>1, <4>2 DEF InLinePlace
      <4>4. g[a] <= h[y]
        BY <1>1, <2>1, <4>2, <4>3, Zenon DEF Merged
      <4> QED
        BY SMTT(30), <2>1, <4>2, <4>4
    <3> QED
      BY <1>4, <3>1, <3>2
  <2> QED
    BY <2>1, <2>4, <2>5
<1>12. CASE j # n + 1 /\ ~ (j \in LineFirst(out, n, st) /\ OnPrevLine(cs[j], k))
  <2>1. CommentAt(s) + 1 \in 1..Len(s.text) /\ s.text[CommentAt(s) + 1].k = "nl"
    BY <1>6, <1>12 DEF InLinePlace
  <2>2. h[x] + (CommentAt(s) + 1) \in 1..Len(w) /\ w[h[x] + (CommentAt(s) + 1)].k = "nl"
    BY <1>1, <1>6, <2>1, Zenon DEF TextsIn, s
  <2>3. h[x] + (CommentAt(s) + 1) = cp[j][k] + 1
    <3>1. u + (d + 1) = e + 1
      BY <1>13
    <3> QED
      BY <3>1 DEF u, d, e
  <2>4. cp[j][k] + 1 \in 1..Len(w) /\ w[cp[j][k] + 1].k = "nl"
    BY <2>2, <2>3, Zenon
  <2>5. cp[j][k] + 1 # p
    BY <2>4
  <2>6. cp[j][k] < cp[j][k] + 1 /\ cp[j][k] + 1 < p
    BY <1>5, <2>5
  <2> QED
    BY <2>4, <2>6
<1> QED
  BY <1>10, <1>11, <1>12

\* Comments on the line of the token before are put on that line.
LEMMA SplicedStayOn ==
  ASSUME NEW out, NEW n, NEW st, NEW en, NEW cs, NEW ins, NEW o, NEW w, NEW g, NEW h,
         Spliced(out, n, st, en, cs, ins, o, w, g, h),
         NEW tp, tp = TokensAt(n, st, g), NEW cp, cp = CommentsAt(n, cs, ins, o, h)
  PROVE  StayOnLine(w, cs, LineFirst(out, n, st), tp, cp)
<1>1. /\ Printed(out, n, st, en) /\ CommentsFor(n, cs) /\ Merged(out, ins, w, g, h)
      /\ AllInserted(out, n, st, en, cs, ins, o)
      /\ TextsIn(ins, w, h) /\ PiecesKept(out, w, g) /\ w \in Seq(TextPiece)
  BY Zenon DEF Spliced, Merged
<1>2. n \in Nat
  BY <1>1 DEF CommentsFor
<1>3. \A j \in LineFirst(out, n, st) : j \in 1..(n + 1) /\ j > 1 /\ j - 1 \in 1..n
  <2>1. n # 0
    BY <1>1 DEF CommentsFor
  <2> QED
    BY <1>2, <2>1 DEF LineFirst
<1> SUFFICES ASSUME NEW j \in LineFirst(out, n, st), NEW k \in 1..Len(cs[j]), OnPrevLine(cs[j], k),
                    NEW q \in 1..Len(w), tp[j - 1] < q, q <= cp[j][k], w[q].k = "nl"
             PROVE  FALSE
  BY Zenon DEF StayOnLine
<1> DEFINE x == o[j - 1] + k
<1>4. OneComment(out, n, st, en, cs, ins, o, w, g, h, j, k, x)
  BY <1>3, OneCommentIs
<1> HIDE DEF x
<1>5. /\ cp[j][k] \in 1..Len(w) /\ h[x] \in Nat /\ Len(ins[x].text) \in Nat /\ Len(w) \in Nat
      /\ cp[j][k] <= h[x] + Len(ins[x].text)
  BY <1>3, <1>4, CommentIn
<1>6. /\ InLinePlace(out, n, st, en, j, cs[j][k], OnPrevLine(cs[j], k), ins[x])
      /\ x \in 1..Len(ins) /\ ins[x].at \in 0..Len(out)
  BY <1>4, Zenon DEF OneComment, Inserted
<1>7. ins[x].at = en[j - 1]
  BY <1>6 DEF InLinePlace
<1> DEFINE i1 == j - 1
           a1 == st[i1]
<1>8. OneToken(out, st, en, w, g, tp, i1)
  BY <1>3, OneTokenIs
<1>9. /\ tp[i1] = g[a1 + 1] /\ a1 + 1 \in 1..Len(out) /\ a1 \in Nat /\ en[i1] \in Nat /\ tp[i1] \in Nat
      /\ a1 + 1 <= en[i1]
  <2>1. tp[i1] \in 1..Len(w)
    BY <1>8, Zenon DEF OneToken
  <2> QED
    BY <1>5, <1>8, <2>1 DEF OneToken
<1>10. tp[i1] < q /\ ins[x].at = en[i1] /\ i1 \in 1..n /\ \A m \in (a1 + 2)..en[i1] : out[m].k = "sp"
  BY <1>1, <1>3, <1>7 DEF Printed
<1>11. q \in Nat /\ Len(out) \in Nat
  BY <1>1 DEF Printed
<1>12. \/ \E a \in 1..Len(out) : q = g[a]
       \/ \E y \in 1..Len(ins) : \E d \in 1..Len(ins[y].text) : q = h[y] + d
  BY <1>1, Zenon DEF Merged
\* The break is not a piece of the output: only spaces are between.
<1>13. ASSUME NEW a \in 1..Len(out), q = g[a] PROVE FALSE
  <2> HIDE DEF i1, a1
  <2>1. out[a].k = "nl"
    <3>1. w[q] = out[a]
      BY <1>1, <1>13, Zenon DEF PiecesKept
    <3> QED
      BY <3>1
  <2>2. a <= en[i1]
    <3> SUFFICES ASSUME ~ (a <= en[i1]) PROVE FALSE
      OBVIOUS
    <3>1. ~ (a <= ins[x].at)
      BY <1>10
    <3>2. h[x] + Len(ins[x].text) < g[a]
      BY <1>1, <1>6, <3>1, Zenon DEF Merged
    <3>3. h[x] + Len(ins[x].text) < q
      BY <1>13, <3>2
    <3> QED
      BY <1>5, <1>11, <3>3
  <2>3. a1 + 1 < a
    <3> SUFFICES ASSUME ~ (a1 + 1 < a) PROVE FALSE
      OBVIOUS
    <3>1. a < a1 + 1 \/ a = a1 + 1
      BY <1>9, <1>11
    <3>2. a < a1 + 1 => g[a] < g[a1 + 1]
      BY <1>1, <1>9, Zenon DEF PiecesKept
    <3>3. a < a1 + 1 => q < tp[i1]
      BY <1>9, <1>13, <3>2
    <3>4. a = a1 + 1 => q = tp[i1]
      BY <1>9, <1>13
    <3> QED
      BY <1>9, <1>10, <1>11, <3>1, <3>3, <3>4
  <2>4. a \in (a1 + 2)..en[i1]
    BY <1>9, <2>2, <2>3
  <2> QED
    BY <1>10, <2>1, <2>4
\* Nor is it in the text of an insertion.
<1>14. ASSUME NEW y \in 1..Len(ins), NEW d \in 1..Len(ins[y].text), q = h[y] + d PROVE FALSE
  <2>1. PICK l \in 1..(n + 1) : \E z \in 1..Len(cs[l]) : y = o[l - 1] + z
    BY <1>1, Zenon DEF AllInserted
  <2>2. PICK z \in 1..Len(cs[l]) : y = o[l - 1] + z
    BY <2>1, Zenon
  <2>3. OneComment(out, n, st, en, cs, ins, o, w, g, h, l, z, y)
    BY <2>2, OneCommentIs
  <2>4. /\ h[y] \in Nat /\ Len(ins[y].text) \in Nat
    BY <2>3, CommentIn
  <2>5. w[q] = ins[y].text[d]
    BY <1>1, <1>14, Zenon DEF TextsIn
  <2>6. InLinePlace(out, n, st, en, l, cs[l][z], OnPrevLine(cs[l], z), ins[y]) /\ HasComment(cs[l][z], ins[y])
    BY <2>3, Zenon DEF OneComment, Inserted
  <2> DEFINE ux == h[x]
             mx == Len(ins[x].text)
             uy == h[y]
             my == Len(ins[y].text)
  <2>7. ux \in Nat /\ mx \in Nat /\ uy \in Nat /\ my \in Nat /\ d \in 1..my /\ q = uy + d
        /\ q <= ux + mx
    <3> DEFINE e == cp[j][k]
    <3>1. q <= e /\ e \in Nat /\ e <= ux + mx /\ ux \in Nat /\ mx \in Nat
      BY <1>5
    <3>2. uy \in Nat /\ my \in Nat /\ d \in 1..my /\ q = uy + d
      BY <1>14, <2>4
    <3> HIDE DEF e, ux, mx, uy, my
    <3>3. q <= ux + mx
      BY <1>11, <3>1
    <3> QED
      BY <3>1, <3>2, <3>3
  <2>8. CASE l < j
    <3>1. l <= n /\ l \in 1..n
      BY <1>2, <1>3, <2>8
    <3>2. h[y] + Len(ins[y].text) < tp[l]
      BY <2>3, <3>1, CommentBetween
    <3>3. tp[l] \in Nat /\ tp[l] <= tp[i1]
      <4>1. l < i1 => tp[l] < tp[i1]
        BY <1>10, <3>1, TokensInPlace
      <4>2. l < i1 \/ l = i1
        BY <1>2, <1>3, <2>8
      <4>3. OneToken(out, st, en, w, g, tp, l)
        BY <3>1, OneTokenIs
      <4>4. tp[l] \in Nat
        BY <1>5, <4>3 DEF OneToken
      <4> QED
        BY <1>9, <4>1, <4>2, <4>4
    <3> HIDE DEF uy, my, i1, a1
    <3>4. uy + my < tp[l]
      BY <3>2 DEF uy, my
    <3> QED
      BY SMTT(30), <1>9, <1>10, <2>7, <3>3, <3>4
  <2>9. CASE j < l \/ (j = l /\ k < z)
    <3>1. h[x] + Len(ins[x].text) <= h[y]
      BY <1>3, <1>4, <2>3, <2>9, TextsInOrder
    <3> HIDE DEF ux, mx, uy, my
    <3>2. ux + mx <= uy
      BY <3>1 DEF ux, mx, uy
    <3> QED
      BY <2>7, <3>2
  <2>10. CASE j = l /\ ~ (k < z)
    <3>1. Len(cs[j]) \in Nat /\ Len(cs[l]) \in Nat
      BY <1>1, <1>3, SMTT(30) DEF CommentsFor
    <3>2. OnPrevLine(cs[l], z)
      <4>1. z = k \/ (z < k /\ z \in Nat \ {0} /\ k \in Nat)
        BY <2>10, <3>1
      <4> QED
        BY <2>10, <4>1, PrevLineFirst, Zenon
    <3>3. Len(ins[y].text) = 2 /\ ins[y].text[1].k = "sp"
      BY <2>6, <2>10, <3>2 DEF InLinePlace
    <3>4. CommentAt(ins[y]) = 2
      BY <3>3 DEF CommentAt
    <3>5. d = 1 \/ d = 2
      BY <3>3
    <3>6. ins[y].text[2] = CommentPiece(cs[l][z]) /\ cs[l][z] \in CommentRecord
      BY <2>3, <2>6, <3>4, Zenon DEF HasComment, OneComment
    <3>7. ins[y].text[2].k # "nl"
      BY <3>6, PiecesAre
    <3> QED
      BY <2>5, <3>3, <3>5, <3>7
  <2> QED
    BY <1>2, <1>3, <2>8, <2>9, <2>10
<1> QED
  BY <1>12, <1>13, <1>14, Zenon

\* The first comment that is not on that line gets a line break before it.
LEMMA SplicedStayOff ==
  ASSUME NEW out, NEW n, NEW st, NEW en, NEW cs, NEW ins, NEW o, NEW w, NEW g, NEW h,
         Spliced(out, n, st, en, cs, ins, o, w, g, h),
         NEW tp, tp = TokensAt(n, st, g), NEW cp, cp = CommentsAt(n, cs, ins, o, h)
  PROVE  StayOffLine(w, cs, LineFirst(out, n, st), tp, cp)
<1>1. /\ Printed(out, n, st, en) /\ CommentsFor(n, cs) /\ Merged(out, ins, w, g, h)
      /\ TextsIn(ins, w, h) /\ PiecesKept(out, w, g) /\ w \in Seq(TextPiece)
  BY Zenon DEF Spliced, Merged
<1>2. n \in Nat
  BY <1>1 DEF CommentsFor
<1>3. \A j \in LineFirst(out, n, st) : j \in 1..(n + 1) /\ j > 1 /\ j - 1 \in 1..n
  <2>1. n # 0
    BY <1>1 DEF CommentsFor
  <2> QED
    BY <1>2, <2>1 DEF LineFirst
<1> SUFFICES ASSUME NEW j \in LineFirst(out, n, st), NEW k \in 1..Len(cs[j]), ~OnPrevLine(cs[j], k),
                    k = 1 \/ OnPrevLine(cs[j], k - 1)
             PROVE  \E q \in 1..Len(w) :
                      (IF k = 1 THEN tp[j - 1] ELSE cp[j][k - 1]) < q /\ q < cp[j][k] /\ w[q].k = "nl"
  BY Zenon DEF StayOffLine, BreakIn
<1> DEFINE x == o[j - 1] + k
           y == o[j - 1] + (k - 1)
           before == IF k = 1 THEN tp[j - 1] ELSE cp[j][k - 1]
<1>4. OneComment(out, n, st, en, cs, ins, o, w, g, h, j, k, x)
  BY <1>3, OneCommentIs
<1>5. Len(cs[j]) \in Nat
  BY <1>1, <1>3 DEF CommentsFor
<1>6. k # 1 => k - 1 \in 1..Len(cs[j]) /\ k - 1 < k
  BY <1>5
<1>7. k # 1 => OneComment(out, n, st, en, cs, ins, o, w, g, h, j, k - 1, y)
  BY <1>3, <1>6, OneCommentIs
<1> HIDE DEF x, y
<1>8. /\ cp[j][k] \in 1..Len(w) /\ h[x] \in Nat /\ Len(ins[x].text) \in Nat /\ Len(w) \in Nat
      /\ cp[j][k] = h[x] + CommentAt(ins[x]) /\ CommentAt(ins[x]) \in 1..Len(ins[x].text)
      /\ h[x] < cp[j][k]
  BY <1>3, <1>4, CommentIn
<1>9. /\ InLinePlace(out, n, st, en, j, cs[j][k], OnPrevLine(cs[j], k), ins[x])
      /\ x \in 1..Len(ins) /\ ins[x].at \in 0..Len(out)
  BY <1>4, Zenon DEF OneComment, Inserted
<1>10. tp[j - 1] <= h[x] /\ tp[j - 1] \in Nat
  <2>1. tp[j - 1] <= h[x]
    BY <1>3, <1>4, CommentBetween
  <2>2. OneToken(out, st, en, w, g, tp, j - 1)
    BY <1>3, OneTokenIs
  <2>3. tp[j - 1] \in 1..Len(w)
    BY <2>2, Zenon DEF OneToken
  <2> QED
    BY <1>8, <2>1, <2>3
\* The comment before, if there is one.
<1>11. ASSUME k # 1
       PROVE  /\ h[y] \in Nat /\ Len(ins[y].text) \in Nat /\ cp[j][k - 1] \in Nat
              /\ cp[j][k - 1] <= h[y] + Len(ins[y].text) /\ h[y] + Len(ins[y].text) <= h[x]
              /\ ins[y].at = en[j - 1] /\ y \in 1..Len(ins) /\ ins[y].at \in 0..Len(out)
  <2>1. OneComment(out, n, st, en, cs, ins, o, w, g, h, j, k - 1, y) /\ k - 1 \in 1..Len(cs[j]) /\ k - 1 < k
    BY <1>6, <1>7, <1>11
  <2>2. h[y] + Len(ins[y].text) <= h[x]
    BY <1>3, <1>4, <2>1, TextsInOrder
  <2>3. /\ h[y] \in Nat /\ Len(ins[y].text) \in Nat /\ cp[j][k - 1] \in 1..Len(w)
        /\ cp[j][k - 1] <= h[y] + Len(ins[y].text)
    BY <1>3, <2>1, CommentIn
  <2>4. /\ InLinePlace(out, n, st, en, j, cs[j][k - 1], OnPrevLine(cs[j], k - 1), ins[y])
        /\ y \in 1..Len(ins) /\ ins[y].at \in 0..Len(out)
    BY <2>1, Zenon DEF OneComment, Inserted
  <2>5. ins[y].at = en[j - 1]
    BY <1>11, <2>4 DEF InLinePlace
  <2> QED
    BY <1>8, <2>2, <2>3, <2>4, <2>5
<1>12. before <= h[x] /\ before \in Nat
  <2>1. CASE k = 1
    BY <1>10, <2>1
  <2>2. CASE k # 1
    <3> DEFINE uy == h[y]
               my == Len(ins[y].text)
               e == cp[j][k - 1]
               ux == h[x]
    <3>1. uy \in Nat /\ my \in Nat /\ e \in Nat /\ ux \in Nat /\ e <= uy + my /\ uy + my <= ux
      BY <1>8, <1>11, <2>2
    <3> HIDE DEF uy, my, e, ux
    <3>2. e <= ux
      BY <3>1
    <3> QED
      BY <2>2, <3>1, <3>2 DEF e, ux
  <2> QED
    BY <2>1, <2>2
<1>13. CASE j = n + 1
  <2>1. ins[x].text[1].k = "nl"
    BY <1>9, <1>13 DEF InLinePlace
  <2>2. CommentAt(ins[x]) = 2
    BY <2>1 DEF CommentAt
  <2>3. 1 \in 1..Len(ins[x].text)
    BY <1>8, <2>2
  <2>4. h[x] + 1 \in 1..Len(w) /\ w[h[x] + 1].k = "nl"
    BY <1>1, <1>9, <2>1, <2>3, Zenon DEF TextsIn
  <2>5. cp[j][k] = h[x] + 2
    BY <1>8, <2>2, Zenon
  <2> HIDE DEF before
  <2>6. before < h[x] + 1 /\ h[x] + 1 < cp[j][k]
    BY <1>8, <1>12, <2>5
  <2> QED
    BY <2>4, <2>6 DEF before
<1>14. CASE j # n + 1
  <2>1. PICK a \in 1..Len(out) :
          /\ j \in 1..n /\ en[j - 1] < a /\ a <= st[j] /\ st[j] \in Nat
          /\ g[a] \in 1..Len(w) /\ w[g[a]].k = "nl" /\ g[a] < tp[j] /\ tp[j - 1] < g[a]
    BY <1>14, BreakKept
  <2>2. ins[x].at = st[j]
    BY <1>9, <1>14 DEF InLinePlace
  <2>3. g[a] <= h[x]
    BY <1>1, <1>9, <2>1, <2>2, Zenon DEF Merged
  <2>4. g[a] < cp[j][k]
    <3>1. g[a] \in Nat /\ cp[j][k] \in Nat
      BY <1>8, <2>1
    <3> QED
      BY <1>8, <2>3, <3>1
  <2>5. before < g[a]
    <3>1. CASE k = 1
      BY <2>1, <3>1
    <3>2. CASE k # 1
      <4>1. en[j - 1] \in Nat /\ ~ (a <= ins[y].at)
        <5>1. ins[y].at \in Nat
          BY <1>11, <3>2
        <5> QED
          BY <1>11, <2>1, <3>2, <5>1
      <4>2. h[y] + Len(ins[y].text) < g[a]
        BY <1>1, <1>11, <3>2, <4>1, Zenon DEF Merged
      <4> DEFINE uy == h[y]
                 my == Len(ins[y].text)
                 e == cp[j][k - 1]
                 f == g[a]
      <4>3. uy \in Nat /\ my \in Nat /\ e \in Nat /\ f \in Nat /\ e <= uy + my /\ uy + my < f
        BY <1>8, <1>11, <2>1, <3>2, <4>2
      <4> HIDE DEF uy, my, e, f
      <4>4. e < f
        BY <4>3
      <4> QED
        BY <3>2, <4>4 DEF e, f
    <3> QED
      BY <3>1, <3>2
  <2> QED
    BY <2>1, <2>4, <2>5
<1> QED
  BY <1>13, <1>14

\* What placeComments makes before it trims.
LEMMA SplicedPlaced ==
  ASSUME NEW out, NEW n, NEW st, NEW en, Printed(out, n, st, en), NEW kind,
         NEW cs, CommentsFor(n, cs)
  PROVE  \E tp, cp : Placed(Splice(out, Insertions(out, kind, st, en, cs)), n, cs,
                            LineFirst(out, n, st), tp, cp)
<1> DEFINE ins == Insertions(out, kind, st, en, cs)
           w == Splice(out, ins)
<1>1. PICK o : AllInserted(out, n, st, en, cs, ins, o)
  BY InsertionsAre
<1> HIDE DEF ins
<1>2. out \in Seq(TextPiece) /\ ins \in Seq(Inserts(TextPiece, Len(out)))
  BY <1>1, Zenon DEF Printed, AllInserted
<1>3. w \in Seq(TextPiece) /\ \E g, h : Merged(out, ins, w, g, h)
  BY <1>2, SpliceMerges, Zenon
<1> HIDE DEF w
<1>4. PICK g, h : Merged(out, ins, w, g, h)
  BY <1>3
<1>5. Spliced(out, n, st, en, cs, ins, o, w, g, h)
  BY <1>1, <1>3, <1>4, Zenon DEF Spliced
<1> DEFINE tp == TokensAt(n, st, g)
           cp == CommentsAt(n, cs, ins, o, h)
<1>6. Positions(w, n, cs, tp, cp) /\ PositionsRise(n, cs, tp, cp) /\ NothingElse(w, n, cs, tp, cp)
  BY <1>5, SplicedRises
<1>7. LinesEnd(w, n, cs, cp)
  BY <1>5, SplicedLinesEnd
<1>8. StayOnLine(w, cs, LineFirst(out, n, st), tp, cp) /\ StayOffLine(w, cs, LineFirst(out, n, st), tp, cp)
  BY <1>5, SplicedStayOn, SplicedStayOff
<1> HIDE DEF tp, cp
<1>9. Placed(w, n, cs, LineFirst(out, n, st), tp, cp)
  BY <1>3, <1>6, <1>7, <1>8, Zenon DEF Placed
<1> QED
  BY <1>9 DEF w, ins

(***************************************************************************)
(* v is w from position d + 1 on, without the spaces and line breaks at    *)
(* both ends.                                                              *)
(***************************************************************************)
Trimmed(w, v, d) ==
  /\ d \in Nat /\ v \in Seq(TextPiece) /\ Len(v) \in Nat /\ Len(w) \in Nat
  /\ \A p \in 1..Len(v) : p + d \in 1..Len(w) /\ v[p] = w[p + d]
  /\ \A p \in 1..Len(w) : w[p].k \notin {"sp", "nl"} => d < p /\ p <= d + Len(v)

\* strings.TrimSpace cuts off spaces and line breaks and nothing else.
LEMMA TrimIs ==
  ASSUME NEW w \in Seq(TextPiece), NEW m \in 1..Len(w), w[m].k \notin {"sp", "nl"}
  PROVE  \E d : Trimmed(w, TrimSpace(w), d)
<1> DEFINE ink == {x \in DOMAIN w : w[x].k \notin {"sp", "nl"}}
           a == CHOOSE x \in ink : \A y \in ink : x <= y
           z == CHOOSE x \in ink : \A y \in ink : y <= x
<1>1. Len(w) \in Nat /\ ink \subseteq 1..Len(w) /\ ink \subseteq Nat /\ ink # {}
  OBVIOUS
<1>2. a \in ink /\ \A y \in ink : a <= y
  BY <1>1, LeastOf, Zenon
<1>3. z \in ink /\ \A y \in ink : y <= z
  BY <1>1, GreatestOf, Zenon
<1>4. TrimSpace(w) = SubSeq(w, a, z)
  BY <1>1, Zenon DEF TrimSpace, TrimTo
<1>5. \A x \in 1..Len(w) : w[x].k \notin {"sp", "nl"} => x \in ink
  OBVIOUS
<1> HIDE DEF ink, a, z
<1>6. a \in 1..Len(w) /\ z \in 1..Len(w) /\ a <= z
  BY <1>1, <1>2, <1>3
<1> DEFINE d == a - 1
           v == SubSeq(w, a, z)
<1>7. v \in Seq(TextPiece) /\ Len(v) = z - a + 1 /\ \A p \in 1..(z - a + 1) : v[p] = w[a + p - 1]
  BY <1>6
<1>8. \A p \in 1..Len(v) : p + d \in 1..Len(w) /\ v[p] = w[p + d]
  BY <1>1, <1>6, <1>7
<1>9. \A p \in 1..Len(w) : w[p].k \notin {"sp", "nl"} => a <= p /\ p <= z
  BY <1>2, <1>3, <1>5
<1>10. \A p \in 1..Len(w) : w[p].k \notin {"sp", "nl"} => d < p /\ p <= d + Len(v)
  BY <1>1, <1>6, <1>7, <1>9
<1>11. Trimmed(w, v, d)
  BY <1>1, <1>6, <1>7, <1>8, <1>10 DEF Trimmed
<1> QED
  BY <1>4, <1>11, Zenon

\* A position with something else than a space, in v.
LEMMA TrimmedAt ==
  ASSUME NEW w, NEW v, NEW d, Trimmed(w, v, d), NEW p \in 1..Len(w), w[p].k \notin {"sp", "nl"}
  PROVE  p - d \in 1..Len(v) /\ v[p - d] = w[p] /\ p \in Nat /\ d \in Nat
<1>1. d \in Nat /\ Len(v) \in Nat /\ Len(w) \in Nat /\ d < p /\ p <= d + Len(v)
  BY DEF Trimmed
<1>2. p - d \in 1..Len(v) /\ (p - d) + d = p
  BY <1>1
<1>3. v[p - d] = w[(p - d) + d]
  BY <1>2, Zenon DEF Trimmed
<1> QED
  BY <1>1, <1>2, <1>3

\* A line break between two of them is still there.
LEMMA TrimmedBreak ==
  ASSUME NEW w, NEW v, NEW d, Trimmed(w, v, d),
         NEW a \in 1..Len(w), w[a].k \notin {"sp", "nl"},
         NEW c \in 1..Len(w), w[c].k \notin {"sp", "nl"}, BreakIn(w, a, c)
  PROVE  BreakIn(v, a - d, c - d)
<1>1. PICK q \in 1..Len(w) : a < q /\ q < c /\ w[q].k = "nl"
  BY DEF BreakIn
<1>2. d \in Nat /\ Len(v) \in Nat /\ Len(w) \in Nat /\ d < a /\ c <= d + Len(v)
  BY DEF Trimmed
<1>3. q - d \in 1..Len(v) /\ (q - d) + d = q /\ a - d < q - d /\ q - d < c - d
  BY <1>1, <1>2
<1>4. v[q - d] = w[(q - d) + d]
  BY <1>3, Zenon DEF Trimmed
<1> QED
  BY <1>1, <1>3, <1>4 DEF BreakIn

\* The positions of w, in v.
ShiftedBy(n, cs, d, tp, cp, tv, cv) ==
  /\ tv = [k \in 1..n |-> tp[k] - d]
  /\ cv = [j \in 1..(n + 1) |-> [k \in 1..Len(cs[j]) |-> cp[j][k] - d]]

\* Tokens and comments are in v as in w.
LEMMA TrimmedPositions ==
  ASSUME NEW w, NEW n, NEW cs, NEW tp, NEW cp, Positions(w, n, cs, tp, cp),
         NEW v, NEW d, Trimmed(w, v, d), NEW tv, NEW cv, ShiftedBy(n, cs, d, tp, cp, tv, cv)
  PROVE  /\ Positions(v, n, cs, tv, cv)
         /\ \A k \in 1..n : tp[k] \in 1..Len(w) /\ w[tp[k]].k \notin {"sp", "nl"} /\ tv[k] = tp[k] - d
         /\ \A j \in 1..(n + 1) : \A k \in 1..Len(cs[j]) :
              cp[j][k] \in 1..Len(w) /\ w[cp[j][k]].k \notin {"sp", "nl"} /\ cv[j][k] = cp[j][k] - d
<1>1. \A k \in 1..n :
        tp[k] \in 1..Len(w) /\ w[tp[k]].k \notin {"sp", "nl"} /\ tv[k] = tp[k] - d
  BY DEF Positions, ShiftedBy
<1>2. \A j \in 1..(n + 1) : \A k \in 1..Len(cs[j]) :
        cp[j][k] \in 1..Len(w) /\ w[cp[j][k]].k \notin {"sp", "nl"} /\ cv[j][k] = cp[j][k] - d
  BY DEF Positions, ShiftedBy
<1>3. \A k \in 1..n : tv[k] \in 1..Len(v) /\ v[tv[k]] = w[tp[k]]
  BY <1>1, TrimmedAt
<1>4. \A j \in 1..(n + 1) : \A k \in 1..Len(cs[j]) : cv[j][k] \in 1..Len(v) /\ v[cv[j][k]] = w[cp[j][k]]
  <2> SUFFICES ASSUME NEW j \in 1..(n + 1), NEW k \in 1..Len(cs[j])
               PROVE  cv[j][k] \in 1..Len(v) /\ v[cv[j][k]] = w[cp[j][k]]
    OBVIOUS
  <2> DEFINE e == cp[j][k]
  <2>1. e \in 1..Len(w) /\ w[e].k \notin {"sp", "nl"} /\ cv[j][k] = e - d
    BY <1>2
  <2> HIDE DEF e
  <2>2. e - d \in 1..Len(v) /\ v[e - d] = w[e]
    BY <2>1, TrimmedAt
  <2> QED
    BY <2>1, <2>2 DEF e
<1>5. Positions(v, n, cs, tv, cv)
  BY <1>3, <1>4, SMTT(30) DEF Positions
<1> QED
  BY <1>1, <1>2, <1>5

\* TrimSpace moves the tokens and the comments and changes no line.
LEMMA TrimPlaced ==
  ASSUME NEW w, NEW n, NEW cs, CommentsFor(n, cs), NEW first, first \subseteq 2..(n + 1),
         NEW tp, NEW cp, Placed(w, n, cs, first, tp, cp), NEW v, NEW d, Trimmed(w, v, d)
  PROVE  \E tv, cv : Placed(v, n, cs, first, tv, cv)
<1> DEFINE tv == [k \in 1..n |-> tp[k] - d]
           cv == [j \in 1..(n + 1) |-> [k \in 1..Len(cs[j]) |-> cp[j][k] - d]]
<1>1. ShiftedBy(n, cs, d, tp, cp, tv, cv)
  BY DEF ShiftedBy
<1> HIDE DEF tv, cv
<1>2. /\ Positions(v, n, cs, tv, cv)
      /\ \A k \in 1..n : tp[k] \in 1..Len(w) /\ w[tp[k]].k \notin {"sp", "nl"} /\ tv[k] = tp[k] - d
      /\ \A j \in 1..(n + 1) : \A k \in 1..Len(cs[j]) :
           cp[j][k] \in 1..Len(w) /\ w[cp[j][k]].k \notin {"sp", "nl"} /\ cv[j][k] = cp[j][k] - d
  BY <1>1, TrimmedPositions DEF Placed
<1>3. d \in Nat /\ Len(v) \in Nat /\ Len(w) \in Nat /\ n \in Nat \ {0}
  BY DEF Trimmed, CommentsFor
<1>4. PositionsRise(n, cs, tv, cv)
  <2>1. \A j, k \in 1..n : j < k => tv[j] < tv[k]
    BY <1>2, <1>3 DEF Placed, PositionsRise
  <2>2. \A j \in 1..(n + 1) : \A k, z \in 1..Len(cs[j]) : k < z => cv[j][k] < cv[j][z]
    <3> SUFFICES ASSUME NEW j \in 1..(n + 1), NEW k \in 1..Len(cs[j]), NEW z \in 1..Len(cs[j]), k < z
                 PROVE  cv[j][k] < cv[j][z]
      OBVIOUS
    <3> DEFINE e == cp[j][k]
               f == cp[j][z]
    <3>1. e \in 1..Len(w) /\ f \in 1..Len(w) /\ cv[j][k] = e - d /\ cv[j][z] = f - d
      BY <1>2
    <3>2. e < f
      BY DEF Placed, PositionsRise
    <3> HIDE DEF e, f
    <3> QED
      BY <1>3, <3>1, <3>2
  <2>3. \A j \in 1..(n + 1) : \A k \in 1..Len(cs[j]) :
          (j > 1 => tv[j - 1] < cv[j][k]) /\ (j <= n => cv[j][k] < tv[j])
    <3> SUFFICES ASSUME NEW j \in 1..(n + 1), NEW k \in 1..Len(cs[j])
                 PROVE  (j > 1 => tv[j - 1] < cv[j][k]) /\ (j <= n => cv[j][k] < tv[j])
      OBVIOUS
    <3> DEFINE e == cp[j][k]
               a == tp[j - 1]
               c == tp[j]
    <3>1. e \in 1..Len(w) /\ cv[j][k] = e - d
      BY <1>2
    <3>2. (j > 1 => a < e) /\ (j <= n => e < c)
      BY DEF Placed, PositionsRise
    <3>3. j > 1 => a \in 1..Len(w) /\ tv[j - 1] = a - d
      <4>1. j > 1 => j - 1 \in 1..n
        BY <1>3
      <4> QED
        BY <1>2, <4>1
    <3>4. j <= n => c \in 1..Len(w) /\ tv[j] = c - d
      <4>1. j <= n => j \in 1..n
        BY <1>3
      <4> QED
        BY <1>2, <4>1
    <3> HIDE DEF e, a, c
    <3> QED
      BY <1>3, <3>1, <3>2, <3>3, <3>4
  <2> QED
    BY <2>1, <2>2, <2>3, Zenon DEF PositionsRise
<1>5. NothingElse(v, n, cs, tv, cv)
  <2> SUFFICES ASSUME NEW p \in 1..Len(v), v[p].k \notin {"sp", "nl"}
               PROVE  \/ \E k \in 1..n : p = tv[k]
                      \/ \E j \in 1..(n + 1) : \E k \in 1..Len(cs[j]) : p = cv[j][k]
    BY DEF NothingElse
  <2>1. p + d \in 1..Len(w) /\ w[p + d].k \notin {"sp", "nl"}
    BY DEF Trimmed
  <2>2. \/ \E k \in 1..n : p + d = tp[k]
        \/ \E j \in 1..(n + 1) : \E k \in 1..Len(cs[j]) : p + d = cp[j][k]
    BY <2>1, Zenon DEF Placed, NothingElse
  <2>3. ASSUME NEW e, p + d = e PROVE p = e - d
    BY <1>3, <2>3
  <2> QED
    BY <1>2, <2>2, <2>3, Zenon
<1>6. LinesEnd(v, n, cs, cv)
  <2> SUFFICES ASSUME NEW j \in 1..(n + 1), NEW k \in 1..Len(cs[j]), cs[j][k].line,
                      NEW p \in 1..Len(v), cv[j][k] < p, v[p].k \notin {"sp", "nl"}
               PROVE  BreakIn(v, cv[j][k], p)
    BY DEF LinesEnd
  <2> DEFINE e == cp[j][k]
  <2>1. e \in 1..Len(w) /\ w[e].k \notin {"sp", "nl"} /\ cv[j][k] = e - d
    BY <1>2
  <2>2. p + d \in 1..Len(w) /\ w[p + d].k \notin {"sp", "nl"}
    BY DEF Trimmed
  <2>3. e < p + d => BreakIn(w, e, p + d)
    BY <2>2, Zenon DEF Placed, LinesEnd
  <2> HIDE DEF e
  <2>4. e < p + d /\ (p + d) - d = p
    BY <1>3, <2>1
  <2>5. BreakIn(v, e - d, (p + d) - d)
    BY <2>1, <2>2, <2>3, <2>4, TrimmedBreak
  <2> QED
    BY <2>1, <2>4, <2>5
<1>7. StayOnLine(v, cs, first, tv, cv)
  <2> SUFFICES ASSUME NEW j \in first, NEW k \in 1..Len(cs[j]), OnPrevLine(cs[j], k),
                      NEW q \in 1..Len(v), tv[j - 1] < q, q <= cv[j][k]
               PROVE  v[q].k # "nl"
    BY DEF StayOnLine
  <2> DEFINE e == cp[j][k]
             a == tp[j - 1]
  <2>1. j \in 1..(n + 1) /\ j - 1 \in 1..n
    BY <1>3
  <2>2. e \in 1..Len(w) /\ cv[j][k] = e - d /\ a \in 1..Len(w) /\ tv[j - 1] = a - d
    BY <1>2, <2>1
  <2>3. q + d \in 1..Len(w) /\ v[q] = w[q + d]
    BY DEF Trimmed
  <2>4. a < q + d /\ q + d <= e => w[q + d].k # "nl"
    BY <2>3, Zenon DEF Placed, StayOnLine
  <2> HIDE DEF e, a
  <2>5. a < q + d /\ q + d <= e
    BY <1>3, <2>2
  <2> QED
    BY <2>3, <2>4, <2>5
<1>8. StayOffLine(v, cs, first, tv, cv)
  <2> SUFFICES ASSUME NEW j \in first, NEW k \in 1..Len(cs[j]), ~OnPrevLine(cs[j], k),
                      k = 1 \/ OnPrevLine(cs[j], k - 1)
               PROVE  BreakIn(v, IF k = 1 THEN tv[j - 1] ELSE cv[j][k - 1], cv[j][k])
    BY DEF StayOffLine
  <2> DEFINE e == cp[j][k]
             a == IF k = 1 THEN tp[j - 1] ELSE cp[j][k - 1]
             av == IF k = 1 THEN tv[j - 1] ELSE cv[j][k - 1]
  <2>1. j \in 1..(n + 1) /\ j - 1 \in 1..n
    BY <1>3
  <2>2. k # 1 => k - 1 \in 1..Len(cs[j])
    <3>1. cs[j] \in Seq(CommentRecord)
      BY <2>1 DEF CommentsFor
    <3> QED
      BY <3>1
  <2>3. e \in 1..Len(w) /\ w[e].k \notin {"sp", "nl"} /\ cv[j][k] = e - d
    BY <1>2, <2>1
  <2>4. a \in 1..Len(w) /\ w[a].k \notin {"sp", "nl"} /\ av = a - d
    BY <1>2, <2>1, <2>2
  <2>5. BreakIn(w, a, e)
    BY Zenon DEF Placed, StayOffLine
  <2> HIDE DEF e, a
  <2>6. BreakIn(v, a - d, e - d)
    BY <2>3, <2>4, <2>5, TrimmedBreak
  <2> QED
    BY <2>3, <2>4, <2>6
<1>9. v \in Seq(TextPiece)
  BY DEF Trimmed
<1>10. Placed(v, n, cs, first, tv, cv)
  BY <1>2, <1>4, <1>5, <1>6, <1>7, <1>8, <1>9, Zenon DEF Placed
<1> QED
  BY <1>10, Zenon

\* What placeComments returns.
LEMMA CommentsPlaced ==
  ASSUME NEW out, NEW n, NEW st, NEW en, Printed(out, n, st, en), NEW kind,
         NEW cs, CommentsFor(n, cs)
  PROVE  \E tp, cp : Placed(PlaceComments(out, kind, st, en, cs), n, cs, LineFirst(out, n, st), tp, cp)
<1> DEFINE w == Splice(out, Insertions(out, kind, st, en, cs))
           first == LineFirst(out, n, st)
<1>1. PICK tp, cp : Placed(w, n, cs, first, tp, cp)
  BY SplicedPlaced
<1>2. n \in Nat \ {0} /\ first \subseteq 2..(n + 1)
  BY DEF CommentsFor, LineFirst
<1>3. PlaceComments(out, kind, st, en, cs) = TrimSpace(w)
  BY Zenon DEF PlaceComments
<1> HIDE DEF w, first
<1>4. w \in Seq(TextPiece) /\ tp[1] \in 1..Len(w) /\ w[tp[1]].k \notin {"sp", "nl"}
  BY <1>1, <1>2 DEF Placed, Positions
<1>5. PICK d : Trimmed(w, TrimSpace(w), d)
  BY <1>4, TrimIs
<1>6. \E tv, cv : Placed(TrimSpace(w), n, cs, first, tv, cv)
  BY <1>1, <1>2, <1>5, TrimPlaced
<1> QED
  BY <1>3, <1>6 DEF first

-----------------------------------------------------------------------------
(* Reading the result. *)

(***************************************************************************)
(* e is the positions of the tokens and the comments, in order.  Token j   *)
(* is the off[j]-th, after its comments.                                   *)
(***************************************************************************)
Listed(n, cs, tp, cp, e, off) ==
  /\ off \in [0..(n + 1) -> Nat] /\ off[0] = 0
  /\ \A j, l \in 0..(n + 1) : j <= l => off[j] <= off[l]
  /\ e \in Seq(Nat) /\ Len(e) = off[n + 1]
  /\ \A j \in 1..n : off[j] = off[j - 1] + Len(cs[j]) + 1 /\ e[off[j]] = tp[j]
  /\ off[n + 1] = off[n] + Len(cs[n + 1])
  /\ \A j \in 1..(n + 1) : \A k \in 1..Len(cs[j]) : e[off[j - 1] + k] = cp[j][k]
  /\ \A p \in 1..Len(e) :
       \/ \E j \in 1..n : p = off[j]
       \/ \E j \in 1..(n + 1) : \E k \in 1..Len(cs[j]) : p = off[j - 1] + k

\* The comments of one token.
LEMMA CommentsOfToken ==
  ASSUME NEW n, NEW cs, CommentsFor(n, cs), NEW j \in 1..(n + 1)
  PROVE  cs[j] \in Seq(CommentRecord) /\ Len(cs[j]) \in Nat /\ DOMAIN cs[j] = 1..Len(cs[j])
<1>1. cs[j] \in Seq(CommentRecord)
  BY DEF CommentsFor
<1> QED
  BY <1>1

\* There is such a list.
LEMMA ListExists ==
  ASSUME NEW w, NEW n, NEW cs, CommentsFor(n, cs), NEW tp, NEW cp, Positions(w, n, cs, tp, cp)
  PROVE  \E e, off : Listed(n, cs, tp, cp, e, off)
<1> DEFINE m(j) == IF j <= n THEN Len(cs[j]) + 1 ELSE Len(cs[j])
           s == [j \in 1..(n + 1) |-> [k \in 1..m(j) |-> IF k <= Len(cs[j]) THEN cp[j][k] ELSE tp[j]]]
           e == Seqs!FlattenSeq(s)
<1>1. n \in Nat /\ n + 1 \in Nat
  BY DEF CommentsFor
<1>2. \A j \in 1..(n + 1) : Len(cs[j]) \in Nat /\ m(j) \in Nat
  BY CommentsOfToken
<1>3. \A j \in 1..(n + 1) : s[j] \in Seq(Nat) /\ Len(s[j]) = m(j)
  <2> SUFFICES ASSUME NEW j \in 1..(n + 1) PROVE s[j] \in Seq(Nat) /\ Len(s[j]) = m(j)
    OBVIOUS
  <2> DEFINE f == [k \in 1..m(j) |-> IF k <= Len(cs[j]) THEN cp[j][k] ELSE tp[j]]
  <2>1. \A k \in 1..m(j) : k <= Len(cs[j]) => cp[j][k] \in Nat
    <3> SUFFICES ASSUME NEW k \in 1..m(j), k <= Len(cs[j]) PROVE cp[j][k] \in Nat
      OBVIOUS
    <3>1. k \in 1..Len(cs[j])
      BY <1>2
    <3>2. cp[j][k] \in 1..Len(w)
      BY <3>1 DEF Positions
    <3> QED
      BY <3>2
  <2>2. \A k \in 1..m(j) : ~ (k <= Len(cs[j])) => tp[j] \in Nat
    <3> SUFFICES ASSUME NEW k \in 1..m(j), ~ (k <= Len(cs[j])) PROVE tp[j] \in Nat
      OBVIOUS
    <3>1. j \in 1..n
      BY <1>1, <1>2
    <3>2. tp[j] \in 1..Len(w)
      BY <3>1 DEF Positions
    <3> QED
      BY <3>2
  <2>3. f \in [1..m(j) -> Nat]
    BY <2>1, <2>2
  <2>4. m(j) \in Nat
    BY <1>2
  <2>5. s[j] = f
    OBVIOUS
  <2> HIDE DEF f, m, s
  <2>6. f \in Seq(Nat) /\ Len(f) = m(j)
    BY <2>3, <2>4, MadeSeq, Zenon
  <2> QED
    BY <2>5, <2>6
<1>4. s \in Seq(Seq(Nat)) /\ Len(s) = n + 1
  <2>1. s \in [1..(n + 1) -> Seq(Nat)]
    BY <1>3
  <2> QED
    BY <1>1, <2>1, MadeSeq, Zenon
<1>5. PICK off : Laid(Nat, s, e, off)
  BY <1>4, Flattened, Zenon
<1>6. /\ \A j \in 1..(n + 1) : \A k \in 1..Len(cs[j]) : s[j][k] = cp[j][k]
      /\ \A j \in 1..n : s[j][Len(cs[j]) + 1] = tp[j]
      /\ \A j \in 1..(n + 1) : \A k \in 1..m(j) : k \in 1..Len(cs[j]) \/ (j \in 1..n /\ k = Len(cs[j]) + 1)
  <2>1. \A j \in 1..(n + 1) : \A k \in 1..Len(cs[j]) : k \in 1..m(j)
    BY <1>2
  <2>2. \A j \in 1..n : j \in 1..(n + 1) /\ Len(cs[j]) + 1 \in 1..m(j) /\ ~ (Len(cs[j]) + 1 <= Len(cs[j]))
    BY <1>1, <1>2
  <2>3. \A j \in 1..(n + 1) : \A k \in 1..m(j) : s[j][k] = IF k <= Len(cs[j]) THEN cp[j][k] ELSE tp[j]
    OBVIOUS
  <2>4. \A j \in 1..(n + 1) : \A k \in 1..m(j) : k \in 1..Len(cs[j]) \/ (j \in 1..n /\ k = Len(cs[j]) + 1)
    BY <1>1, <1>2
  <2>5. \A j \in 1..(n + 1) : \A k \in 1..Len(cs[j]) : k <= Len(cs[j])
    BY <1>2
  <2> HIDE DEF s, m
  <2> QED
    BY <2>1, <2>2, <2>3, <2>4, <2>5
<1>7. /\ \A j \in 1..n : m(j) = Len(cs[j]) + 1 /\ j \in 1..(n + 1)
      /\ m(n + 1) = Len(cs[n + 1]) /\ n + 1 \in 1..(n + 1) /\ (n + 1) - 1 = n
  BY <1>1
<1> HIDE DEF s, e, m
<1>8. /\ off \in [0..(n + 1) -> Nat] /\ off[0] = 0
      /\ \A j, l \in 0..(n + 1) : j <= l => off[j] <= off[l]
      /\ \A j \in 1..(n + 1) : off[j] = off[j - 1] + m(j)
      /\ e \in Seq(Nat) /\ Len(e) = off[n + 1]
      /\ \A j \in 1..(n + 1) : \A k \in 1..m(j) : e[off[j - 1] + k] = s[j][k]
      /\ \A p \in 1..Len(e) : \E j \in 1..(n + 1) : \E k \in 1..m(j) : p = off[j - 1] + k
  BY <1>3, <1>4, <1>5 DEF Laid, Offsets
<1>9. \A j \in 1..n : off[j] = off[j - 1] + Len(cs[j]) + 1 /\ e[off[j]] = tp[j]
  <2> SUFFICES ASSUME NEW j \in 1..n PROVE off[j] = off[j - 1] + Len(cs[j]) + 1 /\ e[off[j]] = tp[j]
    OBVIOUS
  <2>1. m(j) = Len(cs[j]) + 1 /\ j \in 1..(n + 1) /\ Len(cs[j]) \in Nat /\ j - 1 \in 0..(n + 1)
    BY <1>1, <1>2, <1>7
  <2>2. off[j] = off[j - 1] + m(j) /\ off[j - 1] \in Nat
    BY <1>8, <2>1
  <2>3. Len(cs[j]) + 1 \in 1..m(j)
    BY <2>1
  <2>4. e[off[j - 1] + (Len(cs[j]) + 1)] = tp[j]
    BY <1>6, <1>8, <2>1, <2>3
  <2>5. off[j] = off[j - 1] + Len(cs[j]) + 1 /\ off[j] = off[j - 1] + (Len(cs[j]) + 1)
    BY <2>1, <2>2
  <2> QED
    BY <2>4, <2>5
<1>10. off[n + 1] = off[n] + Len(cs[n + 1])
  <2>1. off[n + 1] = off[(n + 1) - 1] + m(n + 1)
    BY <1>7, <1>8
  <2> QED
    BY <1>7, <2>1
<1>11. \A j \in 1..(n + 1) : \A k \in 1..Len(cs[j]) : e[off[j - 1] + k] = cp[j][k]
  <2> SUFFICES ASSUME NEW j \in 1..(n + 1), NEW k \in 1..Len(cs[j]) PROVE e[off[j - 1] + k] = cp[j][k]
    OBVIOUS
  <2>1. k \in 1..m(j)
    BY <1>2 DEF m
  <2> QED
    BY <1>6, <1>8, <2>1
<1>12. \A p \in 1..Len(e) :
         \/ \E j \in 1..n : p = off[j]
         \/ \E j \in 1..(n + 1) : \E k \in 1..Len(cs[j]) : p = off[j - 1] + k
  <2> SUFFICES ASSUME NEW p \in 1..Len(e)
               PROVE  \/ \E j \in 1..n : p = off[j]
                      \/ \E j \in 1..(n + 1) : \E k \in 1..Len(cs[j]) : p = off[j - 1] + k
    OBVIOUS
  <2>1. PICK j \in 1..(n + 1) : \E k \in 1..m(j) : p = off[j - 1] + k
    BY <1>8, Zenon
  <2>2. PICK k \in 1..m(j) : p = off[j - 1] + k
    BY <2>1, Zenon
  <2>3. k \in 1..Len(cs[j]) \/ (j \in 1..n /\ k = Len(cs[j]) + 1)
    BY <1>6
  <2>4. CASE j \in 1..n /\ k = Len(cs[j]) + 1
    <3>1. off[j] = off[j - 1] + Len(cs[j]) + 1 /\ off[j - 1] \in Nat /\ Len(cs[j]) \in Nat
      <4>1. j - 1 \in 0..(n + 1) /\ j \in 1..(n + 1)
        BY <1>1, <2>4
      <4>2. off[j - 1] \in Nat
        BY <1>8, <4>1
      <4>3. Len(cs[j]) \in Nat
        BY <1>2, <4>1
      <4> QED
        BY <1>9, <2>4, <4>2, <4>3
    <3>2. p = off[j]
      BY <2>2, <2>4, <3>1
    <3> QED
      BY <2>4, <3>2
  <2> QED
    BY <2>2, <2>3, <2>4
<1>13. Listed(n, cs, tp, cp, e, off)
  BY <1>8, <1>9, <1>10, <1>11, <1>12, Zenon DEF Listed
<1> QED
  BY <1>13, Zenon

\* Where the entries of e are, in numbers.
LEMMA ListBounds ==
  ASSUME NEW n, NEW cs, CommentsFor(n, cs), NEW tp, NEW cp, NEW e, NEW off,
         Listed(n, cs, tp, cp, e, off)
  PROVE  /\ n \in Nat \ {0} /\ \A j \in 0..(n + 1) : off[j] \in Nat
         /\ \A j \in 1..n : off[j] \in 1..Len(e)
         /\ \A j \in 1..(n + 1) : \A k \in 1..Len(cs[j]) :
              /\ off[j - 1] < off[j - 1] + k /\ off[j - 1] + k <= off[j]
              /\ off[j - 1] + k \in 1..Len(e) /\ (j <= n => off[j - 1] + k < off[j])
<1>1. n \in Nat \ {0}
  BY DEF CommentsFor
<1>2. \A j \in 0..(n + 1) : off[j] \in Nat /\ off[j] <= off[n + 1] /\ off[0] <= off[j]
  <2>1. n + 1 \in 0..(n + 1) /\ 0 \in 0..(n + 1) /\ \A j \in 0..(n + 1) : j <= n + 1 /\ 0 <= j
    BY <1>1
  <2> QED
    BY <2>1 DEF Listed
<1>3. ASSUME NEW j \in 1..n PROVE off[j] \in 1..Len(e)
  <2>1. j \in 0..(n + 1) /\ j - 1 \in 0..(n + 1) /\ j \in 1..(n + 1) /\ n + 1 \in 0..(n + 1)
    BY <1>1
  <2>2. off[j] = off[j - 1] + Len(cs[j]) + 1 /\ Len(e) = off[n + 1]
    BY DEF Listed
  <2>3. Len(cs[j]) \in Nat
    BY <2>1, CommentsOfToken
  <2> QED
    BY <1>2, <2>1, <2>2, <2>3
<1>4. ASSUME NEW j \in 1..(n + 1), NEW k \in 1..Len(cs[j])
      PROVE  /\ off[j - 1] < off[j - 1] + k /\ off[j - 1] + k <= off[j]
             /\ off[j - 1] + k \in 1..Len(e) /\ (j <= n => off[j - 1] + k < off[j])
  <2>1. j \in 0..(n + 1) /\ j - 1 \in 0..(n + 1) /\ n + 1 \in 0..(n + 1)
    BY <1>1
  <2>2. off[j] = IF j <= n THEN off[j - 1] + Len(cs[j]) + 1 ELSE off[j - 1] + Len(cs[j])
    <3>1. CASE j <= n
      <4>1. j \in 1..n
        BY <1>1, <3>1
      <4> QED
        BY <3>1, <4>1 DEF Listed
    <3>2. CASE ~ (j <= n)
      <4>1. j = n + 1 /\ j - 1 = n
        BY <1>1, <3>2
      <4> QED
        BY <3>2, <4>1 DEF Listed
    <3> QED
      BY <3>1, <3>2
  <2>3. Len(cs[j]) \in Nat
    BY CommentsOfToken
  <2>4. off[j] \in Nat /\ off[j - 1] \in Nat /\ off[j] <= off[n + 1] /\ off[n + 1] \in Nat
    BY <1>2, <2>1
  <2>5. Len(e) = off[n + 1]
    BY DEF Listed
  <2> DEFINE a == off[j]
             c == off[j - 1]
             l == Len(cs[j])
             f == off[n + 1]
  <2>6. /\ a = (IF j <= n THEN c + l + 1 ELSE c + l) /\ l \in Nat /\ k \in 1..l
        /\ a \in Nat /\ c \in Nat /\ a <= f /\ f \in Nat /\ Len(e) = f
    BY <2>2, <2>3, <2>4, <2>5
  <2> HIDE DEF a, c, l, f
  <2>7. c < c + k /\ c + k <= a /\ c + k \in 1..Len(e) /\ (j <= n => c + k < a)
    BY <2>6
  <2> QED
    BY <2>7 DEF a, c
<1> QED
  BY <1>1, <1>2, <1>3, <1>4

\* Positions of w, which come one after the other, rise.
LEMMA TokensBefore ==
  ASSUME NEW w, w \in Seq(TextPiece), NEW n, NEW cs, NEW tp, NEW cp,
         Positions(w, n, cs, tp, cp), PositionsRise(n, cs, tp, cp)
  PROVE  /\ \A j, l \in 1..n : j <= l => tp[j] <= tp[l]
         /\ \A j \in 1..n : tp[j] \in Nat
         /\ \A j \in 1..(n + 1) : \A k \in 1..Len(cs[j]) : cp[j][k] \in Nat
<1>0. Len(w) \in Nat
  OBVIOUS
<1>1. \A j \in 1..n : tp[j] \in Nat
  BY <1>0 DEF Positions
<1>2. \A j \in 1..(n + 1) : \A k \in 1..Len(cs[j]) : cp[j][k] \in Nat
  BY <1>0 DEF Positions
<1>3. ASSUME NEW j \in 1..n, NEW l \in 1..n, j <= l PROVE tp[j] <= tp[l]
  <2>1. tp[j] \in Nat /\ tp[l] \in Nat
    BY <1>1
  <2>2. CASE j < l
    <3>1. tp[j] < tp[l]
      BY <2>2 DEF PositionsRise
    <3> QED
      BY <2>1, <3>1
  <2>3. CASE ~ (j < l)
    <3>1. j = l
      BY <1>3, <2>3
    <3> QED
      BY <2>1, <3>1
  <2> QED
    BY <2>2, <2>3
<1> QED
  BY <1>1, <1>2, <1>3

\* The list is in the order of the text.
LEMMA ListRises ==
  ASSUME NEW w, w \in Seq(TextPiece), NEW n, NEW cs, CommentsFor(n, cs), NEW tp, NEW cp,
         Positions(w, n, cs, tp, cp), PositionsRise(n, cs, tp, cp),
         NEW e, NEW off, Listed(n, cs, tp, cp, e, off)
  PROVE  Rising(e)
<1> SUFFICES ASSUME NEW x \in 1..Len(e), NEW y \in 1..Len(e), x < y PROVE e[x] < e[y]
  BY DEF Rising
<1>1. /\ n \in Nat \ {0} /\ \A j \in 0..(n + 1) : off[j] \in Nat
      /\ \A j \in 1..(n + 1) : \A k \in 1..Len(cs[j]) :
           /\ off[j - 1] < off[j - 1] + k /\ off[j - 1] + k <= off[j]
           /\ (j <= n => off[j - 1] + k < off[j])
  BY ListBounds
<1>2. /\ \A j, l \in 1..n : j <= l => tp[j] <= tp[l]
      /\ \A j \in 1..n : tp[j] \in Nat
      /\ \A j \in 1..(n + 1) : \A k \in 1..Len(cs[j]) : cp[j][k] \in Nat
  BY TokensBefore
<1>3. /\ \A j, l \in 0..(n + 1) : j <= l => off[j] <= off[l]
      /\ \A j \in 1..n : e[off[j]] = tp[j]
      /\ \A j \in 1..(n + 1) : \A k \in 1..Len(cs[j]) : e[off[j - 1] + k] = cp[j][k]
      /\ \A p \in 1..Len(e) :
           \/ \E j \in 1..n : p = off[j]
           \/ \E j \in 1..(n + 1) : \E k \in 1..Len(cs[j]) : p = off[j - 1] + k
  BY DEF Listed
<1>4. ASSUME NEW j \in 1..n, x = off[j], NEW l \in 1..n, y = off[l] PROVE e[x] < e[y]
  <2>1. j \in 0..(n + 1) /\ l \in 0..(n + 1)
    BY <1>1
  <2>2. off[j] < off[l] /\ off[j] \in Nat /\ off[l] \in Nat
    BY <1>1, <1>4, <2>1
  <2>3. l <= j => off[l] <= off[j]
    BY <1>3, <2>1
  <2>4. j < l
    BY <1>1, <2>2, <2>3
  <2>5. tp[j] < tp[l]
    BY <2>4 DEF PositionsRise
  <2> QED
    BY <1>3, <1>4, <2>5
<1>5. ASSUME NEW j \in 1..n, x = off[j],
             NEW l \in 1..(n + 1), NEW z \in 1..Len(cs[l]), y = off[l - 1] + z
      PROVE  e[x] < e[y]
  <2>1. j \in 0..(n + 1) /\ l \in 0..(n + 1) /\ l - 1 \in 0..(n + 1)
    BY <1>1
  <2>2. off[j] \in Nat /\ off[l] \in Nat /\ off[l - 1] \in Nat /\ z \in Nat
    BY <1>1, <2>1
  <2>3. l <= n => off[l - 1] + z < off[l]
    BY <1>1
  <2>4. l <= j => off[l] <= off[j]
    BY <1>3, <2>1
  <2>5. j < l
    <3> DEFINE a == off[j]
               c == off[l - 1]
               f == off[l]
    <3>1. a < c + z /\ a \in Nat /\ c \in Nat /\ f \in Nat
      BY <1>5, <2>2
    <3>2. (l <= n => c + z < f) /\ (l <= j => f <= a)
      BY <2>3, <2>4
    <3> HIDE DEF a, c, f
    <3> QED
      BY <1>1, <2>2, <3>1, <3>2
  <2>6. j <= l - 1 /\ l - 1 \in 1..n /\ l > 1
    BY <1>1, <2>5
  <2>7. tp[j] <= tp[l - 1] /\ tp[j] \in Nat /\ tp[l - 1] \in Nat /\ cp[l][z] \in Nat
    BY <1>2, <2>6
  <2>8. tp[l - 1] < cp[l][z]
    BY <2>6 DEF PositionsRise
  <2>9. e[x] = tp[j] /\ e[y] = cp[l][z]
    BY <1>3, <1>5
  <2> DEFINE a == tp[j]
             c == tp[l - 1]
             f == cp[l][z]
  <2>10. a <= c /\ a \in Nat /\ c \in Nat /\ f \in Nat /\ c < f
    BY <2>7, <2>8
  <2> HIDE DEF a, c, f
  <2>11. a < f
    BY <2>10
  <2> QED
    BY <2>9, <2>11 DEF a, f
<1>6. ASSUME NEW j \in 1..(n + 1), NEW k \in 1..Len(cs[j]), x = off[j - 1] + k,
             NEW l \in 1..n, y = off[l]
      PROVE  e[x] < e[y]
  <2>1. l \in 0..(n + 1) /\ j \in 0..(n + 1) /\ j - 1 \in 0..(n + 1)
    BY <1>1
  <2>2. off[j - 1] \in Nat /\ off[l] \in Nat /\ k \in Nat
    BY <1>1, <2>1
  <2>3. l <= j - 1 => off[l] <= off[j - 1]
    BY <1>3, <2>1
  <2>4. j <= l
    <3> DEFINE a == off[j - 1]
               c == off[l]
    <3>1. a + k < c /\ a \in Nat /\ c \in Nat /\ (l <= j - 1 => c <= a)
      BY <1>6, <2>2, <2>3
    <3> HIDE DEF a, c
    <3> QED
      BY <2>2, <3>1
  <2>5. j \in 1..n /\ j <= n
    BY <1>1, <2>4
  <2>6. cp[j][k] < tp[j]
    BY <2>5 DEF PositionsRise
  <2>7. tp[j] <= tp[l] /\ tp[j] \in Nat /\ tp[l] \in Nat /\ cp[j][k] \in Nat
    BY <1>2, <2>4, <2>5
  <2>8. e[x] = cp[j][k] /\ e[y] = tp[l]
    BY <1>3, <1>6
  <2> DEFINE a == cp[j][k]
             c == tp[j]
             f == tp[l]
  <2>9. a < c /\ a \in Nat /\ c \in Nat /\ f \in Nat /\ c <= f
    BY <2>6, <2>7
  <2> HIDE DEF a, c, f
  <2>10. a < f
    BY <2>9
  <2> QED
    BY <2>8, <2>10 DEF a, f
<1>7. ASSUME NEW j \in 1..(n + 1), NEW k \in 1..Len(cs[j]), x = off[j - 1] + k,
             NEW l \in 1..(n + 1), NEW z \in 1..Len(cs[l]), y = off[l - 1] + z
      PROVE  e[x] < e[y]
  <2>1. /\ l \in 0..(n + 1) /\ j \in 0..(n + 1) /\ j - 1 \in 0..(n + 1) /\ l - 1 \in 0..(n + 1)
        /\ j \in Nat /\ l \in Nat /\ k \in Nat /\ z \in Nat
    BY <1>1
  <2>2. e[x] = cp[j][k] /\ e[y] = cp[l][z] /\ cp[j][k] \in Nat /\ cp[l][z] \in Nat
    BY <1>2, <1>3, <1>7
  <2>3. CASE j = l
    <3>1. k < z
      <4> DEFINE a == off[j - 1]
      <4>1. a \in Nat /\ a + k < a + z
        BY <1>1, <1>7, <2>1, <2>3
      <4> HIDE DEF a
      <4> QED
        BY <2>1, <4>1
    <3> QED
      BY <2>2, <2>3, <3>1 DEF PositionsRise
  <2>4. CASE j < l
    <3>1. j \in 1..n /\ l - 1 \in 1..n /\ j <= l - 1 /\ j <= n /\ l > 1
      BY <1>1, <2>4
    <3>2. cp[j][k] < tp[j] /\ tp[l - 1] < cp[l][z]
      BY <3>1 DEF PositionsRise
    <3>3. tp[j] <= tp[l - 1] /\ tp[j] \in Nat /\ tp[l - 1] \in Nat
      BY <1>2, <3>1
    <3> DEFINE a == cp[j][k]
               c == tp[j]
               d == tp[l - 1]
               f == cp[l][z]
    <3>4. a < c /\ c <= d /\ d < f /\ a \in Nat /\ c \in Nat /\ d \in Nat /\ f \in Nat
      BY <2>2, <3>2, <3>3
    <3> HIDE DEF a, c, d, f
    <3>5. a < f
      BY <3>4
    <3> QED
      BY <2>2, <3>5 DEF a, f
  <2>5. CASE l < j
    <3>1. l <= n /\ l <= j - 1
      BY <1>1, <2>1, <2>5
    <3>2. off[l - 1] + z <= off[l] /\ off[l] <= off[j - 1]
      BY <1>1, <1>3, <2>1, <3>1
    <3> DEFINE a == off[l - 1]
               c == off[l]
               d == off[j - 1]
    <3>3. a + z <= c /\ c <= d /\ a \in Nat /\ c \in Nat /\ d \in Nat /\ d + k < a + z
      BY <1>1, <1>7, <2>1, <3>2
    <3> HIDE DEF a, c, d
    <3> QED
      BY <2>1, <3>3
  <2> QED
    BY <2>1, <2>3, <2>4, <2>5
<1>8. \/ \E j \in 1..n : x = off[j]
      \/ \E j \in 1..(n + 1) : \E k \in 1..Len(cs[j]) : x = off[j - 1] + k
  BY <1>3
<1>9. \/ \E j \in 1..n : y = off[j]
      \/ \E j \in 1..(n + 1) : \E k \in 1..Len(cs[j]) : y = off[j - 1] + k
  BY <1>3
<1> QED
  BY <1>4, <1>5, <1>6, <1>7, <1>8, <1>9, Zenon

\* No line comment hides anything.
LEMMA NothingHidden ==
  ASSUME NEW w, NEW n, NEW cs, NEW first, NEW tp, NEW cp, Placed(w, n, cs, first, tp, cp),
         NEW p \in 1..Len(w), w[p].k \notin {"sp", "nl"}
  PROVE  ~Hidden(w, p)
<1> SUFFICES ASSUME NEW l \in 1..(p - 1), w[l].k = "line", \A x \in l..p : w[x].k # "nl"
             PROVE  FALSE
  BY DEF Hidden
<1>1. w \in Seq(TextPiece) /\ Len(w) \in Nat
  BY DEF Placed
<1>2. l \in 1..Len(w) /\ l < p
  BY <1>1
<1>3. \/ \E k \in 1..n : l = tp[k]
      \/ \E j \in 1..(n + 1) : \E k \in 1..Len(cs[j]) : l = cp[j][k]
  BY <1>2 DEF Placed, NothingElse
<1>4. \A k \in 1..n : l # tp[k]
  BY DEF Placed, Positions
<1>5. PICK j \in 1..(n + 1) : \E k \in 1..Len(cs[j]) : l = cp[j][k]
  BY <1>3, <1>4, Zenon
<1>6. PICK k \in 1..Len(cs[j]) : l = cp[j][k]
  BY <1>5, Zenon
<1>7. cs[j][k].line
  BY <1>6 DEF Placed, Positions
<1>8. BreakIn(w, l, p)
  BY <1>2, <1>6, <1>7 DEF Placed, LinesEnd
<1>9. PICK q \in 1..Len(w) : l < q /\ q < p /\ w[q].k = "nl"
  BY <1>8 DEF BreakIn
<1>10. q \in l..p
  BY <1>1, <1>2, <1>9
<1> QED
  BY <1>9, <1>10

\* The lexer reads the tokens and the comments, in order.
LEMMA ItemsAre ==
  ASSUME NEW w, NEW n, NEW cs, CommentsFor(n, cs), NEW first, NEW tp, NEW cp,
         Placed(w, n, cs, first, tp, cp), NEW e, NEW off, Listed(n, cs, tp, cp, e, off)
  PROVE  Items(w) = e
<1> DEFINE s == {m \in DOMAIN w : w[m].k \in {"tok", "line", "block"} /\ ~Hidden(w, m)}
           f == InOrder(Len(w), s)
<1>1. w \in Seq(TextPiece) /\ Len(w) \in Nat /\ DOMAIN w = 1..Len(w)
  BY DEF Placed
<1>2. Positions(w, n, cs, tp, cp) /\ PositionsRise(n, cs, tp, cp)
  BY DEF Placed
<1>3. Rising(e) /\ e \in Seq(Nat)
  <2>1. Rising(e)
    BY <1>1, <1>2, ListRises
  <2>2. e \in Seq(Nat)
    BY DEF Listed
  <2> QED
    BY <2>1, <2>2
<1>4. \A m \in s : m \in 1..Len(w) /\ w[m].k \notin {"sp", "nl"}
  BY <1>1
<1>5. \A m \in 1..Len(w) : w[m].k \notin {"sp", "nl"} => m \in s
  <2> SUFFICES ASSUME NEW m \in 1..Len(w), w[m].k \notin {"sp", "nl"} PROVE m \in s
    OBVIOUS
  <2>1. ~Hidden(w, m)
    BY NothingHidden
  <2>2. w[m].k \in {"tok", "line", "block"}
    <3>1. w[m] \in TextPiece
      BY <1>1
    <3> QED
      BY <3>1 DEF TextPiece
  <2> QED
    BY <1>1, <2>1, <2>2
<1>6. /\ f \in Seq(1..Len(w)) /\ Rising(f) /\ \A x \in 1..Len(f) : f[x] \in s
      /\ \A m \in 1..Len(w) : m \in s => \E x \in 1..Len(f) : f[x] = m
  BY <1>1, InOrderIs, Zenon
<1>7. Items(w) = f
  BY Zenon DEF Items
<1> HIDE DEF s, f
<1>8. f \in Seq(Nat)
  <2>1. \A x \in 1..Len(f) : f[x] \in Nat
    BY <1>1, <1>6
  <2> QED
    BY <1>6, <2>1
<1>9. Covers(f, e)
  <2> SUFFICES ASSUME NEW x \in 1..Len(e) PROVE \E y \in 1..Len(f) : e[x] = f[y]
    BY DEF Covers
  <2>1. e[x] \in 1..Len(w) /\ w[e[x]].k \notin {"sp", "nl"}
    <3>1. ASSUME NEW j \in 1..n, x = off[j] PROVE e[x] \in 1..Len(w) /\ w[e[x]].k \notin {"sp", "nl"}
      <4>1. e[x] = tp[j]
        BY <3>1 DEF Listed
      <4>2. tp[j] \in 1..Len(w) /\ w[tp[j]].k = "tok"
        BY <1>2 DEF Positions
      <4> QED
        BY <4>1, <4>2
    <3>2. ASSUME NEW j \in 1..(n + 1), NEW k \in 1..Len(cs[j]), x = off[j - 1] + k
          PROVE  e[x] \in 1..Len(w) /\ w[e[x]].k \notin {"sp", "nl"}
      <4>1. e[x] = cp[j][k]
        BY <3>2 DEF Listed
      <4>2. cp[j][k] \in 1..Len(w) /\ w[cp[j][k]].k \in {"line", "block"}
        BY <1>2 DEF Positions
      <4> QED
        BY <4>1, <4>2
    <3>3. \/ \E j \in 1..n : x = off[j]
          \/ \E j \in 1..(n + 1) : \E k \in 1..Len(cs[j]) : x = off[j - 1] + k
      BY DEF Listed
    <3> QED
      BY <3>1, <3>2, <3>3, Zenon
  <2> QED
    BY <1>5, <1>6, <2>1
<1>10. Covers(e, f)
  <2> SUFFICES ASSUME NEW x \in 1..Len(f) PROVE \E y \in 1..Len(e) : f[x] = e[y]
    BY DEF Covers
  <2>1. f[x] \in 1..Len(w) /\ w[f[x]].k \notin {"sp", "nl"}
    BY <1>4, <1>6
  <2>2. \/ \E k \in 1..n : f[x] = tp[k]
        \/ \E j \in 1..(n + 1) : \E k \in 1..Len(cs[j]) : f[x] = cp[j][k]
    BY <2>1, Zenon DEF Placed, NothingElse
  <2>3. ASSUME NEW k \in 1..n, f[x] = tp[k] PROVE \E y \in 1..Len(e) : f[x] = e[y]
    <3>1. e[off[k]] = tp[k]
      BY DEF Listed
    <3>2. off[k] \in 1..Len(e)
      BY ListBounds
    <3> QED
      BY <2>3, <3>1, <3>2
  <2>4. ASSUME NEW j \in 1..(n + 1), NEW k \in 1..Len(cs[j]), f[x] = cp[j][k]
        PROVE  \E y \in 1..Len(e) : f[x] = e[y]
    <3>1. e[off[j - 1] + k] = cp[j][k]
      BY DEF Listed
    <3>2. off[j - 1] + k \in 1..Len(e)
      BY ListBounds
    <3> QED
      BY <2>4, <3>1, <3>2
  <2> QED
    BY <2>2, <2>3, <2>4, Zenon
<1>11. f = e
  BY <1>3, <1>6, <1>8, <1>9, <1>10, SameOrder
<1> QED
  BY <1>7, <1>11

\* The items that are tokens are the ones at the offsets.
LEMMA TokenNumbers ==
  ASSUME NEW w, NEW n, NEW cs, CommentsFor(n, cs), NEW first, NEW tp, NEW cp,
         Placed(w, n, cs, first, tp, cp), NEW e, NEW off, Listed(n, cs, tp, cp, e, off)
  PROVE  InOrder(Len(e), {x \in DOMAIN e : w[e[x]].k = "tok"}) = [j \in 1..n |-> off[j]]
<1> DEFINE s == {x \in DOMAIN e : w[e[x]].k = "tok"}
           f == InOrder(Len(e), s)
           t == [j \in 1..n |-> off[j]]
<1>1. Positions(w, n, cs, tp, cp) /\ n \in Nat
  BY DEF Placed, CommentsFor
<1>2. e \in Seq(Nat) /\ Len(e) \in Nat /\ DOMAIN e = 1..Len(e)
  <2>1. e \in Seq(Nat)
    BY DEF Listed
  <2> QED
    BY <2>1
<1>3. \A j \in 1..n : off[j] \in 1..Len(e) /\ off[j] \in Nat
  BY <1>2, ListBounds
<1>4. t \in Seq(Nat) /\ Len(t) = n /\ \A j \in 1..n : t[j] = off[j]
  <2>1. t \in [1..n -> Nat]
    BY <1>3
  <2> QED
    BY <1>1, <2>1, MadeSeq
<1>5. \A j \in 1..n : off[j] \in s
  <2> SUFFICES ASSUME NEW j \in 1..n PROVE off[j] \in s
    OBVIOUS
  <2>1. e[off[j]] = tp[j]
    BY DEF Listed
  <2>2. w[tp[j]].k = "tok"
    BY <1>1 DEF Positions
  <2> QED
    BY <1>2, <1>3, <2>1, <2>2
<1>6. \A x \in s : \E j \in 1..n : x = off[j]
  <2> SUFFICES ASSUME NEW x \in s PROVE \E j \in 1..n : x = off[j]
    OBVIOUS
  <2>1. x \in 1..Len(e) /\ w[e[x]].k = "tok"
    BY <1>2
  <2>2. ASSUME NEW j \in 1..(n + 1), NEW k \in 1..Len(cs[j]), x = off[j - 1] + k PROVE FALSE
    <3>1. e[off[j - 1] + k] = cp[j][k]
      BY DEF Listed
    <3>2. w[cp[j][k]].k \in {"line", "block"}
      BY <1>1 DEF Positions
    <3> QED
      BY <2>1, <2>2, <3>1, <3>2
  <2>3. \/ \E j \in 1..n : x = off[j]
        \/ \E j \in 1..(n + 1) : \E k \in 1..Len(cs[j]) : x = off[j - 1] + k
    BY <2>1 DEF Listed
  <2> QED
    BY <2>2, <2>3, Zenon
<1>7. Rising(t)
  <2> SUFFICES ASSUME NEW j \in 1..n, NEW l \in 1..n, j < l PROVE off[j] < off[l]
    BY <1>4 DEF Rising
  <2>1. off[l] = off[l - 1] + Len(cs[l]) + 1
    BY DEF Listed
  <2>2. j \in 0..(n + 1) /\ l - 1 \in 0..(n + 1) /\ j <= l - 1 /\ l \in 1..(n + 1)
    BY <1>1
  <2>3. off[j] <= off[l - 1]
    BY <2>2 DEF Listed
  <2>4. off[l - 1] \in Nat /\ off[j] \in Nat
    BY <2>2, ListBounds
  <2>5. Len(cs[l]) \in Nat
    BY <2>2, CommentsOfToken
  <2> QED
    BY <2>1, <2>3, <2>4, <2>5
<1>8. /\ f \in Seq(1..Len(e)) /\ Rising(f) /\ \A x \in 1..Len(f) : f[x] \in s
      /\ \A m \in 1..Len(e) : m \in s => \E x \in 1..Len(f) : f[x] = m
  BY <1>2, InOrderIs, Zenon
<1> HIDE DEF s, f, t
<1>9. f \in Seq(Nat)
  <2>1. \A x \in 1..Len(f) : f[x] \in Nat
    BY <1>2, <1>8
  <2> QED
    BY <1>8, <2>1
<1>10. Covers(f, t)
  BY <1>3, <1>4, <1>5, <1>8 DEF Covers
<1>11. Covers(t, f)
  BY <1>4, <1>6, <1>8, ZenonT(30) DEF Covers
<1>12. f = t
  BY <1>4, <1>7, <1>8, <1>9, <1>10, <1>11, SameOrder
<1> QED
  BY <1>12 DEF f, s, t

\* What is before the comment k of token j: a comment, a token, or nothing.
PlaceBefore(tp, cp, j, k) == IF k > 1 THEN cp[j][k - 1] ELSE IF j > 1 THEN tp[j - 1] ELSE 0

\* The comments of cs, as the lexer reads them in w.
ReadComments(w, cs, tp, cp, j) ==
  [k \in 1..Len(cs[j]) |->
     [id |-> cs[j][k].id, line |-> cs[j][k].line,
      nl |-> BreakBetween(w, PlaceBefore(tp, cp, j, k), cp[j][k])]]

ReadAs(n, r, w, cs, tp, cp) ==
  /\ r.toks = [k \in 1..n |-> k]
  /\ r.cms = [j \in 1..(n + 1) |-> ReadComments(w, cs, tp, cp, j)]

\* The numbers of the items that are tokens, with the ends.
Bounded(n, cs, e, off, b1) ==
  /\ Len(b1) = n + 2
  /\ \A j \in 1..n : b1[j + 1] = off[j]
  /\ \A j \in 1..(n + 1) : b1[j] = off[j - 1] /\ (b1[j + 1] - 1) - (b1[j] + 1) + 1 = Len(cs[j])

\* GroupByToken cuts the items at the tokens.
LEMMA BoundsAre ==
  ASSUME NEW n, NEW cs, CommentsFor(n, cs), NEW tp, NEW cp, NEW e, NEW off,
         Listed(n, cs, tp, cp, e, off)
  PROVE  Bounded(n, cs, e, off, <<0>> \o [j \in 1..n |-> off[j]] \o <<Len(e) + 1>>)
<1> DEFINE t == [j \in 1..n |-> off[j]]
           b1 == <<0>> \o t \o <<Len(e) + 1>>
<1>1. n \in Nat \ {0} /\ \A j \in 0..(n + 1) : off[j] \in Nat
  BY ListBounds
<1>2. t \in Seq(Nat) /\ Len(t) = n /\ \A j \in 1..n : t[j] = off[j]
  <2>1. t \in [1..n -> Nat]
    BY <1>1
  <2> QED
    BY <1>1, <2>1, MadeSeq
<1>3. Len(e) \in Nat /\ Len(e) = off[n + 1]
  <2>1. n + 1 \in 0..(n + 1)
    BY <1>1
  <2> QED
    BY <1>1, <2>1 DEF Listed
<1> HIDE DEF t
<1>4. /\ Len(b1) = n + 2 /\ b1[1] = 0 /\ b1[n + 2] = Len(e) + 1
      /\ \A j \in 1..n : b1[j + 1] = t[j]
  BY <1>1, <1>2, <1>3
<1> HIDE DEF b1
<1>5. \A j \in 1..n : b1[j + 1] = off[j]
  BY <1>2, <1>4
<1>6. \A j \in 1..(n + 1) : b1[j] = off[j - 1]
  <2> SUFFICES ASSUME NEW j \in 1..(n + 1) PROVE b1[j] = off[j - 1]
    OBVIOUS
  <2>1. CASE j = 1
    <3>1. off[0] = 0
      BY DEF Listed
    <3> QED
      BY <1>4, <2>1, <3>1
  <2>2. CASE j # 1
    <3>1. j - 1 \in 1..n /\ (j - 1) + 1 = j
      BY <1>1, <2>2
    <3> QED
      BY <1>5, <3>1
  <2> QED
    BY <2>1, <2>2
<1>7. ASSUME NEW j \in 1..(n + 1) PROVE (b1[j + 1] - 1) - (b1[j] + 1) + 1 = Len(cs[j])
  <2>1. Len(cs[j]) \in Nat /\ off[j - 1] \in Nat
    <3>1. j - 1 \in 0..(n + 1)
      BY <1>1
    <3> QED
      BY <1>1, <3>1, CommentsOfToken
  <2>2. b1[j + 1] = off[j - 1] + Len(cs[j]) + 1
    <3>1. CASE j \in 1..n
      BY <1>5, <3>1 DEF Listed
    <3>2. CASE j \notin 1..n
      <4>1. j = n + 1 /\ j - 1 = n /\ j + 1 = n + 2
        BY <1>1, <3>2
      <4>2. off[n + 1] = off[n] + Len(cs[n + 1])
        BY DEF Listed
      <4> QED
        BY <1>3, <1>4, <4>1, <4>2
    <3> QED
      BY <3>1, <3>2
  <2> DEFINE a == off[j - 1]
             l == Len(cs[j])
  <2>3. a \in Nat /\ l \in Nat /\ b1[j + 1] = a + l + 1 /\ b1[j] = a
    BY <1>6, <2>1, <2>2
  <2> HIDE DEF a, l
  <2>4. (b1[j + 1] - 1) - (b1[j] + 1) + 1 = l
    BY <2>3
  <2> QED
    BY <2>4 DEF l
<1>8. Bounded(n, cs, e, off, b1)
  BY <1>4, <1>5, <1>6, <1>7, Zenon DEF Bounded
<1> QED
  BY <1>8 DEF b1, t

\* tokenize reads the tokens in order, each with the comments that were put before it.
\* Only where the line breaks are may differ.
LEMMA Reading ==
  ASSUME NEW w, NEW n, NEW cs, CommentsFor(n, cs), NEW first, NEW tp, NEW cp,
         Placed(w, n, cs, first, tp, cp)
  PROVE  ReadAs(n, Tokenize(w), w, cs, tp, cp)
<1>1. Positions(w, n, cs, tp, cp) /\ n \in Nat
  BY DEF Placed, CommentsFor
<1>2. PICK e, off : Listed(n, cs, tp, cp, e, off)
  BY <1>1, ListExists
<1>3. Items(w) = e
  BY <1>2, ItemsAre
<1> DEFINE b1 == <<0>> \o [j \in 1..n |-> off[j]] \o <<Len(e) + 1>>
<1>4. Bounded(n, cs, e, off, b1)
  BY <1>2, BoundsAre
<1>5. Tokenize(w) = Group(w, e, b1)
  <2>1. InOrder(Len(e), {x \in DOMAIN e : w[e[x]].k = "tok"}) = [j \in 1..n |-> off[j]]
    BY <1>2, TokenNumbers
  <2> QED
    BY <1>3, <2>1, Zenon DEF Tokenize, GroupByToken
<1> HIDE DEF b1
<1>6. Len(b1) = n + 2 /\ Len(b1) - 2 = n /\ Len(b1) - 1 = n + 1
  BY <1>1, <1>4 DEF Bounded
<1>7. [j \in 1..(Len(b1) - 2) |-> w[e[b1[j + 1]]].v] = [k \in 1..n |-> k]
  <2>1. ASSUME NEW j \in 1..n PROVE w[e[b1[j + 1]]].v = j
    <3>1. b1[j + 1] = off[j]
      BY <1>4 DEF Bounded
    <3>2. e[off[j]] = tp[j]
      BY <1>2 DEF Listed
    <3>3. w[tp[j]].v = j
      BY <1>1 DEF Positions
    <3> QED
      BY <3>1, <3>2, <3>3
  <2> QED
    BY <1>6, <2>1
<1>8. ASSUME NEW j \in 1..(n + 1)
      PROVE  CommentsAmong(w, e, b1[j] + 1, b1[j + 1] - 1) = ReadComments(w, cs, tp, cp, j)
  <2>1. b1[j] = off[j - 1] /\ (b1[j + 1] - 1) - (b1[j] + 1) + 1 = Len(cs[j])
    BY <1>4 DEF Bounded
  <2>2. off[j - 1] \in Nat
    <3>1. j - 1 \in 0..(n + 1)
      BY <1>1
    <3> QED
      BY <1>2, <3>1, ListBounds
  <2> DEFINE x == b1[j] + 1
             rec(k) == LET m == x + k - 1
                       IN  [id |-> w[e[m]].v, line |-> w[e[m]].k = "line",
                            nl |-> BreakBetween(w, IF m = 1 THEN 0 ELSE e[m - 1], e[m])]
  <2>3. CommentsAmong(w, e, b1[j] + 1, b1[j + 1] - 1) = [k \in 1..Len(cs[j]) |-> rec(k)]
    BY <2>1, Zenon DEF CommentsAmong
  <2>4. ASSUME NEW k \in 1..Len(cs[j])
        PROVE  rec(k) = [id |-> cs[j][k].id, line |-> cs[j][k].line,
                         nl |-> BreakBetween(w, PlaceBefore(tp, cp, j, k), cp[j][k])]
    <3> DEFINE m == x + k - 1
    <3>1. m = off[j - 1] + k
      BY <2>1, <2>2
    <3>2. e[m] = cp[j][k]
      BY <1>2, <3>1 DEF Listed
    <3>3. w[cp[j][k]].v = cs[j][k].id /\ (w[cp[j][k]].k = "line") = cs[j][k].line
      <4>1. cs[j][k].line \in BOOLEAN
        <5>1. cs[j] \in Seq(CommentRecord)
          BY CommentsOfToken
        <5>2. cs[j][k] \in CommentRecord
          BY <5>1
        <5> QED
          BY <5>2 DEF CommentRecord
      <4>2. w[cp[j][k]].v = cs[j][k].id /\ w[cp[j][k]].k = IF cs[j][k].line THEN "line" ELSE "block"
        BY <1>1 DEF Positions
      <4> QED
        BY <4>1, <4>2
    <3>4. (IF m = 1 THEN 0 ELSE e[m - 1]) = PlaceBefore(tp, cp, j, k)
      <4>1. CASE k > 1
        <5>1. k - 1 \in 1..Len(cs[j]) /\ m - 1 = off[j - 1] + (k - 1) /\ m # 1
          <6>1. Len(cs[j]) \in Nat
            BY CommentsOfToken
          <6> QED
            BY <2>2, <3>1, <4>1, <6>1
        <5>2. e[off[j - 1] + (k - 1)] = cp[j][k - 1]
          BY <1>2, <5>1 DEF Listed
        <5> QED
          BY <4>1, <5>1, <5>2, Zenon DEF PlaceBefore
      <4>2. CASE ~ (k > 1) /\ j > 1
        <5>1. k = 1
          BY <4>2
        <5>2. j - 1 \in 1..n
          BY <1>1, <4>2
        <5>3. off[j - 1] \in 1..Len(e)
          BY <1>2, <5>2, ListBounds
        <5>4. m - 1 = off[j - 1] /\ m # 1
          BY <2>2, <3>1, <5>1, <5>3
        <5>5. e[off[j - 1]] = tp[j - 1]
          BY <1>2, <5>2 DEF Listed
        <5> QED
          BY <4>2, <5>4, <5>5, Zenon DEF PlaceBefore
      <4>3. CASE ~ (k > 1) /\ ~ (j > 1)
        <5>1. k = 1 /\ j = 1 /\ j - 1 = 0
          BY <1>1, <4>3
        <5>2. off[0] = 0
          BY <1>2 DEF Listed
        <5>3. m = 1
          BY <3>1, <5>1, <5>2
        <5> QED
          BY <4>3, <5>3, Zenon DEF PlaceBefore
      <4> QED
        BY <4>1, <4>2, <4>3, Zenon
    <3> HIDE DEF m
    <3>5. rec(k) = [id |-> w[e[m]].v, line |-> w[e[m]].k = "line",
                    nl |-> BreakBetween(w, IF m = 1 THEN 0 ELSE e[m - 1], e[m])]
      BY Zenon DEF m
    <3> HIDE DEF rec
    <3> QED
      BY <3>2, <3>3, <3>4, <3>5, Zenon
  <2> HIDE DEF rec
  <2>5. [k \in 1..Len(cs[j]) |-> rec(k)] = ReadComments(w, cs, tp, cp, j)
    BY <2>4, Zenon DEF ReadComments
  <2> QED
    BY <2>3, <2>5
<1>9. [j \in 1..(Len(b1) - 1) |-> CommentsAmong(w, e, b1[j] + 1, b1[j + 1] - 1)]
        = [j \in 1..(n + 1) |-> ReadComments(w, cs, tp, cp, j)]
  BY <1>6, <1>8, Zenon
<1> DEFINE r == Tokenize(w)
<1>10. /\ r.toks = [j \in 1..(Len(b1) - 2) |-> w[e[b1[j + 1]]].v]
       /\ r.cms = [j \in 1..(Len(b1) - 1) |-> CommentsAmong(w, e, b1[j] + 1, b1[j + 1] - 1)]
  BY <1>5 DEF Group
<1> HIDE DEF r
<1>11. ReadAs(n, r, w, cs, tp, cp)
  BY <1>7, <1>9, <1>10, Zenon DEF ReadAs
<1> QED
  BY <1>11 DEF r

-----------------------------------------------------------------------------
(* What is read is what was put in. *)

\* No line break, none read.
LEMMA NoBreak ==
  ASSUME NEW out, NEW p, NEW m, \A x \in (p + 1)..m : out[x].k # "nl"
  PROVE  ~BreakBetween(out, p, m)
<1> DEFINE s == {x \in (p + 1)..m : out[x].k = "nl"}
           t == IF p > 0 /\ out[p].k = "line" THEN 1 ELSE 0
<1>1. s = {}
  OBVIOUS
<1>2. Cardinality(s) = 0
  BY <1>1, FS_EmptySet
<1>3. t \in {0, 1}
  OBVIOUS
<1>4. BreakBetween(out, p, m) <=> Cardinality(s) > t
  BY Zenon DEF BreakBetween
<1> HIDE DEF s, t
<1>5. ~ (Cardinality(s) > t)
  BY <1>2, <1>3
<1> QED
  BY <1>4, <1>5, Zenon

\* A line break after something else than a line comment is read.
LEMMA SomeBreak ==
  ASSUME NEW out, NEW p \in Nat, NEW m \in Nat, NEW q \in (p + 1)..m, out[q].k = "nl",
         p > 0 => out[p].k # "line"
  PROVE  BreakBetween(out, p, m)
<1> DEFINE s == {x \in (p + 1)..m : out[x].k = "nl"}
<1>1. IsFiniteSet(s)
  <2>1. IsFiniteSet((p + 1)..m)
    BY FS_Interval
  <2>2. s \subseteq (p + 1)..m
    OBVIOUS
  <2> QED
    BY <2>1, <2>2, FS_Subset, Zenon
<1>2. s # {}
  OBVIOUS
<1> HIDE DEF s
<1>3. Cardinality(s) \in Nat /\ Cardinality(s) # 0
  BY <1>1, <1>2, FS_CardinalityType, FS_EmptySet
<1>4. (IF p > 0 /\ out[p].k = "line" THEN 1 ELSE 0) = 0
  OBVIOUS
<1>5. Cardinality(s) > 0
  BY <1>3
<1> QED
  BY <1>4, <1>5, Zenon DEF BreakBetween, s

\* verifyComments: the texts of the comments are the same.
LEMMA TextsKept ==
  ASSUME NEW w, NEW n, NEW cs, CommentsFor(n, cs), NEW tp, NEW cp, NEW r, ReadAs(n, r, w, cs, tp, cp)
  PROVE  CommentTexts(r.cms) = CommentTexts(cs)
<1> DEFINE c == r.cms
           text(z) == [id |-> z.id, line |-> z.line]
<1>1. c = [j \in 1..(n + 1) |-> ReadComments(w, cs, tp, cp, j)]
  BY Zenon DEF ReadAs
<1> HIDE DEF c
<1>2. DOMAIN cs = 1..(n + 1) /\ DOMAIN c = 1..(n + 1)
  BY <1>1 DEF CommentsFor
<1>3. ASSUME NEW j \in 1..(n + 1)
      PROVE  [k \in DOMAIN c[j] |-> [id |-> c[j][k].id, line |-> c[j][k].line]]
               = [k \in DOMAIN cs[j] |-> [id |-> cs[j][k].id, line |-> cs[j][k].line]]
  <2>1. c[j] = ReadComments(w, cs, tp, cp, j)
    BY <1>1
  <2>2. DOMAIN c[j] = 1..Len(cs[j]) /\ DOMAIN cs[j] = 1..Len(cs[j])
    BY <2>1, CommentsOfToken DEF ReadComments
  <2>3. ASSUME NEW k \in 1..Len(cs[j]) PROVE c[j][k].id = cs[j][k].id /\ c[j][k].line = cs[j][k].line
    BY <2>1 DEF ReadComments
  <2> QED
    BY <2>2, <2>3
<1>4. [j \in DOMAIN c |-> [k \in DOMAIN c[j] |-> [id |-> c[j][k].id, line |-> c[j][k].line]]]
        = [j \in DOMAIN cs |-> [k \in DOMAIN cs[j] |-> [id |-> cs[j][k].id, line |-> cs[j][k].line]]]
  BY <1>2, <1>3, Zenon
<1> QED
  BY <1>4, Zenon DEF CommentTexts, c

\* What is before a comment on the line of a token is on that line.
LEMMA StayedOn ==
  ASSUME NEW w, NEW n, NEW cs, CommentsFor(n, cs), NEW first, first \subseteq 2..(n + 1),
         NEW tp, NEW cp, Placed(w, n, cs, first, tp, cp),
         NEW j \in first, NEW k \in 1..Len(cs[j]), OnPrevLine(cs[j], k)
  PROVE  ~BreakBetween(w, PlaceBefore(tp, cp, j, k), cp[j][k])
<1> DEFINE p == PlaceBefore(tp, cp, j, k)
           c == cp[j][k]
           a == tp[j - 1]
<1>1. n \in Nat /\ j \in 1..(n + 1) /\ j - 1 \in 1..n /\ j > 1
  BY DEF CommentsFor
<1>2. Len(cs[j]) \in Nat
  BY <1>1, CommentsOfToken
<1>3. /\ w \in Seq(TextPiece) /\ Len(w) \in Nat
      /\ Positions(w, n, cs, tp, cp) /\ PositionsRise(n, cs, tp, cp)
  BY DEF Placed
<1>4. a \in 1..Len(w) /\ c \in 1..Len(w)
  BY <1>1, <1>3 DEF Positions
<1>5. \A q \in 1..Len(w) : a < q /\ q <= c => w[q].k # "nl"
  BY DEF Placed, StayOnLine
<1>6. p \in Nat /\ a <= p
  <2>1. CASE k > 1
    <3>1. k - 1 \in 1..Len(cs[j]) /\ p = cp[j][k - 1]
      BY <1>2, <2>1 DEF PlaceBefore
    <3>2. cp[j][k - 1] \in 1..Len(w) /\ a < cp[j][k - 1]
      BY <1>1, <1>3, <3>1 DEF Positions, PositionsRise
    <3> HIDE DEF p, a
    <3> QED
      BY <1>3, <1>4, <3>1, <3>2
  <2>2. CASE ~ (k > 1)
    <3>1. p = a
      BY <1>1, <2>2 DEF PlaceBefore
    <3> HIDE DEF p, a
    <3> QED
      BY <1>3, <1>4, <3>1
  <2> QED
    BY <2>1, <2>2
<1> HIDE DEF p, c, a
<1>7. \A x \in (p + 1)..c : x \in 1..Len(w) /\ a < x /\ x <= c
  BY <1>3, <1>4, <1>6
<1>8. \A x \in (p + 1)..c : w[x].k # "nl"
  BY <1>5, <1>7
<1>9. ~BreakBetween(w, p, c)
  BY <1>8, NoBreak
<1> QED
  BY <1>9 DEF p, c

\* The first comment that is not on the line of a token has a line break before it.
LEMMA StayedOff ==
  ASSUME NEW w, NEW n, NEW cs, CommentsFor(n, cs), NEW first, first \subseteq 2..(n + 1),
         NEW tp, NEW cp, Placed(w, n, cs, first, tp, cp),
         NEW j \in first, NEW k \in 1..Len(cs[j]), ~OnPrevLine(cs[j], k),
         k = 1 \/ OnPrevLine(cs[j], k - 1), k > 1 => ~cs[j][k - 1].line
  PROVE  BreakBetween(w, PlaceBefore(tp, cp, j, k), cp[j][k])
<1> DEFINE p == PlaceBefore(tp, cp, j, k)
           c == cp[j][k]
<1>1. n \in Nat /\ j \in 1..(n + 1) /\ j - 1 \in 1..n /\ j > 1
  BY DEF CommentsFor
<1>2. Len(cs[j]) \in Nat
  BY <1>1, CommentsOfToken
<1>3. w \in Seq(TextPiece) /\ Len(w) \in Nat /\ Positions(w, n, cs, tp, cp)
  BY DEF Placed
<1>4. c \in 1..Len(w)
  BY <1>1, <1>3 DEF Positions
<1>5. p = IF k = 1 THEN tp[j - 1] ELSE cp[j][k - 1]
  BY <1>1, <1>2 DEF PlaceBefore
<1>6. BreakIn(w, p, c)
  <2>1. BreakIn(w, IF k = 1 THEN tp[j - 1] ELSE cp[j][k - 1], cp[j][k])
    BY Zenon DEF Placed, StayOffLine
  <2> QED
    BY <1>5, <2>1
<1>7. p \in 1..Len(w) /\ w[p].k # "line"
  <2>1. CASE k = 1
    <3>1. tp[j - 1] \in 1..Len(w) /\ w[tp[j - 1]].k = "tok"
      BY <1>1, <1>3 DEF Positions
    <3> QED
      BY <1>5, <2>1, <3>1
  <2>2. CASE k # 1
    <3>1. k - 1 \in 1..Len(cs[j]) /\ k > 1
      BY <1>2, <2>2
    <3>2. cp[j][k - 1] \in 1..Len(w) /\ w[cp[j][k - 1]].k = "block"
      BY <1>1, <1>3, <3>1 DEF Positions
    <3> QED
      BY <1>5, <2>2, <3>2
  <2> QED
    BY <2>1, <2>2
<1> HIDE DEF p, c
<1>8. PICK q \in 1..Len(w) : p < q /\ q < c /\ w[q].k = "nl"
  BY <1>6 DEF BreakIn
<1>9. p \in Nat /\ c \in Nat /\ q \in (p + 1)..c
  BY <1>3, <1>4, <1>7, <1>8
<1>10. BreakBetween(w, p, c)
  BY <1>7, <1>8, <1>9, SomeBreak
<1> QED
  BY <1>10 DEF p, c

\* Comments stay on the line of the token before, and off it.
LEMMA CommentsStayAt ==
  ASSUME NEW w, NEW n, NEW cs, CommentsFor(n, cs), NEW first, first \subseteq 2..(n + 1),
         NEW tp, NEW cp, Placed(w, n, cs, first, tp, cp),
         NEW j \in first, NEW k \in 1..Len(cs[j])
  PROVE  OnPrevLine(ReadComments(w, cs, tp, cp, j), k) <=> OnPrevLine(cs[j], k)
<1> DEFINE d == ReadComments(w, cs, tp, cp, j)
           c == cs[j]
<1>1. Len(c) \in Nat /\ n \in Nat
  BY CommentsOfToken DEF CommentsFor
<1>2. \A m \in 1..Len(c) :
        d[m].line = c[m].line /\ d[m].nl = BreakBetween(w, PlaceBefore(tp, cp, j, m), cp[j][m])
  BY DEF ReadComments
<1>3. \A m \in 1..k : m \in 1..Len(c)
  BY <1>1
<1>4. \A m \in 1..(k - 1) : m \in 1..Len(c) /\ m \in 1..k
  BY <1>1
<1>5. ASSUME OnPrevLine(c, k) PROVE OnPrevLine(d, k)
  <2>1. ASSUME NEW m \in 1..k PROVE ~d[m].nl
    <3>1. OnPrevLine(c, m)
      <4>1. CASE m = k
        BY <1>5, <4>1
      <4>2. CASE m # k
        <5>1. m \in Nat \ {0} /\ k \in Nat /\ m < k
          BY <4>2
        <5> QED
          BY <1>5, <5>1, PrevLineFirst
      <4> QED
        BY <4>1, <4>2
    <3>2. m \in 1..Len(cs[j])
      BY <1>3
    <3>3. ~BreakBetween(w, PlaceBefore(tp, cp, j, m), cp[j][m])
      BY <3>1, <3>2, StayedOn
    <3> QED
      BY <1>2, <3>2, <3>3
  <2>2. \A m \in 1..(k - 1) : ~d[m].line
    BY <1>2, <1>4, <1>5 DEF OnPrevLine
  <2> HIDE DEF d
  <2> QED
    BY <2>1, <2>2 DEF OnPrevLine
<1>6. ASSUME OnPrevLine(d, k), ~OnPrevLine(c, k) PROVE FALSE
  <2> DEFINE off == {m \in 1..k : ~OnPrevLine(c, m)}
  <2>1. off \subseteq Nat /\ off # {}
    BY <1>6
  <2>2. PICK m \in off : \A x \in off : m <= x
    BY <2>1, LeastOf, Zenon
  <2>3. m \in 1..k /\ ~OnPrevLine(c, m)
    OBVIOUS
  <2>4. m = 1 \/ OnPrevLine(c, m - 1)
    <3> SUFFICES ASSUME m # 1, ~OnPrevLine(c, m - 1) PROVE FALSE
      OBVIOUS
    <3>1. m - 1 \in 1..k /\ ~ (m <= m - 1)
      BY <2>3
    <3>2. m - 1 \in off
      BY <3>1
    <3> QED
      BY <2>2, <3>1, <3>2, Zenon
  <2> HIDE DEF off
  <2>5. m > 1 => ~c[m - 1].line
    <3> SUFFICES ASSUME m > 1 PROVE ~c[m - 1].line
      OBVIOUS
    <3>1. m - 1 \in 1..(k - 1)
      BY <2>3
    <3>2. ~d[m - 1].line
      BY <1>6, <3>1 DEF OnPrevLine
    <3> QED
      BY <1>2, <1>4, <3>1, <3>2
  <2>6. m \in 1..Len(cs[j])
    BY <1>3, <2>3
  <2>7. BreakBetween(w, PlaceBefore(tp, cp, j, m), cp[j][m])
    BY <2>3, <2>4, <2>5, <2>6, StayedOff
  <2>8. ~d[m].nl
    BY <1>6, <2>3 DEF OnPrevLine
  <2> QED
    BY <1>2, <2>6, <2>7, <2>8
<1> QED
  BY <1>5, <1>6

\* Of prevLine, only that of a token that starts a line matters.
LEMMA InsertionsAgree ==
  ASSUME NEW out, NEW n, NEW st, NEW en, Printed(out, n, st, en), NEW kind,
         NEW c, NEW d, d.id = c.id, d.line = c.line, NEW j \in 1..(n + 1),
         NEW p, j <= n => p = st[j],
         NEW x, NEW y, j \in LineFirst(out, n, st) => x = y
  PROVE  Insertion(out, kind, en, d, j, p, x) = Insertion(out, kind, en, c, j, p, y)
<1>1. CommentPiece(d) = CommentPiece(c)
  BY DEF CommentPiece
<1>2. n \in Nat \ {0} /\ Len(en) = n /\ Len(st) = n
  <2>1. n \in Nat \ {0} /\ en \in [1..n -> Nat] /\ st \in [1..n -> Nat]
    BY DEF Printed
  <2> QED
    BY <2>1, MadeSeq
<1>3. CASE x = y
  BY <1>1, <1>3, Zenon DEF Insertion
<1>4. CASE x # y
  <2>1. j \notin LineFirst(out, n, st)
    BY <1>4
  <2>2. ~ (j > Len(en)) /\ p = st[j]
    BY <1>2, <2>1 DEF LineFirst
  <2>3. ~ (j > 1 /\ AtLineStart(out, p))
    BY <2>1, <2>2 DEF LineFirst
  <2> QED
    BY <1>1, <2>2, <2>3, Zenon DEF Insertion
<1> QED
  BY <1>3, <1>4

\* A second run inserts the comments where the first one did.
LEMMA SameInsertions ==
  ASSUME NEW out, NEW n, NEW st, NEW en, Printed(out, n, st, en), NEW kind,
         NEW cs, CommentsFor(n, cs), NEW w, NEW tp, NEW cp,
         Placed(w, n, cs, LineFirst(out, n, st), tp, cp), NEW r, ReadAs(n, r, w, cs, tp, cp)
  PROVE  Insertions(out, kind, st, en, r.cms) = Insertions(out, kind, st, en, cs)
<1> DEFINE c == r.cms
           first == LineFirst(out, n, st)
           at(j) == IF j > Len(st) THEN 0 ELSE st[j]
<1>1. c = [j \in 1..(n + 1) |-> ReadComments(w, cs, tp, cp, j)]
  BY Zenon DEF ReadAs
<1>2. n \in Nat \ {0} /\ first \subseteq 2..(n + 1)
  BY DEF CommentsFor, LineFirst
<1> HIDE DEF c
<1>3. Len(cs) = n + 1 /\ Len(c) = n + 1 /\ Len(st) = n
  <2>1. st \in [1..n -> Nat]
    BY DEF Printed
  <2> QED
    BY <1>1, <1>2, <2>1, MadeSeq DEF CommentsFor
<1>4. ASSUME NEW j \in 1..(n + 1)
      PROVE  [k \in DOMAIN c[j] |-> Insertion(out, kind, en, c[j][k], j, at(j), OnPrevLine(c[j], k))]
               = [k \in DOMAIN cs[j] |-> Insertion(out, kind, en, cs[j][k], j, at(j), OnPrevLine(cs[j], k))]
  <2>1. c[j] = ReadComments(w, cs, tp, cp, j)
    BY <1>1
  <2>2. DOMAIN c[j] = 1..Len(cs[j]) /\ DOMAIN cs[j] = 1..Len(cs[j])
    BY <2>1, CommentsOfToken DEF ReadComments
  <2>3. ASSUME NEW k \in 1..Len(cs[j])
        PROVE  Insertion(out, kind, en, c[j][k], j, at(j), OnPrevLine(c[j], k))
                 = Insertion(out, kind, en, cs[j][k], j, at(j), OnPrevLine(cs[j], k))
    <3>1. c[j][k].id = cs[j][k].id /\ c[j][k].line = cs[j][k].line
      BY <2>1 DEF ReadComments
    <3>2. OnPrevLine(c[j], k) \in BOOLEAN /\ OnPrevLine(cs[j], k) \in BOOLEAN
      BY Zenon DEF OnPrevLine
    <3>3. ASSUME j \in first PROVE OnPrevLine(c[j], k) <=> OnPrevLine(cs[j], k)
      BY <1>2, <2>1, <3>3, CommentsStayAt
    <3> DEFINE x == OnPrevLine(c[j], k)
               y == OnPrevLine(cs[j], k)
               p == at(j)
    <3>4. x \in BOOLEAN /\ y \in BOOLEAN /\ (j \in first => x = y)
      BY <3>2, <3>3, Zenon
    <3>5. j <= n => p = st[j]
      BY <1>2, <1>3
    <3> DEFINE e == c[j][k]
               f == cs[j][k]
    <3>6. e.id = f.id /\ e.line = f.line
      BY <3>1
    <3> HIDE DEF x, y, p, e, f
    <3>7. Insertion(out, kind, en, e, j, p, x) = Insertion(out, kind, en, f, j, p, y)
      BY <3>4, <3>5, <3>6, InsertionsAgree
    <3> QED
      BY <3>7 DEF x, y, p, e, f
  <2> QED
    BY <2>2, <2>3, Zenon
<1>5. [j \in 1..Len(c) |->
         [k \in DOMAIN c[j] |-> Insertion(out, kind, en, c[j][k], j, at(j), OnPrevLine(c[j], k))]]
        = [j \in 1..Len(cs) |->
             [k \in DOMAIN cs[j] |-> Insertion(out, kind, en, cs[j][k], j, at(j), OnPrevLine(cs[j], k))]]
  BY <1>3, <1>4, Zenon
<1> QED
  BY <1>5, Zenon DEF Insertions, c

(***************************************************************************)
(* What the lexer reads in the output with the comments cs.                *)
(***************************************************************************)
ReadBack(out, n, kind, st, en, cs, w, r) ==
  /\ w \in Seq(TextPiece)
  /\ r.toks = [k \in 1..n |-> k]
  /\ CommentTexts(r.cms) = CommentTexts(cs)
  /\ \A j \in LineFirst(out, n, st) : \A k \in DOMAIN cs[j] :
       OnPrevLine(r.cms[j], k) = OnPrevLine(cs[j], k)
  /\ PlaceComments(out, kind, st, en, r.cms) = w

\* verifyEquivalent and verifyComments find nothing in what placeComments makes, comments
\* keep their line, and a second run changes nothing.
LEMMA CommentsReadBack ==
  ASSUME NEW out, NEW n, NEW st, NEW en, Printed(out, n, st, en), NEW kind,
         NEW cs, CommentsFor(n, cs), NEW w, w = PlaceComments(out, kind, st, en, cs)
  PROVE  ReadBack(out, n, kind, st, en, cs, w, Tokenize(w))
<1> DEFINE r == Tokenize(w)
           first == LineFirst(out, n, st)
<1>1. PICK tp, cp : Placed(w, n, cs, first, tp, cp)
  BY CommentsPlaced
<1>2. ReadAs(n, r, w, cs, tp, cp)
  BY <1>1, Reading
<1> HIDE DEF r
<1>3. w \in Seq(TextPiece) /\ r.toks = [k \in 1..n |-> k]
  BY <1>1, <1>2, Zenon DEF Placed, ReadAs
<1>4. CommentTexts(r.cms) = CommentTexts(cs)
  BY <1>2, TextsKept
<1>5. ASSUME NEW j \in first, NEW k \in DOMAIN cs[j] PROVE OnPrevLine(r.cms[j], k) = OnPrevLine(cs[j], k)
  <2>1. first \subseteq 2..(n + 1) /\ j \in 1..(n + 1)
    BY DEF CommentsFor, LineFirst
  <2>2. k \in 1..Len(cs[j])
    BY <2>1, CommentsOfToken
  <2>3. r.cms[j] = ReadComments(w, cs, tp, cp, j)
    BY <1>2, <2>1 DEF ReadAs
  <2>4. OnPrevLine(r.cms[j], k) <=> OnPrevLine(cs[j], k)
    BY <1>1, <2>1, <2>2, <2>3, CommentsStayAt
  <2> QED
    BY <2>4, Zenon DEF OnPrevLine
<1>6. PlaceComments(out, kind, st, en, r.cms) = w
  <2>1. Insertions(out, kind, st, en, r.cms) = Insertions(out, kind, st, en, cs)
    BY <1>1, <1>2, SameInsertions
  <2> QED
    BY <2>1, Zenon DEF PlaceComments
<1> QED
  BY <1>3, <1>4, <1>5, <1>6, Zenon DEF ReadBack, r

-----------------------------------------------------------------------------
(***************************************************************************)
(* The printer in FormatSQL.  PP is the instance P of the printer, with    *)
(* what is proved about it.                                                *)
(***************************************************************************)
PP == INSTANCE PrinterProofs WITH Inputs <- {BuildLayout(s) : s \in Statements}

\* The definitions of the two instances are the same.
LEMMA SameWellFormed == \A x : P!WellFormed(x) <=> PP!WellFormed(x)
  BY Zenon
     DEF
         P!WellFormed, PP!WellFormed, P!LayoutType, PP!LayoutType, P!PartsNested,
         PP!PartsNested, P!Spans, PP!Spans, P!SpansOf, PP!SpansOf, P!Nested, PP!Nested,
         P!HintsFlat, PP!HintsFlat, P!CasesNested, PP!CasesNested, P!OneRole,
         PP!OneRole, P!LiteralsPlaced, PP!LiteralsPlaced, P!RolesPlaced, PP!RolesPlaced, P!SymbolsPlaced, PP!SymbolsPlaced,
         P!BodiesStart, PP!BodiesStart, P!InBodies, PP!InBodies, P!InBody, PP!InBody,
         P!BodyBreaks, PP!BodyBreaks, P!BreaksAfter, PP!BreaksAfter, P!SameScope,
         PP!SameScope, P!Symbol, PP!Symbol, P!ClauseTokens, PP!ClauseTokens, P!EndsOf,
         PP!EndsOf, P!HintTokens, PP!HintTokens, P!Within, PP!Within, P!Range, PP!Range

\* So are the first state,
LEMMA SameStart == P!Start => PP!Start
  BY Zenon DEF P!Start, PP!Start, P!Scope, PP!Scope

\* the steps,
LEMMA SameToken == P!Token => PP!Token
  BY Zenon
     DEF
         P!Token, PP!Token, P!StartHint, PP!StartHint, P!HintToken, PP!HintToken,
         P!OpenSubquery, PP!OpenSubquery, P!CloseSubquery, PP!CloseSubquery,
         P!OpenCondGroup, PP!OpenCondGroup, P!CloseCondGroup, PP!CloseCondGroup,
         P!OpenCase, PP!OpenCase, P!CaseBranch, PP!CaseBranch, P!CloseCase,
         PP!CloseCase, P!ListSep, PP!ListSep, P!CondOp, PP!CondOp, P!Plain, PP!Plain,
         P!Top, PP!Top, P!Pop, PP!Pop, P!Tok, PP!Tok, P!Nl, PP!Nl, P!Sp, PP!Sp,
         P!BreaksLine, PP!BreaksLine, P!LastBreakAt, PP!LastBreakAt, P!LineIndent, PP!LineIndent, P!NoSpaceBefore,
         PP!NoSpaceBefore, P!NoSpaceAfter, PP!NoSpaceAfter, P!FuncKeywords,
         PP!FuncKeywords, P!NeedsSpace, PP!NeedsSpace, P!Space, PP!Space, P!Upper,
         PP!Upper, P!Write, PP!Write, P!Scope, PP!Scope, P!BodyIndent, PP!BodyIndent,
         P!CondIndent, PP!CondIndent, P!Role, PP!Role, P!At, PP!At, P!CaseIndent,
         PP!CaseIndent

\* and the types.
LEMMA SameTypes == PP!TypeOK => P!TypeOK
  BY Zenon
     DEF
         P!TypeOK, PP!TypeOK, P!LayoutType, PP!LayoutType, P!Piece, PP!Piece, P!Scopes,
         PP!Scopes, P!Range, PP!Range

\* What the theorems about the printer assume.
LEMMA InputsAreWellFormed == \A x \in {BuildLayout(s) : s \in Statements} : PP!WellFormed(x)
  BY LayoutsWellFormed, SameWellFormed

\* FormatSQL starts the printer in its first state,
LEMMA PrinterStarts ==
  ASSUME stmt \in Statements, in = BuildLayout(stmt), P!Start
  PROVE  PP!Inv /\ PP!Written
<1>1. PP!Init
  BY SameStart DEF PP!Init
<1>2. PP!Inv
  BY <1>1, InputsAreWellFormed, PP!InitInv
<1>3. PP!Written
  BY <1>1, InputsAreWellFormed, PP!InitWritten
<1> QED
  BY <1>2, <1>3

\* and every step of FormatSQL is one of the printer, or leaves it alone.
LEMMA PrinterGoesOn ==
  ASSUME PP!Inv, PP!Written, P!Token \/ UNCHANGED printerVars
  PROVE  PP!Inv' /\ PP!Written'
<1>1. [PP!Token]_(PP!vars)
  BY SameToken DEF printerVars, PP!vars
<1>2. PP!Inv'
  BY <1>1, InputsAreWellFormed, PP!NextInv
<1>3. PP!Written'
  BY <1>1, <1>2, InputsAreWellFormed, PP!NextOnce
<1> QED
  BY <1>2, <1>3

-----------------------------------------------------------------------------
(* FormatSQL. *)

\* The statement is printed and has its comments back.
Commented ==
  /\ i > in.n
  /\ cms \in CommentsOf(stmt)
  /\ formatted = PlaceComments(b, in.kind, starts, ends, cms)

\* The invariant the theorems follow from.
FInv ==
  /\ source \in {"sql", "graph", "malformed"}
  /\ phase \in {"parse", "print", "verify", "done"}
  /\ result \in {"none", "syntax error", "as written", "formatted"}
  /\ result = "none" <=> phase # "done"
  /\ stmt \in Statements /\ in = BuildLayout(stmt)
  /\ PP!Inv /\ PP!Written
  /\ IF phase = "verify" \/ result = "formatted" THEN Commented
     ELSE cms = <<>> /\ formatted = <<>>

\* At the end of the printer every token is in the output, and there are comments for each.
LEMMA AllPrinted ==
  ASSUME FInv, Commented
  PROVE  Printed(b, in.n, starts, ends) /\ CommentsFor(in.n, cms)
<1>1. Len(stmt.toks) > 0 /\ cms \in Seq(Seq(CommentRecord)) /\ Len(cms) = Len(stmt.toks) + 1
  BY LayoutsWellFormed, CommentsType DEF FInv, Commented
<1>2. in.n = Len(stmt.toks)
  BY DEF FInv, BuildLayout
<1>3. PP!TypeOK
  BY DEF FInv, PP!Inv
<1>4. in.n \in Nat /\ i \in 1..(in.n + 1) /\ i > in.n
  BY <1>3 DEF Commented, PP!TypeOK, PP!LayoutType
<1>5. in.n \in Nat \ {0} /\ i - 1 = in.n
  BY <1>1, <1>2, <1>4
<1>6. b \in Seq(TextPiece) /\ \A m \in 1..Len(b) : b[m].k \in {"tok", "nl", "sp"}
  <2>1. b \in Seq(PP!Piece)
    BY <1>3 DEF PP!TypeOK
  <2>2. ASSUME NEW x \in PP!Piece PROVE x \in TextPiece /\ x.k \in {"tok", "nl", "sp"}
    <3>1. CASE x \in [k : {"tok"}, v : Nat, up : BOOLEAN, last : Nat \cup {-1}]
      <4>1. /\ x = [k |-> x.k, v |-> x.v, up |-> x.up, last |-> x.last]
            /\ x.k = "tok" /\ x.v \in Int /\ x.up \in BOOLEAN /\ x.last \in Int
        BY <3>1
      <4> QED
        BY <4>1 DEF TextPiece
    <3>2. CASE x \in [k : {"nl"}, v : Int, up : {FALSE}, last : {-1}]
      <4>1. x = [k |-> x.k, v |-> x.v, up |-> x.up, last |-> x.last]
        BY <3>2
      <4>2. x.k = "nl" /\ x.v \in Int
        BY <3>2
      <4>3. x.up \in BOOLEAN
        BY <3>2, Zenon
      <4>4. x.last = -1
        BY <3>2
      <4>5. x.last \in Int
        BY <4>4
      <4> QED
        BY <4>1, <4>2, <4>3, <4>5 DEF TextPiece
    <3>3. CASE x \in [k : {"sp"}, v : {0}, up : {FALSE}, last : {-1}]
      <4>1. x = [k |-> x.k, v |-> x.v, up |-> x.up, last |-> x.last]
        BY <3>3
      <4>2. x.k = "sp" /\ x.v = 0
        BY <3>3
      <4>3. x.up \in BOOLEAN
        BY <3>3, Zenon
      <4>4. x.last = -1
        BY <3>3
      <4>5. x.v \in Int /\ x.last \in Int
        BY <4>2, <4>4
      <4> QED
        BY <4>1, <4>2, <4>3, <4>5 DEF TextPiece
    <3> QED
      BY <3>1, <3>2, <3>3 DEF PP!Piece
  <2> QED
    BY <2>1, <2>2
<1>7. starts \in [1..in.n -> Nat] /\ ends \in [1..in.n -> Nat]
  BY <1>3 DEF PP!TypeOK
<1>8. /\ \A k \in 1..in.n :
           /\ starts[k] < ends[k] /\ ends[k] <= Len(b)
           /\ b[starts[k] + 1].k = "tok" /\ b[starts[k] + 1].v = k
           /\ k > 1 => ends[k - 1] <= starts[k]
           /\ \A m \in (starts[k] + 2)..ends[k] : b[m].k = "sp"
      /\ \A m \in 1..Len(b) : b[m].k = "tok" => b[m].v \in 1..in.n /\ m = starts[b[m].v] + 1
  BY <1>5 DEF FInv, PP!Written, PP!WrittenOnce, PP!InLine
<1>9. Printed(b, in.n, starts, ends)
  BY <1>5, <1>6, <1>7, <1>8 DEF Printed
<1> QED
  BY <1>1, <1>2, <1>5, <1>9 DEF CommentsFor

\* What verifyEquivalent, verifyComments and a second run read in the result.
LEMMA CommentedReadBack ==
  ASSUME FInv, Commented
  PROVE  ReadBack(b, in.n, in.kind, starts, ends, cms, formatted, Tokenize(formatted))
<1>1. Printed(b, in.n, starts, ends) /\ CommentsFor(in.n, cms)
  BY AllPrinted
<1>2. formatted = PlaceComments(b, in.kind, starts, ends, cms)
  BY DEF Commented
<1> QED
  BY <1>1, <1>2, CommentsReadBack

\* The invariant holds at first,
LEMMA InitFInv == Init => FInv
<1> SUFFICES ASSUME Init PROVE FInv
  OBVIOUS
<1>1. PP!Inv /\ PP!Written
  BY PrinterStarts DEF Init
<1> QED
  BY <1>1, Zenon DEF Init, FInv

\* when the statement is parsed,
LEMMA StepParse == FInv /\ Parse => FInv'
<1> SUFFICES ASSUME FInv, Parse PROVE FInv'
  OBVIOUS
<1>1. PP!Inv' /\ PP!Written'
  BY PrinterGoesOn DEF FInv, Parse
<1>2. /\ UNCHANGED <<source, stmt, cms, formatted>> /\ in' = in
      /\ phase = "parse" /\ result = "none" /\ cms = <<>> /\ formatted = <<>>
  BY DEF FInv, Parse, printerVars
<1>3. \/ phase' = "done" /\ result' \in {"syntax error", "as written"}
      \/ phase' = "print" /\ result' = "none"
  BY <1>2 DEF FInv, Parse, Return
<1> QED
  BY <1>1, <1>2, <1>3 DEF FInv

\* when a token is printed,
LEMMA StepPrintToken == FInv /\ PrintToken => FInv'
<1> SUFFICES ASSUME FInv, PrintToken PROVE FInv'
  OBVIOUS
<1>1. PP!Inv' /\ PP!Written'
  BY PrinterGoesOn DEF FInv, PrintToken
<1>2. in' = in
  BY SameToken DEF PrintToken, PP!Token, PP!StartHint, PP!HintToken, PP!OpenSubquery, PP!CloseSubquery,
     PP!OpenCondGroup, PP!CloseCondGroup, PP!OpenCase, PP!CaseBranch, PP!CloseCase, PP!ListSep,
     PP!CondOp, PP!Plain
<1>3. UNCHANGED <<source, stmt, phase, cms, formatted, result>> /\ phase = "print"
  BY DEF PrintToken
<1> QED
  BY <1>1, <1>2, <1>3 DEF FInv

\* when the comments are put back,
LEMMA StepPlace == FInv /\ Place => FInv'
<1> SUFFICES ASSUME FInv, Place PROVE FInv'
  OBVIOUS
<1>1. PP!Inv' /\ PP!Written'
  BY PrinterGoesOn DEF FInv, Place
<1>2. UNCHANGED <<source, stmt, result, in, i, b, starts, ends>> /\ phase = "print" /\ phase' = "verify"
  BY DEF Place, printerVars
<1>3. Commented'
  BY <1>2 DEF Place, Commented
<1> QED
  BY <1>1, <1>2, <1>3 DEF FInv

\* and when verifyEquivalent and verifyComments have looked at it: they find nothing.
LEMMA StepVerify == FInv /\ Verify => FInv'
<1> SUFFICES ASSUME FInv, Verify PROVE FInv'
  OBVIOUS
<1>1. PP!Inv' /\ PP!Written'
  BY PrinterGoesOn DEF FInv, Verify
<1>2. UNCHANGED <<source, stmt, cms, formatted, in, i, b, starts, ends>> /\ phase = "verify"
  BY DEF Verify, printerVars
<1>3. Commented
  BY <1>2 DEF FInv
<1>4. Equivalent /\ SameComments
  BY <1>3, CommentedReadBack DEF ReadBack, Equivalent, SameComments
<1>5. phase' = "done" /\ result' = "formatted"
  BY <1>4 DEF Verify, Return
<1>6. Commented'
  BY <1>2, <1>3 DEF Commented
<1> QED
  BY <1>1, <1>2, <1>5, <1>6 DEF FInv

\* Every step keeps the invariant.
LEMMA NextFInv == FInv /\ [Next]_vars => FInv'
<1>1. FInv /\ UNCHANGED vars => FInv'
  <2> SUFFICES ASSUME FInv, UNCHANGED vars PROVE FInv'
    OBVIOUS
  <2>1. PP!Inv' /\ PP!Written'
    BY PrinterGoesOn DEF FInv, vars
  <2>2. UNCHANGED <<source, stmt, phase, cms, formatted, result, in, i, b, starts, ends>>
    BY DEF vars, printerVars
  <2>3. Commented => Commented'
    BY <2>2 DEF Commented
  <2> QED
    BY <2>1, <2>2, <2>3 DEF FInv
<1> QED
  BY <1>1, StepParse, StepPrintToken, StepPlace, StepVerify DEF Next, Done

\* The invariant holds in every state.
LEMMA SpecFInv == Spec => []FInv
  BY InitFInv, NextFInv, PTL DEF Spec

\* The types of FormatSQL's state, the pieces of its result and the number of
\* the comments, for every statement.
THEOREM Spec_TypeOK == Spec => []TypeOK
<1>1. FInv => TypeOK
  <2> SUFFICES ASSUME FInv PROVE TypeOK
    OBVIOUS
  <2>1. P!TypeOK
    BY SameTypes DEF FInv, PP!Inv
  <2>2. /\ \A m \in DOMAIN formatted : formatted[m].k \in {"tok", "nl", "sp", "line", "block"}
        /\ Len(cms) \in {0, in.n + 1}
    <3>1. CASE Commented
      <4>1. formatted \in Seq(TextPiece)
        BY <3>1, CommentedReadBack DEF ReadBack
      <4>2. \A m \in DOMAIN formatted : formatted[m] \in TextPiece
        BY <4>1
      <4>3. Len(cms) = in.n + 1
        BY <3>1, AllPrinted DEF CommentsFor
      <4> QED
        BY <4>2, <4>3 DEF TextPiece
    <3>2. CASE ~Commented
      <4>1. cms = <<>> /\ formatted = <<>>
        BY <3>2 DEF FInv
      <4> QED
        BY <4>1
    <3> QED
      BY <3>1, <3>2
  <2>3. /\ source \in {"sql", "graph", "malformed"}
        /\ phase \in {"parse", "print", "verify", "done"}
        /\ result \in {"none", "syntax error", "as written", "meaning changed",
                       "comments changed", "formatted"}
        /\ result = "none" <=> phase # "done"
    BY DEF FInv
  <2> QED
    BY <2>1, <2>2, <2>3, Zenon DEF TypeOK
<1> QED
  BY <1>1, SpecFInv, PTL

\* FormatSQL never reports a bug of its own: the tokens of the result are those
\* of the statement, and its comments are all there, in order.
THEOREM Spec_NeverReportsBug == Spec => []NeverReportsBug
<1>1. FInv => NeverReportsBug
  BY DEF FInv, NeverReportsBug
<1> QED
  BY <1>1, SpecFInv, PTL

\* Formatting the result again puts the comments where they are.
THEOREM Spec_Idempotent == Spec => []Idempotent
<1>1. FInv => Idempotent
  <2> SUFFICES ASSUME FInv, result = "formatted"
               PROVE  formatted = PlaceComments(b, in.kind, starts, ends, Tokenize(formatted).cms)
    BY DEF Idempotent
  <2>1. Commented
    BY DEF FInv
  <2> QED
    BY <2>1, CommentedReadBack DEF ReadBack
<1> QED
  BY <1>1, SpecFInv, PTL

\* Before a token that starts a line, and at the end, a comment that follows a
\* token stays on its line, and one that does not stays off it.
THEOREM Spec_CommentsStay == Spec => []CommentsStay
<1>1. FInv => CommentsStay
  <2> SUFFICES ASSUME FInv, result = "formatted",
                      NEW j \in 1..(in.n + 1), FirstOnLine(j), NEW k \in DOMAIN cms[j]
               PROVE  OnPrevLine(Tokenize(formatted).cms[j], k) = OnPrevLine(cms[j], k)
    BY Zenon DEF CommentsStay
  <2>1. Commented
    BY DEF FInv
  <2>2. j \in LineFirst(b, in.n, starts)
    BY DEF FirstOnLine, LineFirst
  <2> QED
    BY <2>1, <2>2, CommentedReadBack, Zenon DEF ReadBack
<1> QED
  BY <1>1, SpecFInv, PTL

=============================================================================
