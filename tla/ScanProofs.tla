----------------------------- MODULE ScanProofs -----------------------------
(***************************************************************************)
(* Proofs about Scan, for all files: analyzeFuncBody finds the first place *)
(* where a row is scanned, and never has more than four frames; parameters *)
(* are checked at every statement; and the verdict on a callback is right. *)
(***************************************************************************)
EXTENDS Scan, WellFoundedInduction, TLAPS

-----------------------------------------------------------------------------
(* What the walk knows: the call it started from, and its stack. *)

IsSite(site) ==
  /\ site[1] \in DOMAIN file.funcs /\ site[2] \in DOMAIN Body(file, site[1])
  /\ Body(file, site[1]) \in Seq(Item)
  /\ Call(site) \in Item /\ Call(site).k = "call" /\ HasCallback(Call(site))

Link(a, b) ==
  \E g \in Callees(a) :
    Body(file, g) # NoBody /\ b.block = <<g, 0>> /\ b.row = RowParam(file.funcs[g])

InRange(f) == f.at <= End(file, f.block)

Linked(site, s) ==
  /\ s \in Seq(FrameType) /\ Len(s) \in 1..(maxScanDepth + 1)
  /\ s[1].block = site /\ s[1].row = RowName(Call(site).callback)
  /\ \A j \in DOMAIN s : s[j].at >= First(s[j].block)
  /\ \A j \in 1..(Len(s) - 1) : InRange(s[j]) /\ Link(s[j], s[j + 1])

Walking ==
  /\ file \in Files
  /\ pc \in {"walk", "found", "lost", "panic"} => IsSite(<<fn, at>>) /\ Visited.stmt \in Stmt
  /\ pc \in {"walk", "found", "panic"} => Linked(<<fn, at>>, frames)
  /\ pc = "found" => InRange(Top) /\ Scans(Top)

-----------------------------------------------------------------------------
(* Types. *)

LEMMA SeqAt ==
  ASSUME NEW S, NEW s \in Seq(S)
  PROVE  /\ \A i \in DOMAIN s : s[i] \in S /\ i \in Nat
         /\ s # <<>> => s[1] \in S
  OBVIOUS

LEMMA MinNat ==
  ASSUME NEW S, S \subseteq Nat, S # {}
  PROVE  Min(S) \in S
<1>1. PICK x \in S : \A y \in S : ~(<<y, x>> \in OpToRel(<, Nat))
  BY WFMin, NatLessThanWellFounded, Zenon
<1>2. \A y \in S : x <= y
  <2> SUFFICES ASSUME NEW y \in S PROVE x <= y
    OBVIOUS
  <2>1. x \in Nat /\ y \in Nat /\ ~(<<y, x>> \in OpToRel(<, Nat))
    BY <1>1
  <2> QED BY <2>1 DEF OpToRel
<1> QED BY <1>1, <1>2 DEF Min

LEMMA RowParamType ==
  ASSUME NEW func \in Func, RowParam(func) # ""
  PROVE  RowParam(func) \in Names
<1> DEFINE rows == {i \in DOMAIN func.params : func.params[i].row /\ func.params[i].names # <<>>}
           i == Min(rows)
<1>1. func.params \in Seq(Param)
  BY DEF Func
<1>2. rows \subseteq Nat
  BY <1>1, SeqAt
<1>3. rows # {}
  BY DEF RowParam
<1>4. i \in rows
  BY <1>2, <1>3, MinNat
<1> HIDE DEF i
<1>5. func.params[i] \in Param /\ func.params[i].names # <<>>
  BY <1>1, <1>4, SeqAt
<1>6. func.params[i].names \in Seq(Names)
  BY <1>5 DEF Param
<1>7. func.params[i].names[1] \in Names
  BY <1>5, <1>6, SeqAt
<1> QED BY <1>3, <1>7 DEF RowParam, i

LEMMA OneAt ==
  ASSUME NEW S, NEW s \in Seq(S), Len(s) = 1
  PROVE  s[1] \in S
  OBVIOUS

LEMMA RowNameType ==
  ASSUME NEW callback \in Callback, RowName(callback) # ""
  PROVE  RowName(callback) \in Names
<1>1. callback.params \in Seq(Param)
  BY DEF Callback
<1>2. Len(callback.params) = 1 /\ callback.params[1].names # <<>> /\ RowName(callback) = callback.params[1].names[1]
  BY DEF RowName
<1>3. callback.params[1] \in Param
  BY <1>1, <1>2, OneAt
<1>4. callback.params[1].names \in Seq(Names)
  BY <1>3 DEF Param
<1> QED BY <1>2, <1>4, SeqAt

LEMMA FileType ==
  ASSUME file \in Files
  PROVE  /\ file \in File /\ file.funcs \in Seq(Func) /\ file.nolint \in SUBSET Lines
         /\ Len(file.funcs) \in Nat /\ DOMAIN file.funcs = 1..Len(file.funcs)
         /\ \A g \in DOMAIN file.funcs : /\ file.funcs[g] \in Func /\ Body(file, g) = file.funcs[g].body
                                         /\ Body(file, g) # NoBody => Body(file, g) \in Seq(Item)
<1>1. file \in File
  BY Inputs
<1>2. file.funcs \in Seq(Func) /\ file.nolint \in SUBSET Lines
  BY <1>1 DEF File
<1>3. Len(file.funcs) \in Nat /\ DOMAIN file.funcs = 1..Len(file.funcs)
  BY <1>2
<1>4. ASSUME NEW g \in DOMAIN file.funcs
      PROVE  /\ file.funcs[g] \in Func /\ Body(file, g) = file.funcs[g].body
             /\ Body(file, g) # NoBody => Body(file, g) \in Seq(Item)
  <2>1. file.funcs[g] \in Func /\ g # 0
    BY <1>2, <1>3
  <2>2. file.funcs[g].body \in Seq(Item) \cup {NoBody}
    BY <2>1 DEF Func
  <2> QED BY <2>1, <2>2 DEF Body
<1> QED BY <1>1, <1>2, <1>3, <1>4

\* A frame can be in any function of the file that has a body.
LEMMA CalleeType ==
  ASSUME file \in Files, NEW a, NEW g \in Callees(a)
  PROVE  /\ g \in DOMAIN file.funcs /\ RowParam(file.funcs[g]) \in Names
         /\ <<g, 0>> \in (1..Len(file.funcs)) \X Nat
<1>1. g \in DOMAIN file.funcs /\ RowParam(file.funcs[g]) # ""
  BY DEF Callees, Declared
<1> QED BY <1>1, FileType, RowParamType

LEMMA CalleeUnique ==
  ASSUME file \in Files, NEW a, NEW g \in Callees(a), NEW h \in Callees(a)
  PROVE  g = h
<1>1. g \in Declared(file, ItemOf(a).fn) /\ h \in Declared(file, ItemOf(a).fn)
  BY DEF Callees
<1> QED BY <1>1, DistinctFunctions DEF Declared

\* A call does not scan, and a frame is a record.
LEMMA CallOrScan ==
  ASSUME NEW a, Callees(a) # {}
  PROVE  ~Scans(a)
  BY DEF Callees, Scans

LEMMA AtFrame ==
  ASSUME NEW block, NEW row, NEW S, NEW f
  PROVE  f \in At(Frame(block, row), S) <=> \E i \in S : f = [block |-> block, row |-> row, at |-> i]
<1>1. \A i : [Frame(block, row) EXCEPT !.at = i] = [block |-> block, row |-> row, at |-> i]
  BY DEF Frame
<1>2. f \in At(Frame(block, row), S) <=> \E i \in S : f = [Frame(block, row) EXCEPT !.at = i]
  BY Zenon DEF At
<1> QED BY <1>1, <1>2, Zenon

LEMMA LinkUnique ==
  ASSUME file \in Files, NEW a, NEW b \in FrameType, NEW c \in FrameType, Link(a, b), Link(a, c)
  PROVE  b.block = c.block /\ b.row = c.row
  BY CalleeUnique DEF Link

-----------------------------------------------------------------------------
(* The stacks that the row can reach are the linked ones. *)

\* A frame at an item of a block is a frame that is in range.
LEMMA AtBlock ==
  ASSUME file \in Files, NEW a, NEW g \in Callees(a), Body(file, g) # NoBody, NEW f
  PROVE  f \in At(Frame(<<g, 0>>, RowParam(file.funcs[g])), 1..Len(Body(file, g))) <=>
           /\ f \in FrameType /\ f.block = <<g, 0>> /\ f.row = RowParam(file.funcs[g])
           /\ f.at >= First(f.block) /\ InRange(f)
<1> DEFINE b == <<g, 0>>
           r == RowParam(file.funcs[g])
<1>1. b \in (1..Len(file.funcs)) \X Nat /\ r \in Names /\ b[1] = g /\ b[2] = 0
  BY CalleeType
<1>2. Body(file, g) \in Seq(Item) /\ Len(Body(file, g)) \in Nat
  <2>1. Body(file, g) \in Seq(Item)
    BY CalleeType, FileType
  <2> QED BY <2>1
<1>3. First(b) = 1 /\ End(file, b) = Len(Body(file, g))
  BY <1>1 DEF First, End
<1> HIDE DEF b, r
<1>4. f \in At(Frame(b, r), 1..Len(Body(file, g))) <=>
        \E i \in 1..Len(Body(file, g)) : f = [block |-> b, row |-> r, at |-> i]
  BY AtFrame
<1>5. ASSUME NEW i \in 1..Len(Body(file, g)), f = [block |-> b, row |-> r, at |-> i]
      PROVE  /\ f \in FrameType /\ f.block = b /\ f.row = r
             /\ f.at >= First(f.block) /\ InRange(f)
  <2>1. i \in Nat \ {0} /\ i >= 1 /\ i <= Len(Body(file, g))
    BY <1>2, <1>5
  <2>2. f.block = b /\ f.row = r /\ f.at = i
    BY <1>5
  <2>3. f \in FrameType
    BY <1>1, <1>5, <2>1 DEF FrameType
  <2> QED BY <1>3, <2>1, <2>2, <2>3 DEF InRange
<1>6. ASSUME f \in FrameType, f.block = b, f.row = r, f.at >= First(f.block), InRange(f)
      PROVE  \E i \in 1..Len(Body(file, g)) : f = [block |-> b, row |-> r, at |-> i]
  <2>1. f.at \in Nat \ {0} /\ f = [block |-> b, row |-> r, at |-> f.at]
    BY <1>6 DEF FrameType
  <2>2. f.at \in 1..Len(Body(file, g))
    BY <1>2, <1>3, <1>6, <2>1 DEF InRange
  <2> QED BY <2>1, <2>2
<1> QED BY <1>4, <1>5, <1>6 DEF b, r

AllInRange(s) == \A j \in DOMAIN s : InRange(s[j])
Reaches(site, k, s) == Linked(site, s) /\ AllInRange(s) /\ Len(s) = k

LEMMA ReachesOne ==
  ASSUME file \in Files, NEW site \in (1..Len(file.funcs)) \X Nat, IsSite(site), NEW s
  PROVE  s \in FromCallback(site) <=> Reaches(site, 1, s)
<1> DEFINE r == RowName(Call(site).callback)
<1>1. r \in Names
  <2>1. Call(site).callback \in Callback
    BY DEF IsSite, HasCallback, Item
  <2> QED BY <2>1, RowNameType DEF IsSite, HasCallback
<1>2. First(site) \in Nat \ {0}
  BY DEF First
<1>3. End(file, site) \in Nat
  <2>1. Len(Body(file, site[1])) \in Nat
    BY DEF IsSite
  <2>2. Call(site).callback.size \in Nat
    BY DEF IsSite, HasCallback, Item, Callback
  <2> QED BY <2>1, <2>2 DEF End, Call
<1>4. s \in FromCallback(site) <=>
        \E i \in First(site)..End(file, site) : s = <<[block |-> site, row |-> r, at |-> i]>>
  <2> DEFINE T == At(Frame(site, r), First(site)..End(file, site))
  <2>1. FromCallback(site) = {<<f>> : f \in T}
    BY DEF FromCallback, Call
  <2>2. \A f : f \in T <=> \E i \in First(site)..End(file, site) : f = [block |-> site, row |-> r, at |-> i]
    BY AtFrame
  <2> HIDE DEF T, r
  <2>3. s \in FromCallback(site) <=> \E f \in T : s = <<f>>
    BY <2>1
  <2> QED BY <2>2, <2>3, Zenon
<1> HIDE DEF r
<1>5. ASSUME NEW i \in First(site)..End(file, site), s = <<[block |-> site, row |-> r, at |-> i]>>
      PROVE  Reaches(site, 1, s)
  <2> DEFINE f == [block |-> site, row |-> r, at |-> i]
  <2>1. i \in Nat \ {0} /\ i >= First(site) /\ i <= End(file, site)
    BY <1>2, <1>3
  <2>2. f \in FrameType
    BY <1>1, <2>1 DEF FrameType
  <2>3. f.block = site /\ f.row = r /\ f.at = i
    OBVIOUS
  <2> HIDE DEF f
  <2>4. s \in Seq(FrameType) /\ Len(s) = 1 /\ s[1] = f /\ DOMAIN s = {1}
    BY <1>5, <2>2 DEF f
  <2> QED BY <2>1, <2>3, <2>4 DEF Reaches, Linked, AllInRange, InRange, maxScanDepth, r
<1>6. ASSUME Reaches(site, 1, s)
      PROVE  \E i \in First(site)..End(file, site) : s = <<[block |-> site, row |-> r, at |-> i]>>
  <2>1. s \in Seq(FrameType) /\ Len(s) = 1
    BY <1>6 DEF Reaches, Linked
  <2>2. s[1] \in FrameType /\ s = <<s[1]>> /\ 1 \in DOMAIN s
    BY <2>1
  <2>3. s[1].block = site /\ s[1].row = r /\ s[1].at >= First(site) /\ s[1].at <= End(file, site)
    BY <1>6, <2>2 DEF Reaches, Linked, AllInRange, InRange, r
  <2>4. s[1] = [block |-> site, row |-> r, at |-> s[1].at] /\ s[1].at \in Nat
    BY <2>2, <2>3 DEF FrameType
  <2>5. s[1].at \in First(site)..End(file, site)
    BY <1>2, <1>3, <2>3, <2>4
  <2> QED BY <2>2, <2>4, <2>5
<1> QED BY <1>4, <1>5, <1>6

-----------------------------------------------------------------------------
(* What the steps of the walk do to a stack. *)

LEMMA AppendAt ==
  ASSUME NEW S, NEW s \in Seq(S), NEW f \in S
  PROVE  /\ Append(s, f) \in Seq(S) /\ Len(Append(s, f)) = Len(s) + 1
         /\ \A j \in 1..Len(s) : Append(s, f)[j] = s[j]
         /\ Append(s, f)[Len(s) + 1] = f
  OBVIOUS

LEMMA FrontAt ==
  ASSUME NEW S, NEW s \in Seq(S), NEW k \in Nat, Len(s) = k + 1
  PROVE  /\ SubSeq(s, 1, k) \in Seq(S) /\ Len(SubSeq(s, 1, k)) = k
         /\ \A j \in 1..k : SubSeq(s, 1, k)[j] = s[j]
         /\ s = Append(SubSeq(s, 1, k), s[k + 1])
  OBVIOUS

LEMMA LinkedAppend ==
  ASSUME file \in Files, NEW site, NEW s, Linked(site, s), Len(s) \in 1..maxScanDepth,
         InRange(s[Len(s)]), NEW f \in FrameType, Link(s[Len(s)], f), f.at >= First(f.block)
  PROVE  Linked(site, Append(s, f))
<1> DEFINE t == Append(s, f)
<1>1. s \in Seq(FrameType) /\ Len(s) \in 1..3
  BY DEF Linked, maxScanDepth
<1>2. t \in Seq(FrameType) /\ Len(t) = Len(s) + 1 /\ t[Len(s) + 1] = f
  BY <1>1, AppendAt
<1>3. \A j \in 1..Len(s) : t[j] = s[j]
  BY <1>1, AppendAt
<1> HIDE DEF t
<1>4. Len(t) \in 1..(maxScanDepth + 1) /\ DOMAIN t = 1..(Len(s) + 1) /\ DOMAIN s = 1..Len(s)
  BY <1>1, <1>2 DEF maxScanDepth
<1>5. t[1].block = site /\ t[1].row = RowName(Call(site).callback)
  BY <1>1, <1>3 DEF Linked
<1>6. ASSUME NEW j \in DOMAIN t PROVE t[j].at >= First(t[j].block)
  <2>1. CASE j = Len(s) + 1
    BY <2>1, <1>2
  <2>2. CASE j # Len(s) + 1
    <3>1. j \in DOMAIN s /\ j \in 1..Len(s)
      BY <1>1, <1>4, <2>2
    <3> QED BY <1>3, <3>1 DEF Linked
  <2> QED BY <2>1, <2>2
<1>7. ASSUME NEW j \in 1..(Len(t) - 1) PROVE InRange(t[j]) /\ Link(t[j], t[j + 1])
  <2>1. j \in 1..Len(s) /\ t[j] = s[j]
    BY <1>1, <1>2, <1>3
  <2>2. CASE j = Len(s)
    BY <1>2, <2>1, <2>2
  <2>3. CASE j # Len(s)
    <3>1. j \in 1..(Len(s) - 1) /\ t[j + 1] = s[j + 1]
      BY <1>1, <1>3, <2>1, <2>3
    <3> QED BY <2>1, <3>1 DEF Linked
  <2> QED BY <2>2, <2>3
<1> QED BY <1>2, <1>4, <1>5, <1>6, <1>7 DEF Linked, t

LEMMA LinkedFront ==
  ASSUME NEW site, NEW s, Linked(site, s), NEW k \in Nat \ {0}, Len(s) = k + 1
  PROVE  Linked(site, SubSeq(s, 1, k)) /\ InRange(s[k]) /\ Link(s[k], s[k + 1])
<1> DEFINE t == SubSeq(s, 1, k)
<1>1. s \in Seq(FrameType) /\ k \in 1..3 /\ DOMAIN s = 1..(k + 1)
  BY DEF Linked, maxScanDepth
<1>2. t \in Seq(FrameType) /\ Len(t) = k
  BY <1>1, FrontAt
<1>3. \A j \in 1..k : t[j] = s[j]
  BY <1>1, FrontAt
<1> HIDE DEF t
<1>4. Len(t) \in 1..(maxScanDepth + 1) /\ DOMAIN t = 1..k
  BY <1>1, <1>2 DEF maxScanDepth
<1>5. t[1].block = site /\ t[1].row = RowName(Call(site).callback)
  BY <1>1, <1>3 DEF Linked
<1>6. ASSUME NEW j \in DOMAIN t PROVE t[j].at >= First(t[j].block)
  BY <1>1, <1>3, <1>4 DEF Linked
<1>7. ASSUME NEW j \in 1..k PROVE InRange(s[j]) /\ Link(s[j], s[j + 1])
  <2>1. j \in 1..(Len(s) - 1)
    BY <1>1
  <2> QED BY <2>1 DEF Linked
<1>8. ASSUME NEW j \in 1..(Len(t) - 1) PROVE InRange(t[j]) /\ Link(t[j], t[j + 1])
  <2>1. j \in 1..k /\ j + 1 \in 1..k
    BY <1>1, <1>2
  <2> QED BY <1>3, <1>7, <2>1
<1>9. k \in 1..k
  BY <1>1
<1> QED BY <1>2, <1>4, <1>5, <1>6, <1>7, <1>8, <1>9 DEF Linked, t

\* What links depends on is not where the frame below it is.
LEMMA LinkedAdvanced ==
  ASSUME NEW site, NEW s, Linked(site, s)
  PROVE  Linked(site, Advanced(s))
<1> DEFINE t == Advanced(s)
           k == Len(s)
           f == [s[k] EXCEPT !.at = @ + 1]
<1>1. s \in Seq(FrameType) /\ k \in 1..4 /\ DOMAIN s = 1..k
  BY DEF Linked, maxScanDepth
<1>2. s[k] \in FrameType
  BY <1>1
<1>3. f \in FrameType /\ f.block = s[k].block /\ f.row = s[k].row /\ f.at = s[k].at + 1
  BY <1>2 DEF FrameType
<1>4. t \in Seq(FrameType) /\ Len(t) = k /\ DOMAIN t = 1..k /\ t[k] = f
  BY <1>1, <1>3 DEF Advanced
<1>5. \A j \in 1..(k - 1) : t[j] = s[j]
  BY <1>1 DEF Advanced
<1> HIDE DEF t, f
<1>6. t[1].block = site /\ t[1].row = RowName(Call(site).callback)
  <2>1. CASE k = 1
    BY <1>3, <1>4, <2>1 DEF Linked
  <2>2. CASE k # 1
    <3>1. t[1] = s[1]
      BY <1>1, <1>5, <2>2
    <3> QED BY <3>1 DEF Linked
  <2> QED BY <2>1, <2>2
<1>7. ASSUME NEW j \in DOMAIN t PROVE t[j].at >= First(t[j].block)
  <2>1. s[j].at >= First(s[j].block)
    BY <1>1, <1>4 DEF Linked
  <2>2. CASE j = k
    <3>1. s[k].at \in Nat /\ s[k].block[2] \in Nat
      BY <1>2 DEF FrameType
    <3> QED BY <1>3, <1>4, <2>1, <2>2, <3>1 DEF First
  <2>3. CASE j # k
    BY <1>1, <1>4, <1>5, <2>1, <2>3
  <2> QED BY <2>2, <2>3
<1>8. ASSUME NEW j \in 1..(k - 1) PROVE InRange(t[j]) /\ Link(t[j], t[j + 1])
  <2>1. t[j] = s[j] /\ InRange(s[j]) /\ Link(s[j], s[j + 1])
    BY <1>5 DEF Linked
  <2>2. t[j + 1].block = s[j + 1].block /\ t[j + 1].row = s[j + 1].row
    <3>1. CASE j + 1 = k
      BY <1>3, <1>4, <3>1
    <3>2. CASE j + 1 # k
      BY <1>1, <1>5, <3>2
    <3> QED BY <3>1, <3>2
  <2> QED BY <2>1, <2>2 DEF Link
<1>9. Len(t) \in 1..(maxScanDepth + 1)
  BY <1>1, <1>4 DEF maxScanDepth
<1> QED BY <1>4, <1>6, <1>7, <1>8, <1>9 DEF Linked, t

-----------------------------------------------------------------------------
(* The invariant. *)

Good(new) == \A d \in new : d.rule \in Rule /\ d.line \in Lines

IInv == TypeOK /\ Walking

LEMMA CallType ==
  ASSUME NEW item \in Item, item.k = "call"
  PROVE  item.stmt \in Stmt \cup {NoStmt} /\ item.callback \in Callback \cup {NoCallback}
  BY DEF Item

\* The block of a frame is a list of items of its function.
LEMMA BlockType ==
  ASSUME file \in Files, NEW site, IsSite(site), NEW s, Linked(site, s), NEW j \in DOMAIN s
  PROVE  /\ s[j] \in FrameType /\ s[j].at >= First(s[j].block) /\ s[j].block[1] \in DOMAIN file.funcs
         /\ Body(file, s[j].block[1]) \in Seq(Item)
         /\ End(file, s[j].block) \in Int /\ End(file, s[j].block) <= Len(Body(file, s[j].block[1]))
<1> DEFINE f == s[j]
<1>1. s \in Seq(FrameType) /\ j \in Nat /\ DOMAIN s = 1..Len(s)
  BY SeqAt DEF Linked
<1>2. f \in FrameType /\ f.at >= First(f.block)
  BY <1>1 DEF Linked
<1>3. f.block[2] \in Nat /\ f.block[1] \in DOMAIN file.funcs
  BY <1>2, FileType DEF FrameType
<1>4. CASE j = 1
  <2>1. f.block = site
    BY <1>4 DEF Linked
  <2> DEFINE g == site[1]
             i == site[2]
  <2>2. Body(file, g) \in Seq(Item) /\ i \in DOMAIN Body(file, g) /\ g \in DOMAIN file.funcs
    BY DEF IsSite
  <2>3. Len(Body(file, g)) \in Nat
    BY <2>2
  <2>4. Body(file, g) = file.funcs[g].body
    BY <2>2, FileType
  <2>5. Body(file, g)[i] = Call(site) /\ Call(site).k = "call" /\ Call(site).callback # NoCallback
    BY DEF IsSite, Call, HasCallback
  <2>6. Body(file, g) # NoBody
    BY <2>2, Absent
  <2>7. i + Call(site).callback.size <= Len(Body(file, g))
    BY <2>2, <2>4, <2>5, <2>6, Nesting
  <2>8. Call(site).callback.size \in Nat
    <3>1. Call(site).callback \in Callback
      BY CallType DEF IsSite, HasCallback
    <3> QED BY <3>1 DEF Callback
  <2>9. End(file, site) \in Int /\ End(file, site) <= Len(Body(file, g))
    <3>1. CASE i = 0
      BY <2>3, <3>1 DEF End
    <3>2. CASE i # 0
      <4>1. i \in Nat
        BY <1>3, <2>1
      <4> QED BY <2>5, <2>7, <2>8, <3>2, <4>1 DEF End
    <3> QED BY <3>1, <3>2
  <2> QED BY <1>2, <1>3, <2>1, <2>2, <2>9
<1>5. CASE j # 1
  <2>1. j - 1 \in 1..(Len(s) - 1) /\ (j - 1) + 1 = j
    BY <1>1, <1>5 DEF Linked, maxScanDepth
  <2>2. Link(s[j - 1], s[j])
    <3>1. Link(s[j - 1], s[(j - 1) + 1])
      BY <2>1 DEF Linked
    <3> QED BY <2>1, <3>1
  <2>3. PICK g \in Callees(s[j - 1]) : Body(file, g) # NoBody /\ f.block = <<g, 0>>
    BY <2>2 DEF Link
  <2>4. Body(file, g) \in Seq(Item)
    BY <2>3, CalleeType, FileType
  <2>5. End(file, f.block) = Len(Body(file, g)) /\ f.block[1] = g /\ Len(Body(file, g)) \in Nat
    BY <2>3, <2>4 DEF End
  <2> QED BY <1>2, <1>3, <2>4, <2>5
<1> QED BY <1>4, <1>5

LEMMA ItemType ==
  ASSUME file \in Files, NEW site, IsSite(site), NEW s, Linked(site, s), NEW j \in DOMAIN s, InRange(s[j])
  PROVE  /\ Body(file, s[j].block[1]) \in Seq(Item) /\ s[j].at \in DOMAIN Body(file, s[j].block[1])
         /\ ItemOf(s[j]) \in Item
<1> DEFINE f == s[j]
           body == Body(file, f.block[1])
<1>1. body \in Seq(Item)
  BY BlockType
<1>2. End(file, f.block) \in Int /\ End(file, f.block) <= Len(body) /\ f \in FrameType
  BY BlockType
<1>3. f.at \in Nat \ {0} /\ f.at <= End(file, f.block)
  BY <1>2 DEF FrameType, InRange
<1> HIDE DEF body, f
<1>4. f.at \in DOMAIN body
  BY <1>1, <1>2, <1>3
<1>5. ItemOf(f) \in Item
  BY <1>1, <1>4, SeqAt DEF ItemOf, body
<1> QED BY <1>1, <1>4, <1>5 DEF f, body

\* What AnalyzeScanFile visits.
LEMMA SiteType ==
  ASSUME IInv, AtSite
  PROVE  /\ fn \in DOMAIN file.funcs /\ Visited \in Item /\ Visited.stmt \in Stmt
         /\ HasCallback(Visited) => IsSite(<<fn, at>>)
<1>1. file \in Files /\ fn \in Nat \ {0} /\ at \in Nat \ {0} /\ fn <= Len(file.funcs) /\ at <= Len(Body(file, fn))
      /\ file.funcs[fn].body # NoBody /\ Visited.k = "call" /\ Visited.stmt # NoStmt
  <2>1. file \in Files /\ fn \in 1..(Len(file.funcs) + 1) /\ at \in Nat \ {0}
    BY DEF IInv, TypeOK, Walking
  <2>2. Len(file.funcs) \in Nat
    BY <2>1, FileType
  <2> QED BY <2>1, <2>2 DEF AtSite, AtItem
<1>2. fn \in DOMAIN file.funcs
  BY <1>1, FileType
<1>3. Body(file, fn) \in Seq(Item)
  BY <1>1, <1>2, FileType
<1>4. at \in DOMAIN Body(file, fn) /\ Visited \in Item
  BY <1>1, <1>3 DEF Visited
<1>5. Visited.stmt \in Stmt
  BY <1>1, <1>4, CallType
<1>6. Call(<<fn, at>>) = Visited
  BY DEF Call, Visited
<1> QED BY <1>1, <1>2, <1>3, <1>4, <1>5, <1>6 DEF IsSite

-----------------------------------------------------------------------------
(* The diagnostics of each step are of a known rule and line. *)

LEMMA DiagnosticType ==
  ASSUME NEW line, NEW rule, NEW name
  PROVE  Diagnostic(line, rule, name).rule = rule /\ Diagnostic(line, rule, name).line = line
  BY DEF Diagnostic

LEMMA GoodOf ==
  ASSUME NEW line \in Lines, NEW rule \in Rule
  PROVE  /\ \A n : Good({Diagnostic(line, rule, n)})
         /\ \A S : Good({Diagnostic(line, rule, n) : n \in S})
<1>1. \A n : Diagnostic(line, rule, n).rule \in Rule /\ Diagnostic(line, rule, n).line \in Lines
  BY DiagnosticType
<1>2. \A n : Good({Diagnostic(line, rule, n)})
  <2> SUFFICES ASSUME NEW n, NEW d \in {Diagnostic(line, rule, n)} PROVE d.rule \in Rule /\ d.line \in Lines
    BY DEF Good
  <2>1. d = Diagnostic(line, rule, n)
    OBVIOUS
  <2> QED BY <1>1, <2>1, Zenon
<1>3. \A S : Good({Diagnostic(line, rule, n) : n \in S})
  <2> SUFFICES ASSUME NEW S, NEW d \in {Diagnostic(line, rule, n) : n \in S}
               PROVE  d.rule \in Rule /\ d.line \in Lines
    BY DEF Good
  <2>1. PICK n \in S : d = Diagnostic(line, rule, n)
    OBVIOUS
  <2> QED BY <1>1, <2>1, Zenon
<1> QED BY <1>2, <1>3

LEMMA GoodUnion ==
  ASSUME NEW A, NEW B, Good(A), Good(B)
  PROVE  Good(A \cup B)
  BY DEF Good

LEMMA GoodSuppressible ==
  ASSUME NEW line \in Lines, NEW rule \in Rule
  PROVE  Good(Suppressible(line, rule))
<1>1. Good({}) /\ Good({Diagnostic(line, rule, "")})
  BY GoodOf DEF Good
<1> QED BY <1>1, Zenon DEF Suppressible

LEMMA GoodParams ==
  ASSUME NEW stmt \in Stmt
  PROVE  Good(ParamDiags(stmt))
<1>1. stmt.line \in Lines /\ stmt.paramsLine \in Lines /\ stmt.has \in {"none", "literal", "other"}
      /\ stmt.query.parses \in BOOLEAN
  BY DEF Stmt, Query
<1>2. "params literal" \in Rule /\ "missing param" \in Rule /\ "unused param" \in Rule
  BY DEF Rule
<1>3. CASE stmt.has = "none" \/ (stmt.has = "literal" /\ ~stmt.query.parses)
  <2>1. ParamDiags(stmt) = {}
    BY <1>3 DEF ParamDiags
  <2> QED BY <2>1 DEF Good
<1>4. CASE stmt.has = "other"
  <2>1. ParamDiags(stmt) = Suppressible(stmt.paramsLine, "params literal")
    BY <1>4 DEF ParamDiags
  <2> QED BY <1>1, <1>2, <2>1, GoodSuppressible
<1>5. CASE stmt.has = "literal" /\ stmt.query.parses
  <2> DEFINE missing == {Diagnostic(stmt.line, "missing param", p) : p \in stmt.query.params \ stmt.keys}
             unused == {Diagnostic(stmt.line, "unused param", p) : p \in stmt.keys \ stmt.query.params}
  <2>1. ParamDiags(stmt) = missing \cup unused
    BY <1>5 DEF ParamDiags
  <2>2. Good(missing) /\ Good(unused)
    BY <1>1, <1>2, GoodOf
  <2> HIDE DEF missing, unused
  <2> QED BY <2>1, <2>2, GoodUnion
<1> QED BY <1>1, <1>3, <1>4, <1>5

LEMMA GoodScan ==
  ASSUME NEW query, NEW tags, NEW item \in Item, item.k \in {"Columns", "ToStruct"}
  PROVE  Good(ScanDiags(query, item, tags))
<1>1. item.line \in Lines
  BY DEF Item
<1>2. "count" \in Rule /\ "unresolved" \in Rule /\ "no field" \in Rule /\ "no column" \in Rule
  BY DEF Rule
<1>3. CASE item.k = "Columns"
  <2>1. Good({}) /\ Good({Diagnostic(item.line, "count", "")})
    BY <1>1, <1>2, GoodOf DEF Good
  <2>2. \/ ScanDiags(query, item, tags) = {}
        \/ ScanDiags(query, item, tags) = {Diagnostic(item.line, "count", "")}
    BY <1>3 DEF ScanDiags
  <2> QED BY <2>1, <2>2, Zenon
<1>4. CASE item.k = "ToStruct" /\ tags = {}
  <2>1. ScanDiags(query, item, tags) = Suppressible(item.line, "unresolved")
    BY <1>4 DEF ScanDiags
  <2> QED BY <1>1, <1>2, <2>1, GoodSuppressible
<1>5. CASE item.k = "ToStruct" /\ tags # {}
  <2> DEFINE S == {n \in Columns(query) : Lower[n] \notin LowerOf(tags)}
             T == {n \in tags : Lower[n] \notin LowerOf(Columns(query))}
             A == {Diagnostic(item.line, "no field", n) : n \in S}
             B == {Diagnostic(item.line, "no column", n) : n \in T}
  <2>1. ScanDiags(query, item, tags) = A \cup B
    BY <1>5 DEF ScanDiags, StructDiags
  <2>2. Good(A) /\ Good(B)
    <3> HIDE DEF S, T
    <3> QED BY <1>1, <1>2, GoodOf
  <2> HIDE DEF A, B
  <2> QED BY <2>1, <2>2, GoodUnion
<1> QED BY <1>3, <1>4, <1>5

-----------------------------------------------------------------------------
(* The steps keep the invariant. *)

LEMMA Init_IInv ==
  ASSUME Init
  PROVE  IInv
<1>1. file \in Files /\ noStar \in BOOLEAN /\ pc \in {"inspect", "done"} /\ fn = 1 /\ at = 1
      /\ frames = <<>> /\ diags = {}
  BY DEF Init
<1>2. file \in File /\ Len(file.funcs) \in Nat
  BY <1>1, FileType
<1>3. frames \in Seq(FrameType) /\ Len(frames) <= maxScanDepth + 1
  BY <1>1 DEF maxScanDepth
<1> QED BY <1>1, <1>2, <1>3 DEF IInv, TypeOK, Walking

\* Of the inputs and of what does not depend on anything else.
LEMMA Unchanged ==
  ASSUME file' = file
  PROVE  /\ \A site : IsSite(site)' <=> IsSite(site)
         /\ \A site, s : Linked(site, s)' <=> Linked(site, s)
         /\ \A f : (Scans(f)' <=> Scans(f)) /\ (InRange(f)' <=> InRange(f))
         /\ FrameType' = FrameType
<1>1. \A g : Body(file, g)' = Body(file, g)
  OBVIOUS
<1>2. \A site : Call(site)' = Call(site)
  BY DEF Call
<1>3. \A site : IsSite(site)' <=> IsSite(site)
  BY <1>1, <1>2 DEF IsSite
<1>4. FrameType' = FrameType
  BY DEF FrameType
<1>5. \A f : ItemOf(f)' = ItemOf(f)
  BY DEF ItemOf
<1>6. \A f : Scans(f)' <=> Scans(f)
  BY <1>5 DEF Scans
<1>7. \A f : InRange(f)' <=> InRange(f)
  BY DEF InRange
<1>8. \A a : Callees(a)' = Callees(a)
  BY <1>5 DEF Callees
<1>9. \A a, b : Link(a, b)' <=> Link(a, b)
  BY <1>1, <1>8 DEF Link
<1>10. \A site, s : Linked(site, s)' <=> Linked(site, s)
  BY <1>2, <1>4, <1>7, <1>9 DEF Linked
<1> QED BY <1>3, <1>4, <1>6, <1>7, <1>10

LEMMA Report_IInv ==
  ASSUME IInv, fn \in DOMAIN file.funcs, NEW new, Good(new), Report(new)
  PROVE  IInv'
<1>1. file \in Files /\ Len(file.funcs) \in Nat /\ fn \in 1..(Len(file.funcs) + 1) /\ at \in Nat \ {0}
      /\ file \in File /\ noStar \in BOOLEAN
  BY FileType DEF IInv, TypeOK, Walking
<1>2. file' = file /\ noStar' = noStar /\ fn' = fn /\ at' = at + 1 /\ pc' = "inspect" /\ frames' = <<>>
      /\ diags' = diags \cup new
  BY DEF Report
<1>3. Good(diags \cup new)
  BY DEF IInv, TypeOK, Good
<1>4. frames' \in Seq(FrameType') /\ Len(frames') <= maxScanDepth + 1
  BY <1>2 DEF maxScanDepth
<1>5. TypeOK'
  BY <1>1, <1>2, <1>3, <1>4 DEF TypeOK, Good
<1>6. Walking'
  BY <1>1, <1>2 DEF Walking
<1> QED BY <1>5, <1>6 DEF IInv

\* A step of the walk, which leaves the call and the diagnostics alone.
LEMMA Walk_IInv ==
  ASSUME IInv, UNCHANGED <<file, noStar, fn, at, diags>>,
         IsSite(<<fn, at>>), Visited.stmt \in Stmt,
         NEW s, frames' = s, (s = <<>> /\ pc' = "lost") \/ (Linked(<<fn, at>>, s) /\ pc' \in {"walk", "panic"})
  PROVE  IInv'
<1>1. file \in Files /\ fn \in 1..(Len(file.funcs) + 1) /\ at \in Nat \ {0}
      /\ file \in File /\ noStar \in BOOLEAN /\ \A d \in diags : d.rule \in Rule /\ d.line \in Lines
  BY DEF IInv, TypeOK, Walking
<1>2. file' = file /\ noStar' = noStar /\ fn' = fn /\ at' = at /\ diags' = diags
  OBVIOUS
<1>3. s \in Seq(FrameType) /\ Len(s) <= maxScanDepth + 1 /\ (s # <<>> <=> pc' \in {"walk", "found", "panic"})
      /\ (s # <<>> => s[1].block = <<fn, at>>)
  <2>1. CASE s = <<>> /\ pc' = "lost"
    BY <2>1 DEF maxScanDepth
  <2>2. CASE Linked(<<fn, at>>, s) /\ pc' \in {"walk", "panic"}
    BY <2>2 DEF Linked, maxScanDepth
  <2> QED BY <2>1, <2>2
<1>4. TypeOK'
  BY <1>1, <1>2, <1>3, Unchanged DEF TypeOK
<1>5. Visited' = Visited
  BY <1>2 DEF Visited
<1>6. Walking'
  <2>1. pc' \in {"walk", "lost", "panic"} /\ (pc' # "lost" => Linked(<<fn, at>>, s))
    OBVIOUS
  <2>2. IsSite(<<fn, at>>)' /\ (pc' # "lost" => Linked(<<fn, at>>, frames)')
    BY <1>2, <2>1, Unchanged
  <2> QED BY <1>1, <1>2, <1>5, <2>1, <2>2 DEF Walking
<1> QED BY <1>4, <1>6 DEF IInv

LEMMA Visit_IInv ==
  ASSUME IInv, Visit
  PROVE  IInv'
<1> DEFINE f == Frame(<<fn, at>>, RowName(Visited.callback))
<1>1. AtSite /\ HasCallback(Visited) /\ frames' = <<f>> /\ pc' = "walk" /\ diags' = diags \cup ParamDiags(Visited.stmt)
      /\ UNCHANGED <<file, noStar, fn, at>>
  BY DEF Visit
<1>2. file \in Files /\ IsSite(<<fn, at>>) /\ Visited.stmt \in Stmt /\ fn \in DOMAIN file.funcs
  BY <1>1, SiteType DEF IInv, Walking
<1>3. fn \in 1..(Len(file.funcs) + 1) /\ at \in Nat \ {0} /\ fn \in 1..Len(file.funcs) /\ noStar \in BOOLEAN
      /\ file \in File
  BY <1>2, FileType DEF IInv, TypeOK
<1>4. Call(<<fn, at>>) = Visited
  BY DEF Call, Visited
<1>5. RowName(Visited.callback) \in Names
  <2>1. Visited.callback \in Callback
    BY <1>2, <1>4, CallType DEF IsSite, HasCallback
  <2> QED BY <1>1, <2>1, RowNameType DEF HasCallback
<1>6. f = [block |-> <<fn, at>>, row |-> RowName(Visited.callback), at |-> at + 1]
  BY DEF Frame, First
<1>7. f \in FrameType /\ f.block = <<fn, at>> /\ f.row = RowName(Visited.callback) /\ f.at = at + 1
  BY <1>3, <1>5, <1>6 DEF FrameType
<1> HIDE DEF f
<1>8. Linked(<<fn, at>>, <<f>>)
  <2>1. <<f>> \in Seq(FrameType) /\ Len(<<f>>) = 1 /\ <<f>>[1] = f /\ DOMAIN <<f>> = {1}
    BY <1>7
  <2>2. f.at >= First(f.block)
    BY <1>3, <1>7 DEF First
  <2> QED BY <1>4, <1>7, <2>1, <2>2 DEF Linked, maxScanDepth
<1>9. Good(diags \cup ParamDiags(Visited.stmt))
  BY <1>2, GoodParams, GoodUnion DEF IInv, TypeOK, Good
<1>10. TypeOK'
  <2>1. <<f>> \in Seq(FrameType) /\ Len(<<f>>) <= maxScanDepth + 1 /\ <<f>> # <<>> /\ <<f>>[1].block = <<fn, at>>
    BY <1>7 DEF maxScanDepth
  <2> QED BY <1>1, <1>3, <1>9, <2>1, Unchanged DEF TypeOK, Good
<1>11. Walking'
  <2>1. Visited' = Visited
    BY <1>1 DEF Visited
  <2>2. IsSite(<<fn, at>>)' /\ Linked(<<fn, at>>, frames)'
    BY <1>1, <1>2, <1>8, Unchanged
  <2> QED BY <1>1, <1>2, <2>1, <2>2 DEF Walking
<1> QED BY <1>10, <1>11 DEF IInv

\* The walk goes on at its last frame.
LEMMA WalkType ==
  ASSUME IInv, pc \in {"walk", "found"}
  PROVE  /\ file \in Files /\ IsSite(<<fn, at>>) /\ Visited.stmt \in Stmt /\ Linked(<<fn, at>>, frames)
         /\ frames \in Seq(FrameType) /\ Len(frames) \in 1..(maxScanDepth + 1)
         /\ Len(frames) \in DOMAIN frames /\ Top \in FrameType
         /\ AtEnd \/ InRange(Top)
<1>1. file \in Files /\ IsSite(<<fn, at>>) /\ Visited.stmt \in Stmt /\ Linked(<<fn, at>>, frames)
  BY DEF IInv, Walking
<1>2. frames \in Seq(FrameType) /\ Len(frames) \in 1..(maxScanDepth + 1)
  BY <1>1 DEF Linked
<1>3. Len(frames) \in DOMAIN frames /\ Top \in FrameType
  BY <1>2 DEF Top
<1>4. AtEnd \/ InRange(Top)
  <2>1. Top.at \in Nat /\ Top.block[1] \in Nat /\ Top.block[2] \in Nat
    BY <1>3 DEF FrameType
  <2>2. End(file, Top.block) \in Int
    <3>1. Len(frames) = 1 \/ Len(frames) - 1 \in 1..(Len(frames) - 1)
      BY <1>2 DEF maxScanDepth
    <3>2. CASE Len(frames) = 1
      <4>1. Top.block = <<fn, at>> /\ Top.block[1] = fn /\ Top.block[2] = at
        BY <1>1, <3>2 DEF Linked, Top
      <4>2. Call(<<fn, at>>).callback \in Callback /\ Body(file, fn) \in Seq(Item)
        BY <1>1, CallType DEF IsSite, HasCallback
      <4>3. Call(<<fn, at>>).callback.size \in Nat
        BY <4>2 DEF Callback
      <4>4. Call(<<fn, at>>) = Body(file, fn)[at]
        BY DEF Call
      <4>5. Len(Body(file, fn)) \in Nat
        BY <4>2
      <4> QED BY <2>1, <4>1, <4>3, <4>4, <4>5 DEF End
    <3>3. CASE Len(frames) - 1 \in 1..(Len(frames) - 1)
      <4> DEFINE i == Len(frames) - 1
      <4>1. i + 1 = Len(frames)
        BY <1>2 DEF maxScanDepth
      <4>2. Link(frames[i], frames[i + 1])
        BY <1>1, <3>3 DEF Linked
      <4>3. PICK g \in Callees(frames[i]) : Body(file, g) # NoBody /\ Top.block = <<g, 0>>
        BY <4>1, <4>2 DEF Link, Top
      <4>4. Body(file, g) \in Seq(Item)
        BY <1>1, <4>3, CalleeType, FileType
      <4>5. Len(Body(file, g)) \in Nat
        BY <4>4
      <4> QED BY <4>3, <4>5 DEF End
    <3> QED BY <3>1, <3>2, <3>3
  <2> QED BY <2>1, <2>2 DEF AtEnd, InRange
<1> QED BY <1>1, <1>2, <1>3, <1>4

LEMMA Found_IInv ==
  ASSUME IInv, Found
  PROVE  IInv'
<1>1. pc = "walk" /\ InRange(Top) /\ Scans(Top) /\ pc' = "found" /\ UNCHANGED <<file, noStar, fn, at, frames, diags>>
  BY WalkType DEF Found
<1>2. Top' = Top /\ Visited' = Visited
  BY <1>1 DEF Top, Visited
<1>3. TypeOK'
  BY <1>1, Unchanged DEF IInv, TypeOK
<1>4. Walking'
  <2>1. IsSite(<<fn, at>>)' /\ Linked(<<fn, at>>, frames)' /\ InRange(Top)' /\ Scans(Top)'
    BY <1>1, <1>2, WalkType, Unchanged
  <2>2. file' \in Files /\ Visited'.stmt \in Stmt
    BY <1>1, <1>2, WalkType
  <2> QED BY <1>1, <2>1, <2>2 DEF Walking
<1> QED BY <1>3, <1>4 DEF IInv

LEMMA Shallower ==
  ASSUME NEW n \in 1..4, n - 1 < 3
  PROVE  n \in 1..3
  OBVIOUS

LEMMA Enter_IInv ==
  ASSUME IInv, Enter
  PROVE  IInv'
<1>1. pc = "walk" /\ ~AtEnd /\ Len(frames) - 1 < maxScanDepth /\ UNCHANGED <<file, noStar, pc, fn, at, diags>>
  BY DEF Enter
<1>2. PICK g \in Callees(Top) :
        file.funcs[g].body # NoBody /\ frames' = Append(frames, Frame(<<g, 0>>, RowParam(file.funcs[g])))
  BY DEF Enter
<1> DEFINE f == Frame(<<g, 0>>, RowParam(file.funcs[g]))
<1>3. f = [block |-> <<g, 0>>, row |-> RowParam(file.funcs[g]), at |-> 1]
  BY DEF Frame, First
<1>4. file \in Files
  BY DEF IInv, Walking
<1>5. g \in DOMAIN file.funcs /\ RowParam(file.funcs[g]) \in Names /\ <<g, 0>> \in (1..Len(file.funcs)) \X Nat
  BY <1>2, <1>4, CalleeType
<1>6. Body(file, g) # NoBody
  BY <1>2, <1>4, <1>5, FileType
<1>7. f \in FrameType /\ f.block = <<g, 0>> /\ f.row = RowParam(file.funcs[g]) /\ f.at = 1
  BY <1>3, <1>5 DEF FrameType
<1> HIDE DEF f
<1>8. Link(Top, f) /\ f.at >= First(f.block)
  BY <1>2, <1>6, <1>7 DEF Link, First
<1>9. Linked(<<fn, at>>, Append(frames, f))
  <2>1. Len(frames) \in 1..(maxScanDepth + 1) /\ InRange(Top)
    BY <1>1, WalkType
  <2>2. Len(frames) \in 1..4 /\ Len(frames) - 1 < 3
    BY <1>1, <2>1 DEF maxScanDepth
  <2>3. Len(frames) \in 1..maxScanDepth
    BY <2>2, Shallower DEF maxScanDepth
  <2> QED BY <1>1, <1>4, <1>7, <1>8, <2>1, <2>3, WalkType, LinkedAppend DEF Top
<1>10. IsSite(<<fn, at>>) /\ Visited.stmt \in Stmt /\ frames' = Append(frames, f)
  BY <1>1, <1>2, WalkType DEF f
<1> QED BY <1>1, <1>9, <1>10, Walk_IInv

LEMMA EnterNil_IInv ==
  ASSUME IInv, EnterNil
  PROVE  IInv'
<1>1. pc = "walk" /\ pc' = "panic" /\ UNCHANGED <<file, noStar, fn, at, diags>> /\ frames' = frames
  BY DEF EnterNil
<1>2. IsSite(<<fn, at>>) /\ Visited.stmt \in Stmt /\ Linked(<<fn, at>>, frames)
  BY <1>1, WalkType
<1> QED BY <1>1, <1>2, Walk_IInv

LEMMA Pass_IInv ==
  ASSUME IInv, Pass
  PROVE  IInv'
<1>1. pc = "walk" /\ UNCHANGED <<file, noStar, pc, fn, at, diags>> /\ frames' = Advanced(frames)
  BY DEF Pass
<1>2. IsSite(<<fn, at>>) /\ Visited.stmt \in Stmt /\ Linked(<<fn, at>>, Advanced(frames))
  BY <1>1, WalkType, LinkedAdvanced
<1> QED BY <1>1, <1>2, Walk_IInv

LEMMA Return_IInv ==
  ASSUME IInv, Return
  PROVE  IInv'
<1>1. pc = "walk" /\ UNCHANGED <<file, noStar, fn, at, diags>>
  BY DEF Return
<1>2. IsSite(<<fn, at>>) /\ Visited.stmt \in Stmt /\ Linked(<<fn, at>>, frames) /\ Len(frames) \in 1..4
  BY <1>1, WalkType DEF maxScanDepth
<1>3. CASE Len(frames) = 1
  BY <1>1, <1>2, <1>3, Walk_IInv DEF Return
<1>4. CASE Len(frames) # 1
  <2> DEFINE k == Len(frames) - 1
  <2>1. k \in Nat \ {0} /\ Len(frames) = k + 1
    BY <1>2, <1>4
  <2>2. Linked(<<fn, at>>, Above)
    BY <1>2, <2>1, LinkedFront DEF Above
  <2>3. Linked(<<fn, at>>, Advanced(Above))
    BY <2>2, LinkedAdvanced
  <2>4. frames' = Advanced(Above) /\ pc' = "walk"
    BY <1>4 DEF Return
  <2> QED BY <1>1, <1>2, <2>3, <2>4, Walk_IInv
<1> QED BY <1>3, <1>4

LEMMA Next_IInv ==
  ASSUME IInv, [Next]_vars
  PROVE  IInv'
<1>1. CASE UNCHANGED vars
  <2>1. UNCHANGED <<file, noStar, pc, fn, at, frames, diags>>
    BY <1>1 DEF vars
  <2>2. TypeOK'
    BY <2>1, Unchanged DEF IInv, TypeOK
  <2>3. Top' = Top /\ Visited' = Visited
    BY <2>1 DEF Top, Visited
  <2>4. Walking'
    BY <2>1, <2>3, Unchanged DEF IInv, Walking
  <2> QED BY <2>2, <2>4 DEF IInv
<1>2. CASE NextFunc \/ Finish
  <2>1. file' = file /\ noStar' = noStar /\ frames' = frames /\ diags' = diags /\ pc = "inspect" /\ pc' \in {"inspect", "done"}
    BY <1>2 DEF NextFunc, Finish
  <2>2. file \in Files /\ Len(file.funcs) \in Nat /\ fn \in 1..(Len(file.funcs) + 1) /\ at \in Nat \ {0}
    BY FileType DEF IInv, TypeOK, Walking
  <2>3. fn' \in 1..(Len(file.funcs) + 1) /\ at' \in Nat \ {0}
    BY <1>2, <2>2 DEF NextFunc, Finish
  <2>4. frames = <<>>
    BY <2>1 DEF IInv, TypeOK
  <2>5. TypeOK'
    BY <2>1, <2>3, <2>4, Unchanged DEF IInv, TypeOK
  <2>6. Walking'
    BY <2>1, <2>2 DEF Walking
  <2> QED BY <2>5, <2>6 DEF IInv
<1>3. CASE Skip
  <2>1. file \in Files /\ fn \in 1..(Len(file.funcs) + 1) /\ fn <= Len(file.funcs) /\ Report({})
    BY <1>3 DEF Skip, AtItem, IInv, TypeOK, Walking
  <2>2. fn \in DOMAIN file.funcs
    BY <2>1, FileType
  <2>3. Good({})
    BY DEF Good
  <2> QED BY <2>1, <2>2, <2>3, Report_IInv
<1>4. CASE VisitOnly
  <2>1. AtSite /\ Report(ParamDiags(Visited.stmt))
    BY <1>4 DEF VisitOnly
  <2> QED BY <2>1, SiteType, GoodParams, Report_IInv
<1>5. CASE VisitQuery
  <2> DEFINE line == Visited.stmt.line
  <2>1. fn \in DOMAIN file.funcs /\ Visited.stmt \in Stmt
    BY <1>5, SiteType DEF VisitQuery
  <2>2. line \in Lines
    BY <2>1 DEF Stmt
  <2>3. PICK rule \in {"syntax", "star", "star warning"} :
          Report(ParamDiags(Visited.stmt) \cup {Diagnostic(line, rule, "")})
    BY <1>5, Zenon DEF VisitQuery
  <2>4. rule \in Rule
    BY DEF Rule
  <2>5. Good(ParamDiags(Visited.stmt) \cup {Diagnostic(line, rule, "")})
    BY <2>1, <2>2, <2>4, GoodParams, GoodOf, GoodUnion
  <2> QED BY <2>1, <2>3, <2>5, Report_IInv
<1>6. CASE NotDetected
  <2>1. pc = "lost" /\ Report(Suppressible(Visited.callback.line, "undetected"))
    BY <1>6 DEF NotDetected
  <2>2. IsSite(<<fn, at>>)
    BY <2>1 DEF IInv, Walking
  <2>3. Call(<<fn, at>>) = Visited
    BY DEF Call, Visited
  <2>4. fn \in DOMAIN file.funcs /\ Visited.callback \in Callback
    BY <2>2, <2>3, CallType DEF IsSite, HasCallback
  <2>5. Visited.callback.line \in Lines /\ "undetected" \in Rule
    BY <2>4 DEF Callback, Rule
  <2> QED BY <2>1, <2>4, <2>5, GoodSuppressible, Report_IInv
<1>7. CASE MatchColumns
  <2>1. pc = "found" /\ Report(ScanDiags(Visited.stmt.query, ItemOf(Top), TagsOf(Top)))
    BY <1>7 DEF MatchColumns
  <2>2. InRange(Top) /\ Scans(Top)
    BY <2>1 DEF IInv, Walking
  <2>3. ItemOf(Top) \in Item
    BY <2>1, <2>2, WalkType, ItemType DEF Top
  <2>4. ItemOf(Top).k \in {"Columns", "ToStruct"}
    BY <2>2 DEF Scans
  <2>5. fn \in DOMAIN file.funcs
    BY <2>1, WalkType DEF IsSite
  <2> QED BY <2>1, <2>3, <2>4, <2>5, GoodScan, Report_IInv
<1> QED BY <1>1, <1>2, <1>3, <1>4, <1>5, <1>6, <1>7, Visit_IInv, Found_IInv, Enter_IInv, EnterNil_IInv,
           Pass_IInv, Return_IInv DEF Next

LEMMA Spec_IInv == Spec => []IInv
<1>1. Init => IInv
  BY Init_IInv
<1>2. IInv /\ [Next]_vars => IInv'
  BY Next_IInv
<1> QED BY <1>1, <1>2, PTL DEF Spec

\* The analysis has at most four frames, the callback's and those of three
\* calls, and reports what its rules can say.
THEOREM Spec_TypeOK == Spec => []TypeOK
<1>1. IInv => TypeOK
  BY DEF IInv
<1> QED BY <1>1, Spec_IInv, PTL

-----------------------------------------------------------------------------
(* Where the row of a callback is scanned. *)

InUse(site, s) == Linked(site, s) /\ AllInRange(s) /\ Scans(s[Len(s)])

\* A stack that is one deeper.
LEMMA ReachesDeeper ==
  ASSUME file \in Files, NEW site, IsSite(site), NEW k \in 1..3,
         NEW T, \A s : s \in T <=> Reaches(site, k, s), NEW s
  PROVE  s \in Deeper(T) <=> Reaches(site, k + 1, s)
<1>1. s \in Deeper(T) <=>
        \E t \in T : \E g \in Callees(t[Len(t)]) :
          /\ Body(file, g) # NoBody
          /\ \E f \in At(Frame(<<g, 0>>, RowParam(file.funcs[g])), 1..Len(Body(file, g))) : s = Append(t, f)
  <2> DEFINE AtOf(g) == At(Frame(<<g, 0>>, RowParam(file.funcs[g])), 1..Len(Body(file, g)))
  <2>1. \A t : InCallees(t) = UNION {{Append(t, f) : f \in AtOf(g)} : g \in {h \in Callees(t[Len(t)]) : Body(file, h) # NoBody}}
    BY Zenon DEF InCallees
  <2> HIDE DEF AtOf
  <2>2. \A t : s \in InCallees(t) <=> \E g \in Callees(t[Len(t)]) :
                                        Body(file, g) # NoBody /\ \E f \in AtOf(g) : s = Append(t, f)
    BY <2>1
  <2>3. s \in Deeper(T) <=> \E t \in T : s \in InCallees(t)
    BY DEF Deeper
  <2> QED BY <2>2, <2>3, Zenon DEF AtOf
<1>2. ASSUME NEW t \in T, NEW g \in Callees(t[Len(t)]), Body(file, g) # NoBody,
             NEW f \in At(Frame(<<g, 0>>, RowParam(file.funcs[g])), 1..Len(Body(file, g))), s = Append(t, f)
      PROVE  Reaches(site, k + 1, s)
  <2>1. Linked(site, t) /\ AllInRange(t) /\ Len(t) = k
    BY DEF Reaches
  <2>2. f \in FrameType /\ f.block = <<g, 0>> /\ f.row = RowParam(file.funcs[g]) /\ f.at >= First(f.block) /\ InRange(f)
    BY <1>2, AtBlock
  <2>3. t \in Seq(FrameType) /\ DOMAIN t = 1..k
    BY <2>1 DEF Linked
  <2>4. InRange(t[Len(t)]) /\ Link(t[Len(t)], f)
    <3>1. Len(t) \in DOMAIN t
      BY <2>1, <2>3
    <3> QED BY <1>2, <2>1, <2>2, <3>1 DEF AllInRange, Link
  <2>5. Linked(site, s)
    <3>1. Len(t) \in 1..maxScanDepth
      BY <2>1 DEF maxScanDepth
    <3> QED BY <1>2, <2>1, <2>2, <2>4, <3>1, LinkedAppend
  <2>6. s \in Seq(FrameType) /\ Len(s) = k + 1 /\ DOMAIN s = 1..(k + 1) /\ s[k + 1] = f
    BY <1>2, <2>1, <2>2, <2>3, AppendAt
  <2>7. \A j \in 1..k : s[j] = t[j]
    BY <1>2, <2>1, <2>2, <2>3, AppendAt
  <2>8. AllInRange(s)
    <3> SUFFICES ASSUME NEW j \in 1..(k + 1) PROVE InRange(s[j])
      BY <2>6 DEF AllInRange
    <3>1. CASE j = k + 1
      BY <2>2, <2>6, <3>1
    <3>2. CASE j # k + 1
      <4>1. j \in 1..k
        BY <3>2
      <4> QED BY <2>1, <2>3, <2>7, <4>1 DEF AllInRange
    <3> QED BY <3>1, <3>2
  <2> QED BY <2>5, <2>6, <2>8 DEF Reaches
<1>3. ASSUME Reaches(site, k + 1, s)
      PROVE  \E t \in T : \E g \in Callees(t[Len(t)]) :
               /\ Body(file, g) # NoBody
               /\ \E f \in At(Frame(<<g, 0>>, RowParam(file.funcs[g])), 1..Len(Body(file, g))) : s = Append(t, f)
  <2> DEFINE t == SubSeq(s, 1, k)
             f == s[k + 1]
  <2>1. Linked(site, s) /\ AllInRange(s) /\ Len(s) = k + 1 /\ s \in Seq(FrameType) /\ DOMAIN s = 1..(k + 1)
    BY <1>3 DEF Reaches, Linked
  <2>2. Linked(site, t) /\ Link(s[k], f)
    BY <2>1, LinkedFront
  <2>3. Len(t) = k /\ s = Append(t, f)
    BY <2>1, FrontAt
  <2>4. \A j \in 1..k : t[j] = s[j]
    BY <2>1, FrontAt
  <2>5. k + 1 \in DOMAIN s /\ k \in 1..k /\ \A j \in 1..k : j \in DOMAIN s
    BY <2>1
  <2>6. f \in FrameType /\ InRange(f) /\ f.at >= First(f.block)
    BY <2>1, <2>5 DEF AllInRange, Linked
  <2> HIDE DEF t, f
  <2>7. AllInRange(t)
    <3>1. DOMAIN t = 1..k
      BY <2>2, <2>3 DEF Linked
    <3> QED BY <2>1, <2>4, <2>5, <3>1 DEF AllInRange
  <2>8. t \in T
    BY <2>2, <2>3, <2>7 DEF Reaches
  <2>9. PICK g \in Callees(s[k]) : Body(file, g) # NoBody /\ f.block = <<g, 0>> /\ f.row = RowParam(file.funcs[g])
    BY <2>2 DEF Link
  <2>10. f \in At(Frame(<<g, 0>>, RowParam(file.funcs[g])), 1..Len(Body(file, g)))
    BY <2>6, <2>9, AtBlock
  <2>11. g \in Callees(t[Len(t)])
    BY <2>3, <2>4, <2>5, <2>9
  <2> QED BY <2>3, <2>8, <2>9, <2>10, <2>11
<1> QED BY <1>1, <1>2, <1>3

LEMMA UsesAre ==
  ASSUME file \in Files, NEW site \in (1..Len(file.funcs)) \X Nat, IsSite(site), NEW s
  PROVE  s \in Uses(site) <=> InUse(site, s)
<1> DEFINE one == FromCallback(site)
           two == Deeper(one)
           three == Deeper(two)
<1>1. \A t : t \in one <=> Reaches(site, 1, t)
  BY ReachesOne
<1>2. \A t : t \in two <=> Reaches(site, 2, t)
  <2> HIDE DEF one
  <2>1. \A t : t \in Deeper(one) <=> Reaches(site, 1 + 1, t)
    BY <1>1, ReachesDeeper
  <2> QED BY <2>1
<1>3. \A t : t \in three <=> Reaches(site, 3, t)
  <2> HIDE DEF two
  <2>1. \A t : t \in Deeper(two) <=> Reaches(site, 2 + 1, t)
    BY <1>2, ReachesDeeper
  <2> QED BY <2>1
<1>4. \A t : t \in Deeper(three) <=> Reaches(site, 4, t)
  <2> HIDE DEF three
  <2>1. \A t : t \in Deeper(three) <=> Reaches(site, 3 + 1, t)
    BY <1>3, ReachesDeeper
  <2> QED BY <2>1
<1>5. Reached(site) = one \cup two \cup three \cup Deeper(three)
  BY DEF Reached
<1> HIDE DEF one, two, three
<1>6. s \in Reached(site) <=> Linked(site, s) /\ AllInRange(s)
  <2>1. s \in Reached(site) <=> \E k \in {1, 2, 3, 4} : Reaches(site, k, s)
    BY <1>1, <1>2, <1>3, <1>4, <1>5
  <2>2. Linked(site, s) => Len(s) \in {1, 2, 3, 4}
    BY DEF Linked, maxScanDepth
  <2> QED BY <2>1, <2>2 DEF Reaches
<1> QED BY <1>6 DEF Uses, UsesIn, InUse

-----------------------------------------------------------------------------
(* No place where the row is scanned comes before the walk. *)

NoneEarlier ==
  /\ pc \in {"walk", "found"} => \A s : InUse(<<fn, at>>, s) => ~Earlier(s, frames)
  /\ pc = "lost" => \A s : ~InUse(<<fn, at>>, s)

Same(s, t, k) == \A i \in 1..k : s[i].at = t[i].at

\* Two stacks of one call with the same places are the same.
LEMMA SameStack ==
  ASSUME file \in Files, NEW site, NEW s, Linked(site, s), NEW t, Linked(site, t),
         NEW k \in 1..4, k <= Len(s), k <= Len(t), Same(s, t, k)
  PROVE  s[k] = t[k]
<1>1. /\ s \in Seq(FrameType) /\ DOMAIN s = 1..Len(s) /\ Len(s) \in Nat
      /\ t \in Seq(FrameType) /\ DOMAIN t = 1..Len(t) /\ Len(t) \in Nat
  BY DEF Linked
<1>2. ASSUME NEW i \in 1..k, s[i].block = t[i].block, s[i].row = t[i].row PROVE s[i] = t[i]
  <2>1. s[i] \in FrameType /\ t[i] \in FrameType
    BY <1>1
  <2>2. s[i].at = t[i].at
    BY DEF Same
  <2> QED BY <1>2, <2>1, <2>2 DEF FrameType
<1>3. s[1] = t[1]
  <2>1. 1 \in 1..k
    OBVIOUS
  <2> QED BY <1>2, <2>1 DEF Linked
<1>4. ASSUME NEW i \in 1..3, i + 1 <= k, s[i] = t[i] PROVE s[i + 1] = t[i + 1]
  <2>1. i \in 1..(Len(s) - 1) /\ i \in 1..(Len(t) - 1) /\ i + 1 \in 1..k /\ i + 1 \in DOMAIN s /\ i + 1 \in DOMAIN t
    BY <1>1, <1>4
  <2>2. Link(s[i], s[i + 1]) /\ Link(t[i], t[i + 1])
    BY <2>1 DEF Linked
  <2>3. s[i + 1] \in FrameType /\ t[i + 1] \in FrameType
    BY <1>1, <2>1
  <2>4. s[i + 1].block = t[i + 1].block /\ s[i + 1].row = t[i + 1].row
    BY <1>4, <2>2, <2>3, LinkUnique
  <2> QED BY <1>2, <2>1, <2>4
<1>5. k >= 2 => s[2] = t[2]
  BY <1>3, <1>4
<1>6. k >= 3 => s[3] = t[3]
  BY <1>4, <1>5
<1>7. k >= 4 => s[4] = t[4]
  BY <1>4, <1>6
<1> QED BY <1>3, <1>5, <1>6, <1>7

\* A place that is before the next item is before this one, or here.
LEMMA EarlierAdvanced ==
  ASSUME NEW site, NEW s \in Seq(FrameType), NEW t \in Seq(FrameType), NEW k \in Nat, Len(t) = k, k >= 1,
         Earlier(s, Advanced(t))
  PROVE  \/ \E j \in DOMAIN s \cap DOMAIN t : s[j].at < t[j].at /\ \A i \in 1..(j - 1) : s[i].at = t[i].at
         \/ k <= Len(s) /\ Same(s, t, k)
<1> DEFINE u == Advanced(t)
<1>1. DOMAIN t = 1..k /\ DOMAIN s = 1..Len(s) /\ Len(s) \in Nat /\ t[k] \in FrameType
  OBVIOUS
<1>2. DOMAIN u = 1..k /\ (\A j \in 1..(k - 1) : u[j] = t[j]) /\ u[k].at = t[k].at + 1
  <2>1. u[k] = [t[k] EXCEPT !.at = @ + 1]
    BY <1>1 DEF Advanced
  <2>2. u[k].at = t[k].at + 1
    BY <1>1, <2>1 DEF FrameType
  <2> QED BY <1>1, <2>2 DEF Advanced
<1>3. PICK j \in DOMAIN s \cap DOMAIN u : s[j].at < u[j].at /\ \A i \in 1..(j - 1) : s[i].at = u[i].at
  BY DEF Earlier
<1> HIDE DEF u
<1>4. j \in 1..k /\ j \in 1..Len(s) /\ j \in DOMAIN t
  BY <1>1, <1>2, <1>3
<1>5. \A i \in 1..(j - 1) : s[i].at = t[i].at
  <2> SUFFICES ASSUME NEW i \in 1..(j - 1) PROVE s[i].at = t[i].at
    OBVIOUS
  <2>1. i \in 1..(k - 1)
    BY <1>4
  <2> QED BY <1>2, <1>3, <2>1
<1>6. CASE j < k
  <2>1. s[j].at < t[j].at
    BY <1>2, <1>3, <1>4, <1>6
  <2> QED BY <1>4, <1>5, <2>1
<1>7. CASE j = k
  <2>1. s[k] \in FrameType
    BY <1>4, <1>7
  <2>2. s[k].at \in Nat /\ t[k].at \in Nat /\ s[k].at < t[k].at + 1
    BY <1>1, <1>2, <1>3, <1>7, <2>1 DEF FrameType
  <2>3. CASE s[k].at < t[k].at
    BY <1>4, <1>5, <1>7, <2>3
  <2>4. CASE s[k].at = t[k].at
    <3>1. Same(s, t, k)
      <4> SUFFICES ASSUME NEW i \in 1..k PROVE s[i].at = t[i].at
        BY DEF Same
      <4>1. i = k \/ i \in 1..(j - 1)
        BY <1>7
      <4> QED BY <1>5, <2>4, <4>1
    <3> QED BY <1>4, <1>7, <3>1
  <2> QED BY <2>2, <2>3, <2>4
<1> QED BY <1>4, <1>6, <1>7

LEMMA UseType ==
  ASSUME NEW site, NEW s, InUse(site, s)
  PROVE  /\ s \in Seq(FrameType) /\ DOMAIN s = 1..Len(s) /\ Len(s) \in 1..4
         /\ \A i \in DOMAIN s : s[i] \in FrameType /\ s[i].at \in Nat \ {0} /\ InRange(s[i])
<1>1. s \in Seq(FrameType) /\ DOMAIN s = 1..Len(s) /\ Len(s) \in 1..4
  BY DEF InUse, Linked, maxScanDepth
<1>2. ASSUME NEW i \in DOMAIN s PROVE s[i] \in FrameType /\ s[i].at \in Nat \ {0} /\ InRange(s[i])
  <2>1. s[i] \in FrameType
    BY <1>1
  <2> QED BY <2>1 DEF FrameType, InUse, AllInRange
<1> QED BY <1>1, <1>2

LEMMA UnchangedUses ==
  ASSUME UNCHANGED <<file, fn, at>>
  PROVE  \A s : InUse(<<fn, at>>, s)' <=> InUse(<<fn, at>>, s)
<1>1. file' = file /\ fn' = fn /\ at' = at
  OBVIOUS
<1>2. \A s : Linked(<<fn, at>>, s)' <=> Linked(<<fn, at>>, s)
  BY <1>1, Unchanged
<1>3. \A s : AllInRange(s)' <=> AllInRange(s)
  BY <1>1, Unchanged DEF AllInRange
<1>4. \A s : Scans(s[Len(s)])' <=> Scans(s[Len(s)])
  BY <1>1, Unchanged
<1> QED BY <1>2, <1>3, <1>4 DEF InUse

LEMMA Visit_NoneEarlier ==
  ASSUME IInv, Visit
  PROVE  NoneEarlier'
<1> DEFINE f == Frame(<<fn, at>>, RowName(Visited.callback))
<1>1. frames' = <<f>> /\ pc' = "walk" /\ UNCHANGED <<file, fn, at>>
  BY DEF Visit
<1>2. f.at = First(<<fn, at>>) /\ at \in Nat
  BY DEF Frame, IInv, TypeOK
<1> HIDE DEF f
<1>3. ASSUME NEW s, InUse(<<fn, at>>, s) PROVE ~Earlier(s, <<f>>)
  <2>1. s[1].at >= First(<<fn, at>>) /\ s[1].at \in Nat
    <3>1. 1 \in DOMAIN s
      BY <1>3, UseType
    <3> QED BY <1>3, <3>1, UseType DEF InUse, Linked
  <2>2. DOMAIN <<f>> = {1} /\ <<f>>[1].at = at + 1 /\ s[1].at >= at + 1
    BY <1>2, <2>1 DEF First
  <2> QED BY <1>2, <2>1, <2>2 DEF Earlier
<1>4. \A s : InUse(<<fn, at>>, s)' => ~Earlier(s, <<f>>)
  BY <1>1, <1>3, UnchangedUses
<1> QED BY <1>1, <1>4 DEF NoneEarlier, Earlier

LEMMA Enter_NoneEarlier ==
  ASSUME IInv, NoneEarlier, Enter
  PROVE  NoneEarlier'
<1>1. pc = "walk" /\ pc' = "walk" /\ UNCHANGED <<file, fn, at>>
  BY DEF Enter
<1>2. PICK g \in Callees(Top) : frames' = Append(frames, Frame(<<g, 0>>, RowParam(file.funcs[g])))
  BY DEF Enter
<1> DEFINE f == Frame(<<g, 0>>, RowParam(file.funcs[g]))
           t == Append(frames, f)
           k == Len(frames)
<1>3. frames \in Seq(FrameType) /\ k \in Nat /\ DOMAIN frames = 1..k
  BY <1>1, WalkType DEF maxScanDepth
<1>4. f.at = 1
  BY DEF Frame, First
<1> HIDE DEF f
<1>5. DOMAIN t = 1..(k + 1) /\ t[k + 1] = f /\ \A j \in 1..k : t[j] = frames[j]
  BY <1>3
<1>6. frames' = t
  BY <1>2 DEF f
<1> HIDE DEF t, k
<1>7. ASSUME NEW s, InUse(<<fn, at>>, s), Earlier(s, t) PROVE FALSE
  <2>1. PICK j \in DOMAIN s \cap DOMAIN t : s[j].at < t[j].at /\ \A i \in 1..(j - 1) : s[i].at = t[i].at
    BY <1>7 DEF Earlier
  <2>2. j \in 1..(k + 1) /\ s[j].at \in Nat \ {0}
    BY <1>5, <1>7, <2>1, UseType
  <2>3. CASE j = k + 1
    BY <1>4, <1>5, <2>1, <2>2, <2>3
  <2>4. CASE j # k + 1
    <3>1. j \in 1..k
      BY <1>3, <2>2, <2>4
    <3>2. s[j].at < frames[j].at /\ j \in DOMAIN s \cap DOMAIN frames
      BY <1>3, <1>5, <2>1, <3>1
    <3>3. \A i \in 1..(j - 1) : s[i].at = frames[i].at
      <4> SUFFICES ASSUME NEW i \in 1..(j - 1) PROVE s[i].at = frames[i].at
        OBVIOUS
      <4>1. i \in 1..k
        BY <1>3, <3>1
      <4> QED BY <1>5, <2>1, <4>1
    <3>4. Earlier(s, frames)
      BY <3>2, <3>3 DEF Earlier
    <3> QED BY <1>1, <1>7, <3>4 DEF NoneEarlier
  <2> QED BY <2>3, <2>4
<1>8. \A s : InUse(<<fn, at>>, s)' => ~Earlier(s, t)
  BY <1>1, <1>7, UnchangedUses
<1> QED BY <1>1, <1>6, <1>8 DEF NoneEarlier, Earlier

LEMMA Below ==
  ASSUME NEW k \in 1..4, NEW n \in 1..4, k <= n, n # k
  PROVE  k \in 1..(n - 1) /\ k \in 1..3
  OBVIOUS

LEMMA Pass_NoneEarlier ==
  ASSUME IInv, NoneEarlier, Pass
  PROVE  NoneEarlier'
<1> DEFINE k == Len(frames)
<1>1. /\ pc = "walk" /\ pc' = "walk" /\ UNCHANGED <<file, fn, at>> /\ frames' = Advanced(frames)
      /\ ~Scans(Top) /\ (Callees(Top) = {} \/ k - 1 = maxScanDepth)
  BY DEF Pass
<1>2. file \in Files /\ frames \in Seq(FrameType) /\ Linked(<<fn, at>>, frames) /\ Top = frames[k]
  BY <1>1, WalkType DEF Top
<1>0. k \in 1..4 /\ Len(frames) = k
  BY <1>1, WalkType DEF maxScanDepth
<1> HIDE DEF k
<1>3. ASSUME NEW s, InUse(<<fn, at>>, s), Earlier(s, Advanced(frames)) PROVE FALSE
  <2>1. s \in Seq(FrameType) /\ Len(s) \in 1..4 /\ Linked(<<fn, at>>, s)
    BY <1>3, UseType DEF InUse
  <2>2. ~Earlier(s, frames)
    BY <1>1, <1>3 DEF NoneEarlier
  <2>3. k <= Len(s) /\ Same(s, frames, k)
    <3>1. k \in Nat /\ Len(frames) = k /\ k >= 1
      BY <1>0
    <3>2. \/ \E j \in DOMAIN s \cap DOMAIN frames :
               s[j].at < frames[j].at /\ \A i \in 1..(j - 1) : s[i].at = frames[i].at
          \/ k <= Len(s) /\ Same(s, frames, k)
      BY <1>2, <1>3, <2>1, <3>1, EarlierAdvanced
    <3> QED BY <2>2, <3>2 DEF Earlier
  <2>4. s[k] = Top
    <3>1. k <= Len(frames)
      BY <1>0
    <3> QED BY <1>2, <1>0, <2>1, <2>3, <3>1, SameStack
  <2>5. CASE Len(s) = k
    BY <1>1, <1>3, <2>4, <2>5 DEF InUse
  <2>6. CASE Len(s) # k
    <3>1. k \in 1..(Len(s) - 1) /\ k \in 1..3
      <4>1. Len(s) \in 1..4
        BY <2>1
      <4>2. k <= Len(s)
        BY <2>3
      <4> QED BY <1>0, <2>6, <4>1, <4>2, Below
    <3>2. Link(s[k], s[k + 1])
      BY <2>1, <3>1 DEF Linked
    <3>3. Callees(Top) # {}
      BY <2>4, <3>2 DEF Link
    <3>4. k - 1 = 3
      BY <1>1, <3>3 DEF maxScanDepth
    <3> QED BY <3>1, <3>4
  <2> QED BY <2>5, <2>6
<1>4. \A s : InUse(<<fn, at>>, s)' => ~Earlier(s, Advanced(frames))
  BY <1>1, <1>3, UnchangedUses
<1> QED BY <1>1, <1>4 DEF NoneEarlier, Earlier

\* The place where a block ends comes after every place in it.
LEMMA AfterEnd ==
  ASSUME IInv, pc = "walk", AtEnd, NEW k \in 1..4, k = Len(frames), NEW s, InUse(<<fn, at>>, s),
         k <= Len(s), s[k].block = Top.block, \A i \in 1..(k - 1) : s[i].at = frames[i].at
  PROVE  Earlier(s, frames)
<1>1. DOMAIN s = 1..Len(s) /\ Len(s) \in 1..4
  BY UseType
<1>2. k \in DOMAIN s
  BY <1>1
<1>3. k \in DOMAIN frames /\ Top = frames[k] /\ Top \in FrameType
  BY WalkType DEF Top
<1>4. InRange(s[k]) /\ s[k].at \in Nat
  BY <1>2, UseType
<1>5. Top.at \in Nat
  BY <1>3 DEF FrameType
<1>6. End(file, Top.block) \in Int
  <2>1. s[k] \in FrameType /\ Linked(<<fn, at>>, s) /\ IsSite(<<fn, at>>) /\ file \in Files
    BY <1>2, UseType, WalkType DEF InUse
  <2>2. Body(file, s[k].block[1]) \in Seq(Item)
    BY <1>2, <1>4, <2>1, ItemType
  <2>3. Len(Body(file, s[k].block[1])) \in Int
    BY <2>2
  <2>4. CASE s[k].block[2] = 0
    BY <2>3, <2>4 DEF End
  <2>5. CASE s[k].block[2] # 0
    <3>1. CASE k = 1
      <4>1. Call(<<fn, at>>).callback \in Callback /\ Call(<<fn, at>>) = Body(file, fn)[at]
        BY <2>1, CallType DEF IsSite, HasCallback, Call
      <4>2. Call(<<fn, at>>).callback.size \in Nat /\ at \in Nat
        BY <4>1 DEF Callback, IInv, TypeOK
      <4>3. s[k].block = <<fn, at>>
        BY <2>1, <3>1 DEF Linked
      <4> QED BY <4>1, <4>2, <4>3, <2>5 DEF End
    <3>2. CASE k # 1
      <4>1. k - 1 \in 1..(Len(s) - 1) /\ (k - 1) + 1 = k
        BY <1>1, <3>2
      <4>2. Link(s[k - 1], s[(k - 1) + 1])
        BY <2>1, <4>1 DEF Linked
      <4>3. \E g : s[k].block = <<g, 0>>
        BY <4>1, <4>2 DEF Link
      <4> QED BY <2>5, <4>3
    <3> QED BY <3>1, <3>2
  <2> QED BY <2>4, <2>5
<1>7. s[k].at < frames[k].at
  BY <1>3, <1>4, <1>5, <1>6 DEF AtEnd, InRange
<1> QED BY <1>2, <1>3, <1>7 DEF Earlier

LEMMA Return_NoneEarlier ==
  ASSUME IInv, NoneEarlier, Return
  PROVE  NoneEarlier'
<1> DEFINE k == Len(frames)
<1>1. pc = "walk" /\ AtEnd /\ UNCHANGED <<file, fn, at>>
  BY DEF Return
<1>2. file \in Files /\ frames \in Seq(FrameType) /\ Linked(<<fn, at>>, frames) /\ Top = frames[k]
  BY <1>1, WalkType DEF Top
<1>0. k \in 1..4 /\ Len(frames) = k
  BY <1>1, WalkType DEF maxScanDepth
<1>3. CASE k = 1
  <2>1. pc' = "lost"
    BY <1>3 DEF Return
  <2>2. ASSUME NEW s, InUse(<<fn, at>>, s) PROVE FALSE
    <3>0. Len(s) \in 1..4
      BY <2>2, UseType
    <3>1. 1 <= Len(s)
      BY <3>0
    <3>2. s[1].block = <<fn, at>> /\ frames[1].block = <<fn, at>>
      BY <1>2, <2>2 DEF InUse, Linked
    <3>3. s[1].block = Top.block
      BY <1>2, <1>3, <3>2
    <3>4. Earlier(s, frames)
      BY <1>1, <1>3, <2>2, <3>1, <3>3, AfterEnd
    <3> QED BY <1>1, <2>2, <3>4 DEF NoneEarlier
  <2>3. \A s : ~InUse(<<fn, at>>, s)'
    BY <1>1, <2>2, UnchangedUses
  <2> QED BY <2>1, <2>3 DEF NoneEarlier
<1>4. CASE k # 1
  <2> DEFINE h == k - 1
             t == SubSeq(frames, 1, h)
  <2>1. frames' = Advanced(t) /\ pc' = "walk"
    BY <1>4 DEF Return, Above
  <2>2. h \in 1..3 /\ h \in Nat /\ h >= 1 /\ k = h + 1
    BY <1>0, <1>4
  <2> HIDE DEF k, h
  <2>3. t \in Seq(FrameType) /\ Len(t) = h /\ \A j \in 1..h : t[j] = frames[j]
    BY <1>0, <1>2, <2>2, FrontAt
  <2>4. Linked(<<fn, at>>, t) /\ Link(frames[h], frames[k])
    BY <1>0, <1>2, <2>2, LinkedFront
  <2> HIDE DEF t
  <2>5. ASSUME NEW s, InUse(<<fn, at>>, s), Earlier(s, Advanced(t)) PROVE FALSE
    <3>1. s \in Seq(FrameType) /\ Linked(<<fn, at>>, s)
      BY <2>5, UseType DEF InUse
    <3>2. Len(s) \in 1..4
      BY <2>5, UseType
    <3>3. ~Earlier(s, frames)
      BY <1>1, <2>5 DEF NoneEarlier
    <3>4. ~\E j \in DOMAIN s \cap DOMAIN t : s[j].at < t[j].at /\ \A i \in 1..(j - 1) : s[i].at = t[i].at
      <4> SUFFICES ASSUME NEW j \in DOMAIN s \cap DOMAIN t, s[j].at < t[j].at,
                          \A i \in 1..(j - 1) : s[i].at = t[i].at
                   PROVE  FALSE
        OBVIOUS
      <4>1. j \in 1..h /\ j \in DOMAIN frames /\ \A i \in 1..(j - 1) : i \in 1..h
        <5>1. DOMAIN t = 1..h /\ DOMAIN frames = 1..k
          BY <1>0, <1>2, <2>3
        <5> QED BY <2>2, <5>1
      <4>2. s[j].at < frames[j].at /\ \A i \in 1..(j - 1) : s[i].at = frames[i].at
        BY <2>3, <4>1
      <4> QED BY <3>3, <4>1, <4>2 DEF Earlier
    <3>5. h <= Len(s) /\ Same(s, t, h)
      <4>1. \/ \E j \in DOMAIN s \cap DOMAIN t : s[j].at < t[j].at /\ \A i \in 1..(j - 1) : s[i].at = t[i].at
            \/ h <= Len(s) /\ Same(s, t, h)
        BY <2>2, <2>3, <2>5, <3>1, EarlierAdvanced
      <4> QED BY <3>4, <4>1
    <3>6. s[h] = frames[h]
      <4>1. h \in 1..4 /\ h <= Len(t) /\ h \in 1..h
        BY <2>2, <2>3
      <4>2. s[h] = t[h]
        BY <1>2, <2>4, <3>1, <3>5, <4>1, SameStack
      <4> QED BY <2>3, <4>1, <4>2
    <3>7. Len(s) # h
      <4>1. Callees(frames[h]) # {}
        BY <2>4 DEF Link
      <4>2. ~Scans(s[h])
        BY <3>6, <4>1, CallOrScan
      <4> QED BY <2>5, <4>2 DEF InUse
    <3>8. h \in 1..(Len(s) - 1) /\ k <= Len(s) /\ k \in DOMAIN s
      <4>1. h \in 1..4 /\ h <= Len(s)
        BY <2>2, <3>5
      <4>2. h \in 1..(Len(s) - 1)
        BY <3>2, <3>7, <4>1, Below
      <4>3. DOMAIN s = 1..Len(s) /\ Len(s) \in Nat
        BY <3>1
      <4> QED BY <2>2, <4>2, <4>3
    <3>9. s[k].block = Top.block
      <4>1. Link(s[h], s[h + 1])
        BY <3>1, <3>8 DEF Linked
      <4>2. Link(frames[h], s[k]) /\ s[k] \in FrameType /\ frames[k] \in FrameType
        BY <1>0, <1>2, <2>2, <3>1, <3>6, <3>8, <4>1
      <4> QED BY <1>2, <2>4, <4>2, LinkUnique
    <3>10. \A i \in 1..(k - 1) : s[i].at = frames[i].at
      <4>1. k - 1 = h
        BY <2>2
      <4> QED BY <2>3, <3>5, <4>1 DEF Same
    <3> QED BY <1>0, <1>1, <2>5, <3>3, <3>8, <3>9, <3>10, AfterEnd
  <2>6. \A s : InUse(<<fn, at>>, s)' => ~Earlier(s, Advanced(t))
    BY <1>1, <2>5, UnchangedUses
  <2> QED BY <2>1, <2>6 DEF NoneEarlier, Earlier
<1> QED BY <1>3, <1>4

LEMMA Next_NoneEarlier ==
  ASSUME IInv, NoneEarlier, [Next]_vars
  PROVE  NoneEarlier'
<1>1. CASE UNCHANGED vars \/ Found
  <2>1. UNCHANGED <<file, fn, at>> /\ frames' = frames
    BY <1>1 DEF vars, Found
  <2>2. pc' = pc \/ (pc = "walk" /\ pc' = "found")
    BY <1>1 DEF vars, Found
  <2>3. \A s : InUse(<<fn, at>>, s)' <=> InUse(<<fn, at>>, s)
    BY <2>1, UnchangedUses
  <2> QED BY <2>1, <2>2, <2>3 DEF NoneEarlier, Earlier
<1>2. CASE NextFunc \/ Finish \/ Skip \/ VisitOnly \/ VisitQuery \/ NotDetected \/ MatchColumns \/ EnterNil
  <2>1. pc' \in {"inspect", "done", "panic"}
    <3>1. ASSUME NEW new, Report(new) PROVE pc' = "inspect"
      BY <3>1 DEF Report
    <3>2. CASE NextFunc \/ Finish \/ EnterNil
      BY <3>2 DEF NextFunc, Finish, EnterNil
    <3>3. CASE Skip \/ VisitOnly \/ VisitQuery \/ NotDetected \/ MatchColumns
      <4>1. \E new : Report(new)
        BY <3>3, Zenon DEF Skip, VisitOnly, VisitQuery, NotDetected, MatchColumns
      <4> QED BY <3>1, <4>1
    <3> QED BY <1>2, <3>2, <3>3
  <2> QED BY <2>1 DEF NoneEarlier
<1> QED BY <1>1, <1>2, Visit_NoneEarlier, Enter_NoneEarlier, Pass_NoneEarlier, Return_NoneEarlier DEF Next

LEMMA SiteInFile ==
  ASSUME IInv, pc \in {"found", "lost"}
  PROVE  file \in Files /\ IsSite(<<fn, at>>) /\ <<fn, at>> \in (1..Len(file.funcs)) \X Nat
<1>1. file \in Files /\ IsSite(<<fn, at>>) /\ fn \in Nat \ {0} /\ at \in Nat
  BY FileType DEF IInv, TypeOK, Walking
<1>2. fn \in DOMAIN file.funcs
  BY <1>1 DEF IsSite
<1> QED BY <1>1, <1>2, FileType

LEMMA Invariant_FirstUse ==
  ASSUME IInv, NoneEarlier
  PROVE  FirstUse
<1> DEFINE site == <<fn, at>>
<1>1. ASSUME pc \in {"found", "lost"}
      PROVE  file \in Files /\ IsSite(site) /\ site \in (1..Len(file.funcs)) \X Nat
  BY <1>1, SiteInFile
<1>2. CASE pc = "found"
  <2>1. Linked(site, frames) /\ InRange(Top) /\ Scans(Top)
    BY <1>2 DEF IInv, Walking
  <2>2. AllInRange(frames)
    <3>1. DOMAIN frames = 1..Len(frames) /\ Len(frames) \in Nat
      BY <2>1 DEF Linked
    <3> SUFFICES ASSUME NEW j \in DOMAIN frames PROVE InRange(frames[j])
      BY DEF AllInRange
    <3>2. CASE j = Len(frames)
      BY <2>1, <3>2 DEF Top
    <3>3. CASE j # Len(frames)
      <4>1. j \in 1..(Len(frames) - 1)
        BY <3>1, <3>3
      <4> QED BY <2>1, <4>1 DEF Linked
    <3> QED BY <3>2, <3>3
  <2>3. InUse(site, frames)
    BY <2>1, <2>2 DEF InUse, Top
  <2> HIDE DEF site
  <2>4. \A s : s \in Uses(site) <=> InUse(site, s)
    BY <1>1, <1>2, UsesAre
  <2>5. frames \in Uses(site) /\ \A s \in Uses(site) : ~Earlier(s, frames)
    BY <1>2, <2>3, <2>4 DEF NoneEarlier, site
  <2> QED BY <1>2, <2>5 DEF FirstUse, site
<1>3. CASE pc = "lost"
  <2>1. \A s : s \in Uses(site) <=> InUse(site, s)
    <3> HIDE DEF site
    <3> QED BY <1>1, <1>3, UsesAre
  <2>2. Uses(site) = {}
    BY <1>3, <2>1 DEF NoneEarlier
  <2> QED BY <1>3, <2>2 DEF FirstUse
<1>4. CASE pc \notin {"found", "lost"}
  BY <1>4 DEF FirstUse
<1> QED BY <1>2, <1>3, <1>4

\* What analyzeFuncBody finds is the first place where the row is scanned, and
\* where it finds none there is none within three calls.
THEOREM Spec_FirstUse == Spec => []FirstUse
<1>1. Init => NoneEarlier
  BY DEF Init, NoneEarlier
<1>2. IInv /\ NoneEarlier /\ [Next]_vars => NoneEarlier'
  BY Next_NoneEarlier
<1>3. IInv /\ NoneEarlier => FirstUse
  BY Invariant_FirstUse
<1> QED BY <1>1, <1>2, <1>3, Spec_IInv, PTL DEF Spec
-----------------------------------------------------------------------------
(***************************************************************************)
(* ParamsChecked: matchParams is called once at every statement, with what *)
(* stands there, and reports nothing elsewhere.                            *)
(***************************************************************************)
ParamReports(new, s) == \E d \in new : d.site = s /\ d.rule \in ParamRules

Faulty(stmt) ==
  \/ stmt.has = "other" /\ stmt.paramsLine \notin file.nolint
  \/ stmt.has = "literal" /\ stmt.query.parses /\ stmt.keys # stmt.query.params

\* The statements that matchParams was called at.
Checked(s) ==
  \/ s[1] < fn
  \/ s[1] = fn /\ s[2] < at
  \/ s = <<fn, at>> /\ pc \in {"walk", "found", "lost", "panic"}

ParamInv ==
  /\ pc = "done" /\ file.spanner # "" => fn > Len(file.funcs)
  /\ \A s \in Sites : IF Checked(s) THEN ParamReports(diags, s) <=> Faulty(Call(s).stmt)
                                    ELSE ~ParamReports(diags, s)

\* What a site is.
LEMMA SitesType ==
  ASSUME file \in Files, NEW s \in Sites
  PROVE  /\ s = <<s[1], s[2]>> /\ s[1] \in DOMAIN file.funcs /\ s[1] \in Nat /\ s[2] \in Nat
         /\ file.funcs[s[1]].body # NoBody /\ s[2] <= Len(file.funcs[s[1]].body)
         /\ Body(file, s[1]) \in Seq(Item) /\ s[2] \in DOMAIN Body(file, s[1])
         /\ Call(s) \in Item /\ Call(s).k = "call" /\ Call(s).stmt # NoStmt /\ Call(s).stmt \in Stmt
<1>1. PICK f \in {g \in DOMAIN file.funcs : Body(file, g) # NoBody} :
        s \in {<<f, i>> : i \in {j \in DOMAIN Body(file, f) :
                                   Body(file, f)[j].k = "call" /\ Body(file, f)[j].stmt # NoStmt}}
  BY DEF Sites
<1>2. PICK i \in DOMAIN Body(file, f) :
        s = <<f, i>> /\ Body(file, f)[i].k = "call" /\ Body(file, f)[i].stmt # NoStmt
  BY <1>1
<1>3. f \in DOMAIN file.funcs /\ Body(file, f) \in Seq(Item) /\ Body(file, f) = file.funcs[f].body /\ f \in Nat
      /\ Body(file, f) # NoBody
  BY <1>1, FileType
<1>4. s[1] = f /\ s[2] = i /\ Call(s) = Body(file, f)[i] /\ i \in Nat /\ i <= Len(Body(file, f))
  BY <1>2, <1>3 DEF Call
<1>5. Call(s) \in Item
  BY <1>2, <1>3, <1>4
<1>6. Call(s).stmt \in Stmt
  BY <1>2, <1>4, <1>5, CallType
<1> QED BY <1>2, <1>3, <1>4, <1>5, <1>6

\* The diagnostics are about the call that is visited.
LEMMA AtCall == \A line, rule, name : /\ Diagnostic(line, rule, name).site = <<fn, at>>
                                      /\ Diagnostic(line, rule, name).rule = rule
BY DEF Diagnostic

LEMMA NoParams ==
  ASSUME NEW line, NEW rule, rule \notin ParamRules, NEW s
  PROVE  /\ ~ParamReports(Suppressible(line, rule), s)
         /\ \A name : ~ParamReports({Diagnostic(line, rule, name)}, s)
         /\ \A S : ~ParamReports({Diagnostic(line, rule, n) : n \in S}, s)
<1>1. \A name : ~ParamReports({Diagnostic(line, rule, name)}, s)
  BY AtCall DEF ParamReports
<1>2. \A S : ~ParamReports({Diagnostic(line, rule, n) : n \in S}, s)
  <2> SUFFICES ASSUME NEW S, NEW d \in {Diagnostic(line, rule, n) : n \in S} PROVE d.rule \notin ParamRules
    BY DEF ParamReports
  <2>1. PICK n \in S : d = Diagnostic(line, rule, n)
    OBVIOUS
  <2>2. d.rule = rule
    BY <2>1, AtCall, Zenon
  <2> QED BY <2>2
<1>3. ~ParamReports({}, s)
  BY DEF ParamReports
<1>4. ~ParamReports(Suppressible(line, rule), s)
  BY <1>1, <1>3, Zenon DEF Suppressible
<1> QED BY <1>1, <1>2, <1>4

LEMMA ReportsUnion ==
  \A A, B, s : ParamReports(A \cup B, s) <=> ParamReports(A, s) \/ ParamReports(B, s)
BY DEF ParamReports

LEMMA RuleReports ==
  ASSUME NEW line, NEW rule \in ParamRules, NEW s, NEW S
  PROVE  ParamReports({Diagnostic(line, rule, n) : n \in S}, s) <=> (s = <<fn, at>> /\ S # {})
<1> DEFINE D == {Diagnostic(line, rule, n) : n \in S}
<1>1. ASSUME NEW d \in D PROVE d.site = <<fn, at>> /\ d.rule = rule
  <2>1. PICK n \in S : d = Diagnostic(line, rule, n)
    OBVIOUS
  <2> QED BY <2>1, AtCall, Zenon
<1>2. D # {} <=> S # {}
  OBVIOUS
<1> HIDE DEF D
<1>3. ParamReports(D, s) <=> s = <<fn, at>> /\ D # {}
  BY <1>1 DEF ParamReports
<1> QED BY <1>2, <1>3 DEF D

\* matchParams, at the call that is visited.
LEMMA ParamVerdict ==
  ASSUME NEW stmt \in Stmt, NEW s
  PROVE  ParamReports(ParamDiags(stmt), s) <=> (s = <<fn, at>> /\ Faulty(stmt))
<1> DEFINE missing == {Diagnostic(stmt.line, "missing param", p) : p \in stmt.query.params \ stmt.keys}
           unused == {Diagnostic(stmt.line, "unused param", p) : p \in stmt.keys \ stmt.query.params}
           literal == {Diagnostic(stmt.paramsLine, "params literal", "")}
<1>1. stmt.has \in {"none", "literal", "other"} /\ stmt.query.parses \in BOOLEAN
  BY DEF Stmt, Query
<1>2. "params literal" \in ParamRules /\ "missing param" \in ParamRules /\ "unused param" \in ParamRules
  BY DEF ParamRules
<1>3. CASE stmt.has = "none" \/ (stmt.has = "literal" /\ ~stmt.query.parses)
  <2>1. ParamDiags(stmt) = {}
    BY <1>3 DEF ParamDiags
  <2> QED BY <1>3, <2>1 DEF ParamReports, Faulty
<1>4. CASE stmt.has = "other"
  <2>1. ParamDiags(stmt) = IF stmt.paramsLine \in file.nolint THEN {} ELSE literal
    BY <1>4 DEF ParamDiags, Suppressible
  <2>2. ParamReports(literal, s) <=> s = <<fn, at>>
    <3>1. ASSUME NEW d \in literal PROVE d.site = <<fn, at>> /\ d.rule = "params literal"
      <4>1. d = Diagnostic(stmt.paramsLine, "params literal", "")
        OBVIOUS
      <4>2. Diagnostic(stmt.paramsLine, "params literal", "").site = <<fn, at>>
        BY AtCall, Zenon
      <4>3. Diagnostic(stmt.paramsLine, "params literal", "").rule = "params literal"
        BY AtCall, Zenon
      <4> QED BY <4>1, <4>2, <4>3
    <3>2. literal # {}
      BY Zenon
    <3> HIDE DEF literal
    <3> QED BY <1>2, <3>1, <3>2 DEF ParamReports
  <2> HIDE DEF literal
  <2>3. ~ParamReports({}, s)
    BY DEF ParamReports
  <2> QED BY <1>4, <2>1, <2>2, <2>3 DEF Faulty
<1>5. CASE stmt.has = "literal" /\ stmt.query.parses
  <2>1. ParamDiags(stmt) = missing \cup unused
    BY <1>5 DEF ParamDiags
  <2>2. \A S : ParamReports({Diagnostic(stmt.line, "missing param", p) : p \in S}, s)
                 <=> s = <<fn, at>> /\ S # {}
    BY <1>2, RuleReports, Zenon
  <2>3. \A S : ParamReports({Diagnostic(stmt.line, "unused param", p) : p \in S}, s)
                 <=> s = <<fn, at>> /\ S # {}
    BY <1>2, RuleReports, Zenon
  <2>4. /\ ParamReports(missing, s) <=> s = <<fn, at>> /\ stmt.query.params \ stmt.keys # {}
        /\ ParamReports(unused, s) <=> s = <<fn, at>> /\ stmt.keys \ stmt.query.params # {}
    BY <2>2, <2>3
  <2> HIDE DEF missing, unused
  <2>5. ParamReports(ParamDiags(stmt), s) <=> ParamReports(missing, s) \/ ParamReports(unused, s)
    BY <2>1, ReportsUnion
  <2>6. stmt.keys # stmt.query.params
          <=> stmt.query.params \ stmt.keys # {} \/ stmt.keys \ stmt.query.params # {}
    OBVIOUS
  <2> QED BY <1>5, <2>4, <2>5, <2>6 DEF Faulty
<1> QED BY <1>1, <1>3, <1>4, <1>5
\* matchColumns and the like report nothing about parameters.
LEMMA ScanNoParams ==
  ASSUME NEW query, NEW tags, NEW item, item.k \in {"Columns", "ToStruct"}, NEW s
  PROVE  ~ParamReports(ScanDiags(query, item, tags), s)
<1>1. "count" \notin ParamRules /\ "unresolved" \notin ParamRules /\ "no field" \notin ParamRules
      /\ "no column" \notin ParamRules
  BY DEF ParamRules
<1>2. CASE item.k = "Columns"
  <2>1. ~ParamReports({Diagnostic(item.line, "count", "")}, s)
    BY <1>1, NoParams, Zenon
  <2>2. ~ParamReports({}, s)
    BY DEF ParamReports
  <2>3. \/ ScanDiags(query, item, tags) = {}
        \/ ScanDiags(query, item, tags) = {Diagnostic(item.line, "count", "")}
    BY <1>2 DEF ScanDiags
  <2> QED BY <2>1, <2>2, <2>3, Zenon
<1>3. CASE item.k = "ToStruct" /\ tags = {}
  <2>1. ScanDiags(query, item, tags) = Suppressible(item.line, "unresolved")
    BY <1>3 DEF ScanDiags
  <2>2. ~ParamReports(Suppressible(item.line, "unresolved"), s)
    BY <1>1, NoParams, Zenon
  <2> QED BY <2>1, <2>2
<1>4. CASE item.k = "ToStruct" /\ tags # {}
  <2> DEFINE S == {n \in Columns(query) : Lower[n] \notin LowerOf(tags)}
             T == {n \in tags : Lower[n] \notin LowerOf(Columns(query))}
             A == {Diagnostic(item.line, "no field", n) : n \in S}
             B == {Diagnostic(item.line, "no column", n) : n \in T}
  <2>1. ScanDiags(query, item, tags) = A \cup B
    BY <1>4 DEF ScanDiags, StructDiags
  <2>2. ~ParamReports(A, s) /\ ~ParamReports(B, s)
    <3> HIDE DEF S, T
    <3> QED BY <1>1, NoParams, Zenon
  <2> HIDE DEF A, B
  <2> QED BY <2>1, <2>2, ReportsUnion
<1> QED BY <1>2, <1>3, <1>4
\* A call that is done, with what is reported on it.
LEMMA ReportParams ==
  ASSUME IInv, ParamInv, NEW new, Report(new),
         \/ /\ pc = "inspect"
            /\ \A s \in Sites : ParamReports(new, s) <=> (s = <<fn, at>> /\ Faulty(Call(s).stmt))
         \/ /\ pc \in {"found", "lost"}
            /\ \A s \in Sites : ~ParamReports(new, s)
  PROVE  ParamInv'
<1>1. /\ file' = file /\ fn' = fn /\ at' = at + 1 /\ pc' = "inspect" /\ diags' = diags \cup new
      /\ file \in Files /\ fn \in Nat /\ at \in Nat
  <2>1. file \in Files /\ Len(file.funcs) \in Nat
    BY FileType DEF IInv, Walking
  <2> QED BY <2>1 DEF Report, IInv, TypeOK
<1>2. Sites' = Sites /\ \A s : Call(s)' = Call(s)
  BY <1>1 DEF Sites, Call
<1>3. ASSUME NEW s \in Sites
      PROVE  /\ Checked(s)' <=> Checked(s) \/ s = <<fn, at>>
             /\ s = <<fn, at>> => (Checked(s) <=> pc \in {"found", "lost"})
  <2>1. s = <<s[1], s[2]>> /\ s[1] \in Nat /\ s[2] \in Nat
    BY <1>1, SitesType
  <2>2. s = <<fn, at>> <=> s[1] = fn /\ s[2] = at
    BY <2>1
  <2>3. pc \in {"inspect", "found", "lost"}
    OBVIOUS
  <2>4. s[2] < at + 1 <=> s[2] < at \/ s[2] = at
    BY <1>1, <2>1
  <2>5. Checked(s)' <=> s[1] < fn \/ (s[1] = fn /\ s[2] < at + 1)
    BY <1>1 DEF Checked
  <2>6. Checked(s) <=> s[1] < fn \/ (s[1] = fn /\ s[2] < at) \/ (s[1] = fn /\ s[2] = at /\ pc \in {"found", "lost"})
    BY <2>2, <2>3 DEF Checked
  <2> QED BY <1>1, <2>1, <2>2, <2>3, <2>4, <2>5, <2>6
<1>4. ASSUME NEW s \in Sites
      PROVE  IF Checked(s)' THEN ParamReports(diags', s) <=> Faulty(Call(s).stmt)
                            ELSE ~ParamReports(diags', s)
  <2>1. ParamReports(diags', s) <=> ParamReports(diags, s) \/ ParamReports(new, s)
    BY <1>1, ReportsUnion
  <2>2. IF Checked(s) THEN ParamReports(diags, s) <=> Faulty(Call(s).stmt) ELSE ~ParamReports(diags, s)
    BY DEF ParamInv
  <2> QED BY <1>3, <2>1, <2>2
<1>5. \A s \in Sites : /\ ParamReports(diags, s)' <=> ParamReports(diags', s)
                       /\ Faulty(Call(s).stmt)' <=> Faulty(Call(s).stmt)
  BY <1>1, <1>2 DEF ParamReports, Faulty
<1> QED BY <1>1, <1>2, <1>4, <1>5 DEF ParamInv

LEMMA SameSites == file' = file => Sites' = Sites /\ \A s : Call(s)' = Call(s)
BY DEF Sites, Call

\* A step that checks no other call.
LEMMA SameParams ==
  ASSUME ParamInv, file' = file, diags' = diags, \A s \in Sites : Checked(s)' <=> Checked(s),
         pc' = "done" /\ file.spanner # "" => fn' > Len(file.funcs)
  PROVE  ParamInv'
<1>1. Sites' = Sites /\ \A s : Call(s)' = Call(s)
  BY SameSites
<1>2. \A s : /\ ParamReports(diags, s)' <=> ParamReports(diags, s)
             /\ Faulty(Call(s).stmt)' <=> Faulty(Call(s).stmt)
  BY <1>1 DEF ParamReports, Faulty
<1> QED BY <1>1, <1>2 DEF ParamInv

\* A step of the walk.
LEMMA WalkParams ==
  ASSUME ParamInv, UNCHANGED <<file, noStar, fn, at, diags>>,
         pc \in {"walk", "found", "lost", "panic"}, pc' \in {"walk", "found", "lost", "panic"}
  PROVE  ParamInv'
<1>1. \A s \in Sites : Checked(s)' <=> Checked(s)
  BY DEF Checked
<1> QED BY <1>1, SameParams

LEMMA VisitParams ==
  ASSUME IInv, ParamInv, Visit
  PROVE  ParamInv'
<1>1. /\ pc = "inspect" /\ pc' = "walk" /\ UNCHANGED <<file, noStar, fn, at>>
      /\ diags' = diags \cup ParamDiags(Visited.stmt) /\ Visited.stmt \in Stmt
      /\ file \in Files /\ fn \in Nat /\ at \in Nat
  <2>1. file \in Files /\ Len(file.funcs) \in Nat
    BY FileType DEF IInv, Walking
  <2> QED BY <2>1, SiteType DEF Visit, AtSite, AtItem, IInv, TypeOK
<1>2. Sites' = Sites /\ \A s : Call(s)' = Call(s)
  BY <1>1 DEF Sites, Call
<1>3. Call(<<fn, at>>) = Visited
  BY DEF Call, Visited
<1>4. ASSUME NEW s \in Sites
      PROVE  /\ Checked(s)' <=> Checked(s) \/ s = <<fn, at>>
             /\ s = <<fn, at>> => ~Checked(s)
  BY <1>1 DEF Checked
<1>5. ASSUME NEW s \in Sites
      PROVE  IF Checked(s)' THEN ParamReports(diags', s) <=> Faulty(Call(s).stmt)
                            ELSE ~ParamReports(diags', s)
  <2>1. ParamReports(diags', s) <=> ParamReports(diags, s) \/ (s = <<fn, at>> /\ Faulty(Visited.stmt))
    BY <1>1, ReportsUnion, ParamVerdict
  <2>2. IF Checked(s) THEN ParamReports(diags, s) <=> Faulty(Call(s).stmt) ELSE ~ParamReports(diags, s)
    BY DEF ParamInv
  <2> QED BY <1>3, <1>4, <2>1, <2>2
<1>6. \A s \in Sites : /\ ParamReports(diags, s)' <=> ParamReports(diags', s)
                       /\ Faulty(Call(s).stmt)' <=> Faulty(Call(s).stmt)
  BY <1>1, <1>2 DEF ParamReports, Faulty
<1> QED BY <1>1, <1>2, <1>5, <1>6 DEF ParamInv

\* The next function: the calls of the last one are checked.
LEMMA NextFuncChecked ==
  ASSUME IInv, NextFunc, NEW s \in Sites
  PROVE  Checked(s)' <=> Checked(s)
<1>1. /\ file \in Files /\ fn \in Nat /\ at \in Nat \ {0}
      /\ file' = file /\ pc = "inspect" /\ pc' = "inspect" /\ fn' = fn + 1 /\ at' = 1
      /\ file.funcs[fn].body # NoBody => at > Len(file.funcs[fn].body)
  BY FileType DEF NextFunc, IInv, TypeOK, Walking
<1>2. /\ s[1] \in Nat /\ s[2] \in DOMAIN Body(file, s[1]) /\ Body(file, s[1]) \in Seq(Item)
      /\ s[1] \in DOMAIN file.funcs /\ file.funcs[s[1]].body # NoBody
      /\ Body(file, s[1]) = file.funcs[s[1]].body
  BY <1>1, SitesType, FileType
<1>3. s[2] \in 1..Len(Body(file, s[1])) /\ Len(Body(file, s[1])) \in Nat
  BY <1>2
<1>4. s[1] = fn => s[2] < at
  BY <1>1, <1>2, <1>3
<1>5. Checked(s)' <=> s[1] < fn + 1 \/ (s[1] = fn + 1 /\ s[2] < 1)
  BY <1>1 DEF Checked
<1>6. Checked(s) <=> s[1] < fn \/ (s[1] = fn /\ s[2] < at)
  BY <1>1 DEF Checked
<1> QED BY <1>1, <1>2, <1>3, <1>4, <1>5, <1>6

LEMMA NextFuncParams ==
  ASSUME IInv, ParamInv, NextFunc
  PROVE  ParamInv'
<1>1. file' = file /\ diags' = diags /\ pc' = "inspect"
  BY DEF NextFunc
<1>2. \A s \in Sites : Checked(s)' <=> Checked(s)
  BY NextFuncChecked
<1> QED BY <1>1, <1>2, SameParams

\* At the end every statement is checked, at the start none.
LEMMA AllChecked ==
  ASSUME IInv, fn > Len(file.funcs), NEW s \in Sites
  PROVE  Checked(s)
<1>1. file \in Files
  BY DEF IInv, Walking
<1>2. s[1] \in 1..Len(file.funcs) /\ Len(file.funcs) \in Nat
  BY <1>1, SitesType, FileType
<1>3. fn \in 1..(Len(file.funcs) + 1)
  BY DEF IInv, TypeOK
<1>4. s[1] < fn
  BY <1>2, <1>3
<1> QED BY <1>4 DEF Checked

LEMMA NoneChecked ==
  ASSUME file \in Files, fn = 1, at = 1, pc \in {"inspect", "done"}, NEW s \in Sites
  PROVE  ~Checked(s)
<1>1. s[1] \in 1..Len(file.funcs) /\ s[2] \in DOMAIN Body(file, s[1]) /\ Body(file, s[1]) \in Seq(Item)
      /\ Len(file.funcs) \in Nat
  BY SitesType, FileType
<1>2. s[1] \in Nat /\ s[1] >= 1 /\ s[2] \in Nat /\ s[2] >= 1
  BY <1>1
<1>3. \A n \in Nat : n >= 1 => ~(n < 1)
  OBVIOUS
<1>4. ~(s[1] < fn) /\ ~(s[2] < at)
  BY <1>2, <1>3, Zenon
<1>5. pc \notin {"walk", "found", "lost", "panic"}
  OBVIOUS
<1> QED BY <1>4, <1>5, Zenon DEF Checked

LEMMA Next_ParamInv == IInv /\ ParamInv /\ [Next]_vars => ParamInv'
<1> SUFFICES ASSUME IInv, ParamInv, [Next]_vars PROVE ParamInv'
  OBVIOUS
<1>1. CASE UNCHANGED vars
  <2>1. file' = file /\ diags' = diags /\ pc' = pc /\ fn' = fn /\ at' = at
    BY <1>1 DEF vars
  <2>2. \A s \in Sites : Checked(s)' <=> Checked(s)
    BY <2>1 DEF Checked
  <2>3. pc' = "done" /\ file.spanner # "" => fn' > Len(file.funcs)
    BY <2>1 DEF ParamInv
  <2> QED BY <2>1, <2>2, <2>3, SameParams
<1>2. CASE Finish
  <2>1. file' = file /\ diags' = diags /\ pc = "inspect" /\ pc' = "done" /\ fn' = fn /\ at' = at /\ fn > Len(file.funcs)
    BY <1>2 DEF Finish
  <2>2. \A s \in Sites : Checked(s)' <=> Checked(s)
    BY <2>1 DEF Checked
  <2> QED BY <2>1, <2>2, SameParams
<1>3. CASE Skip
  <2>1. pc = "inspect" /\ ~AtSite /\ Report({}) /\ AtItem
    BY <1>3 DEF Skip, AtItem
  <2>2. ASSUME NEW s \in Sites PROVE s # <<fn, at>>
    <3>1. file \in Files
      BY DEF IInv, Walking
    <3>2. Call(s).k = "call" /\ Call(s).stmt # NoStmt
      BY <3>1, SitesType
    <3> QED BY <2>1, <3>2 DEF AtSite, Visited, Call
  <2>3. \A s : ~ParamReports({}, s)
    BY DEF ParamReports
  <2> QED BY <2>1, <2>2, <2>3, ReportParams
<1>4. CASE VisitOnly \/ VisitQuery
  <2>1. AtSite /\ pc = "inspect" /\ Visited.stmt \in Stmt /\ Call(<<fn, at>>) = Visited
    BY <1>4, SiteType DEF VisitOnly, VisitQuery, AtSite, AtItem, Call, Visited
  <2>2. \A s : ParamReports(ParamDiags(Visited.stmt), s) <=> (s = <<fn, at>> /\ Faulty(Visited.stmt))
    BY <2>1, ParamVerdict
  <2>3. CASE VisitOnly
    BY <2>1, <2>2, <2>3, ReportParams DEF VisitOnly
  <2>4. CASE VisitQuery
    <3> DEFINE line == Visited.stmt.line
    <3>1. PICK rule \in {"syntax", "star", "star warning"} :
            Report(ParamDiags(Visited.stmt) \cup {Diagnostic(line, rule, "")})
      BY <2>4, Zenon DEF VisitQuery
    <3>2. rule \notin ParamRules
      BY DEF ParamRules
    <3>3. \A s : ~ParamReports({Diagnostic(line, rule, "")}, s)
      BY <3>2, NoParams, Zenon
    <3> HIDE DEF line
    <3>4. \A s \in Sites : ParamReports(ParamDiags(Visited.stmt) \cup {Diagnostic(line, rule, "")}, s)
                             <=> (s = <<fn, at>> /\ Faulty(Call(s).stmt))
      BY <2>1, <2>2, <3>3, ReportsUnion
    <3> QED BY <2>1, <3>1, <3>4, ReportParams
  <2> QED BY <1>4, <2>3, <2>4
<1>5. CASE NotDetected
  <2>1. pc = "lost" /\ Report(Suppressible(Visited.callback.line, "undetected"))
    BY <1>5 DEF NotDetected
  <2>2. \A s : ~ParamReports(Suppressible(Visited.callback.line, "undetected"), s)
    <3>1. "undetected" \notin ParamRules
      BY DEF ParamRules
    <3> QED BY <3>1, NoParams, Zenon
  <2> QED BY <2>1, <2>2, ReportParams
<1>6. CASE MatchColumns
  <2>1. pc = "found" /\ Report(ScanDiags(Visited.stmt.query, ItemOf(Top), TagsOf(Top)))
    BY <1>6 DEF MatchColumns
  <2>2. ItemOf(Top).k \in {"Columns", "ToStruct"}
    BY <2>1 DEF IInv, Walking, Scans
  <2>3. \A s : ~ParamReports(ScanDiags(Visited.stmt.query, ItemOf(Top), TagsOf(Top)), s)
    BY <2>2, ScanNoParams
  <2> QED BY <2>1, <2>3, ReportParams
<1>7. CASE Found \/ Enter \/ EnterNil \/ Pass \/ Return
  <2>1. /\ UNCHANGED <<file, noStar, fn, at, diags>>
        /\ pc \in {"walk", "found", "lost", "panic"} /\ pc' \in {"walk", "found", "lost", "panic"}
    BY <1>7 DEF Found, Enter, EnterNil, Pass, Return
  <2> QED BY <2>1, WalkParams
<1> QED BY <1>1, <1>2, <1>3, <1>4, <1>5, <1>6, <1>7, VisitParams, NextFuncParams DEF Next

LEMMA Init_ParamInv == Init => ParamInv
<1> SUFFICES ASSUME Init PROVE ParamInv
  OBVIOUS
<1>1. file \in Files /\ fn = 1 /\ at = 1 /\ diags = {} /\ pc \in {"inspect", "done"}
      /\ (pc = "done" => file.spanner = "")
  BY DEF Init
<1>2. \A s : ~ParamReports(diags, s)
  BY <1>1 DEF ParamReports
<1>3. \A s \in Sites : ~Checked(s)
  BY <1>1, NoneChecked
<1> QED BY <1>1, <1>2, <1>3 DEF ParamInv

\* At every statement of every function, matchParams reports nothing if and only
\* if the keys are the parameters, or there are none to compare.
THEOREM Spec_ParamsChecked == Spec => []ParamsChecked
<1>1. IInv /\ ParamInv => ParamsChecked
  <2> SUFFICES ASSUME IInv, ParamInv, pc = "done", file.spanner # "",
                      NEW s \in Sites, Call(s).stmt.query.parses
               PROVE  (\A d \in diags : d.site = s => d.rule \notin ParamRules) <=>
                        \/ Call(s).stmt.has = "none"
                        \/ Call(s).stmt.has = "other" /\ Call(s).stmt.paramsLine \in file.nolint
                        \/ Call(s).stmt.has = "literal" /\ Call(s).stmt.keys = Call(s).stmt.query.params
    BY DEF ParamsChecked
  <2>2. Call(s).stmt \in Stmt
    BY SitesType DEF IInv, Walking
  <2>1. fn > Len(file.funcs)
    BY Zenon DEF ParamInv
  <2>3. Checked(s)
    BY <2>1, AllChecked
  <2>4. ParamReports(diags, s) <=> Faulty(Call(s).stmt)
    BY <2>3 DEF ParamInv
  <2>5. Call(s).stmt.has \in {"none", "literal", "other"}
    BY <2>2 DEF Stmt
  <2> QED BY <2>4, <2>5 DEF ParamReports, Faulty
<1> QED BY <1>1, Init_ParamInv, Next_ParamInv, Spec_IInv, PTL DEF Spec
-----------------------------------------------------------------------------
(***************************************************************************)
(* Verdict: first, what resolveToStructTags finds where every name is      *)
(* declared once.                                                          *)
(***************************************************************************)

\* Blocks whose lists can be searched: their items are items of a body.
Searchable(blocks) ==
  /\ DOMAIN blocks \subseteq Nat
  /\ \A j \in DOMAIN blocks :
       /\ blocks[j][1] \in Blocks /\ DOMAIN Body(file, blocks[j][1]) = 1..Len(Body(file, blocks[j][1]))
       /\ Len(Body(file, blocks[j][1])) \in Nat
       /\ First(blocks[j]) \in Nat /\ First(blocks[j]) >= 1
       /\ End(file, blocks[j]) \in Int /\ End(file, blocks[j]) <= Len(Body(file, blocks[j][1]))

LEMMA ListedType ==
  ASSUME NEW blocks, Searchable(blocks), NEW j \in DOMAIN blocks, NEW i \in Listed(file, blocks[j])
  PROVE  i \in Nat /\ i \in DOMAIN Body(file, blocks[j][1])
<1>1. i \in First(blocks[j])..End(file, blocks[j])
  BY DEF Listed
<1>2. \A a, b, c \in Int : \A n \in a..b : 1 <= a /\ b <= c => n \in Nat /\ n \in 1..c
  OBVIOUS
<1>3. /\ DOMAIN Body(file, blocks[j][1]) = 1..Len(Body(file, blocks[j][1]))
      /\ Len(Body(file, blocks[j][1])) \in Int
      /\ First(blocks[j]) \in Int /\ 1 <= First(blocks[j])
      /\ End(file, blocks[j]) \in Int /\ End(file, blocks[j]) <= Len(Body(file, blocks[j][1]))
  BY DEF Searchable
<1> QED BY <1>1, <1>2, <1>3

\* The only declaration is the first.
LEMMA FirstOfOne ==
  ASSUME NEW blocks, Searchable(blocks), NEW D, D \subseteq InLists(file, blocks),
         \A x, y \in D : x = y
  PROVE  FirstOf(file, blocks, D) = D
<1> DEFINE in(j) == {i \in Listed(file, blocks[j]) : Body(file, blocks[j][1])[i] \in D}
           found == {j \in DOMAIN blocks : in(j) # {}}
           k == Min(found)
           item == Body(file, blocks[k][1])[Min(in(k))]
<1>1. ASSUME NEW x \in D PROVE found # {}
  <2>1. x \in InLists(file, blocks)
    OBVIOUS
  <2>2. PICK j \in DOMAIN blocks : x \in {Body(file, blocks[j][1])[i] : i \in Listed(file, blocks[j])}
    BY <2>1, Zenon DEF InLists
  <2>3. PICK i \in Listed(file, blocks[j]) : x = Body(file, blocks[j][1])[i]
    BY <2>2, Zenon
  <2>4. i \in in(j)
    BY <2>3, Zenon
  <2>5. in(j) # {}
    BY <2>4, Zenon
  <2> QED BY <2>5, Zenon
<1>2. \A j \in DOMAIN blocks : in(j) \subseteq Nat
  BY ListedType DEF Searchable
<1>3. found \subseteq Nat
  BY DEF Searchable
<1>4. ASSUME found # {} PROVE item \in D
  <2>1. k \in found
    <3> HIDE DEF found
    <3> QED BY <1>3, <1>4, MinNat
  <2>2. k \in DOMAIN blocks /\ in(k) # {}
    BY <2>1, Zenon
  <2>3. Min(in(k)) \in in(k)
    <3> HIDE DEF in, k
    <3> QED BY <1>2, <2>2, MinNat
  <2> QED BY <2>3, Zenon
<1>5. FirstOf(file, blocks, D) = IF found = {} THEN {} ELSE {item}
  BY Zenon DEF FirstOf
<1> HIDE DEF found, item
<1>6. CASE found = {}
  BY <1>1, <1>5, <1>6
<1>7. CASE found # {}
  BY <1>4, <1>5, <1>7
<1> QED BY <1>6, <1>7
\* What is listed, and what is declared.
LEMMA ListAt ==
  ASSUME NEW blocks, NEW d
  PROVE  d \in InLists(file, blocks) <=>
           \E j \in DOMAIN blocks : \E i \in Listed(file, blocks[j]) : d = Body(file, blocks[j][1])[i]
<1>1. d \in InLists(file, blocks) <=>
        \E j \in DOMAIN blocks : d \in {Body(file, blocks[j][1])[i] : i \in Listed(file, blocks[j])}
  BY Zenon DEF InLists
<1> QED BY <1>1, Zenon

LEMMA DeclAt ==
  ASSUME NEW kinds, NEW name, NEW d
  PROVE  d \in Decls(kinds, name) <=>
           \E f \in Blocks : \E i \in DOMAIN Body(file, f) :
             d = Body(file, f)[i] /\ d.k \in kinds /\ d.name = name
<1> DEFINE J(f) == {j \in DOMAIN Body(file, f) : Body(file, f)[j].k \in kinds /\ Body(file, f)[j].name = name}
<1>1. d \in Decls(kinds, name) <=> \E f \in Blocks : d \in {Body(file, f)[i] : i \in J(f)}
  BY Zenon DEF Decls
<1>2. \A f : d \in {Body(file, f)[i] : i \in J(f)} <=> \E i \in J(f) : d = Body(file, f)[i]
  BY Zenon
<1> QED BY <1>1, <1>2, Zenon

LEMMA OneDecl ==
  ASSUME Plain, NEW kinds, kinds \in {{"var", "define"}, {"type"}}, NEW name,
         NEW x \in Decls(kinds, name), NEW y \in Decls(kinds, name)
  PROVE  x = y
<1>1. PICK f \in Blocks : \E i \in DOMAIN Body(file, f) : x = Body(file, f)[i] /\ x.k \in kinds /\ x.name = name
  BY DeclAt, Zenon
<1>2. PICK i \in DOMAIN Body(file, f) : x = Body(file, f)[i] /\ x.k \in kinds /\ x.name = name
  BY <1>1
<1>3. PICK g \in Blocks : \E j \in DOMAIN Body(file, g) : y = Body(file, g)[j] /\ y.k \in kinds /\ y.name = name
  BY DeclAt, Zenon
<1>4. PICK j \in DOMAIN Body(file, g) : y = Body(file, g)[j] /\ y.k \in kinds /\ y.name = name
  BY <1>3
<1>5. \A d, e : /\ d = Body(file, f)[i] /\ e = Body(file, g)[j]
                => /\ d.k \in {"var", "define"} /\ e.k \in {"var", "define"} /\ d.name = e.name => f = g /\ i = j
                   /\ d.k = "type" /\ e.k = "type" /\ d.name = e.name => f = g /\ i = j
  BY DEF Plain
<1>6. CASE kinds = {"var", "define"}
  BY <1>2, <1>4, <1>5, <1>6
<1>7. CASE kinds = {"type"}
  BY <1>2, <1>4, <1>5, <1>7
<1> QED BY <1>6, <1>7

\* A declared struct has a column.
LEMMA StructHasTags ==
  ASSUME Plain, NEW kinds, kinds \subseteq {"var", "define", "type"}, NEW name, NEW d \in Decls(kinds, name),
         d.type.kind = "struct"
  PROVE  Tags(d.type.fields) # {}
<1>1a. PICK f \in Blocks : \E i \in DOMAIN Body(file, f) : d = Body(file, f)[i] /\ d.k \in kinds /\ d.name = name
  BY DeclAt
<1>1. PICK i \in DOMAIN Body(file, f) : d = Body(file, f)[i] /\ d.k \in kinds /\ d.name = name
  BY <1>1a
<1>2. /\ \A x \in d.type.fields : x.tag # "-" /\ (x.tag = "" => x.names # {})
      /\ d.type.fields # {}
  BY <1>1 DEF Plain
<1>3. PICK x \in d.type.fields : x.tag # "-" /\ (x.tag = "" => x.names # {})
  BY <1>2
<1> DEFINE T == IF x.tag \in {"", "-"} THEN x.names ELSE {x.tag}
<1>4. T # {}
  BY <1>3
<1>5. \A y \in T : y \in Tags(d.type.fields)
  BY Zenon DEF Tags
<1> HIDE DEF T
<1> QED BY <1>4, <1>5
LEMMA ListedDecl ==
  ASSUME NEW blocks, Searchable(blocks), NEW d \in InLists(file, blocks)
  PROVE  /\ d.k # "type" => d \in Decls({"var", "define"}, d.name)
         /\ d.k = "type" => d \in Decls({"type"}, d.name)
<1>1. PICK j \in DOMAIN blocks : \E i \in Listed(file, blocks[j]) : d = Body(file, blocks[j][1])[i]
  BY ListAt
<1>2. PICK i \in Listed(file, blocks[j]) : d = Body(file, blocks[j][1])[i]
  BY <1>1
<1>3. i \in DOMAIN Body(file, blocks[j][1])
  BY ListedType
<1>4. blocks[j][1] \in Blocks
  BY DEF Searchable
<1>5. d.k \in {"var", "define", "type"}
  BY <1>2 DEF Listed
<1>6. \A kinds : d.k \in kinds => d \in Decls(kinds, d.name)
  <2> SUFFICES ASSUME NEW kinds, d.k \in kinds PROVE d \in Decls(kinds, d.name)
    OBVIOUS
  <2> QED BY <1>2, <1>3, <1>4, DeclAt
<1> QED BY <1>5, <1>6

LEMMA DeclKind ==
  ASSUME NEW kinds, NEW name, NEW d \in Decls(kinds, name)
  PROVE  d.k \in kinds /\ d.name = name
BY DeclAt

\* The type of this name, if it is a struct.
LEMMA ResolveType ==
  ASSUME Plain, NEW blocks, Searchable(blocks), NEW name, Decls({"type"}, name) \subseteq InLists(file, blocks)
  PROVE  TypeTags(file, blocks, name) =
           UNION {Tags(t.fields) : t \in Struct({d.type : d \in Decls({"type"}, name)})}
<1> DEFINE D == {d \in InLists(file, blocks) :
                   d.k = "type" /\ d.name = name /\ d.type.kind = "struct" /\ Tags(d.type.fields) # {}}
           W == {d \in Decls({"type"}, name) : d.type.kind = "struct"}
<1>1. ASSUME NEW d \in D PROVE d \in W
  BY ListedDecl
<1>2. ASSUME NEW d \in W PROVE d \in D
  <2>1. d.k \in {"type"} /\ d.name = name
    BY DeclKind
  <2>2. Tags(d.type.fields) # {}
    <3>1. {"type"} \subseteq {"var", "define", "type"}
      OBVIOUS
    <3> QED BY <3>1, StructHasTags
  <2> QED BY <2>1, <2>2
<1>3. D = W
  BY <1>1, <1>2, Zenon
<1>4. D \subseteq InLists(file, blocks)
  OBVIOUS
<1>5. \A x, y \in D : x = y
  <2> HIDE DEF D
  <2> SUFFICES ASSUME NEW x \in D, NEW y \in D PROVE x = y
    OBVIOUS
  <2>1. x \in Decls({"type"}, name) /\ y \in Decls({"type"}, name)
    BY <1>3
  <2> QED BY <2>1, OneDecl
<1>6. TypeTags(file, blocks, name) = UNION {Tags(d.type.fields) : d \in FirstOf(file, blocks, D)}
  BY Zenon DEF TypeTags
<1> HIDE DEF D
<1>7. FirstOf(file, blocks, D) = W
  BY <1>3, <1>4, <1>5, FirstOfOne
<1>8. {Tags(d.type.fields) : d \in W} = {Tags(t.fields) : t \in Struct({d.type : d \in Decls({"type"}, name)})}
  <2>1. Struct({d.type : d \in Decls({"type"}, name)}) = {d.type : d \in W}
    BY DEF Struct
  <2> HIDE DEF W
  <2> QED BY <2>1
<1> QED BY <1>6, <1>7, <1>8

\* The struct type that the variable has, if Go gives it one.
LEMMA GoTypeOne ==
  ASSUME Plain, NEW var, NEW x \in GoTypes(var), NEW y \in GoTypes(var)
  PROVE  x = y /\ Tags(x.fields) # {}
<1> DEFINE types == {d.type : d \in {e \in Decls({"var", "define"}, var) : Typed(e)}}
           deeper == UNION {{d.type : d \in Decls({"type"}, t.name)} : t \in {u \in types : u.kind = "named"}}
<1>1. GoTypes(var) = Struct(types) \cup Struct(deeper)
  BY Zenon DEF GoTypes
<1>2. ASSUME NEW t \in types PROVE \E d \in Decls({"var", "define"}, var) : t = d.type
  OBVIOUS
<1>3. ASSUME NEW t \in types, NEW u \in types PROVE t = u
  <2>1. PICK d \in Decls({"var", "define"}, var) : t = d.type
    BY <1>2
  <2>2. PICK e \in Decls({"var", "define"}, var) : u = e.type
    BY <1>2
  <2> QED BY <2>1, <2>2, OneDecl
<1>4. ASSUME NEW t \in deeper PROVE \E u \in types : u.kind = "named" /\ \E d \in Decls({"type"}, u.name) : t = d.type
  <2> HIDE DEF types
  <2> QED BY Zenon
<1> HIDE DEF types, deeper
<1>5. ASSUME NEW t \in deeper, NEW u \in deeper PROVE t = u
  <2>1. PICK v \in types : v.kind = "named" /\ \E d \in Decls({"type"}, v.name) : t = d.type
    BY <1>4
  <2>2. PICK w \in types : w.kind = "named" /\ \E d \in Decls({"type"}, w.name) : u = d.type
    BY <1>4
  <2>3. v = w
    BY <1>3
  <2> QED BY <2>1, <2>2, <2>3, OneDecl
<1>6. \A t \in Struct(types), u \in deeper : FALSE
  <2> SUFFICES ASSUME NEW t \in Struct(types), NEW u \in deeper PROVE FALSE
    OBVIOUS
  <2>1. PICK w \in types : w.kind = "named"
    BY <1>4
  <2>2. t \in types /\ t.kind = "struct"
    BY DEF Struct
  <2> QED BY <1>3, <2>1, <2>2
<1>7. x = y
  BY <1>1, <1>3, <1>5, <1>6 DEF Struct
<1>8. \E name : \E d \in Decls({"var", "define"}, name) \cup Decls({"type"}, name) : x = d.type /\ x.kind = "struct"
  <2>1. CASE x \in Struct(types)
    BY <2>1, <1>2 DEF Struct
  <2>2. CASE x \in Struct(deeper)
    BY <2>2, <1>4 DEF Struct
  <2> QED BY <1>1, <2>1, <2>2
<1>9. Tags(x.fields) # {}
  <2>1. PICK name : \E d \in Decls({"var", "define"}, name) \cup Decls({"type"}, name) : x = d.type /\ x.kind = "struct"
    BY <1>8
  <2>2. PICK d \in Decls({"var", "define"}, name) \cup Decls({"type"}, name) : x = d.type /\ x.kind = "struct"
    BY <2>1
  <2>3. {"var", "define"} \subseteq {"var", "define", "type"} /\ {"type"} \subseteq {"var", "define", "type"}
    OBVIOUS
  <2>4. CASE d \in Decls({"var", "define"}, name)
    BY <2>2, <2>3, <2>4, StructHasTags
  <2>5. CASE d \in Decls({"type"}, name)
    BY <2>2, <2>3, <2>5, StructHasTags
  <2> QED BY <2>2, <2>4, <2>5
<1> QED BY <1>7, <1>9
LEMMA BodyType ==
  ASSUME file \in Files, NEW f \in Blocks
  PROVE  Body(file, f) \in Seq(Item)
<1>1. f \in 0..Len(file.funcs) /\ Body(file, f) # NoBody
  BY DEF Blocks
<1>2. CASE f = 0
  <2>1. file.top \in Seq(Item)
    BY Inputs DEF File
  <2> QED BY <1>2, <2>1 DEF Body
<1>3. CASE f # 0
  <2>1. f \in DOMAIN file.funcs
    BY <1>1, <1>3, FileType
  <2> QED BY <1>1, <2>1, FileType
<1> QED BY <1>2, <1>3

LEMMA DeclType ==
  ASSUME file \in Files, NEW kinds, kinds \subseteq {"var", "define", "type"}, NEW name, NEW d \in Decls(kinds, name)
  PROVE  d \in Item /\ d.type \in Type
<1>1. PICK f \in Blocks : \E i \in DOMAIN Body(file, f) : d = Body(file, f)[i] /\ d.k \in kinds /\ d.name = name
  BY DeclAt
<1>2. d \in Item
  <2>1. Body(file, f) \in Seq(Item)
    BY BodyType
  <2> QED BY <1>1, <2>1
<1>3. d.k \in {"var", "define", "type"}
  BY <1>1
<1> QED BY <1>2, <1>3 DEF Item
\* resolveToStructTags finds the columns of that type, or nothing if there is none.
LEMMA ResolveVar ==
  ASSUME file \in Files, Plain, NEW blocks, Searchable(blocks), NEW var,
         Decls({"var", "define"}, var) \subseteq InLists(file, blocks),
         \A d \in Decls({"var", "define"}, var) : Decls({"type"}, d.type.name) \subseteq InLists(file, blocks)
  PROVE  StructTags(file, blocks, var) = UNION {Tags(t.fields) : t \in GoTypes(var)}
<1> DEFINE D == {d \in InLists(file, blocks) : d.k # "type" /\ d.name = var /\ Typed(d)}
           V == {e \in Decls({"var", "define"}, var) : Typed(e)}
           types == {d.type : d \in V}
           tags(t) == IF t.kind = "named" THEN TypeTags(file, blocks, t.name) ELSE Tags(t.fields)
           deeper == UNION {{d.type : d \in Decls({"type"}, t.name)} : t \in {u \in types : u.kind = "named"}}
<1>1. D = V
  <2>1. ASSUME NEW d \in D PROVE d \in V
    BY ListedDecl
  <2>2. ASSUME NEW d \in V PROVE d \in D
    <3>1. d.k \in {"var", "define"} /\ d.name = var /\ d \in InLists(file, blocks)
      BY DeclKind
    <3> QED BY <3>1
  <2> QED BY <2>1, <2>2, Zenon
<1>2. FirstOf(file, blocks, D) = V
  <2>1. D \subseteq InLists(file, blocks)
    OBVIOUS
  <2>2. \A x, y \in D : x = y
    <3> HIDE DEF D
    <3> SUFFICES ASSUME NEW x \in D, NEW y \in D PROVE x = y
      OBVIOUS
    <3>1. x \in Decls({"var", "define"}, var) /\ y \in Decls({"var", "define"}, var)
      BY <1>1
    <3> QED BY <3>1, OneDecl
  <2> HIDE DEF D, V
  <2> QED BY <1>1, <2>1, <2>2, FirstOfOne
<1>3. StructTags(file, blocks, var) = UNION {tags(t) : t \in {d.type : d \in FirstOf(file, blocks, D)}}
  BY Zenon DEF StructTags
<1>4. GoTypes(var) = Struct(types) \cup Struct(deeper)
  BY Zenon DEF GoTypes
<1>5. ASSUME NEW t \in types PROVE /\ t.kind \in {"struct", "named"}
                                   /\ Decls({"type"}, t.name) \subseteq InLists(file, blocks)
  <2>1. PICK d \in V : t = d.type
    OBVIOUS
  <2>2. d.k \in {"var", "define"} /\ Typed(d) /\ d \in Decls({"var", "define"}, var)
    BY DeclKind
  <2>3. Decls({"type"}, d.type.name) \subseteq InLists(file, blocks)
    BY <2>2, Zenon
  <2>4. d.type.kind \in {"struct", "named", "other"}
    <3>1. {"var", "define"} \subseteq {"var", "define", "type"}
      OBVIOUS
    <3>2. d.type \in Type
      BY <2>2, <3>1, DeclType
    <3> QED BY <3>2 DEF Type
  <2> QED BY <2>1, <2>2, <2>3, <2>4 DEF Typed
<1>6. ASSUME NEW t \in types, t.kind = "named"
      PROVE  tags(t) = UNION {Tags(u.fields) : u \in Struct({d.type : d \in Decls({"type"}, t.name)})}
  <2>1. TypeTags(file, blocks, t.name) = UNION {Tags(u.fields) : u \in Struct({d.type : d \in Decls({"type"}, t.name)})}
    BY <1>5, ResolveType
  <2> QED BY <1>6, <2>1
<1>7. ASSUME NEW t \in types, t.kind # "named" PROVE tags(t) = Tags(t.fields) /\ t.kind = "struct"
  BY <1>5, <1>7
<1>8. StructTags(file, blocks, var) = UNION {tags(t) : t \in types}
  BY <1>2, <1>3
<1> HIDE DEF types, tags, D, V
<1>9. ASSUME NEW x, x \in UNION {tags(t) : t \in types} PROVE \E u \in GoTypes(var) : x \in Tags(u.fields)
  <2>1. PICK t \in types : x \in tags(t)
    BY <1>9, Zenon
  <2>2. CASE t.kind = "named"
    <3> DEFINE S == Struct({d.type : d \in Decls({"type"}, t.name)})
    <3>0. x \in UNION {Tags(u.fields) : u \in S}
      BY <1>6, <2>1, <2>2
    <3>1. PICK u \in S : x \in Tags(u.fields)
      BY <3>0, Zenon
    <3>2. u \in Struct(deeper)
      BY <2>2 DEF Struct
    <3> QED BY <1>4, <3>1, <3>2
  <2>3. CASE t.kind # "named"
    BY <1>4, <1>7, <2>1, <2>3 DEF Struct
  <2> QED BY <2>2, <2>3
<1>10. ASSUME NEW u \in GoTypes(var), NEW x \in Tags(u.fields) PROVE \E t \in types : x \in tags(t)
  <2>1. CASE u \in Struct(types)
    <3>1. u \in types /\ u.kind # "named"
      BY <2>1 DEF Struct
    <3> QED BY <1>7, <3>1
  <2>2. CASE u \in Struct(deeper)
    <3>1. PICK t \in types : t.kind = "named" /\ u \in {d.type : d \in Decls({"type"}, t.name)}
      BY <2>2, Zenon DEF Struct
    <3>2. u \in Struct({d.type : d \in Decls({"type"}, t.name)})
      BY <2>2, <3>1, Zenon DEF Struct
    <3> QED BY <1>6, <3>1, <3>2, Zenon
  <2> QED BY <1>4, <2>1, <2>2
<1> HIDE DEF deeper
<1>11. \A x : x \in UNION {tags(t) : t \in types} <=> x \in UNION {Tags(u.fields) : u \in GoTypes(var)}
  BY <1>9, <1>10, Zenon
<1> QED BY <1>8, <1>11

LEMMA Resolved ==
  ASSUME file \in Files, Plain, NEW blocks, Searchable(blocks), NEW var,
         Decls({"var", "define"}, var) \subseteq InLists(file, blocks),
         \A d \in Decls({"var", "define"}, var) : Decls({"type"}, d.type.name) \subseteq InLists(file, blocks)
  PROVE  /\ GoTypes(var) = {} => StructTags(file, blocks, var) = {}
         /\ \A t \in GoTypes(var) : Tags(t.fields) = StructTags(file, blocks, var) /\ Tags(t.fields) # {}
<1>1. StructTags(file, blocks, var) = UNION {Tags(t.fields) : t \in GoTypes(var)}
  BY ResolveVar
<1>2. ASSUME NEW t \in GoTypes(var)
      PROVE  Tags(t.fields) = StructTags(file, blocks, var) /\ Tags(t.fields) # {}
  <2>1. \A u \in GoTypes(var) : u = t
    BY GoTypeOne
  <2>2. {Tags(u.fields) : u \in GoTypes(var)} = {Tags(t.fields)}
    BY <2>1
  <2>3. Tags(t.fields) # {}
    BY GoTypeOne
  <2> QED BY <1>1, <2>2, <2>3
<1>3. GoTypes(var) = {} => StructTags(file, blocks, var) = {}
  BY <1>1
<1> QED BY <1>2, <1>3
-----------------------------------------------------------------------------
(* Where the analysis looks, once it has found the use of a row. *)

ScopesAt(site, frame) == <<frame.block, <<site[1], 0>>, <<0, 0>>>>

\* The list of a whole body, and of the file.
LEMMA WholeBody ==
  ASSUME file \in Files, NEW f \in Blocks
  PROVE  /\ DOMAIN Body(file, f) = 1..Len(Body(file, f)) /\ Len(Body(file, f)) \in Nat
         /\ First(<<f, 0>>) = 1 /\ End(file, <<f, 0>>) = Len(Body(file, f))
<1>1. Body(file, f) \in Seq(Item)
  BY BodyType
<1> QED BY <1>1 DEF First, End

LEMMA ScopesSearchable ==
  ASSUME file \in Files, NEW site, IsSite(site), NEW u, InUse(site, u)
  PROVE  Searchable(ScopesAt(site, u[Len(u)]))
<1> DEFINE f == u[Len(u)]
           b == f.block
           blocks == ScopesAt(site, f)
<1>1. Len(u) \in DOMAIN u /\ Linked(site, u)
  BY UseType DEF InUse
<1>2. f \in FrameType /\ b[1] \in DOMAIN file.funcs
  BY <1>1, BlockType
<1>3. Body(file, b[1]) \in Seq(Item)
  BY <1>1, BlockType
<1>4. End(file, b) \in Int /\ End(file, b) <= Len(Body(file, b[1]))
  BY <1>1, BlockType
<1>5. b[2] \in Nat
  BY <1>2 DEF FrameType
<1> HIDE DEF b
<1>6. b[1] \in Blocks
  <2>1. b[1] \in 0..Len(file.funcs)
    BY <1>2, FileType
  <2>2. Body(file, b[1]) # NoBody
    BY <1>3, Absent
  <2> QED BY <2>1, <2>2 DEF Blocks
<1>7. DOMAIN Body(file, b[1]) = 1..Len(Body(file, b[1])) /\ Len(Body(file, b[1])) \in Nat
  BY <1>3
<1>8. First(b) \in Nat /\ First(b) >= 1
  BY <1>5 DEF First
<1>9. site[1] \in Blocks
  <2>1. site[1] \in DOMAIN file.funcs /\ Body(file, site[1]) \in Seq(Item)
    BY DEF IsSite
  <2>2. Body(file, site[1]) # NoBody
    BY <2>1, Absent
  <2>3. site[1] \in 0..Len(file.funcs)
    BY <2>1, FileType
  <2> QED BY <2>2, <2>3 DEF Blocks
<1>10. 0 \in Blocks
  <2>1. Len(file.funcs) \in Nat
    BY FileType
  <2>2. file.top \in Seq(Item)
    BY Inputs DEF File
  <2>3. Body(file, 0) # NoBody
    BY <2>2, Absent DEF Body
  <2> QED BY <2>1, <2>3 DEF Blocks
<1>11. DOMAIN blocks = {1, 2, 3} /\ blocks[1] = b /\ blocks[2] = <<site[1], 0>> /\ blocks[3] = <<0, 0>>
  BY DEF ScopesAt, b
<1> HIDE DEF blocks
<1>12. ASSUME NEW g \in Blocks
       PROVE  LET c == <<g, 0>>
              IN  /\ c[1] \in Blocks /\ DOMAIN Body(file, c[1]) = 1..Len(Body(file, c[1]))
                  /\ Len(Body(file, c[1])) \in Nat /\ First(c) \in Nat /\ First(c) >= 1
                  /\ End(file, c) \in Int /\ End(file, c) <= Len(Body(file, c[1]))
  <2>1. First(<<g, 0>>) = 1 /\ <<g, 0>>[1] = g
    BY WholeBody
  <2>2. End(file, <<g, 0>>) = Len(Body(file, g))
    BY WholeBody
  <2>3. DOMAIN Body(file, g) = 1..Len(Body(file, g)) /\ Len(Body(file, g)) \in Nat
    BY WholeBody
  <2> QED BY <2>1, <2>2, <2>3
<1>13. ASSUME NEW j \in DOMAIN blocks
       PROVE  /\ blocks[j][1] \in Blocks /\ DOMAIN Body(file, blocks[j][1]) = 1..Len(Body(file, blocks[j][1]))
              /\ Len(Body(file, blocks[j][1])) \in Nat
              /\ First(blocks[j]) \in Nat /\ First(blocks[j]) >= 1
              /\ End(file, blocks[j]) \in Int /\ End(file, blocks[j]) <= Len(Body(file, blocks[j][1]))
  <2>1. CASE j = 1
    BY <1>4, <1>6, <1>7, <1>8, <1>11, <2>1
  <2>2. CASE j = 2
    BY <1>9, <1>11, <1>12, <2>2
  <2>3. CASE j = 3
    BY <1>10, <1>11, <1>12, <2>3
  <2> QED BY <1>11, <2>1, <2>2, <2>3
<1>14. DOMAIN blocks \subseteq Nat
  BY <1>11
<1> QED BY <1>13, <1>14 DEF Searchable, blocks, f

\* Declared in one of these lists is found in them.
LEMMA AroundListed ==
  ASSUME NEW site, NEW frame, DeclaredAround(site, frame), ItemOf(frame).k = "ToStruct",
         NEW kinds, kinds \subseteq {"var", "define", "type"}, NEW name,
         name \in {ItemOf(frame).var} \cup {d.type.name : d \in Decls({"var", "define"}, ItemOf(frame).var)}
  PROVE  Decls(kinds, name) \subseteq InLists(file, ScopesAt(site, frame))
<1> DEFINE blocks == ScopesAt(site, frame)
<1> SUFFICES ASSUME NEW d \in Decls(kinds, name) PROVE d \in InLists(file, blocks)
  OBVIOUS
<1>1. PICK f \in Blocks : \E i \in DOMAIN Body(file, f) : d = Body(file, f)[i] /\ d.k \in kinds /\ d.name = name
  BY DeclAt
<1>2. PICK i \in DOMAIN Body(file, f) : d = Body(file, f)[i] /\ d.k \in kinds /\ d.name = name
  BY <1>1
<1>3. d.k \in {"var", "define", "type"}
  BY <1>2
<1>4. PICK b \in {frame.block, <<site[1], 0>>, <<0, 0>>} : b[1] = f /\ i \in Listed(file, b)
  BY <1>2, <1>3, Zenon DEF DeclaredAround
<1>5. PICK j \in DOMAIN blocks : blocks[j] = b
  <2>1. DOMAIN blocks = {1, 2, 3} /\ blocks[1] = frame.block /\ blocks[2] = <<site[1], 0>> /\ blocks[3] = <<0, 0>>
    BY DEF ScopesAt
  <2> HIDE DEF blocks
  <2> QED BY <2>1
<1> HIDE DEF blocks
<1> QED BY <1>2, <1>4, <1>5, ListAt
-----------------------------------------------------------------------------
(* What is reported about a use, and what that says about the SELECT. *)

Mistaken(site, u) ==
  LET item  == ItemOf(u[Len(u)])
      query == Call(site).stmt.query
      tags  == StructTags(file, ScopesAt(site, u[Len(u)]), item.var)
  IN  \/ item.k = "Columns" /\ Len(query.select) # item.args
      \/ item.k = "ToStruct" /\ tags = {} /\ item.line \notin file.nolint
      \/ item.k = "ToStruct" /\ tags # {} /\ LowerOf(tags) # LowerOf(Columns(query))

Forgiven(item) == item.k = "ToStruct" /\ GoTypes(item.var) = {} /\ item.line \in file.nolint

LEMMA MistakenIs ==
  ASSUME file \in Files, Plain, NEW site, IsSite(site), NEW u, InUse(site, u), DeclaredAround(site, u[Len(u)])
  PROVE  Mistaken(site, u) <=> ~(Fits(Call(site).stmt.query, ItemOf(u[Len(u)])) \/ Forgiven(ItemOf(u[Len(u)])))
<1> DEFINE frame == u[Len(u)]
           item == ItemOf(frame)
           query == Call(site).stmt.query
           blocks == ScopesAt(site, frame)
           tags == StructTags(file, blocks, item.var)
<1>1. item.k \in {"Columns", "ToStruct"}
  BY DEF InUse, Scans
<1>2. CASE item.k = "Columns"
  BY <1>2 DEF Mistaken, Fits, Forgiven
<1>3. CASE item.k = "ToStruct"
  <2>1. Searchable(blocks)
    BY ScopesSearchable
  <2>2. Decls({"var", "define"}, item.var) \subseteq InLists(file, blocks)
    <3>1. {"var", "define"} \subseteq {"var", "define", "type"}
      OBVIOUS
    <3> QED BY <1>3, <3>1, AroundListed
  <2>3. ASSUME NEW d \in Decls({"var", "define"}, item.var)
        PROVE  Decls({"type"}, d.type.name) \subseteq InLists(file, blocks)
    <3>1. {"type"} \subseteq {"var", "define", "type"}
      OBVIOUS
    <3>2. d.type.name \in {item.var} \cup {e.type.name : e \in Decls({"var", "define"}, item.var)}
      OBVIOUS
    <3> QED BY <1>3, <3>1, <3>2, AroundListed
  <2> HIDE DEF blocks, item
  <2>4. GoTypes(item.var) = {} => tags = {}
    BY <2>1, <2>2, <2>3, Resolved
  <2>5. \A t \in GoTypes(item.var) : Tags(t.fields) = tags /\ Tags(t.fields) # {}
    BY <2>1, <2>2, <2>3, Resolved
  <2>6. Mistaken(site, u) <=> \/ tags = {} /\ item.line \notin file.nolint
                              \/ tags # {} /\ LowerOf(tags) # LowerOf(Columns(query))
    BY <1>3 DEF Mistaken, item, blocks
  <2>7. Fits(query, item) <=> \E t \in GoTypes(item.var) : LowerOf(Tags(t.fields)) = LowerOf(Columns(query))
    BY <1>3 DEF Fits
  <2>8. Forgiven(item) <=> GoTypes(item.var) = {} /\ item.line \in file.nolint
    BY <1>3 DEF Forgiven
  <2> HIDE DEF tags, query
  <2>9. Mistaken(site, u) <=> ~(Fits(query, item) \/ Forgiven(item))
    <3>1. CASE GoTypes(item.var) = {}
      BY <2>4, <2>6, <2>7, <2>8, <3>1
    <3>2. CASE GoTypes(item.var) # {}
      BY <2>5, <2>6, <2>7, <2>8, <3>2
    <3> QED BY <3>1, <3>2
  <2> QED BY <2>9 DEF item, query
<1> QED BY <1>1, <1>2, <1>3

ScanReports(new, s) == \E d \in new : d.site = s /\ d.rule \notin ParamRules

LEMMA ScanUnion ==
  \A A, B, s : ScanReports(A \cup B, s) <=> ScanReports(A, s) \/ ScanReports(B, s)
BY DEF ScanReports

\* The rules of the parameters are no others, and the diagnostics are about the call.
LEMMA OfCall ==
  ASSUME NEW line, NEW rule, NEW s, NEW S
  PROVE  ScanReports({Diagnostic(line, rule, n) : n \in S}, s) <=> (s = <<fn, at>> /\ rule \notin ParamRules /\ S # {})
<1> DEFINE D == {Diagnostic(line, rule, n) : n \in S}
<1>1. ASSUME NEW d \in D PROVE d.site = <<fn, at>> /\ d.rule = rule
  <2>1. PICK n \in S : d = Diagnostic(line, rule, n)
    OBVIOUS
  <2> QED BY <2>1, AtCall, Zenon
<1>2. D # {} <=> S # {}
  OBVIOUS
<1> HIDE DEF D
<1>3. ScanReports(D, s) <=> s = <<fn, at>> /\ rule \notin ParamRules /\ D # {}
  BY <1>1 DEF ScanReports
<1> QED BY <1>2, <1>3 DEF D

LEMMA OneOfCall ==
  ASSUME NEW line, NEW rule, NEW s, NEW name
  PROVE  /\ ScanReports({Diagnostic(line, rule, name)}, s) <=> (s = <<fn, at>> /\ rule \notin ParamRules)
         /\ ScanReports(Suppressible(line, rule), s)
              <=> (s = <<fn, at>> /\ rule \notin ParamRules /\ line \notin file.nolint)
<1>1. ASSUME NEW n
      PROVE  ScanReports({Diagnostic(line, rule, n)}, s) <=> (s = <<fn, at>> /\ rule \notin ParamRules)
  <2>1. Diagnostic(line, rule, n).site = <<fn, at>> /\ Diagnostic(line, rule, n).rule = rule
    BY AtCall, Zenon
  <2> QED BY <2>1 DEF ScanReports
<1>2. ~ScanReports({}, s)
  BY DEF ScanReports
<1>3. Suppressible(line, rule) = IF line \in file.nolint THEN {} ELSE {Diagnostic(line, rule, "")}
  BY Zenon DEF Suppressible
<1>4. ScanReports(Suppressible(line, rule), s)
        <=> (s = <<fn, at>> /\ rule \notin ParamRules /\ line \notin file.nolint)
  BY <1>1, <1>2, <1>3
<1> QED BY <1>1, <1>4

LEMMA ParamsNoScan ==
  ASSUME NEW stmt \in Stmt, NEW s
  PROVE  ~ScanReports(ParamDiags(stmt), s)
<1>1. stmt.has \in {"none", "literal", "other"} /\ stmt.query.parses \in BOOLEAN
  BY DEF Stmt, Query
<1>2. "params literal" \in ParamRules /\ "missing param" \in ParamRules /\ "unused param" \in ParamRules
  BY DEF ParamRules
<1>3. CASE stmt.has = "none" \/ (stmt.has = "literal" /\ ~stmt.query.parses)
  <2>1. ParamDiags(stmt) = {}
    BY <1>3 DEF ParamDiags
  <2> QED BY <2>1 DEF ScanReports
<1>4. CASE stmt.has = "other"
  <2>1. ParamDiags(stmt) = Suppressible(stmt.paramsLine, "params literal")
    BY <1>4 DEF ParamDiags
  <2> QED BY <1>2, <2>1, OneOfCall
<1>5. CASE stmt.has = "literal" /\ stmt.query.parses
  <2> DEFINE missing == {Diagnostic(stmt.line, "missing param", p) : p \in stmt.query.params \ stmt.keys}
             unused == {Diagnostic(stmt.line, "unused param", p) : p \in stmt.keys \ stmt.query.params}
  <2>1. ParamDiags(stmt) = missing \cup unused
    BY <1>5 DEF ParamDiags
  <2>2. ~ScanReports(missing, s)
    BY <1>2, OfCall, Zenon
  <2>3. ~ScanReports(unused, s)
    BY <1>2, OfCall, Zenon
  <2> HIDE DEF missing, unused
  <2> QED BY <2>1, <2>2, <2>3, ScanUnion
<1> QED BY <1>1, <1>3, <1>4, <1>5

\* matchColumns reports what is mistaken.
LEMMA ScanVerdict ==
  ASSUME NEW query, NEW tags, NEW item, item.k \in {"Columns", "ToStruct"}, NEW s
  PROVE  ScanReports(ScanDiags(query, item, tags), s) <=>
           /\ s = <<fn, at>>
           /\ \/ item.k = "Columns" /\ Len(query.select) # item.args
              \/ item.k = "ToStruct" /\ tags = {} /\ item.line \notin file.nolint
              \/ item.k = "ToStruct" /\ tags # {} /\ LowerOf(tags) # LowerOf(Columns(query))
<1>1. "count" \notin ParamRules /\ "unresolved" \notin ParamRules /\ "no field" \notin ParamRules
      /\ "no column" \notin ParamRules
  BY DEF ParamRules
<1>5. ASSUME NEW rule, NEW N
      PROVE  ScanReports({Diagnostic(item.line, rule, n) : n \in N}, s)
               <=> (s = <<fn, at>> /\ rule \notin ParamRules /\ N # {})
  BY OfCall
<1>2. CASE item.k = "Columns"
  <2>1. ScanReports({Diagnostic(item.line, "count", "")}, s) <=> s = <<fn, at>>
    BY <1>1, OneOfCall
  <2>2. ~ScanReports({}, s)
    BY DEF ScanReports
  <2>3. ScanDiags(query, item, tags) =
          IF Len(query.select) = item.args THEN {} ELSE {Diagnostic(item.line, "count", "")}
    BY <1>2 DEF ScanDiags
  <2> QED BY <1>2, <2>1, <2>2, <2>3
<1>3. CASE item.k = "ToStruct" /\ tags = {}
  <2>1. ScanDiags(query, item, tags) = Suppressible(item.line, "unresolved")
    BY <1>3 DEF ScanDiags
  <2>2. ScanReports(Suppressible(item.line, "unresolved"), s) <=> s = <<fn, at>> /\ item.line \notin file.nolint
    BY <1>1, OneOfCall, Zenon
  <2> QED BY <1>3, <2>1, <2>2
<1>4. CASE item.k = "ToStruct" /\ tags # {}
  <2> DEFINE cols == Columns(query)
             S == {n \in cols : Lower[n] \notin LowerOf(tags)}
             T == {n \in tags : Lower[n] \notin LowerOf(cols)}
             A == {Diagnostic(item.line, "no field", n) : n \in S}
             B == {Diagnostic(item.line, "no column", n) : n \in T}
  <2>1. ScanDiags(query, item, tags) = A \cup B
    BY <1>4 DEF ScanDiags, StructDiags
  <2>2. ScanReports(A, s) <=> s = <<fn, at>> /\ S # {}
    BY <1>1, <1>5
  <2>3. ScanReports(B, s) <=> s = <<fn, at>> /\ T # {}
    BY <1>1, <1>5
  <2>4. S # {} \/ T # {} <=> LowerOf(tags) # LowerOf(cols)
    <3> HIDE DEF cols
    <3> QED BY DEF LowerOf
  <2> HIDE DEF A, B, S, T
  <2> QED BY <1>4, <2>1, <2>2, <2>3, <2>4, ScanUnion
<1> QED BY <1>2, <1>3, <1>4
-----------------------------------------------------------------------------
(* Every callback that the analysis is done with is reported rightly. *)

Judged(s) == s[1] < fn \/ (s[1] = fn /\ s[2] < at)

Rightly(new, s) ==
  /\ (\A u : ~InUse(s, u)) => (ScanReports(new, s) <=> Call(s).callback.line \notin file.nolint)
  /\ \A u : InUse(s, u) /\ (\A v : InUse(s, v) => v = u) => (ScanReports(new, s) <=> Mistaken(s, u))

ScanInv ==
  \A s \in ScanSites : IF Judged(s) THEN Rightly(diags, s) ELSE ~ScanReports(diags, s)

LEMMA RightlySame ==
  ASSUME NEW A, NEW B, NEW s, ScanReports(A, s) <=> ScanReports(B, s)
  PROVE  Rightly(A, s) <=> Rightly(B, s)
BY DEF Rightly

\* None of this changes while the file stays.
LEMMA SameUse ==
  ASSUME file' = file
  PROVE  /\ ScanSites' = ScanSites
         /\ \A s, u : InUse(s, u)' <=> InUse(s, u)
         /\ \A s, u : Mistaken(s, u)' <=> Mistaken(s, u)
<1>1. Sites' = Sites /\ \A s : Call(s)' = Call(s)
  BY SameSites
<1>2. ScanSites' = ScanSites
  BY <1>1 DEF ScanSites
<1>3. \A s, u : InUse(s, u)' <=> InUse(s, u)
  <2>1. \A s : AllInRange(s)' <=> AllInRange(s)
    BY Unchanged DEF AllInRange
  <2>2. \A s, u : Linked(s, u)' <=> Linked(s, u)
    BY Unchanged
  <2>3. \A u : Scans(u[Len(u)])' <=> Scans(u[Len(u)])
    BY Unchanged
  <2> QED BY <2>1, <2>2, <2>3 DEF InUse
<1>4. \A s, u : Mistaken(s, u)' <=> Mistaken(s, u)
  <2> SUFFICES ASSUME NEW s, NEW u PROVE Mistaken(s, u)' <=> Mistaken(s, u)
    OBVIOUS
  <2>1. ItemOf(u[Len(u)])' = ItemOf(u[Len(u)]) /\ Call(s)' = Call(s)
    BY <1>1 DEF ItemOf
  <2>2. StructTags(file, ScopesAt(s, u[Len(u)]), ItemOf(u[Len(u)]).var)'
          = StructTags(file, ScopesAt(s, u[Len(u)]), ItemOf(u[Len(u)]).var)
    BY <2>1
  <2> QED BY <2>1, <2>2, Zenon DEF Mistaken
<1> QED BY <1>2, <1>3, <1>4

LEMMA RightlyStays ==
  ASSUME file' = file, NEW s
  PROVE  Rightly(diags, s)' <=> Rightly(diags', s)
<1>1. \A u : InUse(s, u)' <=> InUse(s, u)
  BY SameUse
<1>2. \A u : Mistaken(s, u)' <=> Mistaken(s, u)
  BY SameUse
<1>3. Call(s)' = Call(s)
  BY SameSites
<1>4. ScanReports(diags, s)' <=> ScanReports(diags', s)
  BY DEF ScanReports
<1> QED BY <1>1, <1>2, <1>3, <1>4 DEF Rightly

\* A step after which the callbacks are judged as these diagnostics judge them.
LEMMA JudgedAs ==
  ASSUME file' = file, \A s \in ScanSites : IF Judged(s)' THEN Rightly(diags', s) ELSE ~ScanReports(diags', s)
  PROVE  ScanInv'
<1>1. ScanSites' = ScanSites
  BY SameUse
<1>2. \A s : Rightly(diags, s)' <=> Rightly(diags', s)
  BY RightlyStays
<1>3. \A s : ScanReports(diags, s)' <=> ScanReports(diags', s)
  BY DEF ScanReports
<1> QED BY <1>1, <1>2, <1>3 DEF ScanInv

LEMMA SameScan ==
  ASSUME ScanInv, file' = file,
         \A s \in ScanSites : (Judged(s)' <=> Judged(s)) /\ (ScanReports(diags', s) <=> ScanReports(diags, s))
  PROVE  ScanInv'
<1>1. ASSUME NEW s \in ScanSites PROVE IF Judged(s)' THEN Rightly(diags', s) ELSE ~ScanReports(diags', s)
  <2>1. Rightly(diags', s) <=> Rightly(diags, s)
    BY RightlySame
  <2> QED BY <2>1 DEF ScanInv
<1> QED BY <1>1, JudgedAs

\* A call that is done, with what is reported on it.
LEMMA ReportScan ==
  ASSUME IInv, ScanInv, NEW new, Report(new),
         <<fn, at>> \in ScanSites => Rightly(new, <<fn, at>>),
         \A s \in ScanSites : s # <<fn, at>> => ~ScanReports(new, s)
  PROVE  ScanInv'
<1>1. /\ file' = file /\ fn' = fn /\ at' = at + 1 /\ diags' = diags \cup new
      /\ file \in Files /\ fn \in Nat /\ at \in Nat
  <2>1. file \in Files /\ Len(file.funcs) \in Nat
    BY FileType DEF IInv, Walking
  <2> QED BY <2>1 DEF Report, IInv, TypeOK
<1>2. ASSUME NEW s \in ScanSites PROVE IF Judged(s)' THEN Rightly(diags', s) ELSE ~ScanReports(diags', s)
  <2>1. s = <<s[1], s[2]>> /\ s[1] \in Nat /\ s[2] \in Nat
    BY <1>1, SitesType DEF ScanSites
  <2>2. s = <<fn, at>> <=> s[1] = fn /\ s[2] = at
    BY <2>1
  <2>3. s[2] < at + 1 <=> s[2] < at \/ s[2] = at
    BY <1>1, <2>1
  <2>4. Judged(s)' <=> s[1] < fn \/ (s[1] = fn /\ s[2] < at + 1)
    BY <1>1 DEF Judged
  <2>5. Judged(s)' <=> Judged(s) \/ s = <<fn, at>>
    BY <2>2, <2>3, <2>4 DEF Judged
  <2>6. ScanReports(diags', s) <=> ScanReports(diags, s) \/ ScanReports(new, s)
    BY <1>1, ScanUnion
  <2>7. CASE s = <<fn, at>>
    <3>1. ~Judged(s)
      BY <1>1, <2>1, <2>2, <2>7 DEF Judged
    <3>2. ScanReports(diags', s) <=> ScanReports(new, s)
      BY <2>6, <3>1 DEF ScanInv
    <3>3. Rightly(diags', s) <=> Rightly(new, s)
      BY <3>2, RightlySame
    <3> QED BY <2>5, <2>7, <3>3
  <2>8. CASE s # <<fn, at>>
    <3>1. ScanReports(diags', s) <=> ScanReports(diags, s)
      BY <2>6, <2>8
    <3>2. Rightly(diags', s) <=> Rightly(diags, s)
      BY <3>1, RightlySame
    <3> QED BY <2>5, <2>8, <3>1, <3>2 DEF ScanInv
  <2> QED BY <2>7, <2>8
<1> QED BY <1>1, <1>2, JudgedAs
LEMMA Step_NotDetected ==
  ASSUME IInv, FirstUse, ScanInv, NotDetected
  PROVE  ScanInv'
<1> DEFINE new == Suppressible(Visited.callback.line, "undetected")
           site == <<fn, at>>
<1>1. pc = "lost" /\ Report(new)
  BY DEF NotDetected
<1>2. "undetected" \notin ParamRules
  BY DEF ParamRules
<1>3. \A s : ScanReports(new, s) <=> (s = site /\ Visited.callback.line \notin file.nolint)
  BY <1>2, OneOfCall, Zenon
<1>4. \A u : ~InUse(site, u)
  <2>1. Uses(site) = {}
    BY <1>1 DEF FirstUse
  <2>2. file \in Files /\ IsSite(site) /\ site \in (1..Len(file.funcs)) \X Nat
    BY <1>1, SiteInFile
  <2> HIDE DEF site
  <2> QED BY <2>1, <2>2, UsesAre
<1>5. Call(site) = Visited
  BY DEF Call, Visited
<1>6. Rightly(new, site)
  <2> HIDE DEF new
  <2> QED BY <1>3, <1>4, <1>5 DEF Rightly
<1>7. \A s \in ScanSites : s # site => ~ScanReports(new, s)
  BY <1>3
<1> QED BY <1>1, <1>6, <1>7, ReportScan

LEMMA Step_MatchColumns ==
  ASSUME IInv, FirstUse, ScanInv, MatchColumns
  PROVE  ScanInv'
<1> DEFINE site == <<fn, at>>
           item == ItemOf(Top)
           query == Visited.stmt.query
           tags == TagsOf(Top)
           new == ScanDiags(query, item, tags)
<1>1. pc = "found" /\ Report(new)
  BY DEF MatchColumns
<1>2. item.k \in {"Columns", "ToStruct"}
  BY <1>1 DEF IInv, Walking, Scans
<1>3. InUse(site, frames)
  <2>1. frames \in Uses(site)
    BY <1>1 DEF FirstUse
  <2>2. file \in Files /\ IsSite(site) /\ site \in (1..Len(file.funcs)) \X Nat
    BY <1>1, SiteInFile
  <2> HIDE DEF site
  <2> QED BY <2>1, <2>2, UsesAre
<1>4. \A s : ScanReports(new, s) <=>
        /\ s = site
        /\ \/ item.k = "Columns" /\ Len(query.select) # item.args
           \/ item.k = "ToStruct" /\ tags = {} /\ item.line \notin file.nolint
           \/ item.k = "ToStruct" /\ tags # {} /\ LowerOf(tags) # LowerOf(Columns(query))
  <2> HIDE DEF item, query, tags
  <2> QED BY <1>2, ScanVerdict
<1>5. item.k = "ToStruct" => tags = StructTags(file, ScopesAt(site, Top), item.var)
  BY DEF TagsOf, Scopes, ScopesAt
<1>6. item = ItemOf(frames[Len(frames)]) /\ query = Call(site).stmt.query /\ Top = frames[Len(frames)]
  BY DEF Top, Call, Visited
<1>7. ScanReports(new, site) <=> Mistaken(site, frames)
  <2> HIDE DEF item, query, tags, new, site
  <2> QED BY <1>4, <1>5, <1>6 DEF Mistaken
<1>8. Rightly(new, site)
  <2> HIDE DEF new, site
  <2> QED BY <1>3, <1>7 DEF Rightly
<1>9. \A s \in ScanSites : s # site => ~ScanReports(new, s)
  BY <1>4
<1> HIDE DEF new
<1> QED BY <1>1, <1>8, <1>9, ReportScan

\* Where there is no callback, or no SELECT to compare it with.
LEMMA Step_NoScan ==
  ASSUME IInv, ScanInv, Skip \/ VisitOnly \/ VisitQuery
  PROVE  ScanInv'
<1>1. AtItem
  BY DEF Skip, VisitOnly, VisitQuery, AtSite
<1>2. Call(<<fn, at>>) = Visited
  BY DEF Call, Visited
<1>3. file \in Files
  BY DEF IInv, Walking
<1>4. CASE Skip
  <2>1. <<fn, at>> \notin ScanSites
    <3> SUFFICES ASSUME <<fn, at>> \in ScanSites PROVE FALSE
      OBVIOUS
    <3>1. <<fn, at>> \in Sites
      BY DEF ScanSites
    <3>2. Call(<<fn, at>>).k = "call" /\ Call(<<fn, at>>).stmt # NoStmt
      BY <1>3, <3>1, SitesType
    <3> QED BY <1>1, <1>2, <1>4, <3>2 DEF Skip, AtSite
  <2>2. \A s : ~ScanReports({}, s)
    BY DEF ScanReports
  <2>3. Report({})
    BY <1>4 DEF Skip
  <2> QED BY <2>1, <2>2, <2>3, ReportScan
<1>5. CASE VisitOnly
  <2>1. Report(ParamDiags(Visited.stmt)) /\ Visited.stmt \in Stmt
    BY <1>5, SiteType DEF VisitOnly
  <2>2. \A s : ~ScanReports(ParamDiags(Visited.stmt), s)
    BY <2>1, ParamsNoScan
  <2>3. <<fn, at>> \notin ScanSites
    BY <1>2, <1>5 DEF VisitOnly, ScanSites
  <2> QED BY <2>1, <2>2, <2>3, ReportScan
<1>6. CASE VisitQuery
  <2> DEFINE line == Visited.stmt.line
  <2>1. PICK rule \in {"syntax", "star", "star warning"} :
          Report(ParamDiags(Visited.stmt) \cup {Diagnostic(line, rule, "")})
    BY <1>6, Zenon DEF VisitQuery
  <2>2. Visited.stmt \in Stmt
    BY <1>6, SiteType DEF VisitQuery
  <2>3. <<fn, at>> \notin ScanSites
    BY <1>2, <1>6 DEF VisitQuery, ScanSites
  <2>4. ASSUME NEW s, s # <<fn, at>> PROVE ~ScanReports(ParamDiags(Visited.stmt) \cup {Diagnostic(line, rule, "")}, s)
    <3>1. ~ScanReports(ParamDiags(Visited.stmt), s)
      BY <2>2, ParamsNoScan
    <3>2. ~ScanReports({Diagnostic(line, rule, "")}, s)
      BY <2>4, OneOfCall, Zenon
    <3> QED BY <3>1, <3>2, ScanUnion
  <2> HIDE DEF line
  <2> QED BY <2>1, <2>3, <2>4, ReportScan
<1> QED BY <1>4, <1>5, <1>6

LEMMA Next_ScanInv == IInv /\ FirstUse /\ ScanInv /\ [Next]_vars => ScanInv'
<1> SUFFICES ASSUME IInv, FirstUse, ScanInv, [Next]_vars PROVE ScanInv'
  OBVIOUS
<1>1. CASE UNCHANGED vars \/ Finish \/ Found \/ Enter \/ EnterNil \/ Pass \/ Return
  <2>1. file' = file /\ fn' = fn /\ at' = at /\ diags' = diags
    BY <1>1 DEF vars, Finish, Found, Enter, EnterNil, Pass, Return
  <2>2. \A s \in ScanSites : Judged(s)' <=> Judged(s)
    BY <2>1 DEF Judged
  <2> QED BY <2>1, <2>2, SameScan
<1>2. CASE Visit
  <2>1. file' = file /\ fn' = fn /\ at' = at /\ diags' = diags \cup ParamDiags(Visited.stmt) /\ Visited.stmt \in Stmt
    BY <1>2, SiteType DEF Visit
  <2>2. \A s \in ScanSites : Judged(s)' <=> Judged(s)
    BY <2>1 DEF Judged
  <2>3. \A s \in ScanSites : ScanReports(diags', s) <=> ScanReports(diags, s)
    BY <2>1, ParamsNoScan, ScanUnion
  <2> QED BY <2>1, <2>2, <2>3, SameScan
<1>3. CASE NextFunc
  <2>1. file' = file /\ diags' = diags /\ pc = "inspect" /\ pc' = "inspect"
    BY <1>3 DEF NextFunc
  <2>2. ASSUME NEW s \in ScanSites PROVE Judged(s)' <=> Judged(s)
    <3>1. Checked(s)' <=> Checked(s)
      BY <1>3, NextFuncChecked DEF ScanSites
    <3> QED BY <2>1, <3>1 DEF Checked, Judged
  <2> QED BY <2>1, <2>2, SameScan
<1> QED BY <1>1, <1>2, <1>3, Step_NotDetected, Step_MatchColumns, Step_NoScan DEF Next
LEMMA ScanSiteType ==
  ASSUME file \in Files, NEW s \in ScanSites
  PROVE  IsSite(s) /\ s \in (1..Len(file.funcs)) \X Nat
<1>1. s \in Sites /\ HasCallback(Call(s))
  BY DEF ScanSites
<1>2. s = <<s[1], s[2]>> /\ s[1] \in 1..Len(file.funcs) /\ s[2] \in Nat /\ s[1] \in DOMAIN file.funcs
  BY <1>1, SitesType, FileType
<1>3. /\ s[2] \in DOMAIN Body(file, s[1]) /\ Body(file, s[1]) \in Seq(Item)
      /\ Call(s) \in Item /\ Call(s).k = "call"
  BY <1>1, SitesType
<1>4. s \in (1..Len(file.funcs)) \X Nat
  BY <1>2
<1> QED BY <1>1, <1>2, <1>3, <1>4 DEF IsSite

\* At the end of the analysis, about one callback.
LEMMA JudgedRightly ==
  ASSUME file \in Files, Plain, NEW s \in ScanSites, Rightly(diags, s)
  PROVE  /\ Uses(s) = {} => (Silent(s) <=> Suppressed(s))
         /\ \A u \in Uses(s) : Uses(s) = {u} /\ OwnRow(u[Len(u)]) /\ DeclaredAround(s, u[Len(u)]) =>
              (Silent(s) <=> FitsAll(s) \/ Suppressed(s))
<1>1. IsSite(s) /\ s \in (1..Len(file.funcs)) \X Nat
  BY ScanSiteType
<1>2. \A u : u \in Uses(s) <=> InUse(s, u)
  BY <1>1, UsesAre
<1>3. Silent(s) <=> ~ScanReports(diags, s)
  BY DEF Silent, ScanReports
<1>4. ASSUME Uses(s) = {} PROVE Silent(s) <=> Suppressed(s)
  <2>1. ScanReports(diags, s) <=> Call(s).callback.line \notin file.nolint
    BY <1>2, <1>4 DEF Rightly
  <2> QED BY <1>3, <1>4, <2>1 DEF Suppressed
<1>5. ASSUME NEW u \in Uses(s), Uses(s) = {u}, DeclaredAround(s, u[Len(u)])
      PROVE  Silent(s) <=> FitsAll(s) \/ Suppressed(s)
  <2>1. InUse(s, u) /\ \A v : InUse(s, v) => v = u
    BY <1>2, <1>5
  <2>2. ScanReports(diags, s) <=> Mistaken(s, u)
    BY <2>1 DEF Rightly
  <2>3. Mistaken(s, u) <=> ~(Fits(Call(s).stmt.query, ItemOf(u[Len(u)])) \/ Forgiven(ItemOf(u[Len(u)])))
    BY <1>1, <1>5, <2>1, MistakenIs
  <2>4. FitsAll(s) <=> Fits(Call(s).stmt.query, ItemOf(u[Len(u)]))
    BY <1>5 DEF FitsAll
  <2>5. Suppressed(s) <=> Forgiven(ItemOf(u[Len(u)]))
    BY <1>5 DEF Suppressed, Forgiven
  <2> QED BY <1>3, <2>2, <2>3, <2>4, <2>5
<1> QED BY <1>4, <1>5

\* Where the row is scanned in one place, a SELECT is reported if and only if
\* it does not fit what resolveToStructTags resolves as Go does.
THEOREM Spec_Verdict == Spec => []Verdict
<1>1. Init => ScanInv
  <2> SUFFICES ASSUME Init PROVE ScanInv
    OBVIOUS
  <2>1. file \in Files /\ fn = 1 /\ at = 1 /\ diags = {} /\ pc \in {"inspect", "done"}
    BY DEF Init
  <2>2. \A s : ~ScanReports(diags, s)
    BY <2>1 DEF ScanReports
  <2>3. \A s \in ScanSites : ~Judged(s)
    BY <2>1, NoneChecked DEF Judged, Checked, ScanSites
  <2> QED BY <2>2, <2>3 DEF ScanInv
<1>2. IInv /\ ParamInv /\ ScanInv => Verdict
  <2> SUFFICES ASSUME IInv, ParamInv, ScanInv, pc = "done", file.spanner # "", Plain, NEW s \in ScanSites
               PROVE  /\ Uses(s) = {} => (Silent(s) <=> Suppressed(s))
                      /\ \A u \in Uses(s) : Uses(s) = {u} /\ OwnRow(u[Len(u)]) /\ DeclaredAround(s, u[Len(u)]) =>
                           (Silent(s) <=> FitsAll(s) \/ Suppressed(s))
    BY Zenon DEF Verdict
  <2>1. fn > Len(file.funcs)
    BY Zenon DEF ParamInv
  <2>2. Judged(s)
    <3>1. Checked(s)
      BY <2>1, AllChecked DEF ScanSites
    <3> QED BY <3>1 DEF Checked, Judged
  <2>3. Rightly(diags, s)
    BY <2>2 DEF ScanInv
  <2>4. file \in Files
    BY DEF IInv, Walking
  <2> QED BY <2>3, <2>4, JudgedRightly, Zenon
<1> QED BY <1>1, <1>2, Next_ScanInv, Next_ParamInv, Spec_IInv, Spec_FirstUse, Init_ParamInv, PTL DEF Spec
=============================================================================
