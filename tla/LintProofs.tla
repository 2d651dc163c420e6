----------------------------- MODULE LintProofs -----------------------------
(***************************************************************************)
(* The runs of the linters, for all files, contents and diagnostics: their *)
(* types, and that they do what LintPromise says.                          *)
(***************************************************************************)
EXTENDS LintRun, SequenceTheorems, TLAPS

-----------------------------------------------------------------------------
(***************************************************************************)
(* The inductive invariant.                                                *)
(***************************************************************************)
\* What the run has reached, and has not begun, at each step.
PhaseInv ==
  /\ pc \notin {"main", "usage", "fmt-sql"} => linter \in Linters
  /\ pc \in {"ddl", "file", "print"} => args # <<>>
  /\ pc \in {"main", "flags", "ddl", "usage", "fmt-sql"} => taken = <<>> /\ diags = <<>>
  /\ pc \notin {"print", "exited"} => printed = <<>>
  /\ pc = "print" => Len(taken) = Len(args)
  /\ pc \notin {"usage", "exited"} => exitCode = 0

\* Every diagnostic of the files taken is in one of the lists, and once.
CollectInv ==
  /\ pc \in {"file", "print"} => Elements(diags) \cup Elements(printed) = Promise!All
  /\ \A j, m \in DOMAIN diags : j # m => diags[j] # diags[m]

SortInv == pc = "print" => \A j, m \in DOMAIN diags : j < m => ~Less(diags[m], diags[j])

Inv == TypeOK /\ PhaseInv /\ CollectInv /\ SortInv

-----------------------------------------------------------------------------
(* Facts about sequences. *)

LEMMA ElementsEmpty == Elements(<<>>) = {}
BY DEF Elements

LEMMA ConcatElements ==
  ASSUME NEW S, NEW s \in Seq(S), NEW t \in Seq(S)
  PROVE  /\ s \o t \in Seq(S)
         /\ Elements(s \o t) = Elements(s) \cup Elements(t)
         /\ Elements(s) \subseteq S
<1>1. /\ s \o t \in Seq(S) /\ DOMAIN (s \o t) = 1..(Len(s) + Len(t))
      /\ Len(s) \in Nat /\ Len(t) \in Nat /\ DOMAIN s = 1..Len(s) /\ DOMAIN t = 1..Len(t)
      /\ \A j \in 1..(Len(s) + Len(t)) : (s \o t)[j] = IF j <= Len(s) THEN s[j] ELSE t[j - Len(s)]
  OBVIOUS
<1>2. Elements(s) \subseteq Elements(s \o t)
  BY <1>1 DEF Elements
<1>3. Elements(t) \subseteq Elements(s \o t)
  <2> SUFFICES ASSUME NEW j \in DOMAIN t PROVE t[j] \in Elements(s \o t)
    BY DEF Elements
  <2>1. Len(s) + j \in DOMAIN (s \o t) /\ (s \o t)[Len(s) + j] = t[j]
    BY <1>1
  <2> QED
    BY <2>1 DEF Elements
<1>4. Elements(s \o t) \subseteq Elements(s) \cup Elements(t)
  <2> SUFFICES ASSUME NEW j \in DOMAIN (s \o t) PROVE (s \o t)[j] \in Elements(s) \cup Elements(t)
    BY DEF Elements
  <2>1. j \in 1..Len(s) \/ (j - Len(s) \in 1..Len(t) /\ ~(j <= Len(s)))
    BY <1>1
  <2> QED
    BY <1>1, <2>1 DEF Elements
<1>5. Elements(s) \subseteq S
  BY <1>1 DEF Elements
<1> QED
  BY <1>1, <1>2, <1>3, <1>4, <1>5

LEMMA AppendElements ==
  ASSUME NEW S, NEW s \in Seq(S), NEW e \in S
  PROVE  Append(s, e) \in Seq(S) /\ Elements(Append(s, e)) = Elements(s) \cup {e}
<1> DEFINE one == <<e>>
<1>1. Append(s, e) \in Seq(S) /\ one \in Seq(S) /\ Append(s, e) = s \o one
  OBVIOUS
<1>2. DOMAIN one = {1} /\ one[1] = e
  OBVIOUS
<1> HIDE DEF one
<1>3. Elements(one) = {e}
  BY <1>2 DEF Elements
<1> QED
  BY <1>1, <1>3, ConcatElements

LEMMA TailFacts ==
  ASSUME NEW S, NEW s \in Seq(S), s # <<>>
  PROVE  /\ Tail(s) \in Seq(S) /\ Head(s) = s[1] /\ 1 \in DOMAIN s
         /\ Len(s) \in Nat /\ DOMAIN s = 1..Len(s) /\ DOMAIN Tail(s) = 1..(Len(s) - 1)
         /\ \A j \in 1..(Len(s) - 1) : Tail(s)[j] = s[j + 1]
         /\ Elements(s) = {Head(s)} \cup Elements(Tail(s))
<1>1. /\ Tail(s) \in Seq(S) /\ Head(s) = s[1] /\ 1 \in DOMAIN s
      /\ Len(s) \in Nat /\ DOMAIN s = 1..Len(s) /\ DOMAIN Tail(s) = 1..(Len(s) - 1)
      /\ \A j \in 1..(Len(s) - 1) : Tail(s)[j] = s[j + 1]
  OBVIOUS
<1>2. Elements(s) \subseteq {Head(s)} \cup Elements(Tail(s))
  <2> SUFFICES ASSUME NEW j \in 1..Len(s) PROVE s[j] \in {Head(s)} \cup Elements(Tail(s))
    BY <1>1 DEF Elements
  <2>1. CASE j = 1
    BY <1>1, <2>1
  <2>2. CASE j # 1
    <3>1. j - 1 \in DOMAIN Tail(s) /\ Tail(s)[j - 1] = s[j]
      BY <1>1, <2>2
    <3> QED
      BY <3>1 DEF Elements
  <2> QED
    BY <2>1, <2>2
<1>3. {Head(s)} \cup Elements(Tail(s)) \subseteq Elements(s)
  <2>1. \A j \in 1..(Len(s) - 1) : j + 1 \in 1..Len(s)
    BY <1>1
  <2> QED
    BY <1>1, <2>1 DEF Elements
<1> QED
  BY <1>1, <1>2, <1>3

\* A sorting has the same elements, and each of them once.
LEMMA SortingFacts ==
  ASSUME NEW S, NEW s \in Seq(S), NEW t \in Sortings(s),
         \A j, m \in DOMAIN s : j # m => s[j] # s[m]
  PROVE  /\ t \in Seq(S) /\ Elements(t) = Elements(s)
         /\ \A j, m \in DOMAIN t : j # m => t[j] # t[m]
         /\ \A j, m \in DOMAIN t : j < m => ~Less(t[m], t[j])
<1>1. PICK p \in Bijection(DOMAIN s, DOMAIN s) : t = [j \in DOMAIN s |-> s[p[j]]]
  BY DEF Sortings
<1>2. /\ p \in [DOMAIN s -> DOMAIN s]
      /\ \A j, m \in DOMAIN s : p[j] = p[m] => j = m
      /\ \A j \in DOMAIN s : \E m \in DOMAIN s : p[m] = j
  BY <1>1 DEF Bijection, Injection, Surjection, IsInjective
<1>3. t \in Seq(S) /\ DOMAIN t = DOMAIN s
  <2>1. DOMAIN s = 1..Len(s) /\ Len(s) \in Nat /\ \A j \in DOMAIN s : s[j] \in S
    OBVIOUS
  <2>2. \A j \in 1..Len(s) : t[j] \in S
    BY <1>1, <1>2, <2>1
  <2>3. t = [j \in 1..Len(s) |-> t[j]]
    BY <1>1, <2>1
  <2> QED
    BY <2>1, <2>2, <2>3
<1>4. Elements(t) = Elements(s)
  BY <1>1, <1>2, <1>3 DEF Elements
<1>5. \A j, m \in DOMAIN t : j # m => t[j] # t[m]
  BY <1>1, <1>2, <1>3
<1> QED
  BY <1>3, <1>4, <1>5 DEF Sortings

-----------------------------------------------------------------------------
(* Facts about a run. *)

LEMMA DiagnoseType ==
  ASSUME linter \in Linters, NEW c \in Contents, Diagnose[linter][c] \notin Failures
  PROVE  /\ Diagnose[linter][c] \in Seq(Diagnostics)
         /\ DOMAIN Diagnose[linter][c] = 1..Len(Diagnose[linter][c])
         /\ Len(Diagnose[linter][c]) \in Nat
<1>1. Diagnose[linter][c] \in Seq(Diagnostics)
  BY Values DEF Failures
<1> QED
  BY <1>1

\* A file that parses: what it adds to the lists.
LEMMA AnalyzeFacts ==
  ASSUME Inv, AtFile, Parses, ~Panics, Analyze, UNCHANGED <<given, files, printed>>
  PROVE  /\ taken' \in Seq(Contents) /\ Len(taken') = Len(taken) + 1 /\ Len(taken') <= Len(args)
         /\ \A k \in DOMAIN taken' : Diagnose[linter][taken'[k]] \notin Failures
         /\ diags' \in Seq((1..Len(taken')) \X (Nat \ {0}))
         /\ \A o \in Elements(diags') : o[2] \in DOMAIN Diagnose[linter][taken'[o[1]]]
         /\ \A j, m \in DOMAIN diags' : j # m => diags'[j] # diags'[m]
         /\ Elements(diags') = Promise!All'
<1> DEFINE n == Len(taken) + 1
           c == Content
           S == (1..n) \X (Nat \ {0})
           new == [i \in DOMAIN Diagnose[linter][c] |-> <<n, i>>]
<1>1. /\ linter \in Linters /\ args \in Seq(Paths) /\ Len(taken) \in Nat /\ Len(taken) < Len(args)
      /\ taken \in Seq(Contents) /\ diags \in Seq((1..Len(taken)) \X (Nat \ {0}))
      /\ printed = <<>> /\ pc = "file"
  BY DEF Inv, TypeOK, PhaseInv, AtFile
<1>2. c \in Contents /\ Diagnose[linter][c] \notin Failures
  <2>1. n \in DOMAIN args /\ args[n] \in Paths /\ disk \in [Paths -> Contents \cup {None}]
    BY <1>1 DEF Inv, TypeOK
  <2> QED
    BY <2>1 DEF Parses, Panics, Content, Failures
<1>3. /\ taken' = Append(taken, c) /\ taken' \in Seq(Contents) /\ Len(taken') = n
      /\ DOMAIN taken' = 1..n /\ DOMAIN taken = 1..Len(taken) /\ taken'[n] = c
      /\ \A k \in 1..Len(taken) : taken'[k] = taken[k]
  BY <1>1, <1>2 DEF Analyze
<1>4. /\ n \in Nat \ {0} /\ n <= Len(args) /\ n \notin 1..Len(taken)
      /\ \A k \in 1..n : k \in 1..Len(taken) \/ k = n
  BY <1>1
<1>5. /\ DOMAIN new = 1..Len(Diagnose[linter][c]) /\ new \in Seq(S)
      /\ \A i \in DOMAIN new : new[i] = <<n, i>> /\ i \in DOMAIN Diagnose[linter][c]
  <2>1. /\ DOMAIN new = 1..Len(Diagnose[linter][c]) /\ Len(Diagnose[linter][c]) \in Nat
    BY <1>1, <1>2, DiagnoseType
  <2>2. n \in 1..n
    BY <1>4
  <2> QED
    BY <2>1, <2>2
<1>6. diags \in Seq(S)
  <2>1. (1..Len(taken)) \X (Nat \ {0}) \subseteq S
    BY <1>1
  <2> QED
    BY <1>1, <2>1
<1>7. diags' = diags \o new
  BY DEF Analyze
<1> HIDE DEF c, S, new
<1>8. /\ diags' \in Seq(S) /\ Elements(diags') = Elements(diags) \cup Elements(new)
  BY <1>5, <1>6, <1>7, ConcatElements
<1>9. Elements(diags) = Promise!All
  BY <1>1, ElementsEmpty DEF Inv, CollectInv
<1>10. \A o \in Elements(diags) : o[1] \in 1..Len(taken) /\ o[2] \in DOMAIN Diagnose[linter][taken[o[1]]]
  <2> SUFFICES ASSUME NEW o \in Elements(diags)
               PROVE  o[1] \in 1..Len(taken) /\ o[2] \in DOMAIN Diagnose[linter][taken[o[1]]]
    OBVIOUS
  <2>1. Elements(diags) \subseteq (1..Len(taken)) \X (Nat \ {0})
    BY <1>1, ConcatElements
  <2> QED
    BY <2>1 DEF Inv, TypeOK
<1>11. \A o \in Elements(new) : o[1] = n /\ o[2] \in DOMAIN Diagnose[linter][c]
  BY <1>5 DEF Elements
<1>12. \A o \in Elements(diags') : o[2] \in DOMAIN Diagnose[linter][taken'[o[1]]]
  BY <1>3, <1>8, <1>10, <1>11
<1>13. \A k \in DOMAIN taken' : Diagnose[linter][taken'[k]] \notin Failures
  BY <1>1, <1>2, <1>3, <1>4 DEF Inv, TypeOK
<1>14. Elements(diags') = Promise!All'
  <2>1. Promise!All' = UNION {{<<k, i>> : i \in DOMAIN Diagnose[linter][taken'[k]]} : k \in 1..n}
    BY <1>3 DEF Promise!All, given
  <2>2. Elements(new) = {<<n, i>> : i \in DOMAIN Diagnose[linter][c]}
    BY <1>5 DEF Elements, new
  <2>3. Promise!All = UNION {{<<k, i>> : i \in DOMAIN Diagnose[linter][taken'[k]]} : k \in 1..Len(taken)}
    BY <1>3 DEF Promise!All
  <2>4. 1..n = (1..Len(taken)) \cup {n}
    BY <1>1
  <2> QED
    BY <1>3, <1>8, <1>9, <2>1, <2>2, <2>3, <2>4
<1>15. \A j, m \in DOMAIN diags' : j # m => diags'[j] # diags'[m]
  <2>1. /\ DOMAIN diags' = 1..(Len(diags) + Len(new)) /\ Len(diags) \in Nat /\ Len(new) \in Nat
        /\ DOMAIN diags = 1..Len(diags) /\ DOMAIN new = 1..Len(new)
        /\ \A j \in 1..(Len(diags) + Len(new)) :
             diags'[j] = IF j <= Len(diags) THEN diags[j] ELSE new[j - Len(diags)]
    BY <1>5, <1>6, <1>7
  <2> SUFFICES ASSUME NEW j \in DOMAIN diags', NEW m \in DOMAIN diags', j < m
               PROVE  diags'[j] # diags'[m]
    BY <2>1
  <2>2. CASE m <= Len(diags)
    <3>1. j \in DOMAIN diags /\ m \in DOMAIN diags /\ diags'[j] = diags[j] /\ diags'[m] = diags[m]
      BY <2>1, <2>2
    <3>2. j # m
      BY <2>1
    <3> QED
      BY <3>1, <3>2 DEF Inv, CollectInv
  <2>3. CASE j <= Len(diags) /\ ~(m <= Len(diags))
    <3>1. /\ j \in DOMAIN diags /\ m - Len(diags) \in DOMAIN new
          /\ diags'[j] = diags[j] /\ diags'[m] = new[m - Len(diags)]
      BY <2>1, <2>3
    <3>2. diags'[j] \in Elements(diags) /\ diags'[m] \in Elements(new)
      BY <3>1 DEF Elements
    <3>3. diags'[j][1] \in 1..Len(taken) /\ diags'[m][1] = n
      BY <1>10, <1>11, <3>2
    <3> QED
      BY <1>4, <3>3
  <2>4. CASE ~(j <= Len(diags))
    <3>1. /\ j - Len(diags) \in DOMAIN new /\ m - Len(diags) \in DOMAIN new
          /\ diags'[j] = new[j - Len(diags)] /\ diags'[m] = new[m - Len(diags)]
      BY <2>1, <2>4
    <3>2. diags'[j] = <<n, j - Len(diags)>> /\ diags'[m] = <<n, m - Len(diags)>>
      BY <1>5, <3>1
    <3> QED
      BY <2>1, <3>2
  <2> QED
    BY <2>1, <2>2, <2>3, <2>4
<1> QED
  BY <1>3, <1>4, <1>8, <1>12, <1>13, <1>14, <1>15 DEF S

-----------------------------------------------------------------------------
(***************************************************************************)
(* The invariant.                                                          *)
(***************************************************************************)
LEMMA InitInv == Init => Inv
<1> SUFFICES ASSUME Init PROVE Inv
  OBVIOUS
<1>1. /\ taken = <<>> /\ diags = <<>> /\ printed = <<>> /\ pc = "main" /\ saves = 0 /\ exitCode = 0
      /\ linter \in Linters \cup {"fmt-sql", "unknown"} /\ args \in Seq(Paths)
      /\ disk \in [Paths -> Contents \cup {None}]
  BY Values DEF Init
<1>2. TypeOK
  <2>1. \A S : <<>> \in Seq(S)
    OBVIOUS
  <2>2. Len(<<>>) = 0 /\ DOMAIN <<>> = {} /\ 0 <= Len(args)
    BY <1>1
  <2> QED
    BY <1>1, <2>1, <2>2, ElementsEmpty, Values DEF TypeOK
<1> QED
  BY <1>1, <1>2 DEF Inv, PhaseInv, CollectInv, SortInv

\* The steps that leave the lists alone.
LEMMA QuietStep ==
  ASSUME Inv, UNCHANGED <<taken, diags, printed, args, linter>>,
         disk' \in [Paths -> Contents \cup {None}], saves' \in 0..MaxSaves,
         exitCode' \in 0..2,
         pc' \in {"main", "flags", "ddl", "file", "print", "usage", "exited", "fmt-sql"},
         PhaseInv', pc' \in {"file", "print"} => Elements(diags) \cup Elements(printed) = Promise!All,
         pc' = "print" => pc = "print"
  PROVE  Inv'
<1>1. TypeOK'
  BY DEF Inv, TypeOK
<1>2. CollectInv'
  BY DEF Inv, CollectInv, Promise!All
<1>3. SortInv'
  BY DEF Inv, SortInv, Less, Diag
<1> QED
  BY <1>1, <1>2, <1>3 DEF Inv

\* Before the first file nothing is collected, and there is nothing to collect.
LEMMA NothingTaken ==
  ASSUME taken = <<>>, diags = <<>>, printed = <<>>
  PROVE  Elements(diags) \cup Elements(printed) = Promise!All
BY ElementsEmpty DEF Promise!All

LEMMA StepParseFile == Inv /\ ParseFile => Inv'
<1> SUFFICES ASSUME Inv, ParseFile PROVE Inv'
  OBVIOUS
<1>1. UNCHANGED <<linter, args, disk, saves, printed>> /\ AtFile /\ pc = "file"
  BY DEF ParseFile, given, files, AtFile
<1>2. /\ printed = <<>> /\ linter \in Linters /\ args # <<>> /\ exitCode = 0
      /\ disk \in [Paths -> Contents \cup {None}] /\ saves \in 0..MaxSaves
  BY <1>1 DEF Inv, PhaseInv, TypeOK
<1>3. CASE Parses /\ ~Panics /\ Analyze /\ Continue("file")
  <2>1. /\ taken' \in Seq(Contents) /\ Len(taken') <= Len(args)
        /\ \A k \in DOMAIN taken' : Diagnose[linter][taken'[k]] \notin Failures
        /\ diags' \in Seq((1..Len(taken')) \X (Nat \ {0}))
        /\ \A o \in Elements(diags') : o[2] \in DOMAIN Diagnose[linter][taken'[o[1]]]
        /\ \A j, m \in DOMAIN diags' : j # m => diags'[j] # diags'[m]
        /\ Elements(diags') = Promise!All'
    <3>1. UNCHANGED <<given, files, printed>>
      BY <1>1 DEF given, files
    <3> QED
      BY <1>1, <1>3, <3>1, AnalyzeFacts
  <2>2. /\ printed' = <<>> /\ Elements(printed') = {} /\ pc' = "file" /\ exitCode' = 0
        /\ printed' \in Seq((1..Len(taken')) \X (Nat \ {0}))
    BY <1>1, <1>2, <1>3, ElementsEmpty DEF Continue
  <2>3. TypeOK'
    BY <1>1, <1>2, <2>1, <2>2 DEF Inv, TypeOK
  <2>4. PhaseInv' /\ SortInv'
    BY <1>1, <1>2, <2>2 DEF PhaseInv, SortInv
  <2>5. CollectInv'
    BY <2>1, <2>2 DEF CollectInv
  <2> QED
    BY <2>3, <2>4, <2>5 DEF Inv
<1>4. CASE (Stop(1) \/ Stop(2)) /\ UNCHANGED <<taken, diags>>
  <2>1. pc' = "exited" /\ exitCode' \in {1, 2}
    BY <1>4 DEF Stop
  <2>2. PhaseInv'
    BY <1>1, <1>2, <2>1 DEF PhaseInv
  <2> QED
    BY <1>1, <1>2, <1>4, <2>1, <2>2, QuietStep
<1> QED
  BY <1>3, <1>4 DEF ParseFile

LEMMA StepSort == Inv /\ Sort => Inv'
<1> SUFFICES ASSUME Inv, Sort PROVE Inv'
  OBVIOUS
<1>1. /\ UNCHANGED <<linter, args, disk, saves, taken, printed, exitCode>> /\ pc = "file"
      /\ pc' = "print" /\ Len(taken) = Len(args) /\ args # <<>> /\ diags' \in Sortings(diags)
  BY DEF Sort, given, files, Continue
<1> DEFINE S == (1..Len(taken)) \X (Nat \ {0})
<1>2. /\ diags' \in Seq(S) /\ Elements(diags') = Elements(diags)
      /\ \A j, m \in DOMAIN diags' : j # m => diags'[j] # diags'[m]
      /\ \A j, m \in DOMAIN diags' : j < m => ~Less(diags'[m], diags'[j])
  <2>1. diags \in Seq(S) /\ \A j, m \in DOMAIN diags : j # m => diags[j] # diags[m]
    BY DEF Inv, TypeOK, CollectInv
  <2> QED
    BY <1>1, <2>1, SortingFacts
<1>3. TypeOK'
  BY <1>1, <1>2 DEF Inv, TypeOK
<1>4. PhaseInv'
  BY <1>1 DEF Inv, PhaseInv
<1>5. CollectInv'
  BY <1>1, <1>2 DEF Inv, CollectInv, Promise!All
<1>6. SortInv'
  BY <1>1, <1>2 DEF SortInv, Less, Diag
<1> QED
  BY <1>3, <1>4, <1>5, <1>6 DEF Inv

LEMMA StepPrintDiag == Inv /\ PrintDiag => Inv'
<1> SUFFICES ASSUME Inv, PrintDiag PROVE Inv'
  OBVIOUS
<1> DEFINE S == (1..Len(taken)) \X (Nat \ {0})
<1>1. /\ UNCHANGED <<linter, args, disk, saves, taken, pc, exitCode>> /\ pc = "print"
      /\ diags # <<>> /\ printed' = Append(printed, Head(diags)) /\ diags' = Tail(diags)
  BY DEF PrintDiag, given, files
<1>2. diags \in Seq(S) /\ printed \in Seq(S)
  BY DEF Inv, TypeOK
<1> HIDE DEF S
<1>3. /\ diags' \in Seq(S) /\ Head(diags) = diags[1] /\ 1 \in DOMAIN diags
      /\ Len(diags) \in Nat /\ DOMAIN diags = 1..Len(diags) /\ DOMAIN diags' = 1..(Len(diags) - 1)
      /\ \A j \in 1..(Len(diags) - 1) : diags'[j] = diags[j + 1]
      /\ Elements(diags) = {Head(diags)} \cup Elements(diags')
  BY <1>1, <1>2, TailFacts
<1>4. Head(diags) \in S
  BY <1>2, <1>3
<1>5. printed' \in Seq(S) /\ Elements(printed') = Elements(printed) \cup {Head(diags)}
  BY <1>1, <1>2, <1>4, AppendElements
<1>6. \A j, m \in DOMAIN diags : j # m => diags[j] # diags[m]
  BY DEF Inv, CollectInv
<1>7. \A j \in DOMAIN diags' : j + 1 \in DOMAIN diags /\ j + 1 # 1 /\ j \in Nat /\ diags'[j] = diags[j + 1]
  BY <1>3
<1>8. Head(diags) \notin Elements(diags')
  BY <1>3, <1>6, <1>7 DEF Elements
<1>9. Elements(diags') \cap Elements(printed') = {}
  BY <1>3, <1>5, <1>8 DEF Inv, TypeOK
<1>10. Elements(diags') \cup Elements(printed') = Elements(diags) \cup Elements(printed)
  BY <1>3, <1>5
<1>11. TypeOK'
  <2>1. \A o \in Elements(diags') \cup Elements(printed') :
          o[2] \in DOMAIN Diagnose[linter][taken[o[1]]]
    BY <1>10 DEF Inv, TypeOK
  <2> QED
    BY <1>1, <1>3, <1>5, <1>9, <2>1 DEF Inv, TypeOK, S
<1>12. PhaseInv'
  BY <1>1 DEF Inv, PhaseInv
<1>13. CollectInv'
  <2>1. Elements(diags') \cup Elements(printed') = Promise!All'
    BY <1>1, <1>10 DEF Inv, CollectInv, Promise!All
  <2>2. \A j, m \in DOMAIN diags' : j # m => diags'[j] # diags'[m]
    <3> SUFFICES ASSUME NEW j \in DOMAIN diags', NEW m \in DOMAIN diags', j # m
                 PROVE  diags'[j] # diags'[m]
      OBVIOUS
    <3>1. j + 1 # m + 1
      BY <1>7
    <3> QED
      BY <1>6, <1>7, <3>1
  <2> QED
    BY <2>1, <2>2 DEF CollectInv
<1>14. SortInv'
  <2>0. \A o, p : Less(o, p)' <=> Less(o, p)
    BY <1>1 DEF Less, Diag
  <2> SUFFICES ASSUME NEW j \in DOMAIN diags', NEW m \in DOMAIN diags', j < m
               PROVE  ~Less(diags[m + 1], diags[j + 1])
    BY <1>7, <2>0 DEF SortInv
  <2>1. j + 1 \in DOMAIN diags /\ m + 1 \in DOMAIN diags /\ j + 1 < m + 1
    BY <1>7
  <2>2. pc = "print" /\ SortInv
    BY <1>1 DEF Inv
  <2> QED
    BY <2>1, <2>2 DEF SortInv
<1> QED
  BY <1>11, <1>12, <1>13, <1>14 DEF Inv

LEMMA StepInv == Inv /\ [Next]_vars => Inv'
<1> SUFFICES ASSUME Inv, [Next]_vars PROVE Inv'
  OBVIOUS
<1>1. /\ disk \in [Paths -> Contents \cup {None}] /\ saves \in 0..MaxSaves /\ exitCode \in 0..2
      /\ pc \in {"main", "flags", "ddl", "file", "print", "usage", "exited", "fmt-sql"}
  BY DEF Inv, TypeOK
<1>2. CASE Main
  <2>1. /\ UNCHANGED <<linter, args, disk, saves, taken, diags, printed>>
        /\ pc = "main" /\ exitCode' \in 0..2
        /\ \/ pc' \in {"flags", "fmt-sql"} /\ exitCode' = exitCode /\ (pc' = "flags" => linter \in Linters)
           \/ pc' = "usage"
    BY <1>1, <1>2 DEF Main, given, files, Continue
  <2>2. PhaseInv'
    BY <2>1 DEF Inv, PhaseInv
  <2> QED
    BY <1>1, <2>1, <2>2, QuietStep
<1>3. CASE ParseFlags
  <2>1. /\ UNCHANGED <<linter, args, disk, saves, taken, diags, printed>>
        /\ pc = "flags" /\ exitCode' \in 0..2
        /\ \/ pc' \in {"ddl", "file"} /\ exitCode' = exitCode /\ args # <<>>
           \/ pc' = "usage"
    BY <1>1, <1>3 DEF ParseFlags, given, files, Continue
  <2>2. PhaseInv'
    BY <2>1 DEF Inv, PhaseInv
  <2>3. Elements(diags) \cup Elements(printed) = Promise!All
    BY <2>1, NothingTaken DEF Inv, PhaseInv
  <2> QED
    BY <1>1, <2>1, <2>2, <2>3, QuietStep
<1>4. CASE LoadDDL
  <2>1. /\ UNCHANGED <<linter, args, disk, saves, taken, diags, printed>>
        /\ pc = "ddl" /\ exitCode' \in 0..2
        /\ \/ pc' = "file" /\ exitCode' = exitCode
           \/ pc' = "exited"
    BY <1>1, <1>4 DEF LoadDDL, given, files, Continue, Stop
  <2>2. PhaseInv'
    BY <2>1 DEF Inv, PhaseInv
  <2>3. Elements(diags) \cup Elements(printed) = Promise!All
    BY <2>1, NothingTaken DEF Inv, PhaseInv
  <2> QED
    BY <1>1, <2>1, <2>2, <2>3, QuietStep
<1>5. CASE Exit
  <2>1. /\ UNCHANGED <<linter, args, disk, saves, taken, diags, printed>>
        /\ pc = "print" /\ pc' = "exited" /\ exitCode' \in 0..2
    BY <1>1, <1>5 DEF Exit, given, files, Stop
  <2>2. PhaseInv'
    BY <2>1 DEF Inv, PhaseInv
  <2> QED
    BY <1>1, <2>1, <2>2, QuietStep
<1>6. CASE \E f \in Paths, c \in Contents \cup {None} : Save(f, c)
  <2>1. PICK f \in Paths, c \in Contents \cup {None} : Save(f, c)
    BY <1>6
  <2>2. /\ UNCHANGED <<linter, args, pc, exitCode, taken, diags, printed>>
        /\ disk' = [disk EXCEPT ![f] = c] /\ saves' = saves + 1 /\ saves < MaxSaves /\ Running
    BY <2>1 DEF Save, given
  <2>3. disk' \in [Paths -> Contents \cup {None}]
    BY <1>1, <2>2
  <2>4. saves' \in 0..MaxSaves
    BY <1>1, <2>2, Values
  <2>5. PhaseInv'
    BY <2>2 DEF Inv, PhaseInv
  <2>6. pc \in {"file", "print"} => Elements(diags) \cup Elements(printed) = Promise!All
    BY DEF Inv, CollectInv
  <2> QED
    BY <1>1, <2>2, <2>3, <2>4, <2>5, <2>6, QuietStep
<1>7. CASE UNCHANGED vars
  <2>1. UNCHANGED <<linter, args, disk, saves, pc, exitCode, taken, diags, printed>>
    BY <1>7 DEF vars, given, files
  <2>2. PhaseInv'
    BY <2>1 DEF Inv, PhaseInv
  <2>3. pc \in {"file", "print"} => Elements(diags) \cup Elements(printed) = Promise!All
    BY DEF Inv, CollectInv
  <2> QED
    BY <1>1, <2>1, <2>2, <2>3, QuietStep
<1> QED
  BY <1>2, <1>3, <1>4, <1>5, <1>6, <1>7, StepParseFile, StepSort, StepPrintDiag DEF Next, Step

LEMMA SpecInv == Spec => []Inv
BY InitInv, StepInv, PTL DEF Spec

\* The state of a run has its types, whatever the files and diagnostics are.
THEOREM Spec_TypeOK == Spec => []TypeOK
<1>1. Inv => TypeOK
  BY DEF Inv
<1> QED
  BY <1>1, SpecInv, PTL

-----------------------------------------------------------------------------
(***************************************************************************)
(* LintRun implements LintPromise.                                         *)
(***************************************************************************)
LEMMA InitPromise == Init => Promise!Init
BY Values DEF Init, Promise!Init

LEMMA PromiseParseFile == Inv /\ ParseFile => [Promise!Next]_(Promise!vars)
<1> SUFFICES ASSUME Inv, ParseFile PROVE [Promise!Next]_(Promise!vars)
  OBVIOUS
<1>1. /\ UNCHANGED <<linter, args, disk, printed>> /\ pc = "file" /\ Len(taken) < Len(args)
      /\ linter \in DOMAIN Diagnose
  BY Values DEF ParseFile, given, files, AtFile, Inv, PhaseInv
<1>2. CASE Parses /\ ~Panics /\ Analyze /\ Continue("file")
  <2>1. Promise!Take
    BY <1>1, <1>2 DEF Promise!Take, Promise!Pending, Promise!Content, Promise!Failures,
                      Parses, Panics, Analyze, Content, Continue
  <2> QED
    BY <2>1 DEF Promise!Next
<1>3. CASE Parses /\ Panics /\ Stop(2) /\ UNCHANGED <<taken, diags>>
  <2>1. Promise!Refuse
    BY <1>1, <1>3 DEF Promise!Refuse, Promise!Pending, Promise!Content, Parses, Panics, Content, Stop
  <2> QED
    BY <2>1 DEF Promise!Next
<1>4. CASE Stop(1) /\ UNCHANGED <<taken, diags>>
  <2>1. Promise!Refuse
    BY <1>1, <1>4 DEF Promise!Refuse, Promise!Pending, Stop
  <2> QED
    BY <2>1 DEF Promise!Next
<1> QED
  BY <1>2, <1>3, <1>4 DEF ParseFile

LEMMA PromisePrintDiag == Inv /\ PrintDiag => [Promise!Next]_(Promise!vars)
<1> SUFFICES ASSUME Inv, PrintDiag PROVE [Promise!Next]_(Promise!vars)
  OBVIOUS
<1> DEFINE o == Head(diags)
<1>1. /\ UNCHANGED <<linter, args, disk, taken, pc, exitCode>> /\ pc = "print"
      /\ diags # <<>> /\ printed' = Append(printed, o) /\ Len(taken) = Len(args)
  BY DEF PrintDiag, given, files, Inv, PhaseInv
<1>2. /\ o = diags[1] /\ 1 \in DOMAIN diags /\ DOMAIN diags = 1..Len(diags) /\ Len(diags) \in Nat
  <2>1. diags \in Seq((1..Len(taken)) \X (Nat \ {0}))
    BY DEF Inv, TypeOK
  <2> QED
    BY <1>1, <2>1, TailFacts
<1>3. Promise!Left = Elements(diags)
  BY <1>1 DEF Promise!Left, Inv, CollectInv, TypeOK, Elements
<1>4. o \in Promise!Left /\ o \in Promise!All
  BY <1>2, <1>3 DEF Elements, Promise!Left
<1>5. ASSUME NEW p \in Promise!Left PROVE ~Promise!Precedes(p, o)
  <2>1. PICK m \in DOMAIN diags : p = diags[m]
    BY <1>3 DEF Elements
  <2>2. ~Less(diags[m], diags[1]) \/ m = 1
    <3>1. m = 1 \/ 1 < m
      BY <1>2
    <3> QED
      BY <1>1, <1>2, <3>1 DEF Inv, SortInv
  <2>3. Promise!Precedes(p, o) <=> Less(p, o)
    BY DEF Promise!Precedes, Less, Promise!Diag, Diag
  <2>4. ~Less(o, o)
    <3>1. o \in (1..Len(taken)) \X (Nat \ {0}) /\ o[2] \in DOMAIN Diagnose[linter][taken[o[1]]]
      <4>1. diags \in Seq((1..Len(taken)) \X (Nat \ {0})) /\ o \in Elements(diags)
        BY <1>2 DEF Inv, TypeOK, Elements
      <4>2. o \in (1..Len(taken)) \X (Nat \ {0})
        BY <1>2, <4>1
      <4> QED
        BY <4>1, <4>2 DEF Inv, TypeOK
    <3>2. args[o[1]] \in Nat
      <4>1. args \in Seq(Paths) /\ o[1] \in 1..Len(args)
        BY <1>1, <3>1 DEF Inv, TypeOK
      <4>2. args[o[1]] \in Paths
        BY <4>1
      <4> QED
        BY <4>2, Values
    <3>3. Diag(o).line \in Nat
      <4>1. linter \in Linters /\ o[1] \in 1..Len(taken) /\ taken \in Seq(Contents)
            /\ \A k \in DOMAIN taken : Diagnose[linter][taken[k]] \notin Failures
        BY <1>1, <3>1 DEF Inv, TypeOK, PhaseInv
      <4>2. taken[o[1]] \in Contents /\ Diagnose[linter][taken[o[1]]] \notin Failures
        BY <4>1
      <4>3. o[2] \in DOMAIN Diagnose[linter][taken[o[1]]]
        BY <3>1
      <4>4. Diagnose[linter][taken[o[1]]] \in Seq(Diagnostics)
        BY <4>1, <4>2, DiagnoseType
      <4>5. Diag(o) \in Diagnostics
        BY <4>3, <4>4 DEF Diag
      <4> QED
        BY <4>5 DEF Diagnostics
    <3> QED
      BY <3>2, <3>3 DEF Less
  <2> QED
    BY <1>2, <2>1, <2>2, <2>3, <2>4
<1>6. Promise!Report(o)
  BY <1>1, <1>4, <1>5 DEF Promise!Report, Promise!AllTaken
<1> QED
  BY <1>4, <1>6 DEF Promise!Next

LEMMA PromiseExit == Inv /\ Exit => [Promise!Next]_(Promise!vars)
<1> SUFFICES ASSUME Inv, Exit PROVE [Promise!Next]_(Promise!vars)
  OBVIOUS
<1>1. /\ UNCHANGED <<linter, args, disk, taken, printed>> /\ pc = "print" /\ pc' = "exited"
      /\ diags = <<>> /\ Len(taken) = Len(args) /\ args # <<>> /\ linter \in Linters
      /\ exitCode' = IF Failed THEN 1 ELSE 0
  BY DEF Exit, given, files, Stop, Inv, PhaseInv
<1>2. Promise!All = Elements(printed)
  BY <1>1, ElementsEmpty DEF Inv, CollectInv
<1>3. Promise!Left = {}
  BY <1>2 DEF Promise!Left, Elements
<1>4. \A o \in Promise!All : linter = "lint-mutation" => Diag(o).severity = "error"
  <2> SUFFICES ASSUME NEW o \in Promise!All, linter = "lint-mutation"
               PROVE  Diag(o).severity = "error"
    OBVIOUS
  <2>1. o[1] \in DOMAIN taken /\ o[2] \in DOMAIN Diagnose[linter][taken[o[1]]]
    BY DEF Promise!All
  <2>2. taken[o[1]] \in Contents /\ Diagnose[linter][taken[o[1]]] \notin Failures
    BY <1>1, <2>1 DEF Inv, TypeOK
  <2> QED
    BY <2>1, <2>2, MutationErrors DEF Diag
<1>5. Failed <=> \E o \in Promise!All : Promise!Diag(o).severity = "error"
  <2>1. \A o : Promise!Diag(o) = Diag(o)
    BY DEF Promise!Diag, Diag
  <2>2. CASE linter = "lint-mutation"
    <3>1. printed # <<>> <=> Promise!All # {}
      <4>1. printed \in Seq((1..Len(taken)) \X (Nat \ {0}))
        BY DEF Inv, TypeOK
      <4>2. printed # <<>> => 1 \in DOMAIN printed
        BY <4>1
      <4> QED
        BY <1>2, <4>2, ElementsEmpty DEF Elements
    <3> QED
      BY <1>4, <2>1, <2>2, <3>1 DEF Failed
  <2>3. CASE linter = "lint-scan"
    BY <1>2, <2>1, <2>3 DEF Failed, Elements
  <2> QED
    BY <1>1, <2>2, <2>3 DEF Linters
<1>6. Promise!Exit
  BY <1>1, <1>3, <1>5 DEF Promise!Exit, Promise!AllTaken
<1> QED
  BY <1>6 DEF Promise!Next

LEMMA PromiseSave == Inv /\ (\E f \in Paths, c \in Contents \cup {None} : Save(f, c))
                         => [Promise!Next]_(Promise!vars)
<1> SUFFICES ASSUME NEW f \in Paths, NEW c \in Contents \cup {None}, Save(f, c)
             PROVE  [Promise!Next]_(Promise!vars)
  OBVIOUS
<1>1. /\ pc \notin {"usage", "exited", "fmt-sql"} /\ disk' = [disk EXCEPT ![f] = c]
      /\ UNCHANGED <<linter, args, pc, taken, printed, exitCode>>
  BY DEF Save, given, Running
<1>2. Promise!Save
  BY <1>1 DEF Promise!Save
<1> QED
  BY <1>2 DEF Promise!Next

LEMMA NextPromise == Inv /\ [Next]_vars => [Promise!Next]_(Promise!vars)
<1> SUFFICES ASSUME Inv, [Next]_vars PROVE [Promise!Next]_(Promise!vars)
  OBVIOUS
<1>1. CASE UNCHANGED vars
  BY <1>1 DEF vars, given, files, Promise!vars
<1>2. CASE Main
  <2>1. /\ UNCHANGED <<linter, args, disk, taken, printed>> /\ pc = "main" /\ taken = <<>>
        /\ \/ pc' = "flags" /\ exitCode' = exitCode
           \/ pc' \in {"usage", "fmt-sql"} /\ exitCode' \in 0..2
    BY <1>2 DEF Main, given, files, Continue, Inv, PhaseInv
  <2>2. UNCHANGED Promise!vars \/ Promise!Usage
    BY <2>1 DEF Promise!vars, Promise!Usage
  <2> QED
    BY <2>2 DEF Promise!Next
<1>3. CASE ParseFlags
  <2>1. /\ UNCHANGED <<linter, args, disk, taken, printed>> /\ pc = "flags" /\ taken = <<>>
        /\ \/ pc' \in {"ddl", "file"} /\ exitCode' = exitCode
           \/ pc' = "usage" /\ exitCode' \in 0..2
    BY <1>3 DEF ParseFlags, given, files, Continue, Inv, PhaseInv
  <2>2. UNCHANGED Promise!vars \/ Promise!Usage
    BY <2>1 DEF Promise!vars, Promise!Usage
  <2> QED
    BY <2>2 DEF Promise!Next
<1>4. CASE LoadDDL
  <2>1. /\ UNCHANGED <<linter, args, disk, taken, printed>> /\ pc = "ddl" /\ Len(taken) < Len(args)
        /\ linter \in DOMAIN Diagnose
        /\ \/ pc' = "file" /\ exitCode' = exitCode
           \/ pc' = "exited" /\ exitCode' = 1
    BY <1>4, Values DEF LoadDDL, given, files, Continue, Stop, Inv, PhaseInv, TypeOK
  <2>2. UNCHANGED Promise!vars \/ Promise!Refuse
    BY <2>1 DEF Promise!vars, Promise!Refuse, Promise!Pending
  <2> QED
    BY <2>2 DEF Promise!Next
<1>5. CASE Sort
  BY <1>5 DEF Sort, given, files, Continue, Promise!vars
<1> QED
  BY <1>1, <1>2, <1>3, <1>4, <1>5, PromiseParseFile, PromisePrintDiag, PromiseExit, PromiseSave
     DEF Next, Step

\* The linters do what LintPromise says.
THEOREM Spec_Promised == Spec => Promised
BY InitPromise, NextPromise, SpecInv, PTL DEF Spec, Promised, Promise!Spec
=============================================================================
