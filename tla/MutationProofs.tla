--------------------------- MODULE MutationProofs ---------------------------
(***************************************************************************)
(* Proofs about Mutation, for all DDLs and files: what lint-mutation says  *)
(* of a call depends on that call and on the last table of its name.       *)
(***************************************************************************)
EXTENDS Mutation, TLAPS

AnyName == Seq(Idents \cup {"tick"})

-----------------------------------------------------------------------------
(* The type invariant. *)

LEMMA TrimmedType ==
  ASSUME NEW lit \in Expr
  PROVE  Trimmed(lit) \in AnyName
<1>1. lit.value \in AnyName
  BY DEF Expr, Name, AnyName
<1>2. <<"tick">> \in AnyName
  BY DEF AnyName
<1>3. <<"tick">> \o lit.value \in AnyName
  BY <1>1, <1>2 DEF AnyName
<1>4. (<<"tick">> \o lit.value) \o <<"tick">> \in AnyName
  BY <1>2, <1>3 DEF AnyName
<1> QED BY <1>1, <1>4 DEF Trimmed

\* The fields of a diagnostic.
DiagOK(d, i) ==
  /\ d.call = i /\ d.rule \in Rule
  /\ d.name \in IF d.rule \in {"missing column", "missing key"} THEN Name ELSE AnyName

LEMMA MapDiagsType ==
  ASSUME NEW i, NEW c \in Call, NEW t \in Table, NEW d \in MapDiags(i, c, t)
  PROVE  DiagOK(d, i)
<1> DEFINE lits == {k \in c.keys : k.kind # "expr"}
           names == {Trimmed(k) : k \in lits}
<1>1. c.keys \subseteq Expr /\ t.key \subseteq Name /\ t.cols \subseteq Column
  BY DEF Call, Table
<1>2. \A n \in names : n \in AnyName
  BY <1>1, TrimmedType
<1>3. \A n \in RequiredColumns(t) : n \in Name
  BY <1>1 DEF RequiredColumns, Column
<1>4. \A k \in c.keys : k.value \in AnyName
  BY <1>1 DEF Expr, Name, AnyName
<1> HIDE DEF names
<1>5. \/ \E k \in c.keys : d = Diagnostic(i, "key literal", k.value)
      \/ \E n \in names : \/ d = Diagnostic(i, "unknown column", n)
                          \/ d = Diagnostic(i, "generated column", n)
      \/ \E n \in RequiredColumns(t) : d = Diagnostic(i, "missing column", n)
      \/ \E n \in t.key : d = Diagnostic(i, "missing key", n)
  BY DEF MapDiags, names
<1>6. ASSUME NEW rule \in Rule, NEW n, d = Diagnostic(i, rule, n),
             n \in IF rule \in {"missing column", "missing key"} THEN Name ELSE AnyName
      PROVE  DiagOK(d, i)
  BY <1>6 DEF DiagOK, Diagnostic
<1>7. CASE \E k \in c.keys : d = Diagnostic(i, "key literal", k.value)
  BY <1>4, <1>6, <1>7 DEF Rule
<1>8. CASE \E n \in names : \/ d = Diagnostic(i, "unknown column", n)
                          \/ d = Diagnostic(i, "generated column", n)
  BY <1>2, <1>6, <1>8 DEF Rule
<1>9. CASE \E n \in RequiredColumns(t) : d = Diagnostic(i, "missing column", n)
  BY <1>3, <1>6, <1>9 DEF Rule
<1>10. CASE \E n \in t.key : d = Diagnostic(i, "missing key", n)
  BY <1>1, <1>6, <1>10 DEF Rule
<1> QED BY <1>5, <1>7, <1>8, <1>9, <1>10

SchemaOK == DOMAIN schema \subseteq Name /\ \A n \in DOMAIN schema : schema[n] \in Table

LEMMA CallDiagsType ==
  ASSUME SchemaOK, NEW i, NEW c \in Call, NEW d \in CallDiags(i, c)
  PROVE  DiagOK(d, i)
<1>1. <<>> \in AnyName
  BY DEF AnyName
<1>2. ASSUME NEW rule \in {"table literal", "unknown table", "map literal"}, d = Diagnostic(i, rule, <<>>)
      PROVE  DiagOK(d, i)
  BY <1>1, <1>2 DEF DiagOK, Diagnostic, Rule
<1>3. CASE Trimmed(c.table) \in DOMAIN schema /\ d \in MapDiags(i, c, schema[Trimmed(c.table)])
  BY <1>3, MapDiagsType DEF SchemaOK
<1>4. CASE \E rule \in {"table literal", "unknown table", "map literal"} : d = Diagnostic(i, rule, <<>>)
  BY <1>2, <1>4
<1> QED BY <1>3, <1>4 DEF CallDiags

LEMMA Types ==
  ASSUME TypeOK
  PROVE  /\ ddl \in Seq(Statement) /\ Len(ddl) \in Nat /\ DOMAIN ddl = 1..Len(ddl)
         /\ file = [spanner |-> file.spanner, calls |-> file.calls]
         /\ file.spanner \in STRING /\ file.calls \in Seq(Call)
         /\ Len(file.calls) \in Nat /\ DOMAIN file.calls = 1..Len(file.calls)
         /\ next \in Nat \ {0} /\ repairs \in 0..MaxRepairs /\ MaxRepairs \in Nat
<1>1. ddl \in Seq(Statement) /\ MaxRepairs \in Nat
  BY Inputs DEF TypeOK
<1>2. file \in [spanner : STRING, calls : Seq(Call)]
  BY DEF TypeOK
<1>3. Len(ddl) \in Nat /\ DOMAIN ddl = 1..Len(ddl)
  BY <1>1
<1>4. file.calls \in Seq(Call) /\ file.spanner \in STRING
      /\ file = [spanner |-> file.spanner, calls |-> file.calls]
  BY <1>2
<1>5. Len(file.calls) \in Nat /\ DOMAIN file.calls = 1..Len(file.calls)
  BY <1>4
<1>6. repairs \in 0..MaxRepairs /\ (next \in 1..(Len(ddl) + 1) \/ next \in 1..(Len(file.calls) + 1))
  BY DEF TypeOK
<1>7. next \in Nat \ {0}
  BY <1>3, <1>5, <1>6
<1> QED BY <1>1, <1>3, <1>4, <1>5, <1>6, <1>7

LEMMA CallAt ==
  ASSUME TypeOK, NEW i \in DOMAIN file.calls
  PROVE  file.calls[i] \in Call /\ i < Len(file.calls) + 1
<1>1. file.calls \in Seq(Call) /\ i \in 1..Len(file.calls) /\ Len(file.calls) \in Nat
  BY Types
<1> QED BY <1>1

LEMMA RepairedType ==
  ASSUME TypeOK, NEW i, NEW c \in Call, NEW table \in Name
  PROVE  Repaired(i, c, table) \in Call
<1>1. \A n \in Name : Quoted(n) \in Expr
  BY DEF Quoted, Expr
<1>2. c.keys \subseteq Expr /\ c.table \in Expr /\ c.literal \in BOOLEAN
  BY DEF Call
<1>3. c.table.value \in Name /\ \A k \in c.keys : k.value \in Name
  BY <1>2 DEF Expr
<1>4. \A n \in Reported(i, "missing column") \cup Reported(i, "missing key") : n \in Name
  BY DEF TypeOK, Reported
<1>5. \A k \in RepairedKeys(i, c.keys) : k \in Expr
  BY <1>1, <1>2, <1>3, <1>4 DEF RepairedKeys
<1> DEFINE T == CASE Reported(i, "table literal") # {} -> Quoted(c.table.value)
                  [] Reported(i, "unknown table") # {} -> Quoted(table)
                  [] OTHER -> c.table
           L == c.literal \/ Reported(i, "map literal") # {}
<1>6. T \in Expr
  BY <1>1, <1>2, <1>3
<1>7. L \in BOOLEAN
  BY <1>2, Zenon
<1> HIDE DEF T, L
<1>8. [c EXCEPT !.table = T, !.literal = L, !.keys = RepairedKeys(i, c.keys)] \in Call
  BY <1>5, <1>6, <1>7 DEF Call
<1> QED BY <1>8 DEF Repaired, T, L

LEMMA LastType ==
  ASSUME NEW name \in Name \ {<<>>}
  PROVE  Last(name) \in Name
  BY DEF Last, Name

LEMMA WithTableType ==
  ASSUME SchemaOK, NEW name \in Name, NEW table \in Table
  PROVE  /\ DOMAIN WithTable(schema, name, table) \subseteq Name
         /\ \A n \in DOMAIN WithTable(schema, name, table) : WithTable(schema, name, table)[n] \in Table
  BY DEF SchemaOK, WithTable

LEMMA StatementType ==
  ASSUME TypeOK, NEW i \in DOMAIN ddl
  PROVE  ddl[i].name \in Name \ {<<>>} /\ ddl[i].table \in Table
<1>1. ddl \in Seq(Statement)
  BY Inputs DEF TypeOK
<1>2. ddl[i] \in Statement
  BY <1>1
<1> QED BY <1>2 DEF Statement

LEMMA StepTypeOK ==
  ASSUME TypeOK, [Next]_vars
  PROVE  TypeOK'
<1>1. CASE ParseStatement
  <2>1. next \in DOMAIN ddl /\ next + 1 \in 1..(Len(ddl) + 1)
    BY <1>1, Types DEF ParseStatement
  <2>2. ddl[next].name \in Name \ {<<>>} /\ ddl[next].table \in Table
    BY <2>1, StatementType
  <2>3. DOMAIN schema' \subseteq Name /\ \A n \in DOMAIN schema' : schema'[n] \in Table
    <3>1. CASE ddl[next].kind = "create"
      BY <1>1, <2>2, <3>1, LastType, WithTableType DEF TypeOK, SchemaOK, ParseStatement
    <3>2. CASE ddl[next].kind # "create"
      BY <1>1, <3>2 DEF TypeOK, ParseStatement
    <3> QED BY <3>1, <3>2
  <2> QED BY <1>1, <2>1, <2>3 DEF TypeOK, ParseStatement
<1>2. CASE EndDDL
  <2>1. pc' \in {"calls", "done", "error"} /\ next' = 1 /\ Len(file.calls) \in Nat
    BY <1>2, Types DEF EndDDL
  <2>2. next' \in 1..(IF pc' = "ddl" THEN Len(ddl) + 1 ELSE Len(file.calls) + 1)
    BY <2>1
  <2>3. UNCHANGED <<ddl, file, schema, diags, repairs>>
    BY <1>2 DEF EndDDL
  <2> QED BY <2>1, <2>2, <2>3 DEF TypeOK
<1>3. CASE InspectCall
  <2>1. next \in DOMAIN file.calls /\ next + 1 \in 1..(Len(file.calls) + 1)
    BY <1>3, Types DEF InspectCall
  <2>2. file.calls[next] \in Call
    BY <2>1, Types
  <2>3. \A d \in diags' \ diags : DiagOK(d, next)
    BY <1>3, <2>2, CallDiagsType DEF TypeOK, SchemaOK, InspectCall
  <2>4. \A d \in diags' :
          /\ d.call \in DOMAIN file.calls /\ d.rule \in Rule
          /\ d.name \in IF d.rule \in {"missing column", "missing key"} THEN Name ELSE AnyName
    BY <2>1, <2>3 DEF DiagOK, TypeOK, AnyName
  <2> QED BY <1>3, <2>1, <2>4 DEF TypeOK, InspectCall, AnyName
<1>4. CASE EndFile
  BY <1>4 DEF TypeOK, EndFile
<1>5. CASE Repair
  <2> USE <1>5 DEF Repair
  <2>1. PICK table \in DOMAIN schema :
          file' = [file EXCEPT !.calls = [i \in DOMAIN file.calls |-> Repaired(i, file.calls[i], table)]]
    OBVIOUS
  <2> DEFINE calls == [i \in DOMAIN file.calls |-> Repaired(i, file.calls[i], table)]
  <2>2. file = [spanner |-> file.spanner, calls |-> file.calls] /\ file.spanner \in STRING
    BY Types
  <2>3. \A i \in DOMAIN file.calls : Repaired(i, file.calls[i], table) \in Call
    <3>1. table \in Name
      BY DEF TypeOK
    <3>2. \A i \in DOMAIN file.calls : file.calls[i] \in Call
      BY Types
    <3> QED BY <3>1, <3>2, RepairedType
  <2>4. DOMAIN file.calls = 1..Len(file.calls) /\ Len(file.calls) \in Nat
    BY Types
  <2>5. calls \in Seq(Call)
    BY <2>3, <2>4
  <2> HIDE DEF calls
  <2>6. file' = [spanner |-> file.spanner, calls |-> calls]
    BY <2>1, <2>2 DEF calls
  <2>7. file' \in [spanner : STRING, calls : Seq(Call)] /\ Len(file'.calls) \in Nat
    BY <2>2, <2>5, <2>6
  <2>8. repairs' \in 0..MaxRepairs
    BY Types
  <2>9. next' \in 1..(IF pc' = "ddl" THEN Len(ddl') + 1 ELSE Len(file'.calls) + 1)
    BY <2>7
  <2> QED BY <2>7, <2>8, <2>9 DEF TypeOK
<1>6. CASE UNCHANGED vars
  BY <1>6 DEF vars, TypeOK
<1> QED BY <1>1, <1>2, <1>3, <1>4, <1>5, <1>6 DEF Next

\* Types are kept, whatever the DDL, the file and the repairs are.
THEOREM Spec_TypeOK == Spec => []TypeOK
<1>1. Init => TypeOK
  <2> SUFFICES ASSUME Init PROVE TypeOK
    OBVIOUS
  <2>1. ddl \in Seq(Statement) /\ Len(ddl) \in Nat
    BY Inputs DEF Init
  <2> QED BY <2>1, Inputs DEF Init, TypeOK
<1>2. TypeOK /\ [Next]_vars => TypeOK'
  BY StepTypeOK
<1> QED BY <1>1, <1>2, PTL DEF Spec

-----------------------------------------------------------------------------
(* The schema is made of the last tables of the DDL. *)

LEMMA StepSchemaIsLast ==
  ASSUME TypeOK, SchemaIsLast, [Next]_vars
  PROVE  SchemaIsLast'
<1>1. CASE ParseStatement
  <2> DEFINE name == Last(ddl[next].name)
             k == next
  <2>1. k \in DOMAIN ddl /\ k \in Nat \ {0} /\ pc = "ddl" /\ next' - 1 = k
    BY <1>1, Types DEF ParseStatement
  <2>2. /\ \A n \in DOMAIN schema : \E i \in CreatesUpTo(n, k - 1) :
             schema[n] = ddl[i].table /\ \A j \in CreatesUpTo(n, k - 1) : j <= i
        /\ \A i \in 1..(k - 1) : ddl[i].kind = "create" => Last(ddl[i].name) \in DOMAIN schema
    BY <2>1 DEF SchemaIsLast
  <2>3. \A n : CreatesUpTo(n, k) =
                  CreatesUpTo(n, k - 1) \cup {i \in {k} : ddl[i].kind = "create" /\ Last(ddl[i].name) = n}
    BY <2>1 DEF CreatesUpTo
  <2>4. /\ \A n \in DOMAIN schema' : \E i \in CreatesUpTo(n, k) :
             schema'[n] = ddl[i].table /\ \A j \in CreatesUpTo(n, k) : j <= i
        /\ \A i \in 1..k : ddl[i].kind = "create" => Last(ddl[i].name) \in DOMAIN schema'
    <3>1. CASE ddl[k].kind = "create"
      <4>1. schema' = WithTable(schema, name, ddl[k].table)
        BY <1>1, <3>1 DEF ParseStatement
      <4>2. /\ DOMAIN schema' = DOMAIN schema \cup {name}
            /\ schema'[name] = ddl[k].table
            /\ \A n \in DOMAIN schema : n # name => schema'[n] = schema[n]
        BY <4>1 DEF WithTable
      <4>3. k \in CreatesUpTo(name, k) /\ \A j \in CreatesUpTo(name, k) : j <= k
        BY <2>1, <3>1 DEF CreatesUpTo
      <4>4. \A n \in DOMAIN schema : n # name => CreatesUpTo(n, k) = CreatesUpTo(n, k - 1)
        BY <2>3
      <4>5. \A n \in DOMAIN schema' : \E i \in CreatesUpTo(n, k) :
               schema'[n] = ddl[i].table /\ \A j \in CreatesUpTo(n, k) : j <= i
        <5> HIDE DEF name
        <5> QED BY <2>2, <4>2, <4>3, <4>4
      <4>6. \A i \in 1..k : i = k \/ i \in 1..(k - 1)
        BY <2>1
      <4> QED BY <2>2, <4>2, <4>5, <4>6
    <3>2. CASE ddl[k].kind # "create"
      <4>1. schema' = schema
        BY <1>1, <3>2 DEF ParseStatement
      <4>2. \A n : CreatesUpTo(n, k) = CreatesUpTo(n, k - 1)
        BY <2>3, <3>2
      <4>3. \A i \in 1..k : i = k \/ i \in 1..(k - 1)
        BY <2>1
      <4> QED BY <2>2, <3>2, <4>1, <4>2, <4>3
    <3> QED BY <3>1, <3>2
  <2>5. ddl' = ddl /\ pc' = "ddl"
    BY <1>1 DEF ParseStatement
  <2>6. \A n, m : CreatesUpTo(n, m)' = CreatesUpTo(n, m)
    BY <2>5 DEF CreatesUpTo
  <2>7. \A i : Last(ddl[i].name)' = Last(ddl[i].name)
    BY <2>5 DEF Last
  <2> HIDE DEF k, name
  <2> QED BY <2>1, <2>4, <2>5, <2>6, <2>7 DEF SchemaIsLast
<1>2. CASE EndDDL
  <2>1. next - 1 = Len(ddl)
    <3>1. next \in 1..(Len(ddl) + 1) /\ next > Len(ddl)
      BY <1>2 DEF TypeOK, EndDDL
    <3> QED BY <3>1, Types
  <2> QED BY <1>2, <2>1 DEF SchemaIsLast, EndDDL, CreatesUpTo, Last
<1>3. CASE InspectCall
  BY <1>3 DEF SchemaIsLast, InspectCall, CreatesUpTo, Last
<1>4. CASE EndFile
  BY <1>4 DEF SchemaIsLast, EndFile, CreatesUpTo, Last
<1>5. CASE Repair
  BY <1>5 DEF SchemaIsLast, Repair, CreatesUpTo, Last
<1>6. CASE UNCHANGED vars
  BY <1>6 DEF SchemaIsLast, vars, CreatesUpTo, Last
<1> QED BY <1>1, <1>2, <1>3, <1>4, <1>5, <1>6 DEF Next

\* Under each name, the schema has the last table of the DDL with that name.
THEOREM Spec_SchemaIsLast == Spec => []SchemaIsLast
<1>1. Init => SchemaIsLast
  BY DEF Init, SchemaIsLast
<1>2. TypeOK /\ SchemaIsLast /\ [Next]_vars => SchemaIsLast'
  BY StepSchemaIsLast
<1> QED BY <1>1, <1>2, Spec_TypeOK, PTL DEF Spec

-----------------------------------------------------------------------------
(* What is reported of each call. *)

DiagsOf(i) == {d \in diags : d.call = i}

Found ==
  /\ pc = "ddl" \/ file.spanner = "" => diags = {}
  /\ pc = "calls" => file.spanner # ""
  /\ pc = "done" /\ file.spanner # "" => next = Len(file.calls) + 1
  /\ pc \in {"calls", "done"} /\ file.spanner # "" => \A i \in DOMAIN file.calls :
       DiagsOf(i) = IF i < next /\ IsMutation(file.calls[i]) THEN CallDiags(i, file.calls[i]) ELSE {}

LEMMA StepFound ==
  ASSUME TypeOK, Found, [Next]_vars
  PROVE  Found'
<1>1. CASE ParseStatement
  BY <1>1 DEF Found, ParseStatement
<1>2. CASE EndDDL
  <2>1. next' = 1 /\ diags' = {} /\ file' = file /\ pc' \in {"calls", "done", "error"}
        /\ (pc' = "calls" => file.spanner # "") /\ (pc' = "done" => file.spanner = "")
    BY <1>2 DEF Found, EndDDL
  <2>2. \A i \in DOMAIN file.calls : ~(i < 1)
    BY Types
  <2> QED BY <2>1, <2>2 DEF Found, DiagsOf
<1>3. CASE InspectCall
  <2> DEFINE c == file.calls[next]
             new == IF IsMutation(c) THEN CallDiags(next, c) ELSE {}
  <2>11. next \in 1..Len(file.calls) /\ pc = "calls"
    BY <1>3, Types DEF InspectCall
  <2>12. next \in DOMAIN file.calls /\ next \in Nat
    BY <2>11, Types
  <2>13. next' = next + 1 /\ diags' = diags \cup new /\ UNCHANGED <<file, pc, schema>>
    BY <1>3 DEF InspectCall
  <2>14. file.spanner # ""
    BY <2>11 DEF Found
  <2>1. /\ next \in DOMAIN file.calls /\ next \in Nat /\ next' = next + 1 /\ diags' = diags \cup new
        /\ UNCHANGED <<file, pc, schema>> /\ pc = "calls" /\ file.spanner # ""
    BY <2>11, <2>12, <2>13, <2>14
  <2>2. \A d \in new : d.call = next
    <3>1. file.calls \in Seq(Call)
      BY Types
    <3>2. c \in Call
      BY <2>12, <3>1
    <3> QED BY <3>2, CallDiagsType DEF DiagOK, TypeOK, SchemaOK
  <2>3. \A i \in DOMAIN file.calls : i # next => DiagsOf(i)' = DiagsOf(i) /\ (i < next' <=> i < next)
    <3>1. \A i \in DOMAIN file.calls : i \in Nat
      BY Types
    <3>2. \A i : i # next => DiagsOf(i)' = DiagsOf(i)
      <4> HIDE DEF new
      <4> QED BY <2>1, <2>2 DEF DiagsOf
    <3>3. \A i \in DOMAIN file.calls : i # next => (i < next' <=> i < next)
      <4>1. \A i \in Nat : i # next => (i < next + 1 <=> i < next)
        BY <2>12
      <4> QED BY <2>13, <3>1, <4>1
    <3> QED BY <3>2, <3>3
  <2>4. DiagsOf(next) = {}
    <3>1. ~(next < next)
      BY <2>12
    <3> QED BY <2>1, <3>1 DEF Found
  <2>5. {d \in diags' : d.call = next} = new /\ next < next'
    <3> HIDE DEF new
    <3>1. {d \in diags' : d.call = next} = new
      BY <2>1, <2>2, <2>4 DEF DiagsOf
    <3>2. next < next'
      BY <2>12, <2>13
    <3> QED BY <3>1, <3>2
  <2>6. \A i, b : /\ IsMutation(b)' <=> IsMutation(b)
                  /\ CallDiags(i, b)' = CallDiags(i, b)
    BY <2>1 DEF IsMutation, CallDiags
  <2>7. ASSUME NEW i \in DOMAIN file.calls
        PROVE  DiagsOf(i)' = IF i < next' /\ IsMutation(file.calls[i]) THEN CallDiags(i, file.calls[i]) ELSE {}
    <3>1. CASE i = next
      BY <2>5, <3>1 DEF DiagsOf
    <3>2. CASE i # next
      BY <2>1, <2>3, <3>2 DEF Found
    <3> QED BY <3>1, <3>2
  <2> QED BY <2>1, <2>6, <2>7 DEF Found
<1>4. CASE EndFile
  <2>1. next = Len(file.calls) + 1
    <3>1. next \in 1..(Len(file.calls) + 1) /\ next > Len(file.calls)
      BY <1>4 DEF TypeOK, EndFile
    <3> QED BY <3>1, Types
  <2>2. \A i, b : /\ IsMutation(b)' <=> IsMutation(b)
                  /\ CallDiags(i, b)' = CallDiags(i, b)
    BY <1>4 DEF EndFile, IsMutation, CallDiags
  <2>3. UNCHANGED <<file, diags, next>> /\ pc = "calls" /\ pc' = "done"
    BY <1>4 DEF EndFile
  <2>4. \A i : DiagsOf(i)' = DiagsOf(i)
    BY <2>3 DEF DiagsOf
  <2> QED BY <2>1, <2>2, <2>3, <2>4 DEF Found
<1>5. CASE Repair
  <2>1. file.spanner # "" /\ pc' = "calls" /\ next' = 1 /\ diags' = {}
    BY <1>5 DEF Found, Repair
  <2>2. file'.spanner = file.spanner
    BY <1>5, Types DEF Repair
  <2>3. \A i \in DOMAIN file'.calls : ~(i < 1)
    <3>1. file' \in [spanner : STRING, calls : Seq(Call)]
      BY StepTypeOK DEF TypeOK
    <3>2. file'.calls \in Seq(Call)
      BY <3>1
    <3> QED BY <3>2
  <2> QED BY <2>1, <2>2, <2>3 DEF Found, DiagsOf
<1>6. CASE UNCHANGED vars
  <2>1. \A i, b : /\ IsMutation(b)' <=> IsMutation(b)
                  /\ CallDiags(i, b)' = CallDiags(i, b)
    BY <1>6 DEF vars, IsMutation, CallDiags
  <2>2. UNCHANGED <<file, diags, next, pc>> /\ \A i : DiagsOf(i)' = DiagsOf(i)
    BY <1>6 DEF vars, DiagsOf
  <2> QED BY <2>1, <2>2 DEF Found
<1> QED BY <1>1, <1>2, <1>3, <1>4, <1>5, <1>6 DEF Next

\* The diagnostics are those of the calls AnalyzeFile inspected so far, each judged
\* by the whole schema.
THEOREM Spec_Found == Spec => []Found
<1>1. Init => Found
  BY DEF Init, Found
<1>2. TypeOK /\ Found /\ [Next]_vars => Found'
  BY StepFound
<1> QED BY <1>1, <1>2, Spec_TypeOK, PTL DEF Spec

-----------------------------------------------------------------------------
(* The verdict. *)

\* A table of the schema stands for the only statement that creates it.
LEMMA PlainTable ==
  ASSUME TypeOK, SchemaIsLast, PlainDDL, pc # "ddl", NEW name \in Name
  PROVE  /\ name \in DOMAIN schema <=> Creates(name) # {}
         /\ name \in DOMAIN schema => /\ ColumnsOf(name) = schema[name].cols
                                     /\ KeyOf(name) = schema[name].key
<1>1. DOMAIN ddl = 1..Len(ddl)
  BY Types
<1>2. ASSUME NEW i \in DOMAIN ddl, ddl[i].kind = "create"
      PROVE  Last(ddl[i].name) = ddl[i].name
  <2>1. ddl[i].name \in Name /\ Len(ddl[i].name) = 1
    BY <1>2, StatementType DEF PlainDDL
  <2>2. \A s \in Seq(Idents) : Len(s) = 1 => s = <<s[1]>>
    OBVIOUS
  <2> QED BY <2>1, <2>2 DEF Last, Name
<1>3. CreatesUpTo(name, Len(ddl)) = Creates(name)
  BY <1>1, <1>2 DEF CreatesUpTo, Creates
<1>4. ASSUME name \in DOMAIN schema
      PROVE  \E i \in Creates(name) : schema[name] = ddl[i].table
  BY <1>3, <1>4 DEF SchemaIsLast
<1>5. ASSUME NEW i \in Creates(name)
      PROVE  name \in DOMAIN schema
  <2>1. i \in 1..Len(ddl) /\ ddl[i].kind = "create" /\ ddl[i].name = name
    BY <1>1 DEF Creates
  <2>2. Last(ddl[i].name) \in DOMAIN schema
    BY <2>1 DEF SchemaIsLast
  <2> QED BY <1>1, <1>2, <2>1, <2>2
<1>6. ASSUME NEW i \in Creates(name), schema[name] = ddl[i].table
      PROVE  ColumnsOf(name) = schema[name].cols /\ KeyOf(name) = schema[name].key
  <2>1. Creates(name) = {i}
    BY DEF Creates, PlainDDL
  <2>2. Alters(name) = {}
    BY DEF Alters, PlainDDL
  <2>3. ColumnsOf(name) = UNION {ddl[j].table.cols : j \in {i}}
    BY <2>1, <2>2 DEF ColumnsOf
  <2>4. \A d \in ColumnsOf(name) : ~d.key
    BY <2>3 DEF PlainDDL, Creates
  <2>5. {c.name : c \in {d \in ColumnsOf(name) : d.key}} = {}
    BY <2>4
  <2>6. KeyOf(name) = UNION {ddl[j].table.key : j \in {i}}
    <3>1. KeyOf(name) = UNION {ddl[j].table.key : j \in Creates(name)} \cup {c.name : c \in {d \in ColumnsOf(name) : d.key}}
      BY DEF KeyOf
    <3> QED BY <2>1, <2>5, <3>1
  <2> QED BY <1>6, <2>3, <2>6
<1> QED BY <1>4, <1>5, <1>6

\* With quoted keys only, nothing is reported of a map that fits its table.
LEMMA MapVerdict ==
  ASSUME NEW i, NEW c \in Call, NEW t \in Table, \A k \in c.keys : k.kind = "quoted",
         \A d, e \in t.cols : d.name = e.name => d = e
  PROVE  MapDiags(i, c, t) = {} <=>
           /\ \A w \in {k.value : k \in c.keys} : \E d \in t.cols : d.name = w /\ d.default # "generated"
           /\ c.fn \in {"InsertMap", "InsertOrUpdateMap"} =>
                \A d \in {e \in t.cols : e.notNull /\ e.default = "none"} : d.name \in {k.value : k \in c.keys}
           /\ c.fn = "UpdateMap" => t.key \subseteq {k.value : k \in c.keys}
<1> DEFINE names == {k.value : k \in c.keys}
           unknown == {m \in names : ColumnByName(t, m) = {}}
           generated == {m \in names : \E d \in ColumnByName(t, m) : d.default = "generated"}
           missing == IF c.fn \in {"InsertMap", "InsertOrUpdateMap"} THEN RequiredColumns(t) \ names ELSE {}
           missingKey == IF c.fn = "UpdateMap" THEN t.key \ names ELSE {}
<1>1. {k \in c.keys : k.kind # "expr"} = c.keys
  OBVIOUS
<1>2. {Trimmed(k) : k \in c.keys} = names
  BY DEF Trimmed
<1>3. MapDiags(i, c, t) = {Diagnostic(i, "key literal", k.value) : k \in {}}
                            \cup {Diagnostic(i, "unknown column", n) : n \in unknown}
                            \cup {Diagnostic(i, "generated column", n) : n \in generated}
                            \cup {Diagnostic(i, "missing column", n) : n \in missing}
                            \cup {Diagnostic(i, "missing key", n) : n \in missingKey}
  BY <1>1, <1>2 DEF MapDiags
<1>4. unknown = {} /\ generated = {} <=>
        \A w \in names : \E d \in t.cols : d.name = w /\ d.default # "generated"
  <2> HIDE DEF names
  <2>1. ASSUME NEW w \in names
        PROVE  w \notin unknown /\ w \notin generated <=>
                 \E d \in t.cols : d.name = w /\ d.default # "generated"
    BY DEF ColumnByName
  <2>2. unknown \subseteq names /\ generated \subseteq names
    OBVIOUS
  <2> HIDE DEF unknown, generated
  <2> QED BY <2>1, <2>2
<1>5. missing = {} <=> (c.fn \in {"InsertMap", "InsertOrUpdateMap"} =>
        \A d \in {e \in t.cols : e.notNull /\ e.default = "none"} : d.name \in names)
  BY DEF RequiredColumns
<1>6. missingKey = {} <=> (c.fn = "UpdateMap" => t.key \subseteq names)
  OBVIOUS
<1> HIDE DEF names, unknown, generated, missing, missingKey
<1>7. MapDiags(i, c, t) = {} <=> unknown = {} /\ generated = {} /\ missing = {} /\ missingKey = {}
  BY <1>3
<1> QED BY <1>4, <1>5, <1>6, <1>7 DEF names

LEMMA Verdict_Holds ==
  ASSUME TypeOK, SchemaIsLast, Found
  PROVE  Verdict
<1> SUFFICES ASSUME pc = "done", file.spanner # "", PlainDDL, NEW i \in DOMAIN file.calls,
                    IsMutation(file.calls[i]), PlainCall(file.calls[i])
             PROVE  Accepts(file.calls[i]) <=> \A d \in diags : d.call # i
  BY DEF Verdict
<1> DEFINE c == file.calls[i]
           name == c.table.value
<1>1. c \in Call /\ i < next
  <2>1. c \in Call /\ i < Len(file.calls) + 1
    BY CallAt
  <2>2. next = Len(file.calls) + 1
    BY DEF Found
  <2> QED BY <2>1, <2>2
<1>2. DiagsOf(i) = CallDiags(i, c)
  BY <1>1 DEF Found
<1>3. name \in Name
  BY <1>1 DEF Call, Expr
<1>4. Trimmed(c.table) = name /\ c.table.kind # "expr" /\ c.literal /\ \A k \in c.keys : k.kind = "quoted"
  BY DEF PlainCall, Trimmed
<1>5. CASE name \notin DOMAIN schema
  <2>1. CallDiags(i, c) # {}
    BY <1>4, <1>5 DEF CallDiags
  <2>2. ~Accepts(c)
    BY <1>3, <1>5, PlainTable DEF Accepts
  <2> QED BY <1>2, <2>1, <2>2 DEF DiagsOf
<1>6. CASE name \in DOMAIN schema
  <2> DEFINE t == schema[name]
  <2>1. CallDiags(i, c) = MapDiags(i, c, t)
    BY <1>4, <1>6 DEF CallDiags
  <2>2. Creates(name) # {} /\ ColumnsOf(name) = t.cols /\ KeyOf(name) = t.key
    BY <1>3, <1>6, PlainTable
  <2>3. t \in Table /\ \A d, e \in t.cols : d.name = e.name => d = e
    <3>1. PICK j \in CreatesUpTo(name, Len(ddl)) : t = ddl[j].table
      BY <1>6 DEF SchemaIsLast
    <3>2. j \in DOMAIN ddl
      BY <3>1, Types DEF CreatesUpTo
    <3> QED BY <3>1, <3>2, StatementType, DistinctColumns DEF TypeOK
  <2> HIDE DEF t
  <2>4. MapDiags(i, c, t) = {} <=> Accepts(c)
    <3>1. MapDiags(i, c, t) = {} <=>
            /\ \A w \in {k.value : k \in c.keys} : \E d \in t.cols : d.name = w /\ d.default # "generated"
            /\ c.fn \in {"InsertMap", "InsertOrUpdateMap"} =>
                 \A d \in {e \in t.cols : e.notNull /\ e.default = "none"} : d.name \in {k.value : k \in c.keys}
            /\ c.fn = "UpdateMap" => t.key \subseteq {k.value : k \in c.keys}
      BY <1>1, <1>4, <2>3, MapVerdict
    <3> QED BY <2>2, <3>1 DEF Accepts
  <2> QED BY <1>2, <2>1, <2>4 DEF DiagsOf
<1> QED BY <1>5, <1>6

\* lint-mutation reports a plain call if and only if Spanner would refuse it.
THEOREM Spec_Verdict == Spec => []Verdict
<1>1. TypeOK /\ SchemaIsLast /\ Found => Verdict
  BY Verdict_Holds
<1> QED BY <1>1, Spec_TypeOK, Spec_SchemaIsLast, Spec_Found, PTL
-----------------------------------------------------------------------------
(***************************************************************************)
(* "write code -> lint -> fix" comes to an end.  A repair takes a call     *)
(* from each of these stages to the next.                                  *)
(***************************************************************************)
Named(c) == c.table.kind # "expr"
Known(c) == Named(c) /\ Trimmed(c.table) \in DOMAIN schema
Literal(c) == Known(c) /\ c.literal

TableOf(c) == schema[Trimmed(c.table)]
NamesOf(keys) == {Trimmed(k) : k \in {m \in keys : m.kind # "expr"}}
Needed(c, t) ==
  (IF c.fn \in {"InsertMap", "InsertOrUpdateMap"} THEN RequiredColumns(t) ELSE {})
    \cup (IF c.fn = "UpdateMap" THEN t.key ELSE {})
Wrong(t, n) == ColumnByName(t, n) = {} \/ \E d \in ColumnByName(t, n) : d.default = "generated"

Complete(c) ==
  /\ Literal(c)
  /\ \A k \in c.keys : k.kind # "expr"
  /\ Needed(c, TableOf(c)) \subseteq NamesOf(c.keys)

Clean(c) == Complete(c) /\ \A n \in NamesOf(c.keys) : ~Wrong(TableOf(c), n)

StageAfter(c, r) ==
  /\ r >= 1 => Named(c)
  /\ r >= 2 => Known(c)
  /\ r >= 3 => Literal(c)
  /\ r >= 4 => Complete(c)
  /\ r >= 5 => Clean(c)

Staged ==
  /\ pc = "ddl" => repairs = 0
  /\ repairs <= 5
  /\ \A i \in DOMAIN file.calls : IsMutation(file.calls[i]) => StageAfter(file.calls[i], repairs)

\* A column that must be there can be written.
LEMMA NeededRight ==
  ASSUME TypeOK, SchemaIsLast, KeysWritable, pc # "ddl",
         NEW c, Known(c), NEW n \in Needed(c, TableOf(c))
  PROVE  ~Wrong(TableOf(c), n)
<1> DEFINE t == TableOf(c)
<1>1. PICK j \in DOMAIN ddl : ddl[j].kind = "create" /\ t = ddl[j].table
  BY Types DEF SchemaIsLast, CreatesUpTo, Known, TableOf
<1>2. \A d, e \in t.cols : d.name = e.name => d = e
  BY <1>1, DistinctColumns DEF TypeOK
<1>3. \A m \in t.key : \E d \in t.cols : d.name = m
  <2>1. ddl \in DDLs
    BY DEF TypeOK
  <2> QED BY <1>1, <2>1, KeyColumns
<1>4. \A d \in t.cols : d.default = "generated" => d.name \notin t.key
  BY <1>1 DEF KeysWritable
<1> HIDE DEF t
<1>5. CASE n \in RequiredColumns(t)
  BY <1>2, <1>5 DEF RequiredColumns, Wrong, ColumnByName, t
<1>6. CASE n \in t.key
  BY <1>3, <1>4, <1>6 DEF Wrong, ColumnByName, t
<1> QED BY <1>5, <1>6 DEF Needed, t

\* The fields of a diagnostic tell it from the others.
LEMMA DiagnosticFields ==
  ASSUME NEW i, NEW r, NEW n
  PROVE  Diagnostic(i, r, n).call = i /\ Diagnostic(i, r, n).rule = r /\ Diagnostic(i, r, n).name = n
BY DEF Diagnostic

By(i, r, S) == {Diagnostic(i, r, m) : m \in S}

LEMMA DiagnosticIn ==
  ASSUME NEW i, NEW rule, NEW r, NEW S, NEW n
  PROVE  Diagnostic(i, rule, n) \in By(i, r, S) <=> rule = r /\ n \in S
<1> USE DEF By
<1>1. ASSUME Diagnostic(i, rule, n) \in By(i, r, S)
      PROVE  rule = r /\ n \in S
  <2>1. PICK m \in S : Diagnostic(i, rule, n) = Diagnostic(i, r, m)
    BY <1>1, Zenon
  <2>2. rule = Diagnostic(i, r, m).rule /\ n = Diagnostic(i, r, m).name
    BY <2>1, DiagnosticFields
  <2>3. rule = r /\ n = m
    BY <2>2, DiagnosticFields
  <2> QED BY <2>3
<1> QED BY <1>1, Zenon

\* What is reported of a call by a rule.
LEMMA ReportedIs ==
  ASSUME NEW i, NEW S, DiagsOf(i) = S, NEW rule, NEW n,
         \A d \in S : \E r, m : d = Diagnostic(i, r, m)
  PROVE  n \in Reported(i, rule) <=> Diagnostic(i, rule, n) \in S
<1>1. n \in Reported(i, rule) <=> \E d \in diags : d.call = i /\ d.rule = rule /\ d.name = n
  BY DEF Reported
<1>2. \A d : d \in S <=> d \in diags /\ d.call = i
  BY DEF DiagsOf
<1>3. ASSUME NEW d \in S, d.rule = rule, d.name = n
      PROVE  d = Diagnostic(i, rule, n)
  <2>1. PICK r, m : d = Diagnostic(i, r, m)
    OBVIOUS
  <2>2. r = d.rule /\ m = d.name
    BY <2>1, DiagnosticFields
  <2> QED BY <1>3, <2>1, <2>2
<1>4. ASSUME Diagnostic(i, rule, n) \in S
      PROVE  \E d \in diags : d.call = i /\ d.rule = rule /\ d.name = n
  BY <1>2, <1>4, DiagnosticFields
<1> QED BY <1>1, <1>2, <1>3, <1>4

\* What is reported of a call whose map is inspected.
LEMMA MapReports ==
  ASSUME NEW i, NEW c, NEW t, DiagsOf(i) = MapDiags(i, c, t)
  PROVE  /\ Reported(i, "table literal") = {} /\ Reported(i, "unknown table") = {}
         /\ Reported(i, "map literal") = {}
         /\ \A k \in c.keys : k.kind = "expr" => k.value \in Reported(i, "key literal")
         /\ Reported(i, "unknown column") \cup Reported(i, "generated column") =
              {n \in NamesOf(c.keys) : Wrong(t, n)}
         /\ Reported(i, "missing column") \cup Reported(i, "missing key") = Needed(c, t) \ NamesOf(c.keys)
<1> DEFINE names == NamesOf(c.keys)
           exprs == {k.value : k \in {m \in c.keys : m.kind = "expr"}}
           unknown == {m \in names : ColumnByName(t, m) = {}}
           generated == {m \in names : \E d \in ColumnByName(t, m) : d.default = "generated"}
           missing == IF c.fn \in {"InsertMap", "InsertOrUpdateMap"} THEN RequiredColumns(t) \ names ELSE {}
           missingKey == IF c.fn = "UpdateMap" THEN t.key \ names ELSE {}
<1>1. c.keys \ {k \in c.keys : k.kind # "expr"} = {m \in c.keys : m.kind = "expr"}
  OBVIOUS
<1>2. MapDiags(i, c, t) = {Diagnostic(i, "key literal", k.value) : k \in {m \in c.keys : m.kind = "expr"}}
                            \cup By(i, "unknown column", unknown)
                            \cup By(i, "generated column", generated)
                            \cup By(i, "missing column", missing)
                            \cup By(i, "missing key", missingKey)
  BY <1>1, Zenon DEF MapDiags, NamesOf, By
<1>3. {Diagnostic(i, "key literal", k.value) : k \in {m \in c.keys : m.kind = "expr"}}
        = By(i, "key literal", exprs)
  BY DEF By
<1> HIDE DEF names, exprs, unknown, generated, missing, missingKey
<1>4. \A rule, r, S, n : Diagnostic(i, rule, n) \in By(i, r, S) <=> rule = r /\ n \in S
  BY DiagnosticIn, Zenon
<1>6. \A d \in MapDiags(i, c, t) : \E r, m : d = Diagnostic(i, r, m)
  BY <1>2, <1>3, Zenon DEF By
<1>7. \A rule, n : n \in Reported(i, rule) <=> Diagnostic(i, rule, n) \in MapDiags(i, c, t)
  BY <1>6, ReportedIs, Zenon
<1>5. \A rule, n : n \in Reported(i, rule) <=>
                      \/ Diagnostic(i, rule, n) \in By(i, "key literal", exprs)
                      \/ Diagnostic(i, rule, n) \in By(i, "unknown column", unknown)
                      \/ Diagnostic(i, rule, n) \in By(i, "generated column", generated)
                      \/ Diagnostic(i, rule, n) \in By(i, "missing column", missing)
                      \/ Diagnostic(i, rule, n) \in By(i, "missing key", missingKey)
  BY <1>2, <1>3, <1>7, Zenon
<1>8. \A rule, n : n \in Reported(i, rule) <=> \/ rule = "key literal" /\ n \in exprs
                                               \/ rule = "unknown column" /\ n \in unknown
                                               \/ rule = "generated column" /\ n \in generated
                                               \/ rule = "missing column" /\ n \in missing
                                               \/ rule = "missing key" /\ n \in missingKey
  BY <1>4, <1>5, Zenon
<1>9. \A n : n \in Reported(i, "unknown column") <=> n \in unknown
  <2>1. "unknown column" \notin {"key literal", "generated column", "missing column", "missing key"}
    OBVIOUS
  <2> QED BY <1>8, <2>1, Zenon
<1>10. \A n : n \in Reported(i, "generated column") <=> n \in generated
  <2>1. "generated column" \notin {"key literal", "unknown column", "missing column", "missing key"}
    OBVIOUS
  <2> QED BY <1>8, <2>1, Zenon
<1>11. \A n : n \in Reported(i, "missing column") <=> n \in missing
  <2>1. "missing column" \notin {"key literal", "unknown column", "generated column", "missing key"}
    OBVIOUS
  <2> QED BY <1>8, <2>1, Zenon
<1>12. \A n : n \in Reported(i, "missing key") <=> n \in missingKey
  <2>1. "missing key" \notin {"key literal", "unknown column", "generated column", "missing column"}
    OBVIOUS
  <2> QED BY <1>8, <2>1, Zenon
<1>13. \A n : n \in Reported(i, "key literal") <=> n \in exprs
  <2>1. "key literal" \notin {"unknown column", "generated column", "missing column", "missing key"}
    OBVIOUS
  <2> QED BY <1>8, <2>1, Zenon
<1>14. \A rule \in {"table literal", "unknown table", "map literal"} : \A n : n \notin Reported(i, rule)
  <2>1. ASSUME NEW rule \in {"table literal", "unknown table", "map literal"}
        PROVE  rule \notin {"key literal", "unknown column", "generated column", "missing column", "missing key"}
    OBVIOUS
  <2> QED BY <1>8, <2>1, Zenon
<1>15. \A n \in names : Wrong(t, n) <=> n \in unknown \/ n \in generated
  BY DEF unknown, generated, Wrong
<1>16. \A n : n \in unknown \/ n \in generated => n \in names
  BY DEF unknown, generated
<1>17. Reported(i, "unknown column") \cup Reported(i, "generated column") = {n \in names : Wrong(t, n)}
  BY <1>9, <1>10, <1>15, <1>16, Zenon
<1>18. \A n : n \in missing \/ n \in missingKey <=> n \in Needed(c, t) /\ n \notin names
  BY DEF missing, missingKey, Needed
<1>19. Reported(i, "missing column") \cup Reported(i, "missing key") = Needed(c, t) \ names
  BY <1>11, <1>12, <1>18, Zenon
<1>20. \A k \in c.keys : k.kind = "expr" => k.value \in Reported(i, "key literal")
  BY <1>13, Zenon DEF exprs
<1>21. Reported(i, "table literal") = {} /\ Reported(i, "unknown table") = {} /\ Reported(i, "map literal") = {}
  BY <1>14, Zenon
<1> QED BY <1>17, <1>19, <1>20, <1>21 DEF names
-----------------------------------------------------------------------------
(* One repair. *)

\* What is reported of a call without its map.
LEMMA OneReport ==
  ASSUME NEW i, NEW rule, NEW name, DiagsOf(i) = {Diagnostic(i, rule, name)}, NEW r
  PROVE  Reported(i, r) # {} <=> r = rule
<1>1. \A d \in {Diagnostic(i, rule, name)} : \E s, m : d = Diagnostic(i, s, m)
  OBVIOUS
<1>2. \A n : n \in Reported(i, r) <=> Diagnostic(i, r, n) \in {Diagnostic(i, rule, name)}
  BY <1>1, ReportedIs, Zenon
<1>3. \A n : Diagnostic(i, r, n) = Diagnostic(i, rule, name) => r = rule
  <2>1. \A n : Diagnostic(i, r, n).rule = r /\ Diagnostic(i, rule, name).rule = rule
    BY DEF Diagnostic
  <2> QED BY <2>1
<1>4. r = rule => name \in Reported(i, r)
  BY <1>2, Zenon
<1> QED BY <1>2, <1>3, <1>4, Zenon

RepairedTable(i, c, table) ==
  CASE Reported(i, "table literal") # {} -> Quoted(c.table.value)
    [] Reported(i, "unknown table") # {} -> Quoted(table)
    [] OTHER -> c.table

RepairedLiteral(i, c) == c.literal \/ Reported(i, "map literal") # {}

LEMMA RepairedIs ==
  ASSUME NEW i, NEW c \in Call, NEW table, NEW d, d = Repaired(i, c, table)
  PROVE  /\ d.pkg = c.pkg /\ d.fn = c.fn
         /\ d.table = RepairedTable(i, c, table)
         /\ d.literal = RepairedLiteral(i, c)
         /\ d.keys = RepairedKeys(i, c.keys)
<1>1. d = [c EXCEPT !.table = RepairedTable(i, c, table), !.literal = RepairedLiteral(i, c),
                    !.keys = RepairedKeys(i, c.keys)]
  BY Zenon DEF Repaired, RepairedTable, RepairedLiteral
<1> QED BY <1>1 DEF Call

LEMMA KeysAreRepaired ==
  ASSUME NEW i, NEW c \in Call, NEW table, NEW d, d = Repaired(i, c, table)
  PROVE  d.keys = RepairedKeys(i, c.keys) /\ d.fn = c.fn
<1>1. d.keys = RepairedKeys(i, c.keys)
  BY RepairedIs
<1>2. d.fn = c.fn
  BY RepairedIs
<1> QED BY <1>1, <1>2

LEMMA TableCases ==
  ASSUME NEW i, NEW c, NEW table, NEW t, t = RepairedTable(i, c, table)
  PROVE  /\ Reported(i, "table literal") # {} /\ Reported(i, "unknown table") = {} => t = Quoted(c.table.value)
         /\ Reported(i, "table literal") = {} /\ Reported(i, "unknown table") # {} => t = Quoted(table)
         /\ Reported(i, "table literal") = {} /\ Reported(i, "unknown table") = {} => t = c.table
<1>1. \A A, B, x, y, z :
        /\ A # {} /\ B = {} => (CASE A # {} -> x [] B # {} -> y [] OTHER -> z) = x
        /\ A = {} /\ B # {} => (CASE A # {} -> x [] B # {} -> y [] OTHER -> z) = y
        /\ A = {} /\ B = {} => (CASE A # {} -> x [] B # {} -> y [] OTHER -> z) = z
  OBVIOUS
<1> QED BY <1>1, Zenon DEF RepairedTable

LEMMA TrimmedQuoted ==
  ASSUME NEW n
  PROVE  Trimmed(Quoted(n)) = n /\ Quoted(n).kind # "expr" /\ Quoted(n).value = n
BY DEF Trimmed, Quoted

\* The table literal, then a table of the schema, then the map literal.
LEMMA TableRepaired ==
  ASSUME NEW i, NEW c \in Call, NEW table \in DOMAIN schema, DiagsOf(i) = CallDiags(i, c)
  PROVE  LET d == Repaired(i, c, table)
         IN  /\ Named(d)
             /\ Named(c) => Known(d)
             /\ Known(c) => d.table = c.table /\ Literal(d)
<1> DEFINE d == Repaired(i, c, table)
<1>5. d = Repaired(i, c, table)
  OBVIOUS
<1> HIDE DEF d
<1>4. d.table = RepairedTable(i, c, table)
  BY <1>5, RepairedIs
<1>6. d.literal = RepairedLiteral(i, c)
  BY <1>5, RepairedIs
<1>1. CASE ~Named(c)
  <2>1. DiagsOf(i) = {Diagnostic(i, "table literal", <<>>)}
    BY <1>1 DEF Named, CallDiags
  <2>4. "unknown table" # "table literal"
    OBVIOUS
  <2>2. Reported(i, "table literal") # {} /\ Reported(i, "unknown table") = {}
    BY <2>1, <2>4, OneReport, Zenon
  <2>3. d.table = Quoted(c.table.value)
    BY <1>4, <2>2, TableCases
  <2> QED BY <1>1, <2>3, TrimmedQuoted, Zenon DEF Named, Known, d
<1>2. CASE Named(c) /\ Trimmed(c.table) \notin DOMAIN schema
  <2>1. DiagsOf(i) = {Diagnostic(i, "unknown table", <<>>)}
    BY <1>2 DEF Named, CallDiags
  <2>2. "table literal" # "unknown table"
    OBVIOUS
  <2>3. Reported(i, "table literal") = {} /\ Reported(i, "unknown table") # {}
    BY <2>1, <2>2, OneReport, Zenon
  <2>4. d.table = Quoted(table)
    BY <1>4, <2>3, TableCases
  <2>5. ~Known(c)
    BY <1>2 DEF Known
  <2> QED BY <2>4, <2>5, TrimmedQuoted, Zenon DEF Named, Known, d
<1>3. CASE Known(c)
  <2>1. /\ Reported(i, "table literal") = {} /\ Reported(i, "unknown table") = {}
        /\ c.literal \/ Reported(i, "map literal") # {}
    <3>1. CASE c.literal
      <4>1. DiagsOf(i) = MapDiags(i, c, TableOf(c))
        BY <1>3, <3>1 DEF Named, Known, CallDiags, TableOf
      <4> QED BY <3>1, <4>1, MapReports, Zenon
    <3>2. CASE ~c.literal
      <4>1. DiagsOf(i) = {Diagnostic(i, "map literal", <<>>)}
        BY <1>3, <3>2 DEF Named, Known, CallDiags
      <4>2. "table literal" # "map literal" /\ "unknown table" # "map literal"
        OBVIOUS
      <4> QED BY <4>1, <4>2, OneReport, Zenon
    <3> QED BY <3>1, <3>2
  <2>2. d.table = c.table
    BY <1>4, <2>1, TableCases
  <2>3. d.literal
    BY <1>6, <2>1, Zenon DEF RepairedLiteral
  <2> QED BY <1>3, <2>2, <2>3, Zenon DEF Literal, Known, Named, d
<1> QED BY <1>1, <1>2, <1>3, Zenon DEF Known, d

\* What becomes of the keys of a map that was inspected.
LEMMA KeysRepaired ==
  ASSUME NEW i, NEW c \in Call, NEW t, DiagsOf(i) = MapDiags(i, c, t)
  PROVE  /\ \A k \in RepairedKeys(i, c.keys) :
              \/ \E m \in c.keys : m.kind = "expr" /\ k = Quoted(m.value)
              \/ k \in c.keys /\ k.kind # "expr" /\ ~Wrong(t, Trimmed(k))
              \/ \E n \in Needed(c, t) \ NamesOf(c.keys) : k = Quoted(n)
         /\ \A k \in c.keys : k.kind # "expr" /\ ~Wrong(t, Trimmed(k)) => k \in RepairedKeys(i, c.keys)
         /\ \A n \in Needed(c, t) \ NamesOf(c.keys) : Quoted(n) \in RepairedKeys(i, c.keys)
<1> DEFINE wrong == Reported(i, "unknown column") \cup Reported(i, "generated column")
           missing == Reported(i, "missing column") \cup Reported(i, "missing key")
           kept == {m \in c.keys : m.kind = "expr" \/ Trimmed(m) \notin wrong}
           fixed(k) == IF k.kind = "expr" /\ k.value \in Reported(i, "key literal") THEN Quoted(k.value) ELSE k
<1>1. RepairedKeys(i, c.keys) = {fixed(k) : k \in kept} \cup {Quoted(n) : n \in missing}
  BY Zenon DEF RepairedKeys
<1>2. /\ \A k \in c.keys : k.kind = "expr" => k.value \in Reported(i, "key literal")
      /\ wrong = {n \in NamesOf(c.keys) : Wrong(t, n)}
      /\ missing = Needed(c, t) \ NamesOf(c.keys)
  BY MapReports, Zenon
<1>3. \A k \in c.keys : /\ k.kind = "expr" => fixed(k) = Quoted(k.value)
                        /\ k.kind # "expr" => fixed(k) = k
  BY <1>2
<1>4. \A k \in c.keys : k.kind # "expr" => (k \in kept <=> ~Wrong(t, Trimmed(k)))
  <2>1. \A k \in c.keys : k.kind # "expr" => Trimmed(k) \in NamesOf(c.keys)
    BY DEF NamesOf
  <2> QED BY <1>2, <2>1, Zenon
<1>5. kept \subseteq c.keys
  OBVIOUS
<1> HIDE DEF wrong, missing, kept, fixed
<1>6. ASSUME NEW k \in RepairedKeys(i, c.keys)
      PROVE  \/ \E m \in c.keys : m.kind = "expr" /\ k = Quoted(m.value)
             \/ k \in c.keys /\ k.kind # "expr" /\ ~Wrong(t, Trimmed(k))
             \/ \E n \in Needed(c, t) \ NamesOf(c.keys) : k = Quoted(n)
  <2>1. CASE \E m \in kept : k = fixed(m)
    BY <1>3, <1>4, <1>5, <2>1, Zenon
  <2>2. CASE \E n \in missing : k = Quoted(n)
    BY <1>2, <2>2, Zenon
  <2> QED BY <1>1, <1>6, <2>1, <2>2, Zenon
<1>7. ASSUME NEW k \in c.keys, k.kind # "expr", ~Wrong(t, Trimmed(k))
      PROVE  k \in RepairedKeys(i, c.keys)
  <2>1. k \in kept /\ fixed(k) = k
    BY <1>3, <1>4, <1>7, Zenon
  <2>2. fixed(k) \in {fixed(m) : m \in kept}
    BY <2>1, Zenon
  <2> QED BY <1>1, <2>1, <2>2, Zenon
<1>8. ASSUME NEW n \in Needed(c, t) \ NamesOf(c.keys)
      PROVE  Quoted(n) \in RepairedKeys(i, c.keys)
  <2>1. n \in missing
    BY <1>2, Zenon
  <2>2. Quoted(n) \in {Quoted(m) : m \in missing}
    BY <2>1, Zenon
  <2> QED BY <1>1, <2>2, Zenon
<1> QED BY <1>6, <1>7, <1>8, Zenon

\* Then the keys, and what they turn out to be.
LEMMA MapRepaired ==
  ASSUME TypeOK, SchemaIsLast, KeysWritable, pc # "ddl",
         NEW i, NEW c \in Call, NEW table \in DOMAIN schema, DiagsOf(i) = CallDiags(i, c), Literal(c)
  PROVE  /\ Complete(Repaired(i, c, table))
         /\ Complete(c) => Clean(Repaired(i, c, table))
<1> DEFINE d == Repaired(i, c, table)
           t == TableOf(c)
           keys == RepairedKeys(i, c.keys)
<1>1. DiagsOf(i) = MapDiags(i, c, t)
  BY DEF Literal, Known, Named, CallDiags, TableOf
<1>2. d.table = c.table /\ d.fn = c.fn /\ d.keys = keys /\ Literal(d)
  <2>1. Known(c)
    BY DEF Literal
  <2>2. d.table = c.table /\ Literal(d)
    BY <2>1, TableRepaired, Zenon
  <2>3. d.fn = c.fn /\ d.keys = keys
    <3>1. d = Repaired(i, c, table)
      OBVIOUS
    <3> HIDE DEF d
    <3> QED BY <3>1, KeysAreRepaired
  <2> QED BY <2>2, <2>3
<1>3. TableOf(d) = t /\ Needed(d, t) = Needed(c, t)
  BY <1>2, Zenon DEF TableOf, Needed
<1> HIDE DEF d
<1>4. /\ \A k \in keys : \/ \E m \in c.keys : m.kind = "expr" /\ k = Quoted(m.value)
                         \/ k \in c.keys /\ k.kind # "expr" /\ ~Wrong(t, Trimmed(k))
                         \/ \E n \in Needed(c, t) \ NamesOf(c.keys) : k = Quoted(n)
      /\ \A k \in c.keys : k.kind # "expr" /\ ~Wrong(t, Trimmed(k)) => k \in keys
      /\ \A n \in Needed(c, t) \ NamesOf(c.keys) : Quoted(n) \in keys
  BY <1>1, KeysRepaired, Zenon
<1>5. \A n \in Needed(c, t) : ~Wrong(t, n)
  <2>1. Known(c)
    BY DEF Literal
  <2> QED BY <2>1, NeededRight
<1> HIDE DEF t, keys
<1>13. \A n : Quoted(n).kind # "expr"
  BY TrimmedQuoted, Zenon
<1>6. \A k \in keys : k.kind # "expr"
  BY <1>4, <1>13, Zenon
<1>7. NamesOf(keys) = {Trimmed(k) : k \in keys}
  <2>1. {m \in keys : m.kind # "expr"} = keys
    BY <1>6
  <2> QED BY <2>1 DEF NamesOf
<1>8. ASSUME NEW n \in Needed(c, t)
      PROVE  n \in NamesOf(keys)
  <2>1. CASE n \in NamesOf(c.keys)
    <3>1. PICK k \in c.keys : k.kind # "expr" /\ n = Trimmed(k)
      BY <2>1, Zenon DEF NamesOf
    <3>2. k \in keys
      BY <1>4, <1>5, <3>1, Zenon
    <3> QED BY <1>7, <3>1, <3>2, Zenon
  <2>2. CASE n \notin NamesOf(c.keys)
    <3>1. Quoted(n) \in keys
      BY <1>4, <2>2, Zenon
    <3> QED BY <1>7, <3>1, TrimmedQuoted, Zenon
  <2> QED BY <2>1, <2>2
<1>9. Complete(d)
  BY <1>2, <1>3, <1>6, <1>8, Zenon DEF Complete
<1>10. ASSUME Complete(c), NEW k \in keys
       PROVE  ~Wrong(t, Trimmed(k))
  <2>1. (\A m \in c.keys : m.kind # "expr") /\ Needed(c, t) \subseteq NamesOf(c.keys)
    BY <1>10 DEF Complete, t
  <2> QED BY <1>4, <2>1, Zenon
<1>11. ASSUME Complete(c), NEW n \in NamesOf(keys)
       PROVE  ~Wrong(t, n)
  <2>1. PICK k \in keys : n = Trimmed(k)
    BY <1>7, Zenon
  <2> QED BY <1>10, <1>11, <2>1, Zenon
<1>12. Complete(c) => Clean(d)
  BY <1>2, <1>3, <1>9, <1>11, Zenon DEF Clean
<1> QED BY <1>9, <1>12 DEF d

LEMMA StageStep ==
  ASSUME TypeOK, SchemaIsLast, KeysWritable, pc # "ddl",
         NEW i, NEW c \in Call, NEW table \in DOMAIN schema, DiagsOf(i) = CallDiags(i, c),
         NEW r \in Nat, StageAfter(c, r)
  PROVE  StageAfter(Repaired(i, c, table), r + 1)
<1> DEFINE d == Repaired(i, c, table)
<1>1. \A s \in {1, 2, 3, 4} : r + 1 >= s + 1 => r >= s
  OBVIOUS
<1>2. (r >= 1 => Named(c)) /\ (r >= 2 => Known(c)) /\ (r >= 3 => Literal(c)) /\ (r >= 4 => Complete(c))
  BY DEF StageAfter
<1>3. Named(d) /\ (Named(c) => Known(d)) /\ (Known(c) => Literal(d))
  BY TableRepaired, Zenon
<1>4. (Literal(c) => Complete(d)) /\ (Complete(c) => Clean(d))
  BY MapRepaired, Zenon DEF Complete
<1> HIDE DEF d
<1> QED BY <1>1, <1>2, <1>3, <1>4 DEF StageAfter, d

\* Nothing is reported of a clean call.
LEMMA CleanIsSilent ==
  ASSUME NEW i, NEW c \in Call, Clean(c)
  PROVE  CallDiags(i, c) = {}
<1> DEFINE t == TableOf(c)
           names == NamesOf(c.keys)
<1>1. CallDiags(i, c) = MapDiags(i, c, t)
  BY DEF Clean, Complete, Literal, Known, Named, CallDiags, TableOf
<1>2. /\ \A k \in c.keys : k.kind # "expr"
      /\ Needed(c, t) \subseteq names
      /\ \A n \in names : ~Wrong(t, n)
  BY DEF Clean, Complete
<1>3. c.keys \ {k \in c.keys : k.kind # "expr"} = {}
  BY <1>2
<1> HIDE DEF t
<1>4. /\ {m \in names : ColumnByName(t, m) = {}} = {}
      /\ {m \in names : \E d \in ColumnByName(t, m) : d.default = "generated"} = {}
  BY <1>2 DEF Wrong
<1>5. /\ (IF c.fn \in {"InsertMap", "InsertOrUpdateMap"} THEN RequiredColumns(t) \ names ELSE {}) = {}
      /\ (IF c.fn = "UpdateMap" THEN t.key \ names ELSE {}) = {}
  BY <1>2 DEF Needed
<1>6. {Diagnostic(i, "key literal", k.value) : k \in c.keys \ {m \in c.keys : m.kind # "expr"}} = {}
  BY <1>3
<1>7. names = {Trimmed(k) : k \in {m \in c.keys : m.kind # "expr"}}
  BY DEF NamesOf
<1> HIDE DEF names
<1>8. MapDiags(i, c, t) = {}
  BY <1>4, <1>5, <1>6, <1>7 DEF MapDiags
<1> QED BY <1>1, <1>8
-----------------------------------------------------------------------------
(* All repairs. *)

LEMMA BeforeRepair ==
  ASSUME TypeOK, Found, pc = "done", diags # {}, NEW i \in DOMAIN file.calls
  PROVE  DiagsOf(i) = IF IsMutation(file.calls[i]) THEN CallDiags(i, file.calls[i]) ELSE {}
<1>1. file.spanner # ""
  BY Zenon DEF Found
<1>2. next = Len(file.calls) + 1
  BY <1>1, Zenon DEF Found
<1>3. i < next
  BY <1>2, CallAt, Zenon
<1>4. pc \in {"calls", "done"}
  OBVIOUS
<1> QED BY <1>1, <1>3, <1>4, Zenon DEF Found

\* Whoever repairs a fifth time has nothing left to repair.
LEMMA FifthIsLast ==
  ASSUME TypeOK, Found, Staged, pc = "done", repairs = 5
  PROVE  diags = {}
<1> SUFFICES ASSUME NEW e \in diags PROVE FALSE
  OBVIOUS
<1> DEFINE i == e.call
           c == file.calls[i]
<1>1. i \in DOMAIN file.calls
  BY DEF TypeOK
<1>2. c \in Call
  BY <1>1, CallAt
<1>3. e \in DiagsOf(i)
  BY DEF DiagsOf
<1>4. DiagsOf(i) = IF IsMutation(c) THEN CallDiags(i, c) ELSE {}
  BY <1>1, BeforeRepair
<1>5. ASSUME IsMutation(c)
      PROVE  CallDiags(i, c) = {}
  <2>1. Clean(c)
    BY <1>1, <1>5 DEF Staged, StageAfter
  <2> QED BY <1>2, <2>1, CleanIsSilent
<1> QED BY <1>3, <1>4, <1>5

LEMMA SameStage ==
  ASSUME schema' = schema, NEW b, NEW r
  PROVE  StageAfter(b, r)' <=> StageAfter(b, r)
BY DEF StageAfter, Named, Known, Literal, Complete, Clean, TableOf, NamesOf, Needed, Wrong,
       Trimmed, RequiredColumns, ColumnByName

LEMMA RepairStaged ==
  ASSUME TypeOK, SchemaIsLast, Found, KeysWritable, Staged, Repair
  PROVE  Staged'
<1>1. /\ pc = "done" /\ diags # {} /\ pc' = "calls" /\ repairs' = repairs + 1
      /\ schema' = schema
  BY DEF Repair
<1>2. PICK table \in DOMAIN schema :
        file' = [file EXCEPT !.calls = [i \in DOMAIN file.calls |-> Repaired(i, file.calls[i], table)]]
  BY DEF Repair
<1>3. /\ file'.spanner = file.spanner
      /\ file'.calls = [i \in DOMAIN file.calls |-> Repaired(i, file.calls[i], table)]
  BY <1>2, Types
<1>4. repairs \in Nat /\ repairs <= 5 /\ repairs # 5
  <2>1. repairs # 5
    BY <1>1, FifthIsLast
  <2>2. repairs \in Nat
    BY Types
  <2> QED BY <2>1, <2>2 DEF Staged
<1>5. ASSUME NEW i \in DOMAIN file'.calls, IsMutation(file.calls[i])'
      PROVE  StageAfter(file.calls[i], repairs)'
  <2> DEFINE c == file.calls[i]
  <2>1. i \in DOMAIN file.calls /\ file'.calls[i] = Repaired(i, c, table)
    BY <1>3
  <2>2. c \in Call
    BY <2>1, CallAt
  <2>3. IsMutation(c)
    <3>1. Repaired(i, c, table).pkg = c.pkg /\ Repaired(i, c, table).fn = c.fn
      <4> DEFINE d == Repaired(i, c, table)
      <4>1. d = Repaired(i, c, table)
        OBVIOUS
      <4> HIDE DEF d
      <4>2. d.pkg = c.pkg
        BY <2>2, <4>1, RepairedIs
      <4>3. d.fn = c.fn
        BY <2>2, <4>1, RepairedIs
      <4> QED BY <4>2, <4>3 DEF d
    <3> QED BY <1>3, <1>5, <2>1, <3>1, Zenon DEF IsMutation
  <2>4. DiagsOf(i) = CallDiags(i, c)
    BY <1>1, <2>1, <2>3, BeforeRepair
  <2>5. StageAfter(c, repairs)
    BY <2>1, <2>3 DEF Staged
  <2>6. pc # "ddl"
    BY <1>1
  <2>7. StageAfter(Repaired(i, c, table), repairs + 1)
    BY <1>4, <2>2, <2>4, <2>5, <2>6, StageStep
  <2>8. \A b, r : StageAfter(b, r)' <=> StageAfter(b, r)
    BY <1>1, SameStage
  <2> QED BY <1>1, <2>1, <2>7, <2>8
<1> QED BY <1>1, <1>4, <1>5 DEF Staged

LEMMA SameStaged ==
  ASSUME UNCHANGED <<schema, file, repairs>>, Staged, pc' = "ddl" => pc = "ddl"
  PROVE  Staged'
<1>1. \A b, r : StageAfter(b, r)' <=> StageAfter(b, r)
  BY SameStage
<1>2. \A b : IsMutation(b)' <=> IsMutation(b)
  BY DEF IsMutation
<1> QED BY <1>1, <1>2 DEF Staged

LEMMA StartStaged ==
  ASSUME repairs = 0
  PROVE  Staged
<1>1. 0 <= 5 /\ ~(0 >= 1) /\ ~(0 >= 2) /\ ~(0 >= 3) /\ ~(0 >= 4) /\ ~(0 >= 5)
  OBVIOUS
<1> QED BY <1>1 DEF Staged, StageAfter

LEMMA StepStaged ==
  ASSUME TypeOK, SchemaIsLast, Found, KeysWritable, Staged, [Next]_vars
  PROVE  Staged'
<1>1. CASE ParseStatement
  <2>1. repairs' = 0
    BY <1>1 DEF ParseStatement, Staged
  <2>2. 0 <= 5 /\ ~(0 >= 1) /\ ~(0 >= 2) /\ ~(0 >= 3) /\ ~(0 >= 4) /\ ~(0 >= 5)
    OBVIOUS
  <2> QED BY <2>1, <2>2 DEF Staged, StageAfter
<1>2. CASE EndDDL
  BY <1>2, SameStaged DEF EndDDL
<1>3. CASE InspectCall
  BY <1>3, SameStaged DEF InspectCall
<1>4. CASE EndFile
  BY <1>4, SameStaged DEF EndFile
<1>5. CASE Repair
  BY <1>5, RepairStaged
<1>6. CASE UNCHANGED vars
  BY <1>6, SameStaged DEF vars
<1> QED BY <1>1, <1>2, <1>3, <1>4, <1>5, <1>6 DEF Next

Converging == KeysWritable => Staged

\* Doing what lint-mutation asks for ends after five repairs at most, whatever
\* table is taken for an unknown one.
THEOREM Spec_Converges == Spec => []Converges
<1>1. Init => Converging
  BY StartStaged DEF Init, Converging
<1>2. TypeOK /\ SchemaIsLast /\ Found /\ Converging /\ [Next]_vars => Converging'
  <2> SUFFICES ASSUME TypeOK, SchemaIsLast, Found, Converging, [Next]_vars, KeysWritable'
               PROVE  Staged'
    BY DEF Converging
  <2>1. ddl' = ddl
    BY DEF Next, ParseStatement, EndDDL, InspectCall, EndFile, Repair, vars
  <2>2. KeysWritable
    BY <2>1 DEF KeysWritable
  <2> QED BY <2>2, StepStaged DEF Converging
<1>3. Converging => Converges
  BY DEF Converging, Converges, Staged
<1> QED BY <1>1, <1>2, <1>3, Spec_TypeOK, Spec_SchemaIsLast, Spec_Found, PTL DEF Spec
=============================================================================
