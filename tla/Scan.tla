-------------------------------- MODULE Scan --------------------------------
(***************************************************************************)
(* lint-scan on one file: lintscan.go, AnalyzeScanFile.  It visits the     *)
(* calls of every function; where one has a spanner.Statement and a        *)
(* callback, analyzeFuncBody follows the row from the callback into the    *)
(* functions it is given to, until it is scanned.                          *)
(*                                                                         *)
(* The recursion of analyzeFuncBody is a stack of frames: a block, the     *)
(* name of the row in it, and the item that is looked at.                  *)
(***************************************************************************)
EXTENDS ScanSource

CONSTANTS Files         \* the files given

ASSUME Inputs == Files \subseteq File /\ Lower \in [Names -> Names] /\ "" \notin Names

\* The items of a callback follow its call.
ASSUME Nesting ==
  \A f \in Files : \A g \in DOMAIN f.funcs : f.funcs[g].body # NoBody =>
    \A i \in DOMAIN f.funcs[g].body :
      LET item == f.funcs[g].body[i]
      IN  item.k = "call" /\ item.callback # NoCallback => i + item.callback.size <= Len(f.funcs[g].body)

\* No two functions have the same name, as the compiler demands.
ASSUME DistinctFunctions ==
  \A f \in Files : \A g, h \in DOMAIN f.funcs :
    ~f.funcs[g].method /\ ~f.funcs[h].method /\ f.funcs[g].name = f.funcs[h].name => g = h

ASSUME Absent == NoBody \notin Seq(Item) /\ NoStmt \notin Stmt /\ NoCallback \notin Callback /\ NoSelect \notin Seq(Result)

VARIABLES
  file, noStar,         \* the inputs
  pc,
  fn, at,               \* the item visited
  frames,
  diags

vars == <<file, noStar, pc, fn, at, frames, diags>>

maxScanDepth == 3

Rule == {"params literal", "missing param", "unused param", "syntax", "star", "star warning",
         "undetected", "unresolved", "count", "no field", "no column"}

Diagnostic(line, rule, name) == [site |-> <<fn, at>>, line |-> line, rule |-> rule, name |-> name]

\* hasNolintComment
Suppressible(line, rule) == IF line \in file.nolint THEN {} ELSE {Diagnostic(line, rule, "")}

-----------------------------------------------------------------------------
Init ==
  /\ file \in Files /\ noStar \in BOOLEAN
  /\ pc = IF file.spanner = "" THEN "done" ELSE "inspect"
  /\ fn = 1 /\ at = 1
  /\ frames = <<>> /\ diags = {}

Visited == Body(file, fn)[at]

NextFunc ==
  /\ pc = "inspect" /\ fn <= Len(file.funcs)
  /\ file.funcs[fn].body # NoBody => at > Len(file.funcs[fn].body)
  /\ fn' = fn + 1 /\ at' = 1
  /\ UNCHANGED <<file, noStar, pc, frames, diags>>

Finish ==
  /\ pc = "inspect" /\ fn > Len(file.funcs)
  /\ pc' = "done"
  /\ UNCHANGED <<file, noStar, fn, at, frames, diags>>

\* The next item, with more to report on this one.
Report(new) ==
  /\ pc' = "inspect" /\ frames' = <<>>
  /\ diags' = diags \cup new
  /\ at' = at + 1
  /\ UNCHANGED <<file, noStar, fn>>

\* matchParams
ParamDiags(stmt) ==
  CASE stmt.has = "other" -> Suppressible(stmt.paramsLine, "params literal")
    [] stmt.has = "none" \/ (stmt.has = "literal" /\ ~stmt.query.parses) -> {}
    [] stmt.has = "literal" /\ stmt.query.parses ->
         {Diagnostic(stmt.line, "missing param", p) : p \in stmt.query.params \ stmt.keys}
           \cup {Diagnostic(stmt.line, "unused param", p) : p \in stmt.keys \ stmt.query.params}

\* extractSelectInfo and what its result is compared with.
HasSelect(query) == query.parses /\ query.select # NoSelect
HasStar(query) == \E i \in DOMAIN query.select : query.select[i].star

AtItem == pc = "inspect" /\ fn <= Len(file.funcs) /\ file.funcs[fn].body # NoBody /\ at <= Len(Body(file, fn))
AtSite == AtItem /\ Visited.k = "call" /\ Visited.stmt # NoStmt

Skip ==
  /\ AtItem /\ ~AtSite
  /\ Report({})

\* Mutant of VisitOnly: without a callback, the parameters are not checked.
VisitOnlyCallback ==
  /\ AtSite /\ ~HasCallback(Visited)
  /\ Report({})

VisitOnly ==
  /\ AtSite /\ ~HasCallback(Visited)
  /\ Report(ParamDiags(Visited.stmt))

\* The SQL is an error, or its columns are not known.
VisitQuery ==
  /\ AtSite /\ HasCallback(Visited)
  /\ LET stmt == Visited.stmt
     IN  \/ /\ ~HasSelect(stmt.query)
            /\ Report(ParamDiags(stmt) \cup {Diagnostic(stmt.line, "syntax", "")})
         \/ /\ HasSelect(stmt.query) /\ HasStar(stmt.query)
            /\ Report(ParamDiags(stmt) \cup
                      {Diagnostic(stmt.line, IF noStar THEN "star" ELSE "star warning", "")})

Frame(block, row) == [block |-> block, row |-> row, at |-> First(block)]

\* analyzeFuncBody on the callback.
Visit ==
  /\ AtSite /\ HasCallback(Visited)
  /\ HasSelect(Visited.stmt.query) /\ ~HasStar(Visited.stmt.query)
  /\ diags' = diags \cup ParamDiags(Visited.stmt)
  /\ frames' = <<Frame(<<fn, at>>, RowName(Visited.callback))>>
  /\ pc' = "walk"
  /\ UNCHANGED <<file, noStar, fn, at>>

-----------------------------------------------------------------------------
(* analyzeFuncBody. *)

ItemOf(frame) == Body(file, frame.block[1])[frame.at]

Top == frames[Len(frames)]
AtEnd == Top.at > End(file, Top.block)
Above == SubSeq(frames, 1, Len(frames) - 1)

Advanced(stack) == [stack EXCEPT ![Len(stack)].at = @ + 1]

\* row.Columns(...), or row.ToStruct(...) with one argument.
Scans(frame) ==
  LET item == ItemOf(frame)
  IN  /\ item.k \in {"Columns", "ToStruct"} /\ item.on = frame.row
      /\ item.k = "ToStruct" => item.args = 1

\* The functions of the file that are given the row.
Callees(frame) ==
  LET item == ItemOf(frame)
  IN  IF item.k = "call" /\ frame.row \in item.args
        THEN {f \in Declared(file, item.fn) : RowParam(file.funcs[f]) # ""}
        ELSE {}

Found ==
  /\ pc = "walk" /\ ~AtEnd /\ Scans(Top)
  /\ pc' = "found"
  /\ UNCHANGED <<file, noStar, fn, at, frames, diags>>

\* Mutant of Enter: one call deeper.
EnterDeeper ==
  /\ pc = "walk" /\ ~AtEnd /\ Len(frames) - 1 <= maxScanDepth
  /\ \E f \in Callees(Top) :
       /\ file.funcs[f].body # NoBody
       /\ frames' = Append(frames, Frame(<<f, 0>>, RowParam(file.funcs[f])))
  /\ UNCHANGED <<file, noStar, pc, fn, at, diags>>

Enter ==
  /\ pc = "walk" /\ ~AtEnd /\ Len(frames) - 1 < maxScanDepth
  /\ \E f \in Callees(Top) :
       /\ file.funcs[f].body # NoBody
       /\ frames' = Append(frames, Frame(<<f, 0>>, RowParam(file.funcs[f])))
  /\ UNCHANGED <<file, noStar, pc, fn, at, diags>>

\* ast.Inspect does not take a nil body, and the program ends.
EnterNil ==
  /\ pc = "walk" /\ ~AtEnd /\ Len(frames) - 1 < maxScanDepth
  /\ \E f \in Callees(Top) : file.funcs[f].body = NoBody
  /\ pc' = "panic"
  /\ UNCHANGED <<file, noStar, fn, at, frames, diags>>

Pass ==
  /\ pc = "walk" /\ ~AtEnd
  /\ ~Scans(Top)
  /\ Callees(Top) = {} \/ Len(frames) - 1 = maxScanDepth
  /\ frames' = Advanced(frames)
  /\ UNCHANGED <<file, noStar, pc, fn, at, diags>>

\* Mutants of Return: the caller gives up, or it looks at the same item again.
ReturnNothing ==
  /\ pc = "walk" /\ AtEnd
  /\ frames' = <<>> /\ pc' = "lost"
  /\ UNCHANGED <<file, noStar, fn, at, diags>>

ReturnAgain ==
  /\ pc = "walk" /\ AtEnd
  /\ frames' = Above /\ pc' = IF Above = <<>> THEN "lost" ELSE "walk"
  /\ UNCHANGED <<file, noStar, fn, at, diags>>

\* The end of a block: nothing was found in it, and its caller goes on.
Return ==
  /\ pc = "walk" /\ AtEnd
  /\ IF Len(frames) = 1 THEN frames' = <<>> /\ pc' = "lost"
                        ELSE frames' = Advanced(Above) /\ pc' = "walk"
  /\ UNCHANGED <<file, noStar, fn, at, diags>>

-----------------------------------------------------------------------------
(* What was found is compared with the SELECT. *)

NotDetected ==
  /\ pc = "lost"
  /\ Report(Suppressible(Visited.callback.line, "undetected"))

Columns(query) == {query.select[i].name : i \in DOMAIN query.select} \ {""}
LowerOf(names) == {Lower[n] : n \in names}

\* Mutant of Scopes: of the enclosing function, only the callback is searched.
ScopesCallback(frame) == <<frame.block, <<fn, at>>, <<0, 0>>>>

\* body, enclosingBody and the top level of the file.
Scopes(frame) == <<frame.block, <<fn, 0>>, <<0, 0>>>>

\* matchColumns, of a struct with these tags.
StructDiags(query, tags, line) ==
  {Diagnostic(line, "no field", c) : c \in {n \in Columns(query) : Lower[n] \notin LowerOf(tags)}}
    \cup {Diagnostic(line, "no column", t) : t \in {n \in tags : Lower[n] \notin LowerOf(Columns(query))}}

ScanDiags(query, item, tags) ==
  CASE item.k = "Columns" ->
         IF Len(query.select) = item.args THEN {} ELSE {Diagnostic(item.line, "count", "")}
    [] item.k = "ToStruct" /\ tags = {}  -> Suppressible(item.line, "unresolved")
    [] item.k = "ToStruct" /\ tags # {}  -> StructDiags(query, tags, item.line)

\* The tags of the variable that the item fills, if it does.
TagsOf(frame) ==
  IF ItemOf(frame).k = "ToStruct" THEN StructTags(file, Scopes(frame), ItemOf(frame).var) ELSE {}

MatchColumns ==
  /\ pc = "found"
  /\ Report(ScanDiags(Visited.stmt.query, ItemOf(Top), TagsOf(Top)))

Next ==
  \/ NextFunc \/ Finish \/ Skip \/ VisitOnly \/ VisitQuery \/ Visit
  \/ Found \/ Enter \/ EnterNil \/ Pass \/ Return \/ NotDetected \/ MatchColumns

Spec == Init /\ [][Next]_vars /\ WF_vars(Next)

-----------------------------------------------------------------------------
(***************************************************************************)
(* Where the row of a callback can get to, as stacks of frames, and where  *)
(* it is scanned.                                                          *)
(***************************************************************************)
At(frame, S) == {[frame EXCEPT !.at = i] : i \in S}

FromCallback(site) ==
  LET callback == Body(file, site[1])[site[2]].callback
  IN  {<<f>> : f \in At(Frame(site, RowName(callback)), First(site)..End(file, site))}

InCallees(stack) ==
  UNION {{Append(stack, f) : f \in At(Frame(<<g, 0>>, RowParam(file.funcs[g])), 1..Len(Body(file, g)))} :
           g \in {h \in Callees(stack[Len(stack)]) : Body(file, h) # NoBody}}

Deeper(stacks) == UNION {InCallees(s) : s \in stacks}

Reached(site) ==
  LET one == FromCallback(site)  two == Deeper(one)  three == Deeper(two)
  IN  one \cup two \cup three \cup Deeper(three)

UsesIn(stacks) == {s \in stacks : Scans(s[Len(s)])}
Uses(site) == UsesIn(Reached(site))

\* s comes before t in the order of the text, calls replaced by what they call.
Earlier(s, t) ==
  \E j \in DOMAIN s \cap DOMAIN t :
    s[j].at < t[j].at /\ \A i \in 1..(j - 1) : s[i].at = t[i].at

\* The calls with a statement, and those whose callback is analyzed.
Sites ==
  UNION {{<<f, i>> : i \in {j \in DOMAIN Body(file, f) :
                              Body(file, f)[j].k = "call" /\ Body(file, f)[j].stmt # NoStmt}} :
           f \in {g \in DOMAIN file.funcs : Body(file, g) # NoBody}}

Call(site) == Body(file, site[1])[site[2]]
ScanSites ==
  {s \in Sites : HasCallback(Call(s)) /\ HasSelect(Call(s).stmt.query) /\ ~HasStar(Call(s).stmt.query)}

ParamRules == {"params literal", "missing param", "unused param"}
Silent(site) == \A d \in diags : d.site = site => d.rule \in ParamRules

-----------------------------------------------------------------------------
(* What Go makes of a name, in a file that declares every name once. *)

\* In a nested callback, the row can be another one.
Hides(call, i, frame) ==
  /\ call.k = "call" /\ call.callback # NoCallback
  /\ i >= First(frame.block) /\ frame.at \in (i + 1)..(i + call.callback.size)
  /\ \E p \in DOMAIN call.callback.params : \E n \in DOMAIN call.callback.params[p].names :
       call.callback.params[p].names[n] = frame.row

OwnRow(frame) ==
  LET body == Body(file, frame.block[1]) IN \A i \in DOMAIN body : ~Hides(body[i], i, frame)

Blocks == {f \in 0..Len(file.funcs) : Body(file, f) # NoBody}

Decls(kinds, name) ==
  UNION {{Body(file, f)[i] : i \in {j \in DOMAIN Body(file, f) :
            Body(file, f)[j].k \in kinds /\ Body(file, f)[j].name = name}} : f \in Blocks}

Struct(types) == {t \in types : t.kind = "struct"}

\* The struct types that the variable can have.
GoTypes(var) ==
  LET types == {d.type : d \in {e \in Decls({"var", "define"}, var) : Typed(e)}}
  IN  Struct(types) \cup
      Struct(UNION {{d.type : d \in Decls({"type"}, t.name)} : t \in {u \in types : u.kind = "named"}})

\* Every name is declared once, and every struct has fields, each with a column.
Plain ==
  /\ \A f, g \in Blocks : \A i \in DOMAIN Body(file, f), j \in DOMAIN Body(file, g) :
       LET d == Body(file, f)[i]
           e == Body(file, g)[j]
           local == {"var", "define"}
       IN  /\ d.k \in local /\ e.k \in local /\ d.name = e.name => f = g /\ i = j
           /\ d.k = "type" /\ e.k = "type" /\ d.name = e.name => f = g /\ i = j
  /\ \A f \in Blocks : \A i \in DOMAIN Body(file, f) :
       LET d == Body(file, f)[i]
       IN  d.k \in {"var", "define", "type"} =>
             /\ \A x \in d.type.fields : x.tag # "-" /\ (x.tag = "" => x.names # {})
             /\ d.type.kind = "struct" => d.type.fields # {}

\* What a row is scanned into, and its type, are declared in the list of the
\* callback or helper that scans it, of the function around the callback or
\* of the file: not in a callback in between, nor deeper.
DeclaredAround(site, frame) ==
  LET item   == ItemOf(frame)
      names  == {item.var} \cup {d.type.name : d \in Decls({"var", "define"}, item.var)}
      scopes == {frame.block, <<site[1], 0>>, <<0, 0>>}
  IN  item.k = "ToStruct" =>
        \A f \in Blocks : \A i \in DOMAIN Body(file, f) :
          LET d == Body(file, f)[i]
          IN  d.k \in {"var", "define", "type"} /\ d.name \in names =>
                \E b \in scopes : b[1] = f /\ i \in Listed(file, b)

\* The columns of the SELECT fit what the row is scanned into.
Fits(query, item) ==
  IF item.k = "Columns" THEN Len(query.select) = item.args
  ELSE \E t \in GoTypes(item.var) : LowerOf(Tags(t.fields)) = LowerOf(Columns(query))

\* //nolint:spantool where the analysis gives up.
Suppressed(site) ==
  IF Uses(site) = {} THEN Call(site).callback.line \in file.nolint
  ELSE \E u \in Uses(site) : LET item == ItemOf(u[Len(u)])
                             IN  item.k = "ToStruct" /\ GoTypes(item.var) = {} /\ item.line \in file.nolint

FitsAll(site) == \A u \in Uses(site) : Fits(Call(site).stmt.query, ItemOf(u[Len(u)]))

-----------------------------------------------------------------------------
(***************************************************************************)
(* Properties.                                                             *)
(***************************************************************************)
FrameType == [block : (1..Len(file.funcs)) \X Nat, row : Names, at : Nat \ {0}]

\* The state of the analysis.  There is a frame for the callback and one for
\* every call in progress: never more than four, whatever calls what.
TypeOK ==
  /\ file \in File /\ noStar \in BOOLEAN
  /\ pc \in {"inspect", "walk", "found", "lost", "panic", "done"}
  /\ fn \in 1..(Len(file.funcs) + 1) /\ at \in Nat \ {0}
  /\ frames \in Seq(FrameType) /\ Len(frames) <= maxScanDepth + 1
  /\ frames # <<>> <=> pc \in {"walk", "found", "panic"}
  /\ frames # <<>> => frames[1].block = <<fn, at>>
  /\ \A d \in diags : d.rule \in Rule /\ d.line \in Lines

(***************************************************************************)
(* The callback is judged by the first place, in the order of the text     *)
(* with every call replaced by the function it calls, where its row is     *)
(* scanned; and by none only if the row is scanned nowhere within three    *)
(* calls.                                                                  *)
(***************************************************************************)
FirstUse ==
  /\ pc = "found" => /\ frames \in Uses(<<fn, at>>)
                     /\ \A s \in Uses(<<fn, at>>) : ~Earlier(s, frames)
  /\ pc = "lost" => Uses(<<fn, at>>) = {}

(***************************************************************************)
(* The verdict is right: where the row is scanned in one place and Go      *)
(* leaves no choice about the variable, a callback is reported if and only *)
(* if the SELECT does not fit, or the analysis gives up and nobody said    *)
(* nolint.                                                                 *)
(***************************************************************************)
Verdict ==
  pc = "done" /\ file.spanner # "" /\ Plain =>
    \A s \in ScanSites :
      /\ Uses(s) = {} => (Silent(s) <=> Suppressed(s))
      /\ \A u \in Uses(s) : Uses(s) = {u} /\ OwnRow(u[Len(u)]) /\ DeclaredAround(s, u[Len(u)]) =>
           (Silent(s) <=> FitsAll(s) \/ Suppressed(s))

(***************************************************************************)
(* The parameters are compared at every statement, with a callback or not, *)
(* in functions and methods: nothing is reported if and only if the keys   *)
(* are the parameters of the SQL, or there are none to compare.            *)
(***************************************************************************)
ParamsChecked ==
  pc = "done" /\ file.spanner # "" =>
    \A s \in Sites :
      LET stmt == Call(s).stmt
      IN  stmt.query.parses =>
            ((\A d \in diags : d.site = s => d.rule \notin ParamRules) <=>
               \/ stmt.has = "none"
               \/ stmt.has = "other" /\ stmt.paramsLine \in file.nolint
               \/ stmt.has = "literal" /\ stmt.keys = stmt.query.params)

\* Every analysis ends, also of functions that call themselves.
Terminates == <>(pc \in {"done", "panic"})

\* docs/lint-scan.md:26 "Reports an error when row.Columns / row.ToStruct usage
\* cannot be detected in the callback (e.g. row is passed to an unresolvable
\* function)": the analysis survives whatever the row is passed to.
Survives == pc # "panic"

\* docs/lint-scan.md:3 "match the scan usage in the associated func(*spanner.Row)
\* error callback": what is found in a callback scans the row of that callback.
OwnRowFound == pc = "found" => OwnRow(Top)
=============================================================================
