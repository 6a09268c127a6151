------------------------------- MODULE FrontEnd -------------------------------
(***************************************************************************)
(* A function body from its syntax to the typed IR, and then both executed *)
(* side by side: by names, and as LowerFundef, the translation to THIR and *)
(* the operands of ThirToMIR make it run.                                  *)
(***************************************************************************)
EXTENDS Translator

-----------------------------------------------------------------------------
\* What the typed body does when it runs.  A statement is turned into the
\* instructions ThirToMIR emits for it (src/src/thir_to_mir/mod.rs), and these
\* are executed on a store of locals.  An operand that is a place is read by the
\* instruction that has it, and every other operand is computed before, into a
\* local of its own.  Building answers [code, val, n]: the instructions, the
\* operand, place or rvalue they prepare, and the number of locals in use.
Built(code, val, n) == [code |-> code, val |-> val, n |-> n]

MirPlace(local, projections) == [local |-> local, projections |-> projections]
PlaceOperand(place) == [operand |-> "Place", place |-> place]
ConstantOperand(name) == [operand |-> "Constant", name |-> name]
MirProj(kind, name, index) == [proj |-> kind, name |-> name, index |-> index]

AssignTo(dest, rvalue) == [op |-> "Assign", dest |-> dest, rvalue |-> rvalue]
CallInto(dest, callee, args) == [op |-> "Call", dest |-> dest, callee |-> callee, args |-> args]

UseRvalue(operand) == [rvalue |-> "Use", operand |-> operand]

\* What is made of something built, after its instructions.
Prepared(b, Next(_, _)) == [Next(b.val, b.n) EXCEPT !.code = b.code \o @]
Formed(b, Form(_)) == [b EXCEPT !.val = Form(@)]

RECURSIVE BuildOperand(_, _), BuildRvalue(_, _), BuildPlace(_, _)

BuildEach(Build(_, _), xs, n) ==
  FoldLeft(LAMBDA acc, x : Prepared(acc, LAMBDA vals, m : Formed(Build(x, m), LAMBDA val : Append(vals, val))),
           Built(<<>>, <<>>, n), xs)

BuildOperands(es, n) == BuildEach(BuildOperand, es, n)

\* build_projection: only an index has anything to compute.
BuildProjection(p, n) ==
  CASE p.proj = "Deref" -> Built(<<>>, MirProj("Deref", "", <<>>), n)
    [] p.proj = "Field" -> Built(<<>>, MirProj("Field", p.field, <<>>), n)
    [] p.proj = "TupleField" -> Built(<<>>, MirProj("TupleField", "", <<p.index>>), n)
    [] p.proj = "Index" -> Formed(BuildOperand(p.index, n), LAMBDA index : MirProj("Index", "", <<index>>))

BuildPlace(p, n) ==
  Formed(BuildEach(BuildProjection, p.projections, n), LAMBDA projections : MirPlace(p.local, projections))

\* build_call: the result has a local of its own.
BuildCall(e, n) ==
  Prepared(BuildOperands(e.args, n), LAMBDA args, m :
    Built(<<CallInto(m + 1, e.callee, args)>>, PlaceOperand(MirPlace(m + 1, <<>>)), m + 1))

BuildRvalue(e, n) ==
  CASE e.thir = "Lit" -> Built(<<>>, UseRvalue(ConstantOperand(e.name)), n)
    [] e.thir = "Use" -> Formed(BuildPlace(e.place, n), LAMBDA place : UseRvalue(PlaceOperand(place)))
    [] e.thir = "Ref" -> Formed(BuildPlace(e.place, n), LAMBDA place : [rvalue |-> "Ref", place |-> place])
    [] e.thir = "Call" -> Formed(BuildCall(e, n), UseRvalue)
    [] e.thir = "Operation" ->
         Formed(BuildOperands(e.args, n), LAMBDA os : [rvalue |-> "Operation", op |-> e.op, operands |-> os])
    [] e.thir = "Aggregate" ->
         Formed(BuildOperands(e.args, n), LAMBDA os :
                [rvalue |-> "Aggregate", kind |-> e.kind, name |-> e.name, keys |-> e.keys, operands |-> os])

InLocal(b) ==
  Prepared(b, LAMBDA rvalue, m :
    Built(<<AssignTo(MirPlace(m + 1, <<>>), rvalue)>>, PlaceOperand(MirPlace(m + 1, <<>>)), m + 1))

BuildOperand(e, n) ==
  CASE e.thir = "Lit" -> Built(<<>>, ConstantOperand(e.name), n)
    [] e.thir = "Use" -> Formed(BuildPlace(e.place, n), PlaceOperand)
    [] e.thir = "Call" -> BuildCall(e, n)
    [] OTHER -> InLocal(BuildRvalue(e, n))

-----------------------------------------------------------------------------
\* Executing instructions.  s has the store and the calls made so far.
RECURSIVE AddressOf(_, _), Operand(_, _)

Projected(store, at, p) ==
  CASE p.proj = "Deref" -> Follow(store, at)
    [] p.proj = "Field" -> [at EXCEPT !.path = Append(@, Key(p.name))]
    [] p.proj = "TupleField" -> [at EXCEPT !.path = Append(@, Val("key", "", p.index[1], <<>>))]
    [] p.proj = "Variant" -> [at EXCEPT !.path = Append(@, VariantKey(p.name, p.index[1]))]
    [] p.proj = "Index" -> [at EXCEPT !.path = Append(@, Operand(store, p.index[1]))]

AddressOf(store, place) ==
  FoldLeft(LAMBDA at, p : Projected(store, at, p), Address(place.local, <<>>), place.projections)

Operand(store, o) ==
  IF o.operand = "Constant" THEN Literal(o.name) ELSE Load(store, AddressOf(store, o.place))

Operands(store, os) == [i \in DOMAIN os |-> Operand(store, os[i])]

Rvalue(store, r) ==
  CASE r.rvalue = "Use" -> Operand(store, r.operand)
    [] r.rvalue = "Ref" -> Pointer(AddressOf(store, r.place))
    [] r.rvalue = "Operation" -> Operation(r.op, Operands(store, r.operands))
    [] r.rvalue = "Aggregate" ->
         Aggregate(r.name,
                   CASE r.kind = "struct" -> [i \in DOMAIN r.keys |-> Key(r.keys[i])]
                     [] r.kind = "tuple" -> Numbered(Len(r.operands))
                     [] r.kind = "variant" ->
                          [i \in DOMAIN r.operands |->
                             IF r.keys = <<>> THEN VariantKey(r.name, i) ELSE VariantField(r.name, r.keys[i])],
                   Operands(store, r.operands))

Into(store, place, v) ==
  LET at == AddressOf(store, place)
  IN  IF at.path = <<>> THEN (at.cell :> v) @@ store ELSE Save(store, at, v)

CalledWith(s, callee, args) ==
  [s EXCEPT !.calls = Append(@, [callee |-> callee, args |-> [i \in DOMAIN args |-> Observed(s.store, args[i])]])]

Executed(s, instruction) ==
  IF instruction.op = "Assign"
  THEN [s EXCEPT !.store = Into(@, instruction.dest, Rvalue(@, instruction.rvalue))]
  ELSE [CalledWith(s, instruction.callee, Operands(s.store, instruction.args))
          EXCEPT !.store = (instruction.dest :> Result(Len(s.calls) + 1)) @@ @]

ExecutedAll(s, code) == FoldLeft(Executed, s, code)

-----------------------------------------------------------------------------
\* The machine: a sequence of statements left, as in ByName, where the loop that
\* runs is marked by its scope.
ChooseThir(value, ways) == [stmt |-> "Choose", value |-> value, ways |-> ways]
EndThir(value) == [stmt |-> "End", value |-> value]
AgainThir(while) == [stmt |-> "Again", while |-> while]
Decide(cond, ways) == [stmt |-> "Decide", cond |-> cond, ways |-> ways]
Select(scrutinee, branches) == [stmt |-> "Select", scrutinee |-> scrutinee, branches |-> branches]
\* A leaf of the decision tree: the bindings of a pattern from a place.
Bindings(pat, place) == [stmt |-> "Bindings", pat |-> pat, place |-> place]

Onwards(s, front) == [s EXCEPT !.todo = front \o Tail(@)]

RECURSIVE PlacesOf(_, _)
PlacesUnder(parts, place, Proj(_)) ==
  FlattenSeq([i \in DOMAIN parts |-> PlacesOf(parts[i], [place EXCEPT !.projections = Append(@, Proj(i))])])

PlacesOf(pat, place) ==
  CASE pat.pat = "Bind" -> <<[local |-> pat.id, place |-> place]>>
    [] pat.pat = "Tuple" -> PlacesUnder(pat.parts, place, LAMBDA i : MirProj("TupleField", "", <<i>>))
    [] pat.pat = "Variant" -> PlacesUnder(pat.parts, place, LAMBDA i : MirProj("Variant", pat.name, <<i>>))
    [] pat.pat = "Struct" ->
         PlacesUnder([i \in DOMAIN pat.fields |-> pat.fields[i].of], place,
                     LAMBDA i : MirProj("Field", pat.fields[i].field, <<>>))
    [] OTHER -> <<>>

Bind(s, pat, place) ==
  FoldLeft(LAMBDA acc, b : Executed(acc, AssignTo(MirPlace(b.local, <<>>), UseRvalue(PlaceOperand(b.place)))),
           s, PlacesOf(pat, place))

AfterScope(todo, scope) ==
  LET at == CHOOSE i \in DOMAIN todo :
              /\ todo[i].stmt = "Again" /\ todo[i].while.scope = scope
              /\ \A j \in 1 .. (i - 1) : todo[j].stmt # "Again" \/ todo[j].while.scope # scope
  IN  SubSeq(todo, at + 1, Len(todo))

\* The state after what was built has run, with the operand or rvalue it
\* prepared.
Ran(s, b, Next(_, _)) == Next(ExecutedAll(s, b.code), b.val)

Decided(s, v, ways) == Onwards(s, IF v = Literal("true") THEN ways[1] ELSE <<ChooseThir(v, ways)>>)

Selected(s, scrutinee, branches) ==
  Onwards(s, <<ChooseThir(Operand(s.store, scrutinee),
                          [i \in DOMAIN branches |->
                             <<Bindings(branches[i].pattern, scrutinee.place)>> \o branches[i].body])>>)

\* The code of an assignment: the place, then the value, then the store.
BuildAssign(dest, e) ==
  Prepared(dest, LAMBDA place, m :
    Prepared(BuildRvalue(e, m), LAMBDA rvalue, k : Built(<<AssignTo(place, rvalue)>>, <<>>, k)))

\* n is the number of locals of the body, after which come those of operands.
StepOf(it, s, n) ==
  CASE it.stmt = "Let" ->
         Onwards(ExecutedAll(s, BuildAssign(Built(<<>>, MirPlace(it.local, <<>>), n), it.init).code), <<>>)
    [] it.stmt = "Assign" -> Onwards(ExecutedAll(s, BuildAssign(BuildPlace(it.place, n), it.rhs).code), <<>>)
    [] it.stmt = "Expr" -> Onwards(ExecutedAll(s, BuildRvalue(it.value, n).code), <<>>)
    [] it.stmt = "Return" ->
         Ran(s, BuildOperands(it.value, n), LAMBDA c, os :
             [c EXCEPT !.todo = <<EndThir([i \in DOMAIN os |-> Observed(c.store, Operand(c.store, os[i]))])>>])
    [] it.stmt = "Block" -> Onwards(s, it.stmts)
    [] it.stmt = "If" -> Onwards(s, Append(it.setup, Decide(it.cond, <<it.then, it.else>>)))
    [] it.stmt = "While" -> Onwards(s, Append(it.setup, Decide(it.cond, <<Append(it.body, AgainThir(it)), <<>>>>)))
    [] it.stmt = "Again" -> Onwards(s, <<it.while>>)
    [] it.stmt = "Break" -> [s EXCEPT !.todo = AfterScope(s.todo, it.scope)]
    [] it.stmt = "Decide" ->
         Ran(s, BuildOperand(it.cond, n), LAMBDA c, o : Decided(c, Operand(c.store, o), it.ways))
    [] it.stmt = "Match" -> Onwards(s, Append(it.setup, Select(it.scrutinee, it.branches)))
    [] it.stmt = "Select" ->
         Ran(s, BuildOperand(it.scrutinee, n), LAMBDA c, o : Selected(c, o, it.branches))
    [] it.stmt = "Bindings" -> Onwards(Bind(s, it.pat, it.place), <<>>)

StepThir(s, n) == StepOf(Head(s.todo), s, n)

RECURSIVE RunThir(_, _)
RunThir(s, n) ==
  IF Head(s.todo).stmt \in {"Choose", "End"} THEN s ELSE RunThir(StepThir(s, n), n)

StartThir(thir) ==
  RunThir([todo |-> thir.stmts \o <<EndThir(<<>>)>>, calls |-> <<>>,
           store |-> [i \in 1 .. thir.locals |-> IF i <= Len(thir.params) THEN Given(i) ELSE Nothing]],
          thir.locals)

ChooseWay(s, way, n) == RunThir(Onwards(s, Head(s.todo).ways[way]), n)

-----------------------------------------------------------------------------
\* The phases of a body.
CONSTANTS
  Bodies,      \* the bodies [params, stmts] to compile
  Meaning,     \* what each name of the program means in each module
  MaxChoices   \* how many times a condition, match or iterator is decided

ByNames == INSTANCE ByName

VARIABLES
  body,
  hir,
  thir,
  phase,     \* "parsed", "lowered", "running", "rejected", "unimplemented" or "over"
  names,     \* the execution by names
  run,       \* the execution of the typed body
  choices
frontVars == <<body, hir, thir, phase, names, run, choices>>

Nowhere == [todo |-> <<>>, calls |-> <<>>]

Init ==
  /\ body \in Bodies
  /\ hir = <<>> /\ thir = <<>>
  /\ phase = "parsed"
  /\ names = Nowhere /\ run = Nowhere
  /\ choices = 0

RECURSIVE Has(_, _)
\* Is there a flaw in any part of a body?  An Error, which type inference and the
\* checks report, a Todo, where lowering stops, or the Guard of a branch.
HasIn(xs, flaw) == \E i \in DOMAIN xs : Has(xs[i], flaw)
Has(x, flaw) ==
  CASE "hir" \in DOMAIN x ->
         \/ x.hir = flaw
         \/ flaw = "Error" /\ x.hir = "Call" /\ x.kind = "UnresolvedDirect"
         \/ x.hir \in {"Use", "Ref"} /\ Has(x.from, flaw)
         \/ x.hir \in {"Operation", "Aggregate", "Call"} /\ HasIn(x.args, flaw)
    [] "place" \in DOMAIN x ->
         \/ x.place = "Temporary" /\ Has(x.value, flaw)
         \/ x.place \in {"Field", "TupleField", "Deref", "Index"} /\ Has(x.base, flaw)
         \/ x.place = "Index" /\ Has(x.at, flaw)
    [] "guard" \in DOMAIN x ->
         (flaw = "Guard" /\ x.guard # <<>>) \/ HasIn(x.guard, flaw) \/ Has(x.body, flaw)
    [] "stmt" \in DOMAIN x ->
         CASE x.stmt = "Let" -> Has(x.init, flaw)
           [] x.stmt = "Assign" -> Has(x.lhs, flaw) \/ Has(x.rhs, flaw)
           [] x.stmt = "Expr" -> Has(x.value, flaw)
           [] x.stmt = "Return" -> HasIn(x.value, flaw)
           [] x.stmt = "Block" -> HasIn(x.stmts, flaw)
           [] x.stmt = "If" -> Has(x.cond, flaw) \/ Has(x.then, flaw) \/ HasIn(x.else, flaw)
           [] x.stmt = "While" -> Has(x.cond, flaw) \/ Has(x.body, flaw)
           [] x.stmt = "Match" -> Has(x.scrutinee, flaw) \/ HasIn(x.branches, flaw)
           [] OTHER -> FALSE

\* Where the code has a todo! the compiler ends, whatever else the body has.
Lower ==
  /\ phase = "parsed"
  /\ hir' = LowerFunction(body.params, body.stmts)
  /\ phase' = IF HasIn(hir'.stmts, "Todo") THEN "unimplemented" ELSE "lowered"
  /\ UNCHANGED <<body, thir, names, run, choices>>

Reject ==
  /\ phase = "lowered"
  /\ HasIn(hir.stmts, "Error")
  /\ phase' = "rejected"
  /\ UNCHANGED <<body, hir, thir, names, run, choices>>

\* The decision tree of a match is not built where a branch has a guard:
\* lower_match.rs asserts that there is none.
Unbuilt ==
  /\ phase = "lowered"
  /\ ~HasIn(hir.stmts, "Error") /\ HasIn(hir.stmts, "Guard")
  /\ thir' = TranslateBody(hir)
  /\ phase' = "unimplemented"
  /\ UNCHANGED <<body, hir, names, run, choices>>

Translate ==
  /\ phase = "lowered"
  /\ ~HasIn(hir.stmts, "Error") /\ ~HasIn(hir.stmts, "Guard")
  /\ thir' = TranslateBody(hir)
  /\ names' = ByNames!StartByName(body.params, body.stmts, Home)
  /\ run' = StartThir(thir')
  /\ phase' = "running"
  /\ UNCHANGED <<body, hir, choices>>

\* The same way is taken on both sides.
Choice ==
  /\ phase = "running"
  /\ choices < MaxChoices
  /\ Head(names.todo).stmt = "Choose" /\ Head(run.todo).stmt = "Choose"
  /\ \E way \in DOMAIN Head(names.todo).ways \cap DOMAIN Head(run.todo).ways :
       /\ names' = ByNames!ChooseByName(names, way, Home)
       /\ run' = ChooseWay(run, way, thir.locals)
  /\ choices' = choices + 1
  /\ UNCHANGED <<body, hir, thir, phase>>

Finish ==
  /\ phase = "running"
  /\ Head(names.todo).stmt = "End" \/ Head(run.todo).stmt = "End" \/ choices = MaxChoices
  /\ phase' = "over"
  /\ UNCHANGED <<body, hir, thir, names, run, choices>>

Next == Lower \/ Reject \/ Unbuilt \/ Translate \/ Choice \/ Finish

Spec == Init /\ [][Next]_frontVars

-----------------------------------------------------------------------------
\* What an execution waits for, as an outsider sees it.
Waits(s) ==
  LET it == Head(s.todo)
  IN  IF it.stmt = "End" THEN [ends |-> TRUE, value |-> it.value, ways |-> 0]
      ELSE [ends |-> FALSE, value |-> <<Observed(s.store, it.value)>>, ways |-> Len(it.ways)]

\* A body the front end accepts calls the same functions with the same
\* arguments, decides on the same values and returns the same value as the text
\* says when its names are read in the nearest scope around them: shadowing,
\* the scopes of blocks, branches and loops, the written-out for, patterns taken
\* apart, receivers and temporaries put in front, and break out of a match.
MeansWhatItSays ==
  phase \in {"running", "over"} =>
    names.bound /\ names.calls = run.calls /\ Waits(names) = Waits(run)
==============================================================================
