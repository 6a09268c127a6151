--------------------------------- MODULE ByName ---------------------------------
(***************************************************************************)
(* The meaning of a function body by its names alone, which the front end  *)
(* is compared with: an environment of names, operands from left to right, *)
(* a block that forgets its names at its end.  This is a reference, not a  *)
(* part of the program.                                                    *)
(*                                                                         *)
(* A configuration is what is left to do, the environment, the store and   *)
(* the calls made so far.  It runs by itself up to a Choose, where a value *)
(* of the program decides how to go on, or an End.                         *)
(***************************************************************************)
EXTENDS Ast, TLC

CONSTANTS
  Meaning,         \* what each name of the program means in each module
  AfterReference,  \* the fields, positions and elements of what is referred to
  RefDepth         \* the references to the struct of a pattern, by its type

Choose(value, ways) == [stmt |-> "Choose", value |-> value, ways |-> ways]
End(value) == [stmt |-> "End", value |-> value]
BindTo(pattern, value) == [stmt |-> "BindTo", pattern |-> pattern, value |-> value]
\* The end of a block, and the end of the body of a loop.
Leave(env) == [stmt |-> "Leave", env |-> env]
Again(loop, env) == [stmt |-> "Again", loop |-> loop, env |-> env]
ForNext(for, cell) == [stmt |-> "ForNext", for |-> for, cell |-> cell]

\* A cell for a value.
NewCell(s, v) == [s EXCEPT !.store = Append(@, v)]
Lives(s) == Len(s.store)

\* A call: the function and what it is given, and a value nobody knows.
Called(s, callee, args) ==
  [s EXCEPT !.calls = Append(@, [callee |-> callee, args |-> [i \in DOMAIN args |-> Observed(s.store, args[i])]])]

Outcome(val, s) == [val |-> val, s |-> s]
\* What is made of an outcome, and of a value alone.
Upon(o, Next(_, _)) == Next(o.val, o.s)
Making(o, Form(_)) == [o EXCEPT !.val = Form(@)]

\* A cell that holds a value.
Celled(v, s) == Outcome(Address(Lives(s) + 1, <<>>), NewCell(s, v))
Beyond(at, key) == [at EXCEPT !.path = Append(@, key)]

RECURSIVE Eval(_, _, _), EvalPlace(_, _, _), EvalBase(_, _, _, _)

EvalAll(es, s, module) ==
  FoldLeft(LAMBDA acc, e : Upon(acc, LAMBDA vs, t : Making(Eval(e, t, module), LAMBDA v : Append(vs, v))),
           Outcome(<<>>, s), es)

EvalCall(s, callee, args, module) ==
  Upon(EvalAll(args, s, module), LAMBDA vs, t : Outcome(Result(Len(t.calls) + 1), Called(t, callee, vs)))

\* A variant of an enum with its payload.
EvalVariant(name, args, s, module) ==
  Making(EvalAll(args, s, module), LAMBDA vs : Aggregate(name, [i \in DOMAIN vs |-> VariantKey(name, i)], vs))

\* A variant with its fields by name.
EvalStructLike(name, fields, s, module) ==
  Making(EvalAll([i \in DOMAIN fields |-> fields[i].value], s, module),
         LAMBDA vs : Aggregate(name, [i \in DOMAIN fields |-> VariantField(name, fields[i].field)], vs))

\* A path of modules is a name in another module, what it is called with is
\* not.
EvalPath(d, item, s, module) ==
  CASE d.kind = "module" /\ item.expr = "Path" -> Eval(item, s, d.id)
    [] d.kind = "module" /\ item.expr = "Call" -> EvalCall(s, Meaning[d.id][item.callee.name].id, item.args, module)
    [] d.kind = "enum" /\ item.expr = "Name" -> EvalVariant(item.name, <<>>, s, module)
    [] d.kind = "enum" /\ item.expr = "StructLit" -> EvalStructLike(item.type, item.fields, s, module)
    [] d.kind = "enum" /\ item.expr = "Call" /\ item.callee.name \in d.variants -> EvalVariant(item.callee.name, item.args, s, module)
    [] OTHER -> EvalCall(s, item.callee.name, item.args, module)

EvalTuple(parts, s, module) ==
  IF Len(parts) = 1 THEN Eval(parts[1], s, module)
  ELSE Making(EvalAll(parts, s, module), LAMBDA vs : Aggregate("", Numbered(Len(vs)), vs))

Eval(e, s, module) ==
  CASE e.expr = "Lit" -> Outcome(Literal(e.name), s)
    [] e.expr = "Path" -> EvalPath(Meaning[module][e.module], e.item, s, module)
    [] e.expr = "Call" /\ e.callee.expr = "Path" ->
         EvalPath(Meaning[module][e.callee.module], Call(e.callee.item, e.args), s, module)
    [] e.expr = "Call" /\ e.callee.expr = "Name" ->
         EvalCall(s, Meaning[module][e.callee.name].id, e.args, module)
    [] e.expr = "MethodCall" -> EvalCall(s, e.method, <<e.object>> \o e.args, module)
    [] e.expr = "StaticCall" -> EvalCall(s, e.method, e.args, module)
    [] e.expr = "BinOp" -> Making(EvalAll(<<e.lhs, e.rhs>>, s, module), LAMBDA vs : Operation(e.op, vs))
    [] e.expr = "Unary" -> Making(EvalAll(<<e.inner>>, s, module), LAMBDA vs : Operation(e.op, vs))
    [] e.expr = "RangeLit" ->
         Making(EvalAll(<<e.start, e.end>>, s, module), LAMBDA vs : Aggregate("IntIter", <<Key("start"), Key("end")>>, vs))
    [] e.expr = "StructLit" /\ e.variant # <<>> -> EvalStructLike(Head(e.variant), e.fields, s, module)
    [] e.expr = "StructLit" /\ e.variant = <<>> ->
         Making(EvalAll([i \in DOMAIN e.fields |-> e.fields[i].value], s, module),
                LAMBDA vs : Aggregate(e.type, [i \in DOMAIN e.fields |-> Key(e.fields[i].field)], vs))
    [] e.expr = "Tuple" -> EvalTuple(e.parts, s, module)
    [] e.expr = "Ref" -> Making(EvalPlace(e.place, s, module), Pointer)
    [] OTHER -> Upon(EvalPlace(e, s, module), LAMBDA at, t : Outcome(Load(t.store, at), t))

\* The base of a part, which may be what a reference refers to.
EvalBase(e, referred, s, module) ==
  Upon(EvalPlace(e.object, s, module), LAMBDA at, t : Outcome(IF referred THEN Follow(t.store, at) ELSE at, t))

EvalPlace(e, s, module) ==
  CASE e.expr = "Name" ->
         IF e.name \in DOMAIN s.env THEN Outcome(Address(s.env[e.name], <<>>), s)
         ELSE Celled(Nothing, [s EXCEPT !.bound = FALSE])
    [] e.expr = "FieldAccess" ->
         Making(EvalBase(e, e.field \in AfterReference.fields, s, module), LAMBDA at : Beyond(at, Key(e.field)))
    [] e.expr = "TupleAccess" ->
         Making(EvalBase(e, e.index \in AfterReference.positions, s, module),
                LAMBDA at : Beyond(at, Val("key", "", e.index, <<>>)))
    [] e.expr = "Index" ->
         Upon(EvalBase(e, e.at.expr = "Lit" /\ e.at.name \in AfterReference.elements, s, module), LAMBDA at, t :
           Making(Eval(e.at, t, module), LAMBDA v : Beyond(at, v)))
    [] e.expr = "Deref" ->
         Upon(EvalPlace(e.inner, s, module), LAMBDA at, t : Outcome(Follow(t.store, at), t))
    [] OTHER -> Upon(Eval(e, s, module), Celled)

-----------------------------------------------------------------------------
\* The parts of a value a pattern names, bound from left to right; a later
\* binding of a name stands.
RECURSIVE Bound(_, _, _)
BoundParts(s, parts, v, KeyOf(_)) ==
  FoldLeft(LAMBDA acc, i : Bound(acc, parts[i], Part(v, KeyOf(i))), s, [i \in DOMAIN parts |-> i])

\* A reference to a part, and references to it in turn.
References(at, depth, s) ==
  FoldLeft(LAMBDA o, i : Making(Upon(o, Celled), Pointer), Outcome(Pointer(at), s), [i \in 1 .. (depth - 1) |-> i])

FieldPattern(f) == IF f.of = <<>> THEN BindPat(f.field, FALSE) ELSE f.of[1]

\* The fields of a struct behind references: as many references to each.
BoundReferences(s, pat, at, depth) ==
  LET struct == FoldLeft(LAMBDA a, i : Follow(s.store, a), at, [i \in 1 .. depth |-> i])
  IN  FoldLeft(LAMBDA acc, f :
                 Upon(References(Beyond(struct, Key(f.field)), depth, acc), LAMBDA v, t : Bound(t, FieldPattern(f), v)),
               s, pat.fields)

Bound(s, pat, v) ==
  CASE pat.pat = "Bind" -> [NewCell(s, v) EXCEPT !.env = (pat.name :> Lives(s) + 1) @@ @]
    [] pat.pat = "Tuple" -> BoundParts(s, pat.parts, v, LAMBDA i : Val("key", "", i, <<>>))
    [] pat.pat = "Variant" -> BoundParts(s, pat.parts, v, LAMBDA i : VariantKey(pat.name, i))
    [] pat.pat = "Struct" /\ RefDepth[pat.type] = 0 ->
         BoundParts(s, [i \in DOMAIN pat.fields |-> FieldPattern(pat.fields[i])], v, LAMBDA i : Key(pat.fields[i].field))
    [] pat.pat = "Struct" /\ RefDepth[pat.type] > 0 ->
         Upon(Celled(v, s), LAMBDA at, t : BoundReferences(t, pat, at, RefDepth[pat.type]))
    [] OTHER -> s

-----------------------------------------------------------------------------
\* One step of the statement in front, which is neither Choose nor End.
Go(s, front) == [s EXCEPT !.todo = front \o Tail(@)]

\* What remains after the loop that runs, and the names in force there.
AfterLoop(s) ==
  LET at == CHOOSE i \in DOMAIN s.todo :
              s.todo[i].stmt = "Again" /\ \A j \in 1 .. (i - 1) : s.todo[j].stmt # "Again"
  IN  [s EXCEPT !.todo = SubSeq(@, at + 1, Len(@)), !.env = s.todo[at].env]

Stops(s, value) == [s EXCEPT !.todo = <<End([i \in DOMAIN value |-> Observed(s.store, value[i])])>>]
Assigned(s, at, v) == Go([s EXCEPT !.store = Save(@, at, v)], <<>>)

StepByName(it, s, module) ==
  CASE it.stmt = "LetDecl" ->
         Upon(Eval(it.value, s, module), LAMBDA v, t : Go(Bound(t, it.pattern, v), <<>>))
    [] it.stmt = "BindTo" -> Go(Bound(s, it.pattern, it.value), <<>>)
    [] it.stmt \in {"Assign", "CompoundAssign"} ->
         Upon(EvalPlace(it.lhs, s, module), LAMBDA at, t :
           Upon(Eval(it.rhs, t, module), LAMBDA v, u :
             Assigned(u, at, IF it.stmt = "Assign" THEN v ELSE Operation(it.op, <<Load(u.store, at), v>>))))
    [] it.stmt = "Expr" -> Go(Eval(it.value, s, module).s, <<>>)
    [] it.stmt = "Return" -> Upon(EvalAll(it.values, s, module), LAMBDA vs, t : Stops(t, vs))
    [] it.stmt = "Break" -> AfterLoop(s)
    [] it.stmt = "Block" -> Go(s, it.stmts \o <<Leave(s.env)>>)
    [] it.stmt = "Leave" -> Go([s EXCEPT !.env = it.env], <<>>)
    [] it.stmt = "Again" -> Go([s EXCEPT !.env = it.env], <<it.loop>>)
    [] it.stmt = "If" ->
         Upon(Eval(it.cond, s, module), LAMBDA v, t : Go(t, <<Choose(v, <<<<it.then>>, it.else>>)>>))
    [] it.stmt = "While" ->
         Upon(Eval(it.cond, s, module), LAMBDA v, t :
           Go(t, <<Choose(v, <<<<it.body, Again(it, s.env)>>, <<>>>>)>>))
    [] it.stmt = "For" ->
         Upon(EvalCall(s, "into_iter", <<it.iterator>>, module), LAMBDA v, t :
           Go(NewCell(t, v), <<ForNext(it, Lives(t) + 1)>>))
    [] it.stmt = "ForNext" ->
         Go(Called(s, "next", <<s.store[it.cell]>>),
            <<Choose(Result(Len(s.calls) + 1),
                     <<<<BindTo(it.for.element, Part(Result(Len(s.calls) + 1), VariantKey("Some", 1))),
                         it.for.body, Again(it, s.env)>>,
                       <<>>>>)>>)
    [] it.stmt = "Match" ->
         Upon(Eval(it.scrutinee, s, module), LAMBDA v, t :
           Go(t, <<Choose(v, [i \in DOMAIN it.branches |->
                                <<BindTo(it.branches[i].pattern, v), it.branches[i].body, Leave(s.env)>>])>>))

RECURSIVE RunByName(_, _)
\* Up to the next choice, the end, or a name that is not bound.
RunByName(s, module) ==
  IF ~s.bound \/ Head(s.todo).stmt \in {"Choose", "End"} THEN s
  ELSE RunByName(StepByName(Head(s.todo), s, module), module)

StartByName(params, stmts, module) ==
  RunByName([todo |-> stmts \o <<End(<<>>)>>, calls |-> <<>>, bound |-> TRUE,
             env |-> [x \in {params[i] : i \in DOMAIN params} |-> CHOOSE i \in DOMAIN params : params[i] = x],
             store |-> [i \in DOMAIN params |-> Given(i)]],
            module)

ChooseByName(s, way, module) == RunByName(Go(s, Head(s.todo).ways[way]), module)
==============================================================================
