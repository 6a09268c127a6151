------------------------------ MODULE LowerFundef ------------------------------
(***************************************************************************)
(* LowerFundef (src/src/hir/lower_fundef.rs, utils.rs): the body of a      *)
(* function with its names resolved to locals, modules and functions, and  *)
(* its for loops written out.                                              *)
(*                                                                         *)
(* An expression is lowered in a scope, a map from names to locals, which  *)
(* it does not change.  Patterns and statements are lowered in a state st: *)
(* the scope, the arena of locals, and the number of iterators so far.     *)
(* The operators answer [hir, st].                                         *)
(***************************************************************************)
EXTENDS Ast, Naturals, Sequences, SequencesExt, TLC

CONSTANTS
  Home,      \* the module of the function
  Modules,
  Parent,    \* the sequence, empty at the root, with the module around each
  Items,     \* the definitions of each module, in the order of its file
  Includes,  \* the paths each module includes, sequences of names
  Templates, \* the names of the template parameters of the function
  Zelf       \* what Self means in the function, NoDef where it means nothing

-----------------------------------------------------------------------------
\* What a name means in a module (src/src/name_resolve/definition.rs): its own
\* definitions, then those of the modules it includes, then the same in the
\* module around it.  The variants of an enum are the ones with a tuple.
Def(kind, name, id) == [kind |-> kind, name |-> name, id |-> id, variants |-> {}]
EnumDef(name, id, variants) == [Def("enum", name, id) EXCEPT !.variants = variants]
NoDef == Def("none", "", "")

\* def_map_in_module: of two definitions with a name the later stands.
DefIn(name, module) ==
  FoldLeft(LAMBDA found, d : IF d.name = name THEN d ELSE found, NoDef, Items[module])

\* find_module_in_chain.
RECURSIVE ModuleInChain(_, _)
ModuleInChain(name, module) ==
  IF DefIn(name, module).kind = "module" THEN DefIn(name, module)
  ELSE IF Parent[module] = <<>> THEN NoDef
  ELSE ModuleInChain(name, Head(Parent[module]))

\* resolve_include_path: every segment is looked for in the chain of the one
\* before it.
IncludedModule(path, module) ==
  FoldLeft(LAMBDA d, name : IF d.kind = "module" THEN ModuleInChain(name, d.id) ELSE NoDef,
           Def("module", "", module), path)

\* The definitions of that name in the modules included, in order.
DefInModule(name, d) == IF d.kind = "module" THEN DefIn(name, d.id) ELSE NoDef
FromIncludes(name, module) ==
  SelectSeq([i \in DOMAIN Includes[module] |-> DefInModule(name, IncludedModule(Includes[module][i], module))],
            LAMBDA d : d # NoDef)

FirstDef(ds) == FoldLeft(LAMBDA found, d : IF found = NoDef THEN d ELSE found, NoDef, ds)

RECURSIVE Resolve(_, _)
Resolve(name, module) ==
  FirstDef(<<DefIn(name, module)>> \o FromIncludes(name, module)
           \o [i \in DOMAIN Parent[module] |-> Resolve(name, Parent[module][i])])

-----------------------------------------------------------------------------
HirError == [hir |-> "Error"]
\* A case the code does not have yet: lowering stops there with todo!.
HirTodo == [hir |-> "Todo"]
HirUse(place) == [hir |-> "Use", from |-> place]
HirAggregate(kind, name, keys, args) ==
  [hir |-> "Aggregate", kind |-> kind, name |-> name, keys |-> keys, args |-> args]
HirOperation(op, args) == [hir |-> "Operation", op |-> op, args |-> args]
HirCall(kind, callee, args) == [hir |-> "Call", kind |-> kind, callee |-> callee, args |-> args]
HirRef(place) == [hir |-> "Ref", from |-> place]

LocalPlace(id) == [place |-> "Local", id |-> id]
FieldPlace(base, field) == [place |-> "Field", base |-> base, field |-> field]
TupleFieldPlace(base, index) == [place |-> "TupleField", base |-> base, index |-> index]
IndexPlace(base, at) == [place |-> "Index", base |-> base, at |-> at]
DerefPlace(base) == [place |-> "Deref", base |-> base]
Temporary(value) == [place |-> "Temporary", value |-> value]

\* The local a scope has for a name.
InScope(scope, name) == name \in DOMAIN scope

-----------------------------------------------------------------------------
RECURSIVE LowerExpr(_, _, _), ExprAsPlace(_, _, _)

\* module is the module names are looked up in, Home the one of the function:
\* some operands are looked up in the first and some in the second.
LowerAll(es, scope, module) == [i \in DOMAIN es |-> LowerExpr(es[i], scope, module)]

DirectCall(d, name, args) ==
  IF d.kind = "function" THEN HirCall("Direct", d.id, args) ELSE HirCall("UnresolvedDirect", name, args)

LowerCall(e, scope, module) ==
  CASE e.callee.expr = "Name" /\ ~InScope(scope, e.callee.name) ->
         DirectCall(Resolve(e.callee.name, module), e.callee.name, LowerAll(e.args, scope, module))
    [] e.callee.expr = "Path" ->
         LowerExpr(Path(e.callee.module, Call(e.callee.item, e.args)), scope, module)
    [] OTHER -> HirTodo

LowerName(name, scope, module) ==
  CASE InScope(scope, name) -> HirUse(LocalPlace(scope[name]))
    [] ~InScope(scope, name) /\ Resolve(name, module).kind = "function" -> HirTodo
    [] OTHER -> HirError

\* lower_constructor_or_static_call, for a call of a type: enums have their
\* variants for names.
CallOfType(type, name, args) ==
  IF type.kind = "enum" /\ name \in type.variants THEN HirAggregate("variant", name, <<>>, args)
  ELSE HirCall("Static", name, args)

FromTypeCall(type, call, scope, module) ==
  IF call.callee.expr # "Name" THEN HirTodo
  ELSE CallOfType(type, call.callee.name, LowerAll(call.args, scope, module))

FieldNames(fields) == [i \in DOMAIN fields |-> fields[i].field]
LowerFields(fields, scope) == LowerAll([i \in DOMAIN fields |-> fields[i].value], scope, Home)

\* A variant with named fields.
StructLikeVariant(type, name, fields, scope) ==
  IF type.kind # "enum" THEN HirTodo
  ELSE HirAggregate("variant", name, FieldNames(fields), LowerFields(fields, scope))

\* lower_name_resolved_expr_from_type: what comes after a name that means a
\* type.
LowerFromType(type, item, scope, module) ==
  CASE item.expr = "Call" -> FromTypeCall(type, item, scope, module)
    [] item.expr = "StructLit" -> StructLikeVariant(type, item.type, item.fields, scope)
    [] item.expr = "Name" /\ type.kind = "enum" -> HirAggregate("variant", item.name, <<>>, <<>>)
    [] OTHER -> HirTodo

\* After a template parameter there may only be a call of one of its functions.
LowerFromTemplate(item, scope) ==
  IF item.expr = "Call" /\ item.callee.expr = "Name"
  THEN HirCall("Static", item.callee.name, LowerAll(item.args, scope, Home))
  ELSE HirTodo

\* What comes after a name that means d.
LowerIn(d, item, scope, module) ==
  CASE d.kind = "module" -> LowerExpr(item, scope, d.id)
    [] d.kind \in {"struct", "enum"} -> LowerFromType(d, item, scope, module)
    [] OTHER -> HirError

LowerFromSelf(item, scope, module) ==
  IF Zelf = NoDef THEN HirTodo ELSE LowerFromType(Zelf, item, scope, module)

LowerNameResolved(e, scope, module) ==
  CASE e.module \in Templates -> LowerFromTemplate(e.item, scope)
    [] e.module \notin Templates /\ e.module = "Self" -> LowerFromSelf(e.item, scope, module)
    [] OTHER -> LowerIn(Resolve(e.module, module), e.item, scope, module)

LowerStructLit(e, scope, module) ==
  IF e.variant # <<>>
  THEN StructLikeVariant(Resolve(e.type, module), Head(e.variant), e.fields, scope)
  ELSE HirAggregate("struct", e.type, FieldNames(e.fields), LowerFields(e.fields, scope))

\* A parenthesised expression is a tuple of one.
LowerTuple(parts, scope) ==
  IF Len(parts) = 1 THEN LowerExpr(parts[1], scope, Home)
  ELSE HirAggregate("tuple", "", <<>>, LowerAll(parts, scope, Home))

LowerStaticCall(e, scope, module) == HirCall("Static", e.method, LowerAll(e.args, scope, module))
LowerMethodCall(e, scope, module) ==
  HirCall("Method", e.method, LowerAll(<<e.object>> \o e.args, scope, module))
LowerBinop(e, scope) == HirOperation(e.op, LowerAll(<<e.lhs, e.rhs>>, scope, Home))
LowerRange(e, scope) ==
  HirAggregate("struct", "IntIter", <<"start", "end">>, LowerAll(<<e.start, e.end>>, scope, Home))
LowerRef(e, scope) == HirRef(ExprAsPlace(e.place, scope, Home))

LowerExpr(e, scope, module) ==
  CASE e.expr = "Lit" -> [hir |-> "Lit", name |-> e.name]
    [] e.expr = "Name" -> LowerName(e.name, scope, module)
    [] e.expr = "Path" -> LowerNameResolved(e, scope, module)
    [] e.expr = "StaticCall" -> LowerStaticCall(e, scope, module)
    [] e.expr = "BinOp" -> LowerBinop(e, scope)
    [] e.expr = "Unary" -> HirOperation(e.op, LowerAll(<<e.inner>>, scope, Home))
    [] e.expr = "RangeLit" -> LowerRange(e, scope)
    [] e.expr = "Call" -> LowerCall(e, scope, module)
    [] e.expr = "MethodCall" -> LowerMethodCall(e, scope, module)
    [] e.expr = "StructLit" -> LowerStructLit(e, scope, module)
    [] e.expr = "Tuple" -> LowerTuple(e.parts, scope)
    [] e.expr = "Ref" -> LowerRef(e, scope)
    [] OTHER -> HirUse(ExprAsPlace(e, scope, module))

ExprAsPlace(e, scope, module) ==
  CASE e.expr = "Name" ->
         IF InScope(scope, e.name) THEN LocalPlace(scope[e.name]) ELSE Temporary(HirError)
    [] e.expr = "Path" /\ Resolve(e.module, module).kind = "module" ->
         ExprAsPlace(e.item, scope, Resolve(e.module, module).id)
    [] e.expr = "Deref" -> DerefPlace(ExprAsPlace(e.inner, scope, module))
    [] e.expr = "FieldAccess" -> FieldPlace(ExprAsPlace(e.object, scope, module), e.field)
    [] e.expr = "TupleAccess" -> TupleFieldPlace(ExprAsPlace(e.object, scope, module), e.index)
    [] e.expr = "Index" -> IndexPlace(ExprAsPlace(e.object, scope, module), LowerExpr(e.at, scope, Home))
    [] OTHER -> Temporary(LowerExpr(e, scope, module))

-----------------------------------------------------------------------------
Lowered(hir, st) == [hir |-> hir, st |-> st]

\* allocate_local: a new local, which its name now means.
FreshLocal(st) == Len(st.locals) + 1
AllocateLocal(st, name, mutable) ==
  [st EXCEPT !.locals = Append(@, [name |-> name, mutable |-> mutable]),
             !.scope = (name :> FreshLocal(st)) @@ @]

\* What is made of something lowered, in the state it leaves.
Then(l, Next(_, _)) == Next(l.hir, l.st)

\* A sequence lowered one after the other, each with the state the one before
\* it leaves.
InTurn(Lower(_, _), xs, st) ==
  FoldLeft(LAMBDA acc, x : Then(Lower(x, acc.st), LAMBDA hir, after : Lowered(Append(acc.hir, hir), after)),
           Lowered(<<>>, st), xs)

HirBind(id) == [pat |-> "Bind", id |-> id]

RECURSIVE LowerPattern(_, _)
LowerFieldPattern(f, st) ==
  IF f.of = <<>> THEN Lowered([field |-> f.field, of |-> HirBind(FreshLocal(st))],
                              AllocateLocal(st, f.field, FALSE))
  ELSE Then(LowerPattern(Head(f.of), st), LAMBDA hir, after : Lowered([field |-> f.field, of |-> hir], after))

\* A pattern that names a type: the fields of a struct, or the payload of a
\* variant.
LowerConstructorPattern(pat, st) ==
  IF pat.pat = "Struct"
  THEN Then(InTurn(LowerFieldPattern, pat.fields, st),
            LAMBDA fields, after : Lowered([pat |-> "Struct", type |-> pat.type, fields |-> fields], after))
  ELSE Then(InTurn(LowerPattern, pat.parts, st),
            LAMBDA parts, after : Lowered([pat |-> "Variant", name |-> pat.name, parts |-> parts], after))

LowerPattern(pat, st) ==
  CASE pat.pat = "Bind" -> Lowered(HirBind(FreshLocal(st)), AllocateLocal(st, pat.name, pat.mutable))
    [] pat.pat = "Tuple" ->
         Then(InTurn(LowerPattern, pat.parts, st),
              LAMBDA parts, after : Lowered([pat |-> "Tuple", parts |-> parts], after))
    [] pat.pat \in {"Struct", "Variant"} -> LowerConstructorPattern(pat, st)
    [] OTHER -> Lowered(pat, st)

\* The locals a pattern allocates, which the statement that has it lists.
LocalsBetween(before, after) ==
  [i \in 1 .. (Len(after.locals) - Len(before.locals)) |-> Len(before.locals) + i]

-----------------------------------------------------------------------------
HirLet(pattern, locals, init) == [stmt |-> "Let", pattern |-> pattern, locals |-> locals, init |-> init]
HirAssign(lhs, rhs) == [stmt |-> "Assign", lhs |-> lhs, rhs |-> rhs]
HirIf(cond, then, else) == [stmt |-> "If", cond |-> cond, then |-> then, else |-> else]
HirWhile(cond, body) == [stmt |-> "While", cond |-> cond, body |-> body]
HirBlock(stmts, for_loop) == [stmt |-> "Block", stmts |-> stmts, for_loop |-> for_loop]
HirBranch(pattern, locals, body) ==
  [pattern |-> pattern, locals |-> locals, guard |-> <<>>, body |-> body]
HirMatch(scrutinee, branches) == [stmt |-> "Match", scrutinee |-> scrutinee, branches |-> branches]
HirBreak == [stmt |-> "Break"]

\* What a statement leaves to the next: its scope is the one before, when it
\* was lowered in a copy.
Outside(st, before) == [st EXCEPT !.scope = before.scope]

IteratorName(n) == "@iterator_" \o ToString(n)

\* match_some_do_or_break and while_true_do.
SomeOrBreak(next, pattern, locals, body) ==
  HirWhile([hir |-> "Lit", name |-> "true"],
           HirMatch(next, <<HirBranch([pat |-> "Variant", name |-> "Some", parts |-> <<pattern>>], locals, body),
                            HirBranch(AnyPat, <<>>, HirBreak)>>))

RECURSIVE LowerStmt(_, _)
\* A pattern and what it binds names for: the locals it allocates are listed
\* with it.  The guard, at most one, sees them.
LowerBranch(b, st) ==
  Then(LowerPattern(b.pattern, st), LAMBDA pattern, inside :
    Then(LowerStmt(b.body, inside), LAMBDA body, after :
      Lowered([HirBranch(pattern, LocalsBetween(st, inside), body)
                 EXCEPT !.guard = LowerAll(b.guard, inside.scope, Home)],
              Outside(after, st))))

\* The iterator is a local of the scope around the loop, the element of a copy.
ForLoop(iterator, iterable, branch) ==
  HirBlock(<<HirLet(HirBind(iterator), <<iterator>>, HirCall("Method", "into_iter", <<iterable>>)),
             SomeOrBreak(HirCall("Method", "next", <<HirUse(LocalPlace(iterator))>>),
                         branch.pattern, branch.locals, branch.body)>>, TRUE)

DesugarForLoop(s, st) ==
  Then(LowerBranch(Branch(s.element, s.body), AllocateLocal([st EXCEPT !.iters = @ + 1], IteratorName(st.iters), TRUE)),
       LAMBDA branch, after : Lowered(ForLoop(FreshLocal(st), LowerExpr(s.iterator, st.scope, Home), branch), after))

LowerLet(s, st) ==
  Then(LowerPattern(s.pattern, st), LAMBDA pattern, after :
    Lowered(HirLet(pattern, LocalsBetween(st, after), LowerExpr(s.value, st.scope, Home)), after))

LowerCompoundAssign(op, place, rhs) == HirAssign(place, HirOperation(op, <<HirUse(place), rhs>>))

LowerIf(s, st) ==
  Then(LowerStmt(s.then, st), LAMBDA then, between :
    Then(InTurn(LowerStmt, s.else, between), LAMBDA else, after :
      Lowered(HirIf(LowerExpr(s.cond, st.scope, Home), then, else), after)))

LowerStmt(s, st) ==
  CASE s.stmt = "Return" -> Lowered([stmt |-> "Return", value |-> LowerAll(s.values, st.scope, Home)], st)
    [] s.stmt = "If" -> LowerIf(s, st)
    [] s.stmt = "While" ->
         Then(LowerStmt(s.body, st), LAMBDA body, after :
           Lowered(HirWhile(LowerExpr(s.cond, st.scope, Home), body), after))
    [] s.stmt = "For" -> DesugarForLoop(s, st)
    [] s.stmt = "LetDecl" -> LowerLet(s, st)
    [] s.stmt = "Block" ->
         Then(InTurn(LowerStmt, s.stmts, st), LAMBDA stmts, after :
           Lowered(HirBlock(stmts, FALSE), Outside(after, st)))
    [] s.stmt = "Assign" ->
         Lowered(HirAssign(ExprAsPlace(s.lhs, st.scope, Home), LowerExpr(s.rhs, st.scope, Home)), st)
    [] s.stmt = "CompoundAssign" ->
         Lowered(LowerCompoundAssign(s.op, ExprAsPlace(s.lhs, st.scope, Home), LowerExpr(s.rhs, st.scope, Home)), st)
    [] s.stmt = "Expr" -> Lowered([stmt |-> "Expr", value |-> LowerExpr(s.value, st.scope, Home)], st)
    [] s.stmt = "Match" ->
         Then(InTurn(LowerBranch, s.branches, st), LAMBDA branches, after :
           Lowered(HirMatch(LowerExpr(s.scrutinee, st.scope, Home), branches), after))
    [] s.stmt = "Break" -> Lowered(HirBreak, st)

-----------------------------------------------------------------------------
\* lower: the parameters are the first locals.
LowerFunction(params, stmts) ==
  Then(InTurn(LowerStmt, stmts, FoldLeft(LAMBDA st, name : AllocateLocal(st, name, FALSE),
                                         [scope |-> <<>>, locals |-> <<>>, iters |-> 0], params)),
       LAMBDA lowered, st : [params |-> [i \in DOMAIN params |-> i], locals |-> st.locals, stmts |-> lowered])
==============================================================================
