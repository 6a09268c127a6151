------------------------------ MODULE Translator ------------------------------
(***************************************************************************)
(* HirToThir (src/src/hir_to_thir/translator.rs, builder.rs): the typed    *)
(* body.  What an expression needs before it (a temporary for the base of  *)
(* a place, or for a receiver) becomes statements in front of it.          *)
(*                                                                         *)
(* The state t of the translation: the number of locals, the arena of      *)
(* scopes, and the scopes that are open.  Translating a place or an        *)
(* expression answers [thir, pre, t], with the statements it needs before. *)
(***************************************************************************)
EXTENDS LowerFundef

\* What type inference found.
CONSTANTS
  Adjustment,      \* the adjustment of the receiver, by method
  AfterReference,  \* the fields, positions of tuples and elements of slices
                   \* whose base is a reference
  RefDepth         \* how many references there are to what a struct pattern
                   \* takes apart, by its type

UseThir(place) == [thir |-> "Use", place |-> place]
RefThir(place) == [thir |-> "Ref", place |-> place]
ThirError == [thir |-> "Error"]

ThirPlace(local) == [local |-> local, projections |-> <<>>]
Project(place, projection) == [place EXCEPT !.projections = Append(@, projection)]
ProjDeref == [proj |-> "Deref"]
ProjField(field) == [proj |-> "Field", field |-> field]
ProjTupleField(index) == [proj |-> "TupleField", index |-> index]
ProjIndex(index) == [proj |-> "Index", index |-> index]

\* A place behind that many references.
Behind(place, derefs) ==
  FoldLeft(LAMBDA p, i : Project(p, ProjDeref), place, [i \in 1 .. derefs |-> i])

ThirLet(local, init) == [stmt |-> "Let", local |-> local, init |-> init]
ThirExprStmt(e) == [stmt |-> "Expr", value |-> e]
ThirBlock(scope, stmts) == [stmt |-> "Block", scope |-> scope, stmts |-> stmts]

-----------------------------------------------------------------------------
\* new_synthetic_local, and push_local_to_drop: every local of the model has a
\* type that may be dropped.
NewLocal(t) == [t EXCEPT !.locals = @ + 1]
ToDrop(t, local) == [t EXCEPT !.scopes[Last(t.stack)].drops = Append(@, local)]

PushScope(t, kind) ==
  [t EXCEPT !.scopes = Append(@, [kind |-> kind, drops |-> <<>>]), !.stack = Append(@, Len(t.scopes) + 1)]
PopScope(t) == [t EXCEPT !.stack = Front(@)]

LoopScopes(t) == SelectSeq(t.stack, LAMBDA id : t.scopes[id].kind = "Loop")

-----------------------------------------------------------------------------
Translated(thir, pre, t) == [thir |-> thir, pre |-> pre, t |-> t]

\* What is made of something translated, with what that needs in front.
InFront(pre, r) == [r EXCEPT !.pre = pre \o @]
Using(r, Next(_, _)) == InFront(r.pre, Next(r.thir, r.t))
As(r, Form(_)) == [r EXCEPT !.thir = Form(@)]

\* spill_to_temp, and the local of a Temporary.
Spilled(r) ==
  Translated(ThirPlace(r.t.locals + 1), Append(r.pre, ThirLet(r.t.locals + 1, r.thir)), NewLocal(r.t))

RECURSIVE TExpr(_, _), TPlace(_, _)

TAll(es, t) ==
  FoldLeft(LAMBDA acc, e : Using(acc, LAMBDA thirs, u : As(TExpr(e, u), LAMBDA thir : Append(thirs, thir))),
           Translated(<<>>, <<>>, t), es)

\* compute_receiver: the place of the receiver, or of a temporary that holds
\* it, as the method wants it.
InPlace(r) == IF r.thir.thir = "Use" THEN As(r, LAMBDA use : use.place) ELSE Spilled(r)

TReceiver(receiver, adjustment, t) ==
  As(InPlace(TExpr(receiver, t)), LAMBDA place :
     IF adjustment.ref THEN RefThir(Behind(place, adjustment.derefs)) ELSE UseThir(Behind(place, adjustment.derefs)))

TCall(e, t) ==
  IF e.kind = "Method"
  THEN Using(TReceiver(Head(e.args), Adjustment[e.callee], t), LAMBDA receiver, u :
         As(TAll(Tail(e.args), u), LAMBDA args : [thir |-> "Call", callee |-> e.callee, args |-> <<receiver>> \o args]))
  ELSE As(TAll(e.args, t), LAMBDA args : [thir |-> "Call", callee |-> e.callee, args |-> args])

TExpr(e, t) ==
  CASE e.hir = "Lit" -> Translated([thir |-> "Lit", name |-> e.name], <<>>, t)
    [] e.hir = "Use" -> As(TPlace(e.from, t), UseThir)
    [] e.hir = "Ref" -> As(TPlace(e.from, t), RefThir)
    [] e.hir = "Operation" ->
         As(TAll(e.args, t), LAMBDA args : [thir |-> "Operation", op |-> e.op, args |-> args])
    [] e.hir = "Aggregate" ->
         As(TAll(e.args, t), LAMBDA args :
            [thir |-> "Aggregate", kind |-> e.kind, name |-> e.name, keys |-> e.keys, args |-> args])
    [] e.hir = "Call" -> TCall(e, t)
    [] OTHER -> Translated(ThirError, <<>>, t)

\* auto_deref_place_if_needed: the base of a part, or what it refers to.
IsAfterReference(p) ==
  CASE p.place = "Field" -> p.field \in AfterReference.fields
    [] p.place = "TupleField" -> p.index \in AfterReference.positions
    [] p.place = "Index" -> p.at.hir = "Lit" /\ p.at.name \in AfterReference.elements

TBase(p, t) == As(TPlace(p.base, t), LAMBDA base : Behind(base, IF IsAfterReference(p) THEN 1 ELSE 0))

TPlace(p, t) ==
  CASE p.place = "Local" -> Translated(ThirPlace(p.id), <<>>, t)
    [] p.place = "Field" -> As(TBase(p, t), LAMBDA base : Project(base, ProjField(p.field)))
    [] p.place = "TupleField" -> As(TBase(p, t), LAMBDA base : Project(base, ProjTupleField(p.index)))
    [] p.place = "Deref" -> As(TPlace(p.base, t), LAMBDA base : Project(base, ProjDeref))
    [] p.place = "Index" ->
         Using(TBase(p, t), LAMBDA base, u :
           As(TExpr(p.at, u), LAMBDA index : Project(base, ProjIndex(index))))
    [] p.place = "Temporary" -> Spilled(TExpr(p.value, t))

-----------------------------------------------------------------------------
\* Statements made so far and the state after them.
Made(stmts, t) == [stmts |-> stmts, t |-> t]
And(m, Next(_)) == [Next(m.t) EXCEPT !.stmts = m.stmts \o @]
\* The statements made of an expression.
Of(r, Next(_, _)) == And(Made(r.pre, r.t), LAMBDA t : Next(r.thir, t))

\* destructure_pattern_init: a value, which is a place or an expression, taken
\* apart by the pattern of a let.
OfPlace(place) == [is |-> "place", place |-> place]
OfExpr(e) == [is |-> "expr", value |-> e]
AsExpr(v) == IF v.is = "place" THEN UseThir(v.place) ELSE v.value

\* An expression that is taken apart is first held in a local.
Held(v, t, Next(_, _)) ==
  IF v.is = "place" THEN Next(v.place, t)
  ELSE And(Made(<<ThirLet(t.locals + 1, v.value)>>, ToDrop(NewLocal(t), t.locals + 1)),
           LAMBDA u : Next(ThirPlace(t.locals + 1), u))

InOwnScope(m) == Made(<<ThirBlock(Last(m.t.stack), m.stmts)>>, PopScope(m.t))

RECURSIVE Destructure(_, _, _)
DestructureParts(parts, place, t) ==
  FoldLeft(LAMBDA m, i : And(m, LAMBDA u : Destructure(parts[i], OfPlace(Project(place, ProjTupleField(i))), u)),
           Made(<<>>, t), SelectSeq([i \in DOMAIN parts |-> i], LAMBDA i : parts[i].pat # "Any"))

\* A reference to a place, under further references: each refers to a local
\* that holds the one before.
References(place, depth, t) ==
  FoldLeft(LAMBDA r, i : Translated(RefThir(ThirPlace(r.t.locals + 1)), Append(r.pre, ThirLet(r.t.locals + 1, r.thir)),
                                    ToDrop(NewLocal(r.t), r.t.locals + 1)),
           Translated(RefThir(place), <<>>, t), [i \in 1 .. (depth - 1) |-> i])

\* What a field of a struct behind references is taken for: as many references
\* to it.
FieldValue(field, place, depth, t) ==
  LET at == Project(Behind(place, depth), ProjField(field))
  IN  IF depth = 0 THEN Translated(UseThir(at), <<>>, t) ELSE References(at, depth, t)

DestructureFields(fields, place, depth, t) ==
  FoldLeft(LAMBDA m, f : And(m, LAMBDA u :
             Of(FieldValue(f.field, place, depth, u), LAMBDA value, v : Destructure(f.of, OfExpr(value), v))),
           Made(<<>>, t), fields)

Destructure(pat, v, t) ==
  CASE pat.pat = "Bind" -> Made(<<ThirLet(pat.id, AsExpr(v))>>, ToDrop(t, pat.id))
    [] pat.pat = "Any" -> Made(<<ThirExprStmt(AsExpr(v))>>, t)
    [] pat.pat = "Tuple" -> Held(v, t, LAMBDA place, u : DestructureParts(pat.parts, place, u))
    [] pat.pat = "Struct" ->
         Held(v, t, LAMBDA place, u : 
           InOwnScope(DestructureFields(pat.fields, place, RefDepth[pat.type], PushScope(u, "Block"))))
    [] OTHER -> Made(<<>>, t)

-----------------------------------------------------------------------------
RECURSIVE TStmt(_, _), TSingle(_, _)

TStmts(stmts, t) ==
  FoldLeft(LAMBDA m, s : And(m, LAMBDA u : TStmt(s, u)), Made(<<>>, t), stmts)

\* handle_single_stmt: the block of a branch or loop is not a block of its own.
TSingle(s, t) ==
  IF s.stmt = "Block" /\ ~s.for_loop
  THEN IF Len(s.stmts) = 1 THEN TSingle(s.stmts[1], t) ELSE TStmts(s.stmts, t)
  ELSE TStmt(s, t)

\* A statement translated in a scope of its own, and what is made of it.
Scoped(kind, s, t, Next(_, _)) ==
  LET m == TSingle(s, PushScope(t, kind)) IN Next(m.stmts, PopScope(m.t))

TLet(s, t) ==
  Of(TExpr(s.init, t), LAMBDA init, u :
     Destructure(s.pattern, IF s.init.hir = "Use" THEN OfPlace(init.place) ELSE OfExpr(init), u))

ThirIf(setup, cond, then, else) ==
  [stmt |-> "If", setup |-> setup, cond |-> cond, then |-> then, else |-> else]

TElse(else, t, Next(_, _)) == IF else = <<>> THEN Next(<<>>, t) ELSE Scoped("Block", else[1], t, Next)

TIf(s, cond) ==
  Scoped("Block", s.then, cond.t, LAMBDA then, u :
    TElse(s.else, u, LAMBDA else, v : Made(<<ThirIf(cond.pre, cond.thir, then, else)>>, v)))

ThirWhile(scope, setup, cond, body) ==
  [stmt |-> "While", scope |-> scope, setup |-> setup, cond |-> cond, body |-> body]

\* The scope of the loop is the next one of the arena.
TWhile(s, cond) ==
  Scoped("Loop", s.body, cond.t, LAMBDA body, u :
    Made(<<ThirWhile(Len(cond.t.scopes) + 1, cond.pre, cond.thir, body)>>, u))

\* What a guard needs before it is kept with it.
TGuard(guard, t) ==
  LET g == TAll(guard, t) IN As(g, LAMBDA value : [i \in DOMAIN value |-> [setup |-> g.pre, value |-> value[i]]])

TBranch(m, b) ==
  LET guard == TGuard(b.guard, m.t)
  IN  Scoped("Block", b.body, guard.t, LAMBDA body, u :
        Made(Append(m.stmts, [pattern |-> b.pattern, guard |-> guard.thir, body |-> body]), u))

ThirMatch(setup, scrutinee, branches) ==
  [stmt |-> "Match", setup |-> setup, scrutinee |-> scrutinee, branches |-> branches]

TMatch(s, scrutinee) ==
  LET branches == FoldLeft(TBranch, Made(<<>>, scrutinee.t), s.branches)
  IN  Made(<<ThirMatch(scrutinee.pre, scrutinee.thir, branches.stmts)>>, branches.t)

\* handle_break: out of the innermost loop.
TBreakOuter(t) ==
  Made(<<IF LoopScopes(t) = <<>> THEN [stmt |-> "Error"] ELSE [stmt |-> "Break", scope |-> Head(LoopScopes(t))]>>, t)

TBreak(t) ==
  Made(<<IF LoopScopes(t) = <<>> THEN [stmt |-> "Error"] ELSE [stmt |-> "Break", scope |-> Last(LoopScopes(t))]>>, t)

TStmt(s, t) ==
  CASE s.stmt = "Let" -> TLet(s, t)
    [] s.stmt = "Match" -> TMatch(s, TExpr(s.scrutinee, t))
    [] s.stmt = "Assign" ->
         Of(TPlace(s.lhs, t), LAMBDA place, u :
           Of(TExpr(s.rhs, u), LAMBDA rhs, v : Made(<<[stmt |-> "Assign", place |-> place, rhs |-> rhs]>>, v)))
    [] s.stmt = "Expr" -> Of(TExpr(s.value, t), LAMBDA e, u : Made(<<ThirExprStmt(e)>>, u))
    [] s.stmt = "Return" ->
         Of(TAll(s.value, t), LAMBDA value, u : Made(<<[stmt |-> "Return", value |-> value]>>, u))
    [] s.stmt = "If" -> TIf(s, TExpr(s.cond, t))
    [] s.stmt = "While" -> TWhile(s, TExpr(s.cond, t))
    [] s.stmt = "Block" -> InOwnScope(TStmts(s.stmts, PushScope(t, "Block")))
    [] s.stmt = "Break" -> TBreak(t)

\* translate: the locals of the HIR come first, with the same numbers.
TranslateBody(hir) ==
  LET start == PushScope([locals |-> Len(hir.locals), scopes |-> <<>>, stack |-> <<>>], "Block")
      body == TStmts(hir.stmts, FoldLeft(ToDrop, start, hir.params))
  IN  [params |-> hir.params, locals |-> body.t.locals, stmts |-> body.stmts, scopes |-> body.t.scopes]
==============================================================================
