-------------------------------- MODULE Unify --------------------------------
(***************************************************************************)
(* Unification with backtracking (src/src/typecheck/inference/unify.rs and *)
(* the snapshots of inference/mod.rs), on the types of inference and the   *)
(* table that says what is known of their variables.                       *)
(*                                                                         *)
(* A type is a variable, or a definition applied to types; a template of   *)
(* the function, InferTy::Param, is the definition Param, of no fields.    *)
(* The table is ena's UnificationTable: every variable has a root, and a   *)
(* root has a rank and the type it is bound to, if any.                    *)
(*                                                                         *)
(* ctx is the part of InferenceCtx that speculation touches.  The table    *)
(* has snapshots of its own (ena's); listeners, ready, ready_set and the   *)
(* inferred types are restored from undo_log, entry by entry.  A listener  *)
(* list that is absent and one that is empty are not told apart.           *)
(*                                                                         *)
(* equations is a history: what was unified with success and stands.       *)
(*                                                                         *)
(* On top of it the constraints of inference and how each is tried         *)
(* (typecheck/inference/constraints).  A constraint has a kind, the fresh  *)
(* variable emitted with it (0 when there is none) and types.  Method,     *)
(* Implements and Unify constraints, which choose among the impl blocks of *)
(* a program, are not modelled.  The built-in definitions stand for        *)
(* themselves; "struct" is a struct with one field, which the field        *)
(* constraints ask for.                                                    *)
(***************************************************************************)
EXTENDS Naturals, Sequences, FiniteSets, SequencesExt

Var(v) == [var |-> v]
Adt(d, fs) == [def |-> d, fields |-> fs]
IsVar(t) == "var" \in DOMAIN t
IsAdt(t) == ~ IsVar(t) /\ t.def # "Param"

IntTy == Adt("int", <<>>)
U8Ty == Adt("u8", <<>>)
BoolTy == Adt("bool", <<>>)
ParamTy == Adt("Param", <<>>)
StructTy == Adt("struct", <<>>)   \* one field, of type U8Ty
U64Ty == Adt("usize", <<>>)
RefTo(t) == Adt("ref", <<t>>)
MutPtrTo(t) == Adt("mutptr", <<t>>)
SliceOf(t) == Adt("slice", <<t>>)

Unbound == [unbound |-> TRUE]

-----------------------------------------------------------------------------
Size(table) == Len(table.root)

NewKey(table) ==
  [ root |-> Append(table.root, Size(table) + 1),
    rank |-> Append(table.rank, 0),
    value |-> Append(table.value, Unbound) ]

NewTable(n) ==
  FoldLeft(LAMBDA table, v : NewKey(table), [root |-> <<>>, rank |-> <<>>, value |-> <<>>],
           [v \in 1 .. n |-> v])

\* Two unbound classes become one; the root of higher rank stays the root,
\* the second one on a tie.
UnionRoots(table, a, b) ==
  LET ra == table.root[a]
      rb == table.root[b]
      top == IF table.rank[ra] > table.rank[rb] THEN ra ELSE rb
      tie == IF table.rank[ra] = table.rank[rb] THEN 1 ELSE 0
  IN IF ra = rb THEN table
     ELSE [ table EXCEPT
              !.root = [v \in DOMAIN @ |-> IF @[v] \in {ra, rb} THEN top ELSE @[v]],
              !.rank[top] = @ + tie ]

BindRoot(table, v, ty) == [table EXCEPT !.value[table.root[v]] = ty]

-----------------------------------------------------------------------------
\* The variables of a type (InferTy::listeners).
RECURSIVE VarsOf(_)
VarsOf(t) == IF IsVar(t) THEN {t.var} ELSE UNION {VarsOf(t.fields[i]) : i \in DOMAIN t.fields}

\* Mutant: the occurs check refuses any type with a variable in it.
OccursAnywhere(t, v) == VarsOf(t) # {}

\* InferTy::occurs compares variables by name, not by class.
RECURSIVE Occurs(_, _)
Occurs(t, v) ==
  IF IsVar(t) THEN t.var = v ELSE \E i \in DOMAIN t.fields : Occurs(t.fields[i], v)

\* InferenceCtx::find looks a variable up once: an unbound variable stands for
\* itself, not for its root, and the type it is bound to is not looked into.
RECURSIVE Find(_, _)
Find(table, t) ==
  IF IsVar(t)
  THEN LET value == table.value[table.root[t.var]]
       IN IF value = Unbound THEN t ELSE value
  ELSE [t EXCEPT !.fields = [i \in DOMAIN @ |-> Find(table, @[i])]]

\* A type around itself: bound variables each of which is around another.
\* Looking into such a type never ends.
Knotted(table) ==
  \E S \in SUBSET {v \in 1 .. Size(table) : table.value[v] # Unbound} :
    S # {} /\ \A v \in S : \E w \in VarsOf(table.value[v]) : table.root[w] \in S

-----------------------------------------------------------------------------
\* What a type stands for, looked into down to a depth: the reference the
\* properties compare with.
RECURSIVE Deep(_, _, _)
Deep(table, t, depth) ==
  LET seen == IF IsVar(t) /\ table.value[table.root[t.var]] # Unbound
              THEN table.value[table.root[t.var]]
              ELSE t
  IN IF IsVar(seen) THEN Var(table.root[seen.var])
     ELSE IF depth = 0 THEN [seen EXCEPT !.fields = <<>>]
     ELSE [seen EXCEPT !.fields = [i \in DOMAIN @ |-> Deep(table, @[i], depth - 1)]]

\* The type under an assignment of closed types to the variables.
RECURSIVE Ground(_, _)
Ground(sigma, t) ==
  IF IsVar(t) THEN sigma[t.var]
  ELSE [t EXCEPT !.fields = [i \in DOMAIN @ |-> Ground(sigma, @[i])]]

\* The assignments that agree with all the table knows.
Solves(sigma, table) ==
  \A v \in 1 .. Size(table) :
    LET root == table.root[v]
    IN /\ sigma[v] = sigma[root]
       /\ table.value[root] # Unbound => sigma[v] = Ground(sigma, table.value[root])

-----------------------------------------------------------------------------
\* Snapshots and their undo log.
PushUndo(ctx, entry) ==
  IF ctx.depth > 0 THEN [ctx EXCEPT !.undo_log = Append(@, entry)] ELSE ctx

RecordListeners(ctx, v) ==
  PushUndo(ctx, [undo |-> "Listeners", key |-> v, old |-> ctx.listeners[v]])

ReadyPush(ctx, id) ==
  PushUndo([ctx EXCEPT !.ready = Append(@, id)], [undo |-> "ReadyPush", key |-> id])

ReadySetInsert(ctx, id) ==
  IF id \in ctx.ready_set THEN ctx
  ELSE PushUndo([ctx EXCEPT !.ready_set = @ \cup {id}], [undo |-> "ReadySet", key |-> id])

SetInferred(ctx, expr, ty) ==
  PushUndo([ctx EXCEPT !.inferred[expr] = ty],
           [undo |-> "Inferred", key |-> expr, old |-> ctx.inferred[expr]])

\* Mutant: listeners stay as they are.
UndoButListeners(ctx, entry) ==
  CASE entry.undo = "Inferred" -> [ctx EXCEPT !.inferred[entry.key] = entry.old]
    [] entry.undo = "ReadySet" -> [ctx EXCEPT !.ready_set = @ \ {entry.key}]
    [] entry.undo = "ReadyPush" -> [ctx EXCEPT !.ready = Front(@)]
    [] OTHER -> ctx

\* One entry of rollback_undo_log.
UndoEntry(ctx, entry) ==
  CASE entry.undo = "Listeners" -> [ctx EXCEPT !.listeners[entry.key] = entry.old]
    [] entry.undo = "Inferred" -> [ctx EXCEPT !.inferred[entry.key] = entry.old]
    [] entry.undo = "ReadySet" -> [ctx EXCEPT !.ready_set = @ \ {entry.key}]
    [] entry.undo = "ReadyPush" -> [ctx EXCEPT !.ready = Front(@)]

RollbackLog(ctx, mark) ==
  [ FoldRight(LAMBDA entry, c : UndoEntry(c, entry),
              SubSeq(ctx.undo_log, mark + 1, Len(ctx.undo_log)), ctx)
      EXCEPT !.undo_log = SubSeq(@, 1, mark) ]

\* The two ends of InferenceCtx::snapshot.
Opened(ctx) == [ctx EXCEPT !.depth = @ + 1]

Closed(ctx, ok, mark, table) ==
  [ (IF ok THEN ctx ELSE [RollbackLog(ctx, mark) EXCEPT !.table = table])
      EXCEPT !.depth = @ - 1,
             !.undo_log = IF ctx.depth = 1 THEN <<>> ELSE @ ]

-----------------------------------------------------------------------------
TakeListeners(ctx, v) == [RecordListeners(ctx, v) EXCEPT !.listeners[v] = <<>>]

\* Mutant: only the list that is emptied is recorded.
MoveListenersHalfLogged(ctx, other, root) ==
  [TakeListeners(ctx, other) EXCEPT !.listeners[root] = @ \o ctx.listeners[other]]

\* merge_listeners, after the classes of root and other became one.
MoveListeners(ctx, other, root) ==
  [ RecordListeners(TakeListeners(ctx, other), root)
      EXCEPT !.listeners[root] = @ \o ctx.listeners[other] ]

MergeListeners(ctx, a, b) ==
  IF ctx.table.root[a] = a THEN MoveListeners(ctx, b, a)
  ELSE MoveListeners(ctx, a, ctx.table.root[a])

\* The listeners of a variable that got bound move to the ready queue.
Ready(ctx, id) == IF id \in ctx.ready_set THEN ctx ELSE ReadyPush(ReadySetInsert(ctx, id), id)

WakeListeners(ctx, root) ==
  FoldLeft(Ready, TakeListeners(ctx, root), ctx.listeners[root])

Ok(ctx) == [ok |-> TRUE, ctx |-> ctx]
Err(ctx) == [ok |-> FALSE, ctx |-> ctx]

\* A variable and what is not an unbound variable.
BindVar(ctx, v, resolved) ==
  IF Occurs(resolved, v) THEN Err(ctx)
  ELSE Ok(WakeListeners([ctx EXCEPT !.table = BindRoot(@, v, resolved)], ctx.table.root[v]))

RECURSIVE Unify(_, _, _)

\* Mutant: the result is that of the last fields.
UnifyLastFields(ctx, fs, gs) ==
  FoldLeft(LAMBDA r, i : IF Knotted(r.ctx.table) THEN r ELSE Unify(r.ctx, fs[i], gs[i]),
           Ok(ctx), [i \in DOMAIN fs |-> i])

\* The fields from left to right, up to the first that fails, or that ties a
\* type into a knot: the code may recurse without end from there on.
UnifyFields(ctx, fs, gs) ==
  FoldLeft(LAMBDA r, i : IF r.ok /\ ~ Knotted(r.ctx.table) THEN Unify(r.ctx, fs[i], gs[i]) ELSE r,
           Ok(ctx), [i \in DOMAIN fs |-> i])

UnifyFound(ctx, a, b) ==
  CASE IsVar(a) /\ IsVar(b) ->
         Ok(MergeListeners([ctx EXCEPT !.table = UnionRoots(@, a.var, b.var)], a.var, b.var))
    [] IsVar(a) /\ ~ IsVar(b) -> BindVar(ctx, a.var, Find(ctx.table, b))
    [] ~ IsVar(a) /\ IsVar(b) -> BindVar(ctx, b.var, Find(ctx.table, a))
    [] OTHER -> IF a.def # b.def \/ Len(a.fields) # Len(b.fields) THEN Err(ctx)
                ELSE UnifyFields(ctx, a.fields, b.fields)

TryUnify(ctx, s, t) == UnifyFound(ctx, Find(ctx.table, s), Find(ctx.table, t))

\* InferenceCtx::unify: try_unify in a snapshot of its own.
CloseUnify(ctx, equation, tried) ==
  [ ok |-> tried.ok,
    ctx |-> [ Closed(tried.ctx, tried.ok, Len(ctx.undo_log), ctx.table)
                EXCEPT !.equations = IF tried.ok THEN @ \cup {equation} ELSE ctx.equations ] ]

Unify(ctx, s, t) == CloseUnify(ctx, <<s, t>>, TryUnify(Opened(ctx), s, t))

-----------------------------------------------------------------------------
\* The constraints.
Constraint(kind, var, tys) == [kind |-> kind, var |-> var, tys |-> tys]

\* The operators fall into three: comparisons, sums and products, and the rest.
IsBinop(k) == k.kind \in {"Compare", "Add", "Divide"}

HasDefault(k) == k.kind \in {"Deref", "IntLike"}

IsRef(t) == IsAdt(t) /\ t.def \in {"ref", "mutref"}
IsPtr(t) == IsAdt(t) /\ t.def \in {"ptr", "mutptr"}
IsPtrLike(t) == IsRef(t) \/ IsPtr(t)
IsMut(t) == t.def \in {"mutref", "mutptr"}
IsInt(t) == IsAdt(t) /\ t.def \in {"int", "u8", "usize", "bool"}
IsIntLike(t) == IsInt(t) \/ IsPtr(t)
IsSlice(t) == IsAdt(t) /\ t.def = "slice"

\* The variables a constraint mentions, and those it listens on: a binop asks
\* its operands without looking them up.
MentionedBy(k) ==
  (IF k.var = 0 THEN {} ELSE {k.var}) \cup UNION {VarsOf(k.tys[i]) : i \in DOMAIN k.tys}

ListensOn(table, k) ==
  (IF k.var = 0 THEN {} ELSE VarsOf(Find(table, Var(k.var))))
    \cup UNION {VarsOf(IF IsBinop(k) THEN k.tys[i] ELSE Find(table, k.tys[i])) :
                  i \in DOMAIN k.tys}

\* Mutant: a constraint that is still pending is queued again.
RegisterAndQueue(ctx, id) ==
  FoldSet(LAMBDA v, c : [RecordListeners(c, v) EXCEPT !.listeners[v] = Append(@, id)],
          ReadyPush(ctx, id), ListensOn(ctx.table, ctx.constraints[id]))

RegisterListeners(ctx, id) ==
  FoldSet(LAMBDA v, c : [RecordListeners(c, v) EXCEPT !.listeners[v] = Append(@, id)],
          ctx, ListensOn(ctx.table, ctx.constraints[id]))

Fresh(ctx) == [ctx EXCEPT !.table = NewKey(@)]

\* emit_constraint: queued at once, without a mark in ready_set.
Emit(ctx, k) ==
  LET id == Len(ctx.constraints) + 1
      known == [ctx EXCEPT !.constraints = Append(@, k)]
  IN RegisterListeners(ReadyPush(known, id), id)

-----------------------------------------------------------------------------
\* The outcome of trying a constraint.
Solved(ctx) == [outcome |-> "Solved", ctx |-> ctx]
Pending(ctx) == [outcome |-> "Pending", ctx |-> ctx]
Error(ctx) == [outcome |-> "Error", ctx |-> ctx]
Panic(ctx) == [outcome |-> "Panic", ctx |-> ctx]

SolvedIfOk(r) == IF r.ok THEN Solved(r.ctx) ELSE Error(r.ctx)
SolvedIfUnified(ctx, s, t) == SolvedIfOk(Unify(ctx, s, t))

\* Mutant: any pointer will do.
TryDerefUntyped(ctx, k, ty) ==
  CASE IsVar(ty) -> Pending(ctx)
    [] ~ IsVar(ty) /\ IsPtrLike(ty) -> Solved(ctx)
    [] OTHER -> Error(ctx)

TryDeref(ctx, k, ty) ==
  CASE IsVar(ty) -> Pending(ctx)
    [] ~ IsVar(ty) /\ IsPtrLike(ty) /\ Len(ty.fields) = 1 ->
         SolvedIfUnified(ctx, k.tys[1], ty.fields[1])
    [] OTHER -> Error(ctx)

TryBindsLike(ctx, k, like) ==
  CASE ~ IsAdt(like) -> Pending(ctx)
    [] IsRef(like) -> SolvedIfUnified(ctx, Var(k.var), Adt(like.def, <<k.tys[1]>>))
    [] OTHER -> SolvedIfUnified(ctx, Var(k.var), k.tys[1])

\* Slices, references to slices and raw pointers have an element type; the
\* index is an integer literal's type from then on.
ElementOf(ty) ==
  CASE IsSlice(ty) -> ty.fields
    [] IsRef(ty) -> IF IsSlice(ty.fields[1]) THEN ty.fields[1].fields ELSE <<>>
    [] IsPtr(ty) -> ty.fields
    [] OTHER -> <<>>

IntLikeIndex(r, index, idx) ==
  IF r.ok THEN SolvedIfUnified(Emit(Fresh(r.ctx), Constraint("IntLike", idx, <<>>)), index, Var(idx))
  ELSE Error(r.ctx)

TryIndexedBy(ctx, k, ty) ==
  CASE ElementOf(ty) # <<>> -> IntLikeIndex(Unify(ctx, Var(k.var), ElementOf(ty)[1]), k.tys[2],
                                            Size(ctx.table) + 1)
    [] ElementOf(ty) = <<>> /\ IsAdt(ty) -> Panic(ctx)
    [] OTHER -> Pending(ctx)

\* A field is looked for behind any number of references.
RECURSIVE BehindRefs(_)
BehindRefs(ty) == IF IsRef(ty) THEN BehindRefs(ty.fields[1]) ELSE ty

TryStructField(ctx, k, ty) ==
  CASE BehindRefs(ty) = StructTy -> SolvedIfUnified(ctx, Var(k.var), U8Ty)
    [] BehindRefs(ty) # StructTy /\ IsAdt(ty) -> Error(ctx)
    [] OTHER -> Pending(ctx)

\* An operator on two integer-like definitions.  A sum of two pointers is a
\* pointer without the type it points to; of different integers, the wider one.
Width(d) == CASE d \in {"u8", "bool"} -> 8 [] d = "int" -> 32 [] d = "usize" -> 64
ByWidth(w) == CASE w = 8 -> U8Ty [] w = 32 -> IntTy [] w = 64 -> U64Ty
Wider(d, e) == ByWidth(IF Width(d) > Width(e) THEN Width(d) ELSE Width(e))

IntBinop(ctx, k, lhs, rhs) ==
  CASE k.kind = "Compare" -> SolvedIfUnified(ctx, Var(k.var), BoolTy)
    [] k.kind = "Add" /\ lhs.def = rhs.def -> SolvedIfUnified(ctx, Var(k.var), Adt(lhs.def, <<>>))
    [] k.kind = "Add" /\ lhs.def # rhs.def /\ IsInt(lhs) /\ IsInt(rhs) ->
         SolvedIfUnified(ctx, Var(k.var), Wider(lhs.def, rhs.def))
    [] OTHER -> Panic(ctx)

\* Only one operand is known: the other one is of its type.
OneOperand(r, k, known) == IF r.ok THEN IntBinop(r.ctx, k, known, known) ELSE Error(r.ctx)

TryBinop(ctx, k, lhs, rhs) ==
  CASE IsVar(lhs) /\ IsVar(rhs) -> Pending(ctx)
    [] IsIntLike(lhs) /\ IsIntLike(rhs) -> IntBinop(ctx, k, lhs, rhs)
    [] IsIntLike(lhs) /\ IsVar(rhs) -> OneOperand(Unify(ctx, lhs, rhs), k, lhs)
    [] IsVar(lhs) /\ IsIntLike(rhs) /\ rhs.fields = <<>> -> OneOperand(Unify(ctx, lhs, rhs), k, rhs)
    [] OTHER -> Panic(ctx)

TryIsInner(ctx, inner, ref) ==
  CASE ref = inner -> Solved(ctx)
    [] ref # inner /\ ~ IsVar(BehindRefs(ref)) -> SolvedIfUnified(ctx, inner, BehindRefs(ref))
    [] OTHER -> Pending(ctx)

TryIntLike(ctx, ty) ==
  CASE IsVar(ty) -> Pending(ctx)
    [] IsIntLike(ty) -> Solved(ctx)
    [] OTHER -> Error(ctx)

\* A reference is fat once it is known to be to a slice.
CastClass(ty) ==
  CASE IsRef(ty) -> IF IsSlice(ty.fields[1]) THEN "FatPtr" ELSE "ThinPtr"
    [] IsPtr(ty) -> "ThinPtr"
    [] IsInt(ty) -> "Int"
    [] OTHER -> "None"

\* Integers and thin pointers cast to each other, the width does not matter;
\* a pointer that may not write does not become one that may.
MayCast(from, to) ==
  \/ <<CastClass(from), CastClass(to)>> \in {<<"Int", "Int">>, <<"ThinPtr", "Int">>, <<"Int", "ThinPtr">>}
  \/ /\ <<CastClass(from), CastClass(to)>> \in
          {<<"ThinPtr", "ThinPtr">>, <<"FatPtr", "ThinPtr">>, <<"FatPtr", "FatPtr">>}
     /\ IsMut(to) => IsMut(from)

TryCast(ctx, from, to) ==
  CASE IsVar(from) \/ IsVar(to) -> Pending(ctx)
    [] ~ (IsVar(from) \/ IsVar(to)) /\ MayCast(from, to) -> Solved(ctx)
    [] OTHER -> Error(ctx)

\* try_solve_constraint, of a constraint not yet solved.
TryKind(ctx, k, own, seen) ==
  CASE k.kind = "Deref" -> TryDeref(ctx, k, own)
    [] k.kind = "BindsLike" -> TryBindsLike(ctx, k, seen[2])
    [] k.kind = "IndexedBy" -> TryIndexedBy(ctx, k, seen[1])
    [] k.kind = "StructField" -> TryStructField(ctx, k, seen[1])
    [] IsBinop(k) -> TryBinop(ctx, k, seen[1], seen[2])
    [] k.kind = "IntLike" -> TryIntLike(ctx, own)
    [] k.kind = "IsInner" -> TryIsInner(ctx, seen[1], seen[2])
    [] k.kind = "Cast" -> TryCast(ctx, seen[1], seen[2])

Try(ctx, k) ==
  TryKind(ctx, k, Find(ctx.table, Var(k.var)), [i \in DOMAIN k.tys |-> Find(ctx.table, k.tys[i])])

TrySolve(ctx, id) == IF id \in ctx.solved THEN Solved(ctx) ELSE Try(ctx, ctx.constraints[id])

\* try_default_constraint.
TryDefault(ctx, id) ==
  LET k == ctx.constraints[id]
  IN IF k.kind = "IntLike" THEN SolvedIfUnified(ctx, Var(k.var), IntTy)
     ELSE SolvedIfUnified(ctx, Var(k.var), RefTo(k.tys[1]))
=============================================================================
