------------------------------ MODULE Inference ------------------------------
(***************************************************************************)
(* Type inference of one function (src/src/typecheck/mod.rs and            *)
(* typecheck/inference).                                                   *)
(*                                                                         *)
(* Statement by statement, the function is walked: infer_expr,             *)
(* infer_pattern and infer_place each open a snapshot, allocate variables, *)
(* emit constraints and unify inside it, and close it with the type of     *)
(* what they inferred or with an error, at any depth; an error comes from  *)
(* a unification or from a check of its own, so any snapshot may be closed *)
(* with one.  Which of these calls a function makes is left open.          *)
(*                                                                         *)
(* After each statement solve_constraints empties the ready queue, gives   *)
(* the first constraint with a default its default, and starts again; it   *)
(* stops at the first error, which is reported, and the walk goes on.      *)
(***************************************************************************)
EXTENDS Unify

CONSTANTS
  Declared,         \* what the locals may be declared as, Unbound if they are not
  Unifications(_),  \* the pairs of types the function unifies, of so many variables
  Offered(_),       \* the constraints it emits, their own variable being the next one
  Exprs,            \* the expressions, patterns and places it infers
  MaxVars,          \* bounds: variables,
  MaxConstraints,   \*   constraints,
  MaxDepth,         \*   open snapshots
  MaxCalls          \*   and calls of the walk

ASSUME BoundsAssumption == MaxVars \in Nat /\ MaxConstraints \in Nat /\ MaxDepth \in Nat
                             /\ MaxCalls \in Nat

VARIABLES
  ctx,      \* InferenceCtx
  frames,   \* the open snapshots, innermost last
  phase,    \* "walking", "solving", or how the program died: "panicked",
            \* "unimplemented" (a todo! of the code) or "knotted"
  calls     \* how many calls the walk made

vars == <<ctx, frames, phase, calls>>

\* What the undo log is there to restore.
Logged(c) == [ listeners |-> c.listeners, ready |-> c.ready, ready_set |-> c.ready_set,
               inferred |-> c.inferred, equations |-> c.equations ]

Live(v) == v <= Size(ctx.table)
LiveVars == 1 .. Size(ctx.table)

\* InferenceCtx::new: a variable for each local, unified with its declared type.
\* A constraint may emit another when it is tried, which takes a variable too.
NewCtx(locals) ==
  [ table |-> NewTable(locals), constraints |-> <<>>, solved |-> {}, errors |-> {},
    listeners |-> [v \in 1 .. MaxVars + MaxConstraints |-> <<>>], ready |-> <<>>,
    ready_set |-> {}, inferred |-> [e \in Exprs |-> Unbound], undo_log |-> <<>>,
    depth |-> 0, equations |-> {} ]

Init ==
  /\ \E declared \in Declared :
       ctx = FoldLeft(LAMBDA c, v : IF declared[v] = Unbound THEN c
                                    ELSE Unify(c, Var(v), declared[v]).ctx,
                      NewCtx(Len(declared)), [v \in DOMAIN declared |-> v])
  /\ frames = <<>>
  /\ phase = "walking"
  /\ calls = 0

\* A step to a new context.  Once a type is around itself, the next function
\* that looks into it (unify, solve, to_string) overflows the stack.
Becomes(c, outcome) ==
  /\ ctx' = c
  /\ phase' = IF Knotted(c.table) THEN "knotted" ELSE outcome

-----------------------------------------------------------------------------
\* The walk.
Walk ==
  /\ phase = "walking"
  /\ calls < MaxCalls
  /\ calls' = calls + 1

Open(e) ==
  /\ Walk
  /\ Len(frames) < MaxDepth
  /\ frames' = Append(frames, [ expr |-> e, mark |-> Len(ctx.undo_log), table |-> ctx.table,
                                before |-> Logged(ctx) ])
  /\ Becomes(Opened(ctx), phase)

FreshVar ==
  /\ Walk
  /\ Size(ctx.table) < MaxVars
  /\ Becomes(Fresh(ctx), phase)
  /\ UNCHANGED frames

UnifyTypes(s, t) ==
  /\ Walk
  /\ Becomes(Unify(ctx, s, t).ctx, phase)
  /\ UNCHANGED frames

\* The emit_*_constraint functions, with the variable they allocate.
EmitConstraint(k) ==
  /\ Walk
  /\ Len(ctx.constraints) < MaxConstraints
  /\ k.var <= MaxVars
  /\ Becomes(Emit(IF k.var = 0 THEN ctx ELSE Fresh(ctx), k), phase)
  /\ UNCHANGED frames

Top == frames[Len(frames)]

CloseWithType(t) ==
  /\ Walk
  /\ frames # <<>>
  /\ Becomes(Closed(SetInferred(ctx, Top.expr, t), TRUE, Top.mark, Top.table), phase)
  /\ frames' = Front(frames)

CloseWithError ==
  /\ Walk
  /\ frames # <<>>
  /\ Becomes([ Closed(ctx, FALSE, Top.mark, Top.table)
                 EXCEPT !.equations = Top.before.equations ], phase)
  /\ frames' = Front(frames)

-----------------------------------------------------------------------------
\* solve_constraints.
StartSolving ==
  /\ phase = "walking"
  /\ frames = <<>>
  /\ phase' = "solving"
  /\ UNCHANGED <<ctx, frames, calls>>

\* Indexing the table with a variable it does not hold.
OutOfBounds(id) == ~ (\A v \in MentionedBy(ctx.constraints[id]) : Live(v))

Popped == [ctx EXCEPT !.ready = Tail(@), !.ready_set = @ \ {Head(ctx.ready)}]

PopReady ==
  /\ phase = "solving"
  /\ ctx.ready # <<>>
  /\ LET id == Head(ctx.ready)
     IN CASE id \in ctx.errors -> Becomes(Popped, phase)
          [] id \notin ctx.errors /\ OutOfBounds(id) -> Becomes(Popped, "panicked")
          [] id \notin ctx.errors /\ ~ OutOfBounds(id) ->
               \E res \in {TrySolve(Popped, id)} :
                 CASE res.outcome = "Solved" ->
                        Becomes([res.ctx EXCEPT !.solved = @ \cup {id}], phase)
                   [] res.outcome = "Pending" ->
                        Becomes(RegisterListeners(res.ctx, id), phase)
                   [] res.outcome = "Error" ->
                        Becomes([res.ctx EXCEPT !.errors = @ \cup {id}], "walking")
                   [] res.outcome = "Panic" -> Becomes(res.ctx, "unimplemented")
  /\ UNCHANGED <<frames, calls>>

Defaultable == {id \in DOMAIN ctx.constraints :
                  id \notin ctx.solved /\ HasDefault(ctx.constraints[id])}

GiveDefault ==
  /\ phase = "solving"
  /\ ctx.ready = <<>>
  /\ Defaultable # {}
  /\ LET id == Min(Defaultable)
     IN IF OutOfBounds(id) THEN Becomes(ctx, "panicked")
        ELSE \E res \in {TryDefault(ctx, id)} :
               IF res.outcome = "Solved"
               THEN Becomes([res.ctx EXCEPT !.solved = @ \cup {id}], phase)
               ELSE Becomes(res.ctx, "walking")
  /\ UNCHANGED <<frames, calls>>

Finish ==
  /\ phase = "solving"
  /\ ctx.ready = <<>>
  /\ Defaultable = {}
  /\ phase' = "walking"
  /\ UNCHANGED <<ctx, frames, calls>>

Solve == PopReady \/ GiveDefault \/ Finish

Next ==
  \/ \E e \in Exprs : Open(e)
  \/ FreshVar
  \/ \E pair \in Unifications(Size(ctx.table)) : UnifyTypes(pair[1], pair[2])
  \/ \E k \in Offered(Size(ctx.table)) : EmitConstraint(k)
  \/ \E v \in LiveVars : CloseWithType(Var(v))
  \/ CloseWithError
  \/ StartSolving
  \/ Solve

Spec == Init /\ [][Next]_vars

-----------------------------------------------------------------------------
\* Whenever a snapshot is open, undoing the log down to its mark restores
\* exactly what was there when it was opened, however many snapshots were
\* opened, kept and rolled back inside it.
RollbackRestores ==
  \A i \in DOMAIN frames :
    [Logged(RollbackLog(ctx, frames[i].mark)) EXCEPT !.equations = frames[i].before.equations]
      = frames[i].before

\* What survives a rollback mentions only variables that still exist: bound
\* types, listeners and inferred types.
NothingDangles ==
  /\ \A v \in LiveVars : ctx.table.value[v] # Unbound =>
       \A w \in VarsOf(ctx.table.value[v]) : Live(w)
  /\ \A v \in DOMAIN ctx.listeners : ctx.listeners[v] # <<>> => Live(v)
  /\ \A e \in Exprs : ctx.inferred[e] # Unbound => \A v \in VarsOf(ctx.inferred[e]) : Live(v)

\* What a solved constraint asks of its types, looked into to a depth.
Holds(k) ==
  LET own == Deep(ctx.table, Var(k.var), 4)
      seen(i) == Deep(ctx.table, k.tys[i], 4)
      under(i) == Deep(ctx.table, k.tys[i], 3)
  IN CASE k.kind = "IntLike" -> IsIntLike(own)
       [] k.kind = "Deref" -> IsPtrLike(own) /\ own.fields[1] = under(1)
       [] k.kind = "BindsLike" -> IsAdt(seen(2)) /\ own = IF IsRef(seen(2))
                                                        THEN RefTo(under(1)) ELSE seen(1)
       [] k.kind = "IndexedBy" -> own = ElementOf(Deep(ctx.table, k.tys[1], 5))[1]
       [] k.kind = "StructField" -> own = U8Ty /\ BehindRefs(seen(1)) = StructTy
       [] IsBinop(k) -> /\ IsIntLike(seen(1)) /\ IsIntLike(seen(2))
                        /\ k.kind = "Compare" => own = BoolTy
                        /\ k.kind = "Add" => IF seen(1).def = seen(2).def
                                             THEN own = Adt(seen(1).def, <<>>)
                                             ELSE own = Wider(seen(1).def, seen(2).def)
       [] k.kind = "IsInner" -> seen(1) \in {seen(2), BehindRefs(seen(2))}
       [] OTHER -> TRUE

\* A constraint that was once solved still holds of all that was learnt since.
SolvedConstraintsHold == \A id \in ctx.solved : Holds(ctx.constraints[id])

\* The table knows what the successful unifications entail, no less and no
\* more: both have the same solutions, over a few closed types.
ClosedTypes == {U8Ty, RefTo(U8Ty), IntTy}

Solutions == {sigma \in [LiveVars -> ClosedTypes] : Solves(sigma, ctx.table)}

TableSolvesEquations ==
  Solutions = {sigma \in [LiveVars -> ClosedTypes] :
                 \A e \in ctx.equations : Ground(sigma, e[1]) = Ground(sigma, e[2])}

\* A unification that fails had no solution to find.
RefusesOnlyTheUnsolvable ==
  phase = "walking" =>
    \A pair \in Unifications(Size(ctx.table)) :
      (\E sigma \in Solutions : Ground(sigma, pair[1]) = Ground(sigma, pair[2]))
        => Unify(ctx, pair[1], pair[2]).ok

\* Solving ends: every step leaves less to solve, counting the constraint an
\* indexing may still emit, or as much and a shorter queue.
Unsolved == DOMAIN ctx.constraints \ ctx.solved
ToSolve == Cardinality(Unsolved)
             + Cardinality({id \in Unsolved : ctx.constraints[id].kind = "IndexedBy"})

SolvingProgresses ==
  [][phase = "solving" /\ phase' = "solving" =>
       ToSolve' < ToSolve \/ (ToSolve' = ToSolve /\ Len(ctx'.ready) < Len(ctx.ready))]_vars
=============================================================================
