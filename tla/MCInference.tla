----------------------------- MODULE MCInference -----------------------------
(***************************************************************************)
(* Functions of a few locals and expressions.  The unified types are such  *)
(* that a variable may meet another, a type, a type around a variable, and *)
(* a pair whose second parts disagree.                                     *)
(***************************************************************************)
EXTENDS Inference

MCDeclared ==
  {<<t, Unbound>> : t \in {Unbound, RefTo(StructTy), RefTo(SliceOf(U8Ty))}}
    \cup {<<IntTy, ParamTy>>, <<RefTo(U8Ty), MutPtrTo(U8Ty)>>}

Pair(s, t) == Adt("tuple", <<s, t>>)

MCUnifications(n) ==
  {<<Var(1), Var(n)>>, <<Var(n), Var(2)>>, <<Var(n), U8Ty>>,
   <<Var(1), RefTo(Var(n))>>, <<RefTo(Var(2)), Var(n)>>,
   <<Pair(Var(2), IntTy), Pair(IntTy, Var(n))>>}

MCOffered(n) ==
  {Constraint("IntLike", n + 1, <<>>)}
    \cup {Constraint(kind, n + 1, <<Var(1)>>) : kind \in {"Deref", "StructField"}}
    \cup {Constraint(kind, n + 1, <<Var(1), Var(2)>>) : kind \in {"IndexedBy", "Compare", "Add", "Divide"}}
    \cup {Constraint("BindsLike", n + 1, <<Var(2), Var(1)>>),
          Constraint("IsInner", 0, <<Var(2), Var(1)>>), Constraint("Cast", 0, <<Var(1), Var(2)>>)}
=============================================================================
