------------------------------- MODULE MCCodegen -------------------------------
(***************************************************************************)
(* A body over numbers of one and two bytes, a struct, an enum that needs  *)
(* every tag its tag has bits for, an enum of it, and pointers to them and *)
(* to an array.  A byte has two bits.  No enum follows a smaller field, for *)
(* LLVM, which knows it as an array of bytes, would put it elsewhere than   *)
(* its layout says; and `!` is not applied to a boolean in memory.          *)
(***************************************************************************)
EXTENDS Codegen

I8 == IntTy(1, TRUE)
I16 == IntTy(2, TRUE)
Pair == StructTy(<<"x", "y">>, <<I8, I16>>)
Shape == EnumTy(<<TupleLike(<<>>), TupleLike(<<I16>>), StructLike(<<"h", "v">>, <<I8, I16>>), TupleLike(<<I8>>)>>)
Maybe == EnumTy(<<TupleLike(<<>>), TupleLike(<<Shape>>)>>)
Both == TupleTy(<<Shape, I8>>)

MCTyOf ==
  [ n |-> I8, w |-> I16, i |-> UsizeTy, d |-> TagTy, c |-> BoolTy, u |-> VoidTy,
    s |-> Pair, e |-> Shape, m |-> Maybe, b |-> Both, p |-> PtrTo(Pair), r |-> PtrTo(Pair), q |-> PtrTo(I16) ]

MCLocals == <<"n", "w", "i", "d", "c", "u", "s", "e", "m", "b", "p", "r", "q">>

MCTypes ==
  {I8, I16, UsizeTy, TagTy, BoolTy, VoidTy, Pair, Shape, Maybe, Both, PtrTo(Pair), PtrTo(I16), TupleTy(<<Pair, Pair>>)}
MCLayouts == [t \in MCTypes |-> LayoutOf(t)]

MCHeapTy == TupleTy(<<Pair, Pair>>)

L(l) == Place(l, <<>>)
V(l) == Copy(L(l))
F(l, f) == Place(l, <<Field(f)>>)
At8(l, i) == Place(l, <<TupleField(i)>>)
As(l, v, i) == Place(l, <<Downcast(v), TupleField(i)>>)
AsF(l, v, f) == Place(l, <<Downcast(v), Field(f)>>)
To(l) == Place(l, <<Deref>>)
ToF(l, f) == Place(l, <<Deref, Field(f)>>)
Elem(l, op, f) == Place(l, <<Index(op), Field(f)>>)

Set(p, rv) == [dest |-> p, rvalue |-> rv]

Arithmetic ==
  {Set(L("n"), BinOp(sym, V("n"), Copy(F("s", "x")))) : sym \in {"+", "-", "*", "/", "%"}}
    \cup {Set(L("w"), BinOp("*", V("w"), V("w"))), Set(L("i"), BinOp("+", V("i"), Num(1, UsizeTy))),
          Set(L("n"), Neg(V("n")))}

Comparisons ==
  {Set(L("c"), BinOp(sym, V("n"), Copy(F("s", "x")))) : sym \in {"==", "!=", "<", "<=", ">", ">="}}
    \cup {Set(L("c"), BinOp(sym, V("d"), Num(1, TagTy))) : sym \in {"<=", ">"}}
    \cup {Set(L("c"), BinOp(sym, V("p"), V("r"))) : sym \in {"==", "<", ">="}}
    \cup {Set(L("c"), BinOp("!=", V("p"), Null(Pair)))}

Moves ==
  { Set(L("n"), Use(Num(1, I8))), Set(F("s", "y"), Use(V("w"))), Set(L("w"), Use(Copy(F("s", "y")))),
    Set(L("u"), Use(V("u"))), Set(L("b"), Tuple(Both, <<V("e"), V("n")>>)),
    Set(L("s"), StructLit(Pair, <<"y", "x">>, <<V("w"), V("n")>>)), Set(L("e"), Use(Copy(At8("b", 1)))),
    Set(L("n"), Use(Copy(At8("b", 2)))), Set(L("c"), Use(Bool(TRUE))) }

Casts ==
  { Set(L("w"), Cast(V("n"), I16)), Set(L("n"), Cast(V("w"), I8)), Set(L("w"), Cast(V("d"), I16)),
    Set(L("i"), Cast(V("p"), UsizeTy)), Set(L("p"), Cast(V("i"), PtrTo(Pair))),
    Set(L("i"), SizeOf(Maybe)), Set(L("d"), Cast(V("n"), TagTy)) }

Enums ==
  { Set(L("e"), Constructor(Shape, 1, <<>>, <<>>)), Set(L("e"), Constructor(Shape, 2, <<>>, <<V("w")>>)),
    Set(L("e"), Constructor(Shape, 3, <<"v", "h">>, <<V("w"), V("n")>>)), Set(L("e"), Constructor(Shape, 4, <<>>, <<V("n")>>)),
    Set(L("m"), Constructor(Maybe, 2, <<>>, <<V("e")>>)), Set(L("e"), Use(Copy(As("m", 2, 1)))),
    Set(L("w"), Use(Copy(AsF("e", 3, "v")))), Set(AsF("e", 3, "h"), Use(V("n"))), Set(L("n"), Use(Copy(As("e", 4, 1)))),
    Set(L("d"), Discriminant(L("e"))), Set(L("d"), Discriminant(L("m"))) }

Pointers ==
  { Set(L("p"), Ref(L("s"))), Set(L("q"), Ref(F("s", "y"))), Set(L("q"), Ref(AsF("e", 3, "v"))),
    Set(L("q"), Ref(ToF("p", "y"))), Set(To("q"), Use(V("w"))), Set(L("w"), Use(Copy(To("q")))),
    Set(To("p"), Use(V("s"))), Set(L("s"), Use(Copy(To("p")))), Set(ToF("p", "x"), Use(V("n"))),
    Set(L("p"), Use(Null(Pair))), Set(Elem("p", V("i"), "y"), Use(V("w"))),
    Set(Place("p", <<Index(V("i"))>>), Use(V("s"))), Set(L("n"), Use(Copy(Elem("p", Num(1, UsizeTy), "x")))) }

MCStmts == Arithmetic \cup Comparisons \cup Moves \cup Casts \cup Enums \cup Pointers

MCConds == {V("c")}
MCSwitches == {[on |-> V("d"), cases |-> {0, 2, 3}], [on |-> V("n"), cases |-> {0, 1}]}

Alloc == [params |-> <<UsizeTy, BoolTy>>, ret |-> PtrTo(Pair), results |-> {PtrV("heap", <<Step(0, 1)>>), NullV}]
Show == [params |-> <<Pair, Shape>>, ret |-> VoidTy, results |-> {Parts(<<>>)}]
MCCalls ==
  { [fn |-> Alloc, args |-> <<V("i"), V("c")>>, dest |-> "p"],
    [fn |-> Show, args |-> <<V("s"), V("e")>>, dest |-> "u"] }

MCReturns == {[ty |-> Maybe, value |-> V("m")], [ty |-> BoolTy, value |-> V("c")]}

Given(n, w, x, p) ==
  [n |-> IntV(n), w |-> IntV(w), s |-> Parts(<<IntV(x), IntV(-3)>>), i |-> IntV(1), p |-> p,
   r |-> PtrV("heap", <<Step(0, 2)>>)]
MCParams == {Given(-2, 6, 1, PtrV("heap", <<Step(0, 1)>>)), Given(1, -3, 1, PtrV("s", <<>>)), Given(-2, -3, -1, NullV)}
===============================================================================
