--------------------------- MODULE MCDecisionTree ---------------------------
(***************************************************************************)
(* Matches of up to three branches on a pair of an enum with the variants  *)
(* A(int), B and C(int), and of a struct of one field of this enum.        *)
(***************************************************************************)
EXTENDS DecisionTree

IntTy == [kind |-> "Int", parts |-> <<>>, variants |-> <<>>]
E == [kind |-> "Enum", parts |-> <<>>, variants |-> << <<IntTy>>, <<>>, <<IntTy>> >>]
StructOfE == [kind |-> "Struct", parts |-> <<E>>, variants |-> <<>>]
MCScrutinee == [kind |-> "Tuple", parts |-> <<E, StructOfE>>, variants |-> <<>>]

V(tag, parts) == [tag |-> tag, parts |-> parts]
EValues == {V(1, <<V(n, <<>>)>>) : n \in 0 .. 1} \cup {V(2, <<>>), V(3, <<V(0, <<>>)>>)}
MCValues == {V(0, <<e, V(0, <<f>>)>>) : e, f \in EValues}

Part(l) ==
  {Wild, Bind(l), Ctor(1, <<IntLit(0)>>), Ctor(1, <<Bind(l)>>), Ctor(2, <<>>), Ctor(3, <<Bind(l)>>)}

PairPat(p, q) == TuplePat(<<p, StructPat(<<1>>, <<q>>)>>)
Pairs == {PairPat(p, q) : p \in Part("x"), q \in Part("y")}

MCMatches ==
  {<<p, q>> : p \in Pairs, q \in Pairs \cup {Wild}}
    \cup {<<p, q, PairPat(Bind("u"), Bind("w"))>> : p, q \in Pairs}

MCFieldOrders == {<<1>>}
=============================================================================
