--------------------------- MODULE MCUseAfterMove ---------------------------
(***************************************************************************)
(* Bodies of three blocks over a struct x with the fields f and g, a plain *)
(* local y, a mutable reference p, an array a and a Copy local i.  The     *)
(* first block holds at most one statement, the second at most two, the    *)
(* last none; the graphs are a line with a bypass, a loop on the second    *)
(* block, and a loop back to the first.  A destination is a whole local, a *)
(* field of x, what p points to, or an element of a.                       *)
(***************************************************************************)
EXTENDS UseAfterMove

CONSTANTS b1, b2, b3

MCBlocks == {b1, b2, b3}
MCLocals == {"x", "y", "p", "a", "i"}
MCCopyLocals == {"i"}

MCCellPaths ==
  [l \in MCLocals |-> CASE l = "x" -> {<<Field("f")>>, <<Field("g")>>}
                        [] l = "y" -> {<<>>}
                        [] l = "p" -> {<<PointerCell>>, <<Deref>>}
                        [] l = "a" -> {<<PointerCell>>, <<Index(Const)>>}
                        [] l = "i" -> {}]

X == LocalPlace("x")
XF == Place("x", <<Field("f")>>)
XG == Place("x", <<Field("g")>>)
Y == LocalPlace("y")
P == LocalPlace("p")
PD == Place("p", <<Deref>>)
I == LocalPlace("i")
AI == Place("a", <<Index(Copy(I))>>)

Stmts ==
  { Assign(Y, Use(<<Move(X)>>)), Assign(Y, Use(<<Move(XF)>>)),
    Assign(XF, Use(<<Move(Y)>>)), Assign(X, Use(<<Const>>)),
    Assign(I, Discriminant(X)), Assign(P, Ref(XG, TRUE)),
    Assign(Y, Use(<<Move(PD), Copy(I)>>)), Assign(PD, Use(<<Move(Y)>>)),
    Assign(AI, Use(<<Const>>)) }

UpTo(n) == BoundedSeq(Stmts, n)

Terms1 == {Branch(Copy(I), b2, b3), Switch(Move(I), <<b2, b3>>)}
Terms2 == {Goto(b3), Branch(Copy(I), b2, b3), Branch(Copy(I), b1, b3), Call(<<Move(P), Move(Y)>>, "x", b3)}
Terms3 == {Return(<<Move(X)>>), Return(<<Copy(PD), Copy(AI)>>), Diverge}

MCBodies ==
  {[entry |-> b1, params |-> <<"x", "i">>,
    blocks |-> [b \in MCBlocks |->
                  CASE b = b1 -> [stmts |-> s1, term |-> t1]
                    [] b = b2 -> [stmts |-> s2, term |-> t2]
                    [] b = b3 -> [stmts |-> <<>>, term |-> t3]]] :
    s1 \in UpTo(1), s2 \in UpTo(2),
    t1 \in Terms1, t2 \in Terms2, t3 \in Terms3}
=============================================================================
