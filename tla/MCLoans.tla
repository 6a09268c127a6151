------------------------------- MODULE MCLoans -------------------------------
(***************************************************************************)
(* Bodies of three blocks over a struct x with the fields f and g, two     *)
(* references r and s, an array a and a plain local y.  References are     *)
(* taken to x, its fields and the elements of a; they are read by          *)
(* dereference and by calls.  A destination is a whole local, a field of x *)
(* or what r points to.                                                    *)
(***************************************************************************)
EXTENDS Loans

CONSTANTS b1, b2, b3

MCBlocks == {b1, b2, b3}
MCLocals == {"x", "y", "r", "s", "a"}
MCCopyLocals == {"y"}

MCCellPaths ==
  [l \in MCLocals |-> CASE l = "x" -> {<<Field("f")>>, <<Field("g")>>}
                        [] l \in {"r", "s"} -> {<<PointerCell>>, <<Deref>>}
                        [] l = "a" -> {<<PointerCell>>, <<[kind |-> "Index"]>>}
                        [] l = "y" -> {<<>>}]

X == LocalPlace("x")
XF == Place("x", <<Field("f")>>)
XG == Place("x", <<Field("g")>>)
Y == LocalPlace("y")
R == LocalPlace("r")
RD == Place("r", <<Deref>>)
SD == Place("s", <<Deref>>)
AY == Place("a", <<Index(Copy(Y))>>)

Stmts ==
  { Assign(R, Ref(X, FALSE)), Assign(R, Ref(XF, TRUE)), Assign(R, Ref(AY, TRUE)),
    Assign(LocalPlace("s"), Ref(XG, FALSE)),
    Assign(Y, Use(<<Copy(RD)>>)), Assign(Y, Use(<<Copy(SD), Copy(AY)>>)),
    Assign(Y, Use(<<Move(XG)>>)), Assign(RD, Use(<<Copy(Y)>>)), Assign(XF, Use(<<Copy(Y)>>)) }

LastStmts ==
  { Assign(Y, Use(<<Copy(SD), Copy(AY)>>)), Assign(Y, Use(<<Move(XG)>>)),
    Assign(R, Ref(XF, TRUE)), Assign(RD, Use(<<Copy(Y)>>)) }

UpTo(n) == BoundedSeq(Stmts, n)

Terms1 == {Branch(Copy(Y), b2, b3)}
Terms2 == {Goto(b3), Goto(b1), Call(<<Move(X), Copy(SD)>>, "r", b3)}
Terms3 == {Return(<<Copy(RD)>>), Return(<<Copy(XF)>>), Branch(Copy(RD), b1, b2)}

MCBodies ==
  {[entry |-> b1, params |-> <<"x">>,
    blocks |-> [b \in MCBlocks |->
                  CASE b = b1 -> [stmts |-> s1, term |-> t1]
                    [] b = b2 -> [stmts |-> s2, term |-> t2]
                    [] b = b3 -> [stmts |-> s3, term |-> t3]]] :
    s1 \in UpTo(2), s2 \in UpTo(1), s3 \in BoundedSeq(LastStmts, 1),
    t1 \in Terms1, t2 \in Terms2, t3 \in Terms3}

=============================================================================
