------------------------------ MODULE MCFrontEnd ------------------------------
(***************************************************************************)
(* Bodies over two names, a parameter x and a y that may not be there: one *)
(* or two statements of every kind, and a call that looks at both names at *)
(* the end.                                                                *)
(***************************************************************************)
EXTENDS FrontEnd

MCModules == {"builtin", "root", "inner", "lib"}
MCParent == [m \in MCModules |-> CASE m = "builtin" -> <<>> [] m \in {"root", "lib"} -> <<"builtin">> [] m = "inner" -> <<"root">>]
MCItems ==
  [m \in MCModules |->
    CASE m = "builtin" -> <<Def("struct", "int", "int"), Def("module", "lib", "lib")>>
      [] m = "root" -> <<Def("function", "f", "old f"), Def("module", "inner", "inner"), Def("function", "f", "f"),
                         Def("function", "see", "see"), Def("struct", "P", "P"),
                         EnumDef("E", "E", {"A"})>>
      [] m = "inner" -> <<Def("function", "f", "inner f")>>
      [] m = "lib" -> <<Def("function", "g", "g"), Def("function", "f", "lib f")>>]
MCIncludes == [m \in MCModules |-> IF m = "root" THEN <<<<"lib">>>> ELSE <<>>]

\* The same, as a reader of the program takes it.
MCMeaning ==
  [m \in {"root", "inner"} |->
    [name \in {"f", "g", "see", "inner", "P", "E", "T", "Self"} |->
      CASE name = "f" -> Def("function", "f", IF m = "root" THEN "f" ELSE "inner f")
        [] name = "P" -> Def("struct", "P", "P")
        [] name \in {"E", "Self"} -> EnumDef("E", "E", {"A"})
        [] name = "T" -> Def("template", "T", "T")
        [] name = "inner" -> Def("module", "inner", "inner")
        [] OTHER -> Def("function", name, name)]]
MCAdjustment ==
  [m \in {"into_iter", "next", "m", "d"} |->
    CASE m = "into_iter" -> [derefs |-> 0, ref |-> FALSE]
      [] m \in {"next", "m"} -> [derefs |-> 0, ref |-> TRUE]
      [] m = "d" -> [derefs |-> 1, ref |-> FALSE]]

MCZelf == EnumDef("E", "E", {"A"})

\* A part named after a reference is one of what it refers to, and the struct
\* patterns R and RR are patterns of P behind one reference and two.
MCAfterReference == [fields |-> {"at"}, positions |-> {2}, elements |-> {"0"}]
MCRefDepth == [type \in {"P", "R", "RR"} |-> CASE type = "P" -> 0 [] type = "R" -> 1 [] type = "RR" -> 2]

X == Name("x")
Y == Name("y")
One == Lit("1")
F(e) == Call(Name("f"), <<e>>)
G(e) == Call(Name("g"), <<e>>)
See == ExprStmt(Call(Name("see"), <<X, Y>>))
SeeX == ExprStmt(Call(Name("see"), <<X>>))

Plain == {X, Y, One}

\* Every form of expression.  Where an operand needs a temporary it is the
\* first to be computed.
Forms ==
  {F(X), F(F(Y)), BinOp("+", X, Y), BinOp("+", F(X), G(Y)), Unary("-", X), Tuple(<<Y>>), Tuple(<<Y, X>>),
   RangeLit(X, Y), StructLit("P", <<FieldInit("f", Y), FieldInit("x", X)>>), FieldAccess(X, "f"),
   FieldAccess(F(X), "x"), TupleAccess(X, 1), Index(X, G(Y)), Index(F(X), G(Y)), Deref(X), Deref(Ref(Y)), Ref(X),
   Unary("-", Ref(F(X))), MethodCall(X, "m", <<Y>>), MethodCall(F(X), "m", <<G(Y)>>),
   MethodCall(Ref(X), "d", <<Y>>), MethodCall(Ref(F(X)), "d", <<G(Y)>>),
   StaticCall("P", "new", <<X, Y>>), Path("inner", F(X)), Call(Path("inner", Name("f")), <<Y>>),
   Path("inner", Path("inner", F(X))), Path("E", Call(Name("A"), <<Y>>)), Path("E", Name("B")),
   Path("E", Call(Name("make"), <<Y>>)), Path("inner", G(X)), Call(Name("nowhere"), <<X>>)}

Named(e) == <<FieldInit("x", Y), FieldInit("f", e)>>

\* Parts of what a reference refers to, and paths through an enum, Self and a
\* template parameter.
Paths ==
  {FieldAccess(X, "at"), FieldAccess(Ref(Y), "at"), FieldAccess(FieldAccess(Ref(F(X)), "at"), "at"), TupleAccess(Ref(Y), 2),
   Index(X, Lit("0")), Index(Ref(F(X)), Lit("0")), Ref(FieldAccess(Ref(Y), "at")),
   Path("E", StructLit("C", Named(F(X)))), VariantLit("E", "C", Named(X)), Path("Self", StructLit("C", Named(X))),
   Path("Self", Call(Name("A"), <<Y>>)), Path("Self", Name("B")), Call(Path("Self", Name("make")), <<F(X)>>),
   Path("T", Call(Name("make"), <<F(X), Y>>)), Call(Path("T", Name("make")), <<Y>>)}

\* What the code has no lowering for.
Unwritten ==
  {Name("f"), Path("inner", Name("f")), Call(X, <<Y>>), Call(FieldAccess(X, "f"), <<>>), Path("T", Name("B")),
   Path("P", Name("B")), Path("P", StructLit("C", Named(X))), VariantLit("P", "C", Named(X)),
   Path("E", Path("E", Name("B"))), F(Name("f"))}

Patterns ==
  {BindPat("x", FALSE), BindPat("y", TRUE), AnyPat, TuplePat(<<BindPat("x", FALSE), BindPat("y", FALSE)>>),
   TuplePat(<<AnyPat, TuplePat(<<BindPat("y", FALSE), BindPat("x", TRUE)>>)>>),
   StructPat("P", <<Rebind("f", TuplePat(<<BindPat("y", FALSE), AnyPat>>)), Shorthand("x")>>),
   StructPat("P", <<Rebind("x", BindPat("y", FALSE))>>), TuplePat(<<BindPat("x", FALSE), BindPat("x", FALSE)>>)}

\* Patterns of a struct behind references, in a let.
ReferencePatterns ==
  {StructPat(type, fields) :
     type \in {"R", "RR"},
     fields \in {<<Rebind("f", BindPat("y", FALSE)), Shorthand("x")>>,
                 <<Rebind("x", TuplePat(<<BindPat("y", FALSE), AnyPat>>)), Rebind("f", AnyPat)>>,
                 <<Rebind("f", StructPat("R", <<Shorthand("x")>>)), Rebind("x", BindPat("y", FALSE))>>}}

Variants == {VariantPat("E", "A", <<p>>) : p \in {BindPat("x", FALSE), BindPat("y", FALSE), AnyPat}}

Places == {X, Y, FieldAccess(Y, "f"), TupleAccess(X, 1), Index(X, One), Deref(X), FieldAccess(Y, "at"), Index(X, Lit("0"))}

Lets == {LetDecl(p, e) : p \in Patterns, e \in Plain \cup {F(X), Tuple(<<Y, X>>)}}
        \cup {LetDecl(BindPat("y", FALSE), e) : e \in Forms \cup Paths \cup Unwritten}
        \cup {LetDecl(p, e) : p \in ReferencePatterns, e \in Plain \cup {Ref(X), Ref(F(X)), Ref(Ref(Y)), Unary("-", Ref(Y))}}

Simple ==
  Lets \cup {Assign(p, e) : p \in Places, e \in {X, F(Y)}} \cup {CompoundAssign(p, "+", e) : p \in Places, e \in {Y, F(X)}}
       \cup {ExprStmt(e) : e \in {F(X), X, Unary("-", X)}}

\* A block that declares, changes or looks at the names.
Blocks ==
  {Block(s) : s \in {<<>>, <<See>>, <<LetDecl(BindPat("y", FALSE), F(X)), See>>, <<LetDecl(BindPat("x", FALSE), F(X))>>,
                     <<Assign(X, F(X))>>, <<Block(<<LetDecl(BindPat("x", FALSE), One)>>), SeeX>>,
                     <<Return(<<X>>)>>}}

LoopBlocks == Blocks \cup {Block(s) : s \in {<<Break>>, <<See, If(X, Block(<<Break>>), <<>>), Assign(X, F(X))>>,
                     <<Match(F(X), <<Branch(VariantPat("E", "A", <<BindPat("y", FALSE)>>), Block(<<See, Break>>)),
                                     Branch(AnyPat, Block(<<SeeX>>))>>)>>,
                     <<For(BindPat("x", FALSE), F(X), Block(<<SeeX, Break>>)), SeeX>>,
                     <<While(F(X), Block(<<Break>>)), Break>>}}

Compound ==
  {If(e, t, u) : e \in {X, FieldAccess(F(X), "f")}, t \in Blocks, u \in {<<>>} \cup {<<b>> : b \in Blocks}}
    \cup {While(e, b) : e \in {X, FieldAccess(F(X), "f")}, b \in LoopBlocks}
    \cup {For(p, e, b) : p \in {BindPat("x", FALSE), TuplePat(<<BindPat("y", FALSE), AnyPat>>)}, e \in {X, RangeLit(One, X)},
                         b \in LoopBlocks}
    \cup {Match(e, <<Branch(p, b), Branch(AnyPat, c)>>) :
            e \in {X, FieldAccess(F(X), "f")}, p \in Variants \cup Patterns, b \in Blocks, c \in {Block(<<>>), Block(<<SeeX>>)}}
    \cup {Match(X, <<Guarded(p, e, Block(<<SeeX>>)), Branch(AnyPat, Block(<<>>))>>) :
            p \in {BindPat("y", FALSE), AnyPat}, e \in {Y, F(Y), Name("z"), Name("f")}}
    \cup Blocks

\* Loops that run inside another loop.
Loops ==
  {While(X, b) : b \in LoopBlocks} \cup {For(BindPat("x", FALSE), Y, b) : b \in LoopBlocks}
    \cup {Match(Y, <<Branch(VariantPat("E", "A", <<BindPat("x", TRUE)>>), b), Branch(AnyPat, c)>>) :
            b \in LoopBlocks, c \in {Block(<<Break>>), Block(<<Assign(Y, F(X))>>)}}

Body(stmts) == [params |-> <<"x">>, stmts |-> stmts]

MCBodies ==
  {Body(<<s, See>>) : s \in Lets}
    \cup {Body(<<LetDecl(BindPat("y", TRUE), F(X)), s, See>>) : s \in Simple}
    \cup {Body(<<s, t, SeeX, Return(<<X>>)>>) : s \in {LetDecl(BindPat("y", FALSE), One)}, t \in Compound}
    \cup {Body(<<LetDecl(BindPat("y", TRUE), F(X)), t, s, See>>) : t \in Blocks, s \in Lets}
    \cup {Body(<<LetDecl(BindPat("y", TRUE), F(X)), While(X, Block(<<l, See>>)), See>>) : l \in Loops}
    \cup {Body(<<LetDecl(p, e), ExprStmt(Call(Name("see"), <<FieldAccess(Deref(Y), "f"), Deref(Deref(Y))>>)), Assign(q, One), See>>) :
            p \in ReferencePatterns, e \in {Ref(X), Ref(F(X)), Ref(Ref(X))}, q \in {Deref(Y), Deref(Deref(Y))}}
==============================================================================
