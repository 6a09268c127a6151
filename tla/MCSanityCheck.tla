--------------------------- MODULE MCSanityCheck ---------------------------
(***************************************************************************)
(* Bodies for SanityCheck.  Each is written once, as a function of the     *)
(* types on its nodes; the nodes are numbered along the flow of values.    *)
(* The types inference gives follow from a few: where they are mixed with  *)
(* those that follow from others, from one node to another, some node is   *)
(* not what its parts make of it.                                          *)
(***************************************************************************)
EXTENDS SanityCheck

P == Param(1)
PairOf(t) == Ty("Pair", <<t>>)
OptOf(t) == Ty("Opt", <<t>>)
BoxOf(t) == Ty("Box", <<t>>)
RefTo(t) == Ty("Ref", <<t>>)
RefMutTo(t) == Ty("RefMut", <<t>>)

Field(name, ty) == [field |-> name, ty |-> ty]

MCStructs == [Pair |-> <<Field("a", P), Field("b", I32)>>]

MCEnums ==
  [ Opt |-> <<[kind |-> "None", fields |-> <<>>], [kind |-> "Tuple", fields |-> <<Field("", P)>>]>>,
    Box |-> <<[kind |-> "Struct", fields |-> <<Field("n", I32), Field("v", RefTo(P))>>]>> ]

MCCallees ==
  [ same |-> [params |-> <<P>>, ret |-> P],
    find |-> [params |-> <<RefTo(Zelf), P>>, ret |-> OptOf(P)] ]

-----------------------------------------------------------------------------
\* Expressions, places, patterns and statements; what one has no use for is
\* left at these values.
E(expr, ty) ==
  [ expr |-> expr, ty |-> ty, kind |-> "Tuple", of |-> NoType, idx |-> 0, fields |-> <<>>,
    args |-> <<>>, place |-> <<>>, called |-> <<>> ]
Op(expr, ty, args) == [E(expr, ty) EXCEPT !.args = args]
Binary(kind, ty, left, right) == [Op("BinOp", ty, <<left, right>>) EXCEPT !.kind = kind]
Lit(kind, ty) == [E("Literal", ty) EXCEPT !.kind = kind]
Number(ty) == E("IntLit", ty)
CallOf(name, args, zelf, ty, operands) ==
  [Op("Call", ty, operands) EXCEPT !.called = [name |-> name, args |-> args, zelf |-> zelf]]
CastTo(of, ty, e) == [Op("Cast", ty, <<e>>) EXCEPT !.of = of]
StructLit(of, ty, fields, args) == [Op("StructLit", ty, args) EXCEPT !.of = of, !.fields = fields]
Construct(of, ty, idx, kind, fields, args) ==
  [StructLit(of, ty, fields, args) EXCEPT !.expr = "Constructor", !.idx = idx, !.kind = kind]

Place(local, projections, ty) == [local |-> local, projections |-> projections, ty |-> ty]
Use(place, ty) == [E("Use", ty) EXCEPT !.place = place]
Local(local, ty) == Use(Place(local, <<>>, ty), ty)
AddressOf(kind, place, ty) == [E("AddressOf", ty) EXCEPT !.kind = kind, !.place = place]
Deref == [proj |-> "Deref"]
FieldAt(field, ty) == [proj |-> "Field", field |-> field, ty |-> ty]
TupleAt(no, ty) == [proj |-> "TupleField", no |-> no, ty |-> ty]
Index(at) == [proj |-> "Index", at |-> at]

Pat(pat, ty, args) ==
  [ pat |-> pat, ty |-> ty, kind |-> "Tuple", of |-> NoType, idx |-> 0, fields |-> <<>>,
    args |-> args, local |-> 1 ]
AnyPat(ty) == Pat("Any", ty, <<>>)
BindPat(local, ty) == [Pat("Bind", ty, <<>>) EXCEPT !.local = local]
Fields(of, ty, fields, args) == [Pat("Struct", ty, args) EXCEPT !.of = of, !.fields = fields]
Variant(of, ty, idx, kind, fields, args) ==
  [Fields(of, ty, fields, args) EXCEPT !.pat = "Constructor", !.idx = idx, !.kind = kind]

Let(local, init) == [stmt |-> "Let", local |-> local, init |-> init]
Assign(place, rhs) == [stmt |-> "Assign", place |-> place, rhs |-> rhs]
Return(value) == [stmt |-> "Return", value |-> value]
Expr(value) == [stmt |-> "Expr", value |-> value]
If(setup, cond, then, else) ==
  [stmt |-> "If", setup |-> setup, cond |-> cond, then |-> then, else |-> else]
While(setup, cond, stmts) == [stmt |-> "While", setup |-> setup, cond |-> cond, body |-> stmts]
Match(scrutinee, branches) ==
  [stmt |-> "Match", setup |-> <<>>, scrutinee |-> scrutinee, branches |-> branches]
Branch(pattern, stmts) == [pattern |-> pattern, guard |-> {}, body |-> stmts]

Body(locals, params, ret, stmts) == [locals |-> locals, params |-> params, ret |-> ret, stmts |-> stmts]

-----------------------------------------------------------------------------
\* The bodies, h the types on their nodes, and those types in terms of b: t is
\* what the body is about, the others are numbers and truth values.  What a
\* pattern binds, and the type of a number that is written out, stay: nothing
\* compares them.

\* let x = pair.a; return x
ReadsField(b, h) ==
  Body(<<h[1], h[5]>>, 1, h[8],
       << Let(2, Use(Place(1, <<FieldAt("a", h[2])>>, h[3]), h[4])),
          Return(<<Use(Place(2, <<>>, h[6]), h[7])>>) >>)
ReadsFieldTypes(b) == <<PairOf(b.t), b.t, b.t, b.t, b.t, b.t, b.t, b.t>>

\* let r = &mut pair.a; *r = same(y); return *r
WritesThrough(b, h) ==
  LET target(i) == Place(3, <<Deref>>, h[i])
  IN  Body(<<h[1], h[6], h[5]>>, 2, h[12],
           << Let(3, AddressOf("RefMut", Place(1, <<FieldAt("a", h[2])>>, h[3]), h[4])),
              Assign(target(10), CallOf("same", <<h[8]>>, NoType, h[9], <<Local(2, h[7])>>)),
              Return(<<Use(target(11), h[11])>>) >>)
WritesThroughTypes(b) ==
  <<PairOf(b.t), b.t, b.t, RefMutTo(b.t), RefMutTo(b.t), b.t, b.t, b.t, b.t, b.t, b.t, b.t>>

\* let x = (y, 1); let s = [x.0, z]; return s[x.1]
TakesElement(b, h) ==
  Body(<<h[1], h[12], h[4], h[7]>>, 2, h[11],
       << Let(3, Op("Tuple", h[3], <<Local(1, h[2]), Number(b.int)>>)),
          Let(4, Op("SliceLit", h[6],
                    <<Use(Place(3, <<TupleAt(1, h[5])>>, h[5]), h[5]), Local(2, h[13])>>)),
          Return(<<Use(Place(4, <<Index(Use(Place(3, <<TupleAt(2, h[8])>>, h[9]), h[9]))>>, h[10]), h[10])>>) >>)
TakesElementTypes(b) ==
  << b.t, b.t, TupleTy(<<b.t, b.int>>), TupleTy(<<b.t, b.int>>), b.t, SliceOf(b.t), SliceOf(b.t),
     b.int, b.int, b.t, b.t, b.t, b.t >>

\* match opt { Some(x) => return x, None => return y }, through a reference
MatchesOption(b, h) ==
  Body(<<h[1], h[8], RefTo(b.t)>>, 2, h[11],
       << Match(Local(1, h[2]),
                << Branch(Variant(h[3], h[4], 2, "Tuple", <<>>, <<BindPat(3, RefTo(b.t))>>),
                          <<Return(<<Use(Place(3, <<>>, h[6]), h[7])>>)>>),
                   Branch(Variant(OptOf(b.t), h[5], 1, "None", <<>>, <<>>),
                          <<Return(<<Use(Place(2, <<>>, h[9]), h[10])>>)>>) >>) >>)
MatchesOptionTypes(b) ==
  << RefTo(OptOf(b.t)), RefTo(OptOf(b.t)), OptOf(b.t), OptOf(b.t), OptOf(b.t), RefTo(b.t), RefTo(b.t),
     RefTo(b.t), RefTo(b.t), RefTo(b.t), RefTo(b.t) >>

\* match pair { Pair { b: 3, a: Some(x) } => y = x, _ => }; return find(&self, y)
\* in a method of Pair, whose receiver is of type Self
FindsPart(b, h) ==
  Body(<<h[1], Zelf, h[9], b.t>>, 3, h[15],
       << Match(Local(1, h[2]),
                << Branch(Fields(PairOf(h[3]), h[4], <<"b", "a">>,
                                 <<Pat("IntLit", I32, <<>>), Variant(h[5], h[6], 2, "Tuple", <<>>, <<BindPat(4, b.t)>>)>>),
                          <<Assign(Place(3, <<>>, h[8]), Local(4, h[7]))>>),
                   Branch(AnyPat(PairOf(OptOf(b.t))), <<>>) >>),
          Return(<<CallOf("find", <<h[13]>>, PairOf(P), h[14],
                          <<AddressOf("Ref", Place(2, <<>>, h[11]), h[12]), Local(3, h[10])>>)>>) >>)
FindsPartTypes(b) ==
  << PairOf(OptOf(b.t)), PairOf(OptOf(b.t)), OptOf(b.t), PairOf(OptOf(b.t)), OptOf(b.t), OptOf(b.t), b.t, b.t,
     b.t, b.t, PairOf(P), RefTo(PairOf(P)), b.t, OptOf(b.t), OptOf(b.t) >>

\* match &box { Box { n: _, v: x } => return *x }, where x : &&t
MatchesBox(b, h) ==
  Body(<<h[1], RefTo(RefTo(b.t))>>, 1, h[8],
       << Match(AddressOf("Ref", Place(1, <<>>, h[2]), h[3]),
                << Branch(Variant(h[4], h[5], 1, "Struct", <<"v", "n">>,
                                  <<BindPat(2, RefTo(RefTo(b.t))), AnyPat(RefTo(I32))>>),
                          <<Return(<<Use(Place(2, <<Deref>>, h[6]), h[7])>>)>>) >>) >>)
MatchesBoxTypes(b) ==
  <<BoxOf(b.t), BoxOf(b.t), RefTo(BoxOf(b.t)), BoxOf(b.t), BoxOf(b.t), RefTo(b.t), RefTo(b.t), RefTo(b.t)>>

\* let x = Box { v: &y, n: 1 }; return Some(Pair { b: 2 + 3, a: y })
Builds(b, h) ==
  Body(<<h[1], h[6]>>, 1, h[14],
       << Let(2, Construct(h[4], h[5], 1, "Struct", <<"v", "n">>,
                           <<AddressOf("Ref", Place(1, <<>>, h[2]), h[3]), Number(b.int)>>)),
          Return(<<Construct(h[12], h[13], 2, "Tuple", <<>>,
                             << StructLit(h[10], h[11], <<"b", "a">>,
                                          << Binary("arith", h[7], Number(b.int), Number(b.int)),
                                             Use(Place(1, <<>>, h[8]), h[9]) >>) >>)>>) >>)
BuildsTypes(b) ==
  << b.t, b.t, RefTo(b.t), BoxOf(b.t), BoxOf(b.t), BoxOf(b.t), b.int, b.t, b.t, PairOf(b.t), PairOf(b.t),
     OptOf(PairOf(b.t)), OptOf(PairOf(b.t)), OptOf(PairOf(b.t)) >>

\* if p { c"..." } else { "..." }; while q { let x = !r }; let y = s && t; return true
Decides(b, h) ==
  Body(<<h[1], h[3], h[5], h[9], h[11], h[8], h[14]>>, 5, h[16],
       << If(<<>>, Local(1, h[2]),
             <<[stmt |-> "Block", stmts |-> <<Expr(Lit("CStr", Ty("Ptr", <<Char>>)))>>]>>,
             <<Expr(Lit("Str", Named("str")))>>),
          While(<<>>, Local(2, h[4]), <<Let(6, Op("Not", h[7], <<Local(3, h[6])>>))>>),
          Let(7, Binary("logic", h[13], Local(4, h[10]), Local(5, h[12]))),
          Return(<<Lit("Bool", h[15])>>) >>)
DecidesTypes(b) == [i \in 1 .. 16 |-> b.bool]

\* let c = i < j; let x = -m; match k { 3 => y = n + o, _ => }; return y
Counts(b, h) ==
  Body(<<h[1], h[3], h[7], h[11], h[15], h[17], h[21], h[6], h[10]>>, 7, h[23],
       << Let(8, Binary("compare", h[5], Local(1, h[2]), Local(2, h[4]))),
          Let(9, Op("Neg", h[9], <<Local(3, h[8])>>)),
          Match(Local(4, h[12]),
                << Branch(Pat("IntLit", h[13], <<>>),
                          <<Assign(Place(7, <<>>, h[20]), Binary("arith", h[19], Local(5, h[16]), Local(6, h[18])))>>),
                   Branch(AnyPat(h[14]), <<>>) >>),
          Return(<<Local(7, h[22])>>) >>)
CountsTypes(b) ==
  [i \in 1 .. 23 |-> CASE i \in 5 .. 6 -> b.bool [] i \in 7 .. 10 -> b.num [] OTHER -> b.int]

\* let n = s.len; return s[n as i32], for s : &[t]
Measures(b, h) ==
  Body(<<h[1], h[4]>>, 1, h[10],
       << Let(2, Op("Metadata", h[3], <<Local(1, h[2])>>)),
          Return(<<Use(Place(1, <<Index(CastTo(h[6], h[7], Local(2, h[5])))>>, h[8]), h[9])>>) >>)
MeasuresTypes(b) ==
  <<RefTo(SliceOf(b.t)), RefTo(SliceOf(b.t)), b.size, b.size, b.size, b.int, b.int, b.t, b.t, b.t>>

-----------------------------------------------------------------------------
Families ==
  {"ReadsField", "WritesThrough", "TakesElement", "MatchesOption", "FindsPart", "MatchesBox", "Builds",
   "Decides", "Counts", "Measures"}

TypesIn(family, b) ==
  CASE family = "ReadsField" -> ReadsFieldTypes(b)
    [] family = "WritesThrough" -> WritesThroughTypes(b)
    [] family = "TakesElement" -> TakesElementTypes(b)
    [] family = "MatchesOption" -> MatchesOptionTypes(b)
    [] family = "FindsPart" -> FindsPartTypes(b)
    [] family = "MatchesBox" -> MatchesBoxTypes(b)
    [] family = "Builds" -> BuildsTypes(b)
    [] family = "Decides" -> DecidesTypes(b)
    [] family = "Counts" -> CountsTypes(b)
    [] family = "Measures" -> MeasuresTypes(b)

\* A method of Pair.
BodyOf(family, b, types, intact) ==
  LET of == CASE family = "ReadsField" -> ReadsField(b, types)
              [] family = "WritesThrough" -> WritesThrough(b, types)
              [] family = "TakesElement" -> TakesElement(b, types)
              [] family = "MatchesOption" -> MatchesOption(b, types)
              [] family = "FindsPart" -> FindsPart(b, types)
              [] family = "MatchesBox" -> MatchesBox(b, types)
              [] family = "Builds" -> Builds(b, types)
              [] family = "Decides" -> Decides(b, types)
              [] family = "Counts" -> Counts(b, types)
              [] family = "Measures" -> Measures(b, types)
  IN  [ locals |-> of.locals, params |-> of.params, ret |-> of.ret, stmts |-> of.stmts,
        zelf |-> PairOf(P), subs |-> b.subs, intact |-> intact ]

\* What a body is about, and what its type parameter stands for.
About(t, subs) == [t |-> t, subs |-> subs, int |-> I32, num |-> I32, bool |-> Bool, size |-> Usize]
Subjects ==
  {About(P, <<I32>>), About(P, <<RefTo(Bool)>>), About(RefTo(P), <<I32>>), About(OptOf(P), <<I32>>),
   About(PairOf(P), <<Ty("PtrMut", <<I32>>)>>)}

\* What it may be mistaken for.
Others(b) ==
  {[b EXCEPT !.t = t] : t \in {P, I32, RefTo(P), RefMutTo(P), OptOf(P)} \ {b.t}}
  \cup {[b EXCEPT !.int = t] : t \in {Usize, TupleTy(<<I32>>)}}
  \cup {[b EXCEPT !.num = Usize], [b EXCEPT !.bool = I32], [b EXCEPT !.size = I32]}

\* The types that follow from b, but from node i to node j from c.
Mixed(b, c, i, j) == [n \in DOMAIN b |-> IF n \in i .. j THEN c[n] ELSE b[n]]

MixedUp(family, b, c) ==
  LET right == TypesIn(family, b)
      other == TypesIn(family, c)
      differ == {n \in DOMAIN right : right[n] # other[n]}
  IN  UNION {{BodyOf(family, b, Mixed(right, other, i, j), FALSE) : j \in {n \in differ : i <= n}} : i \in differ}

MCBodies ==
  {BodyOf(family, b, TypesIn(family, b), TRUE) : family \in Families, b \in Subjects}
  \cup UNION {UNION {MixedUp(family, b, c) : c \in Others(b)} : family \in Families, b \in Subjects}
============================================================================
