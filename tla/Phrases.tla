-------------------------------- MODULE Phrases --------------------------------
(***************************************************************************)
(* How the language is written: phrases, which are syntax trees together   *)
(* with the tokens that stand for them, in every form: expressions of two  *)
(* operators, every kind of statement and of item.  It is the reference of *)
(* the parser, and knows nothing of how it works.                          *)
(***************************************************************************)
EXTENDS Naturals, Sequences, SequencesExt

Tree(kind, kids) == [node |-> kind, kids |-> kids]
NoTree == Tree("List", <<>>)

\* What a phrase is made of: tokens that are only written, and phrases.
Written(tok) == [toks |-> <<tok>>, trees |-> <<>>, tight |-> 0]
Kept(tok) == [toks |-> <<tok>>, trees |-> <<Tree(tok, <<>>)>>, tight |-> 13]
Missing == [toks |-> <<>>, trees |-> <<NoTree>>, tight |-> 13]

\* A phrase holds one tree; tight says how little it needs brackets.
AllToks(parts) == FlattenSeq([i \in DOMAIN parts |-> parts[i].toks])
AllTrees(parts) == FlattenSeq([i \in DOMAIN parts |-> parts[i].trees])
Phrase(kind, tight, parts) == [toks |-> AllToks(parts), trees |-> <<Tree(kind, AllTrees(parts))>>, tight |-> tight]
Kind(e) == e.trees[1].node
Of(kind, parts) == Phrase(kind, 13, parts)

\* Phrases one after the other, with a token in between.
Several(kind, phrases, between) ==
  [Of(kind, phrases) EXCEPT
    !.toks = AllToks([i \in DOMAIN phrases |-> IF i = 1 THEN phrases[i] ELSE [phrases[i] EXCEPT !.toks = <<between>> \o @]])]
Commas(phrases) == Several("List", phrases, ",")
Bracketed(open, phrase, close) == <<Written(open), phrase, Written(close)>>
Round(phrase) == Bracketed("(", phrase, ")")
Curly(phrase) == Bracketed("{", phrase, "}")
Angles(phrase) == Bracketed("<", phrase, ">")

Between(kind, left, tok, right) == Of(kind, <<left, Written(tok), right>>)
Behind(kind, tok, phrase) == Of(kind, <<Written(tok), phrase>>)

-----------------------------------------------------------------------------
\* How tightly the operators bind, those of one kind from the left to the right.
Operators ==
  <<{".."}, {"||"}, {"&&"}, {"|"}, {"^"}, {"&"}, {"==", "!="}, {"<", ">", "<=", ">="}, {"+", "-"}, {"*", "/", "%"},
    {"as"}>>
Strength(op) == CHOOSE n \in DOMAIN Operators : op \in Operators[n]

\* Phrases of an expression that needs no brackets, or none.
Provided(fits, phrase) == IF fits THEN {phrase} ELSE {}

\* A type is followed by its arguments, not by a comparison.
EndsInType(e) ==
  \/ Kind(e) = "As"
  \/ Kind(e) \in {"BinOp", "Range"} /\ Last(e.trees[1].kids).node = "As"
Operation(op, d, e) ==
  Provided(d.tight >= Strength(op) /\ e.tight > Strength(op) /\ (op = "<" => ~ EndsInType(d)),
           IF op = ".." THEN Phrase("Range", 1, <<d, Written(op), e>>)
           ELSE Phrase("BinOp", Strength(op), <<d, Kept(op), e>>))
As(e, type) == Provided(e.tight >= Strength("as"), Phrase("As", 11, <<e, Written("as"), type>>))
Prefix(op, e) == Provided(e.tight >= 12, Phrase("Prefix", 12, <<Kept(op), e>>))
Ref(mut, e) == Provided(e.tight >= 12, Phrase("Ref", 12, <<Written("&"), mut, e>>))
After(kind, e, parts) == Provided(e.tight >= 13, Of(kind, <<e>> \o parts))

\* A call of a path is part of the path, and one of a field a call of a method.
Callable(e) == Kind(e) \notin {"Path", "QualifiedPath", "FieldAccess"}
Call(f, args) == {e \in After("Call", f, Round(args)) : Callable(f)}
GenericCall(f, types, args) ==
  {e \in After("GenericCall", f, <<Written("::")>> \o Angles(types) \o Round(args)) : Callable(f)}
MethodCall(e, m, args) == After("MethodCall", e, <<Written("."), m, Missing>> \o Round(args))
GenericMethodCall(e, m, types, args) ==
  After("MethodCall", e, <<Written("."), m, Written("::")>> \o Angles(types) \o Round(args))

\* The last part of a path is a name, or a call or a literal that begins with one.
IsSegment(e) ==
  \/ Kind(e) \in {"Name", "Tuple", "StaticCall", "Path"}
  \/ Kind(e) \in {"Call", "GenericCall"} /\ e.trees[1].kids[1].node \in {"Name", "Tuple"}
Path(m, e) == Provided(IsSegment(e), Between("Path", m, "::", e))

-----------------------------------------------------------------------------
Name(n) == Of("Name", <<Kept(n)>>)
A == Name("a")
B == Name("b")
One == Kept("1")
Ty(n) == Of("Type", <<Kept(n), Missing>>)
TyOf(n, types) == Of("Type", <<Kept(n)>> \o Angles(Commas(types)))
TOfA == TyOf("T", <<Ty("a"), Kept("_")>>)
Field(e) == Of("FieldInit", <<Written("."), Kept("x"), Written(":"), e>>)
Fields(e) == Curly(Commas(<<Field(e), Field(A)>>))

\* Every form over one expression, and over two.
Over(e) ==
  Prefix("-", e) \cup Ref(Missing, e) \cup Ref(Kept("mut"), e) \cup Path(Kept("a"), e) \cup As(e, TOfA)
  \cup After("AddressOf", e, <<Written("@")>>) \cup After("PostfixDeref", e, <<Written("$")>>)
  \cup After("FieldAccess", e, <<Written("."), Kept("x")>>) \cup After("TupleAccess", e, <<Written("."), One>>)
  \cup GenericCall(e, Commas(<<Ty("T"), Ty("a")>>), Missing)
  \cup {Of("Tuple", Round(Commas(<<e>>))), Of("SliceLit", Curly(Commas(<<e, A>>))),
        Of("Metadata", <<Written("@metadata")>> \o Round(e)), Of("StructLit", <<Ty("T"), Missing>> \o Fields(e)),
        Of("StructLit", <<TOfA, Written("::"), Kept("f")>> \o Fields(e))}
OverTwo(d, e) ==
  UNION {Operation(op, d, e) : op \in {"+", "-", "*", "<", "==", "&&", ".."}}
  \cup As(d, Ty("T")) \cup After("Index", d, Bracketed("[", e, "]")) \cup Call(d, Commas(<<e>>))
  \cup MethodCall(d, Kept("f"), Commas(<<e, d>>))
  \cup GenericMethodCall(d, Kept("f"), Commas(<<Ty("T")>>), Commas(<<e>>))
  \cup {Of("StaticCall", <<TOfA, Written("::"), Kept("f"), Missing>> \o Round(Commas(<<d, e>>))),
        Of("StaticCall", <<Of("Type", <<Kept("T"), Written("::")>> \o Angles(Commas(<<Ty("a")>>))), Written("::"),
                           Kept("f"), Written("::")>> \o Angles(Commas(<<Ty("b")>>)) \o Round(Commas(<<d, e>>)))}

\* The smaller ones, and those of them that stand on the right.
Right == {A, One} \cup Over(One) \cup OverTwo(A, B)
Small ==
  {A, One, Kept("true"), Of("SizeOf", <<Written("@sizeof")>> \o Round(Ty("T"))),
   Of("QualifiedPath", <<TOfA, Written("::"), Kept("b")>>)}
  \cup Over(A) \cup OverTwo(A, B)

Statements(stmts) == Of("Block", Curly(Of("Run", stmts)))
Let(e) == Of("LetDecl", <<Written("let"), Kept("x"), Missing, Written("="), e, Written(";")>>)
Plain(e) == Of("ExprStmt", <<e, Written(";")>>)
Assign(d, op, e) == Of("Assign", <<d, Kept(op), e, Written(";")>>)
Break == Of("Break", <<Written("break"), Written(";")>>)
AllTypes ==
  {Ty("T"), TOfA, Between("TypePath", Kept("a"), "::", TOfA), Of("TupleType", Round(Commas(<<Ty("T"), Ty("a")>>))),
   Of("Slice", <<Written("["), Ty("T"), Written(";"), One, Written("]")>>),
   Of("Slice", <<Written("["), Ty("T"), Missing, Written("]")>>),
   Of("Pointer", <<Kept("*"), Kept("mut"), Of("Pointer", <<Kept("&&"), Missing, Ty("T")>>)>>)}
Patterns ==
  {Kept("_"), One, Of("MutPat", <<Written("mut"), Kept("x")>>), Of("TuplePat", Round(Commas(<<Kept("a"), Kept("_")>>))),
   Between("PathPat", Kept("T"), "::", Of("TupleConsPat", <<Kept("f")>> \o Round(Commas(<<Kept("x")>>)))),
   Of("StructConsPat", <<Kept("T")>>
      \o Curly(Commas(<<Kept("x"), Between("Rebind", Kept("a"), ":", Of("MutPat", <<Written("mut"), Kept("b")>>))>>)))}

\* Blocks after an expression: no struct literal may stand there.
Heads == {e \in Small : Kind(e) # "StructLit"}
Branch(pat, guard) == Of("Branch", <<pat>> \o guard \o <<Written("=>"), Statements(<<Break>>)>>)
WithHead(e) ==
  {Of("While", <<Written("while"), e, Statements(<<>>)>>), Of("If", <<Written("if"), e, Statements(<<Let(e)>>), Missing>>),
   Of("If", <<Written("if"), e, Statements(<<Break>>), Written("else"), Statements(<<Plain(One)>>)>>),
   Of("For", <<Written("for"), Kept("x"), Written("in"), e, Statements(<<Assign(A, "=", B)>>)>>),
   Of("Match", <<Written("match"), e>> \o Curly(Of("Run", <<Branch(Kept("a"), <<Written("if"), e>>)>>)))}
Stmts ==
  UNION {WithHead(e) : e \in Heads}
  \cup UNION {{Assign(d, "+=", e), Of("Return", <<Written("return"), d, Written(";")>>)} :
                d \in {e \in Small : Kind(e) # "SliceLit"}, e \in {A, Of("StructLit", <<Ty("T"), Missing>> \o Fields(B))}}
  \cup {Plain(e) : e \in {d \in Small : Kind(d) # "SliceLit"}}
  \cup {Of("LetDecl", <<Written("let"), pat, Written(":"), type, Written("="), A, Written(";")>>) :
          pat \in Patterns, type \in AllTypes \cup {Kept("_")}}
  \cup {Of("Match", <<Written("match"), A>>
           \o Curly(Of("Run", <<Branch(pat, <<Missing>>), Branch(Kept("x"), <<Missing>>)>>))) : pat \in Patterns}
  \cup {Of("Return", <<Written("return"), Missing, Written(";")>>), Break, Behind("Defer", "defer", Plain(A)),
        Behind("Defer", "defer", Statements(<<Break>>)), Statements(<<Statements(<<>>), Break>>)}

NoAnnots == Of("Annotations", <<>>)
Annots ==
  Of("Annotations",
     <<Of("Annotation", <<Written("@")>> \o Bracketed("[", Commas(<<Kept("a"), Of("AnnotationCall", <<Kept("b")>> \o Round(Commas(<<Ty("T")>>)))>>), "]")),
       Of("Annotation", <<Written("@")>> \o Bracketed("[", Commas(<<Kept("x")>>), "]"))>>)
Parameter(n, type) == Between("Param", Kept(n), ":", type)
Signature(name, templates, params) ==
  <<Kept(name)>> \o templates \o Round(params) \o <<Written(":"), Ty("T")>>
Templates ==
  Angles(Commas(<<Of("Template", <<Kept("T"), Written(":"), Several("Sum", <<Ty("a"), Ty("b")>>, "+")>>),
                  Of("Template", <<Kept("x"), Missing>>)>>))
FunWith(annots, templates, params, stmts) ==
  Of("Fundef", <<annots, Written("fun")>> \o Signature("f", templates, params) \o <<Statements(stmts)>>)
Fun(stmts) == FunWith(NoAnnots, <<Missing>>, Missing, stmts)
Self(ref, mut) == Of("Receiver", <<ref, mut, Kept("self")>>)
Receivers == {Self(Missing, Missing), Self(Kept("mut"), Missing), Self(Kept("&"), Kept("mut")), Self(Kept("*"), Missing)}
AllParams ==
  {Missing, Commas(<<Parameter("a", Ty("T"))>>)} \cup {Commas(<<r>>) : r \in Receivers}
  \cup {Commas(<<r, Parameter("a", TOfA), Parameter("b", Ty("T"))>>) : r \in Receivers}
Methods(params) ==
  <<Of("AssocType", <<NoAnnots, Written("type"), Kept("T"), Written("="), TOfA, Written(";")>>),
    Of("Method", <<Annots, Written("fun")>> \o Signature("f", Templates, params) \o <<Statements(<<Break>>)>>)>>
Sigs(params) ==
  <<Of("TypeItem", <<Written("type"), Of("Template", <<Kept("x"), Missing>>), Written(";")>>),
    Of("Sig", <<Written("fun")>> \o Signature("f", <<Missing>>, params) \o <<Written(";")>>)>>
FieldDefs == Several("Fields", <<Between("Field", Kept("a"), ":", Ty("T")), Between("Field", Kept("b"), ":", TOfA)>>, ";")


Items ==
  {FunWith(Annots, Templates, Commas(<<Parameter("a", type), Parameter("b", TOfA)>>), <<>>) : type \in AllTypes}
  \cup {Of("Struct", <<NoAnnots, Written("struct"), Kept("T"), Missing>> \o Curly(FieldDefs)),
        Of("Enum", <<NoAnnots, Written("enum"), Kept("T")>> \o Templates
           \o Curly(Commas(<<Kept("a"), Of("StructVariant", <<Kept("b")>> \o Curly(FieldDefs)),
                             Of("TupleVariant", <<Kept("f")>> \o Round(Commas(<<Ty("T")>>)))>>))),
        Of("Interface", <<NoAnnots, Written("interface"), Kept("T"), Missing, Written(":"),
                          Several("Sum", <<Ty("a"), TOfA>>, "+")>> \o Curly(Of("Run", <<>>)))}
  \cup {Of("Interface", <<NoAnnots, Written("interface"), Kept("T")>> \o Templates \o <<Missing>>
           \o Curly(Of("Run", Sigs(params)))) : params \in AllParams}
  \cup {Of("Impl", <<Annots, Written("impl")>> \o Templates \o <<TOfA, Written("for"), Ty("x")>>
           \o Curly(Of("Run", Methods(params)))) : params \in AllParams}
  \cup {Of("Impl", <<NoAnnots, Written("impl"), Missing, TOfA, Missing>> \o Curly(Of("Run", <<>>)))}
  \cup {Of("Extern", <<Annots, Written("@extern"), Written("{"), NoAnnots, Written("fun")>>
           \o <<Kept("f"), Missing, Written("("), params, variadic>>
           \o <<Written(")"), Written(":"), Ty("T"), Written(";"), Written("}")>>) :
          params \in {Missing, Commas(<<Parameter("a", Ty("T"))>>)}, variadic \in {Kept("+"), Missing}}
Include == Behind("Include", "@include", Several("Names", <<Kept("a"), Kept("b")>>, "::"))
Mod(annots, items) == Of("Item", <<annots, Of("Module", <<Written("mod"), Kept("a")>> \o Curly(Of("Run", items)))>>)
Mods == {Mod(Annots, <<Include, item, Fun(<<>>)>>) : item \in Items} \cup {Mod(NoAnnots, <<Mod(NoAnnots, <<>>)>>)}

\* Statements and items for errors to be put in: without blocks of their own,
\* and without a semicolon before the end.
Sturdy ==
  {Plain(e) : e \in {d \in Over(A) \cup OverTwo(A, B) : Kind(d) \notin {"SliceLit", "StructLit"}}}
  \cup {Break, Assign(A, "+=", One), Behind("Defer", "defer", Plain(A)),
        Of("LetDecl", <<Written("let"), Of("MutPat", <<Written("mut"), Kept("x")>>), Written(":"), TOfA, Written("="), A,
                        Written(";")>>)}
SturdyItems == {FunWith(NoAnnots, Templates, Commas(<<Parameter("a", Ty("T")), Parameter("b", TOfA)>>), <<Let(A)>>)}
=============================================================================
