------------------------------- MODULE Grammar -------------------------------
(***************************************************************************)
(* The functions of the parser (src/src/parser) as routines: sequences of  *)
(* instructions, which Parser executes.  A routine works on the nodes of   *)
(* its frame: what it reads is put behind them, Make puts all of them      *)
(* under one node, and those left at its end go to its caller.  A token    *)
(* is a string, and the tree of one token is a leaf of that name.          *)
(***************************************************************************)
EXTENDS Naturals, Sequences, SequencesExt

CONSTANTS
  Idents,   \* the identifiers, with "_" and "self"
  Ints,     \* the integer literals
  Lits      \* the other literals

Do(what) == [do |-> what, ahead |-> <<>>, then |-> <<>>, else |-> <<>>, name |-> "", n |-> 0]

\* What is read here: one token, or one of some that is kept.
Expect(tok) == [Do("expect") EXCEPT !.name = tok]
Take(toks) == [Do("take") EXCEPT !.ahead = <<toks>>]
Symbol == Take(Idents)
Some == Do("some")              \* fails at the end of the tokens
Fail == Do("fail")
\* Choices: on the tokens ahead, a set for each; on the end of a list; on
\* restrict_struct_lit; on the kind of the node read last.
When(ahead, then, else) == [Do("when") EXCEPT !.ahead = ahead, !.then = then, !.else = else]
Until(ends, body) == [Do("until") EXCEPT !.ahead = <<ends>>, !.then = body]
WhenFree(then, else) == [Do("when_free") EXCEPT !.then = then, !.else = else]
WhenRead(kinds, then, else) == [Do("when_read") EXCEPT !.ahead = <<kinds>>, !.then = then, !.else = else]
\* Other routines: in this frame, or in one of their own.
Go(name) == [Do("go") EXCEPT !.name = name]
Run(name) == [Do("run") EXCEPT !.name = name]
Listed(name, kind) == [Do("list") EXCEPT !.name = name, !.ahead = <<{kind}>>]
Restricted(name) == [Do("restricted") EXCEPT !.name = name]
Free(name) == [Do("free") EXCEPT !.name = name]
Binding(power) == [Do("binding") EXCEPT !.n = power]      \* parse_binop(power)
Infix == Do("infix")                                      \* the test of its loop
Try(name, then, else) == [Do("try") EXCEPT !.name = name, !.then = then, !.else = else]
Catch(name, handler) == [Do("catch") EXCEPT !.name = name, !.else = handler]
\* After an error.
Sync(toks) == [Do("sync") EXCEPT !.ahead = <<toks>>]
Report == Do("report")
\* Nodes.
Make(kind) == [Do("make") EXCEPT !.name = kind]
None == Do("none")              \* nothing where something might be
Forget == Do("forget")          \* the node read last is dropped
TypeOf == Do("type_of")         \* an expression and type arguments as a type
StructOf == Do("struct_of")     \* an expression as the type of a struct literal

Optional(tok) == When(<<{tok}>>, <<Take({tok})>>, <<None>>)
Within(open, name, close) == <<Expect(open), Listed(name, "List"), Expect(close)>>
\* parse_list; self is the name of the list's routine.
Elements(self, elem, sep, ends) ==
  <<Until(ends, elem \o <<When(<<{sep}>>, <<Expect(sep), Go(self)>>, <<>>)>>)>>
\* A loop without separators.
Loop(self, elem, ends) == <<Until(ends, elem \o <<Go(self)>>)>>

\* The first choice whose token comes next, as in a match on the token.
Choose(arms, otherwise) == FoldRight(LAMBDA arm, rest : <<When(<<arm[1]>>, arm[2], rest)>>, arms, otherwise)

-----------------------------------------------------------------------------
\* type_expr.rs
PointerType == <<Take({"*", "&", "&&"}), Optional("mut"), Run("any_type"), Make("Pointer")>>
SliceType ==
  <<Expect("["), Run("any_type"), When(<<{";"}>>, <<Expect(";"), Take(Ints)>>, <<None>>), Expect("]"), Make("Slice")>>
NamedType ==
  <<Symbol>> \o
  Choose(<< <<{"::"}, <<Expect("::"), Run("type"), Make("TypePath")>> >>,
            <<{"<"}, Within("<", "any_types", ">") \o <<Make("Type")>> >> >>, <<None, Make("Type")>>)
TypeExpr ==
  Choose(<< <<{"*", "&", "&&"}, PointerType>>, <<{"["}, SliceType>>,
            <<{"("}, Within("(", "any_types", ")") \o <<Make("TupleType")>> >> >>, NamedType)
AnyTypeExpr == Choose(<< <<{"_"}, <<Take({"_"})>> >> >>, <<Run("type")>>)
\* The end is a parenthesis, whatever the list is in.
AnyTypeArgs == Elements("any_types", <<Run("any_type")>>, ",", {")"})

-----------------------------------------------------------------------------
\* pattern.rs
Pattern ==
  Choose(<< <<{"mut"}, <<Expect("mut"), Symbol, Make("MutPat")>> >>, <<{"_"}, <<Take({"_"})>> >>,
            <<{"("}, Within("(", "patterns", ")") \o <<Make("TuplePat")>> >>,
            <<Idents, <<Run("named_pattern")>> >>, <<Ints, <<Take(Ints)>> >> >>, <<Fail>>)
NamedPattern ==
  <<Symbol>> \o
  Choose(<< <<{"::"}, <<Expect("::"), Run("named_pattern"), Make("PathPat")>> >>,
            <<{"("}, Within("(", "patterns", ")") \o <<Make("TupleConsPat")>> >>,
            <<{"{"}, Within("{", "field_patterns", "}") \o <<Make("StructConsPat")>> >> >>, <<>>)
FieldPattern == <<Symbol, When(<<{":"}>>, <<Expect(":"), Run("pattern"), Make("Rebind")>>, <<>>)>>
PatternList == Elements("patterns", <<Run("pattern")>>, ",", {")"})
FieldPatterns == Elements("field_patterns", <<Run("field_pattern")>>, ",", {"}"})

-----------------------------------------------------------------------------
\* expr.rs
Precedences ==
  <<{}, {".."}, {"||"}, {"&&"}, {"|"}, {"^"}, {"&"}, {"!=", "=="}, {"<", "<=", ">", ">="}, {"+", "-"},
    {"*", "/", "%"}, {"as"}>>

\* infix_binding_power: every operator is left associative, 0 is none of them.
InfixBindingPower(tok) ==
  IF \E prec \in DOMAIN Precedences : tok \in Precedences[prec]
  THEN 2 * (CHOOSE prec \in DOMAIN Precedences : tok \in Precedences[prec])
  ELSE 0

\* Mutant: the operators of one strength associate to the right.
InfixOnRight(tok) ==
  <<Take({tok}), Binding(InfixBindingPower(tok) - 1), Make("BinOp"), Infix>>

\* The body of parse_binop's loop.
InfixOn(tok) ==
  CASE tok = ".." -> <<Expect(tok), Binding(InfixBindingPower(tok)), Make("Range"), Infix>>
    [] tok = "as" -> <<Expect(tok), Run("type"), Make("As"), Infix>>
    [] OTHER -> <<Take({tok}), Binding(InfixBindingPower(tok)), Make("BinOp"), Infix>>

Unary ==
  Choose(<< <<{"-", "!", "*"}, <<Take({"-", "!", "*"}), Run("unary"), Make("Prefix")>> >>,
            <<{"&"}, <<Expect("&"), Optional("mut"), Run("unary"), Make("Ref")>> >> >>, <<Go("postfix")>>)

Args == Within("(", "expr_args", ")")
StructFields == Within("{", "struct_fields", "}")
StructField == <<Expect("."), Symbol, Expect(":"), Free("expr"), Make("FieldInit")>>
Turbofish == Within("<", "any_types", ">")

AfterTurbofish(again) ==
  Choose(<< <<{"("}, Args \o <<Make("GenericCall"), Go(again)>> >>,
            <<{"::"}, <<Expect("::"), TypeOf, Go("finish_qualified_path"), Go(again)>> >> >>, <<Fail>>)

\* A turbofish that no call follows is forgotten.
AfterDot(again) ==
  Choose(<< <<Ints, <<Take(Ints), Make("TupleAccess"), Go(again)>> >> >>,
         <<Symbol, When(<<{"::"}>>, <<Expect("::"), Go("turbofish")>>, <<None>>),
           When(<<{"("}>>, Args \o <<Make("MethodCall")>>, <<Forget, Make("FieldAccess")>>), Go(again)>>)

StructLit(again) ==
  <<WhenFree(<<WhenRead({"Name", "Path", "QualifiedPath"},
       <<When(<<{"{"}, {".", "}"}>>, StructFields \o <<StructOf, Make("StructLit"), Go(again)>>, <<>>)>>, <<>>)>>, <<>>)>>

Speculated(again) ==
  <<Try("static_call", <<Go(again)>>, <<Try("qualified_cons", <<Go(again)>>, <<>>)>>)>>

\* The loop of parse_postfix_inner.
Postfixes(again) ==
  Choose(<< <<{"@"}, <<Expect("@"), Make("AddressOf"), Go(again)>> >>,
            <<{"$"}, <<Expect("$"), Make("PostfixDeref"), Go(again)>> >>,
            <<{"::"}, <<When(<<{"::"}, {"<"}>>, <<Expect("::"), Go("turbofish")>> \o AfterTurbofish(again), <<>>)>> >>,
            <<{"."}, <<Expect(".")>> \o AfterDot(again)>>,
            <<{"["}, <<Expect("["), Free("expr"), Expect("]"), Make("Index"), Go(again)>> >>,
            <<{"("}, Args \o <<Make("Call"), Go(again)>> >>,
            <<{"<"}, Speculated(again)>>,
            <<{"{"}, StructLit(again)>> >>, <<>>)

Postfix == <<Run("primary"), Go("postfixes")>>
\* Inside a path these are left to the whole path.
LeftToThePath == {".", "[", "@", "$", "{"}
SegmentPostfixes == Choose(<< <<LeftToThePath, <<>> >> >>, Postfixes("segment_postfixes"))

Builtin(tok, argument, kind) == <<Expect(tok), Expect("("), argument, Expect(")"), Make(kind)>>

NameExpr ==
  <<Symbol, When(<<{"::"}, {"<"}>>, <<Make("Name")>>,
     <<When(<<{"::"}>>, <<Expect("::"), Run("segment"), Make("Path")>>,
       <<Make("Name"),
         WhenFree(<<When(<<{"{"}, {"."}>>, StructFields \o <<StructOf, Make("StructLit")>>, <<>>)>>, <<>>)>>)>>)>>

Primary ==
  Choose(<< <<Ints \cup Lits, <<Take(Ints \cup Lits)>> >>,
            <<{"{"}, Within("{", "slice_items", "}") \o <<Make("SliceLit")>> >>,
            <<{"("}, Args \o <<Make("Tuple")>> >>,
            <<{"@sizeof"}, Builtin("@sizeof", Run("type"), "SizeOf")>>,
            <<{"@metadata"}, Builtin("@metadata", Free("expr"), "Metadata")>>,
            <<{"@type_name"}, Builtin("@type_name", Run("type"), "TypeName")>> >>, NameExpr)

StaticCall == <<Go("turbofish"), Expect("::"), TypeOf, Symbol, None>> \o Args \o <<Make("StaticCall")>>

CallOrPath == Choose(<< <<{"("}, <<None>> \o Args \o <<Make("StaticCall")>> >> >>, <<Make("QualifiedPath")>>)

QualifiedCons ==
  <<Go("turbofish"), Expect("::"), TypeOf, Symbol,
    WhenFree(Choose(<< <<{"{"}, StructFields \o <<Make("StructLit")>> >> >>, CallOrPath), CallOrPath)>>

CallWithTypes ==
  <<When(<<{"::"}, {"<"}>>, <<Expect("::"), Go("turbofish")>> \o Args \o <<Make("StaticCall")>>, CallOrPath)>>

FinishQualifiedPath ==
  <<Symbol,
    WhenFree(<<When(<<{"{"}, {".", "}"}>>, StructFields \o <<Make("StructLit")>>, CallWithTypes)>>, CallWithTypes)>>

-----------------------------------------------------------------------------
\* stmt.rs
\* Mutant: a semicolon where the error is does not end the recovery.
RecoveredPast == <<When(<<{";"}>>, <<Expect(";")>>, <<>>), Sync({";"}), Report>>

Recovered == <<Sync({";"}), When(<<{";"}>>, <<Expect(";")>>, <<>>), Report>>
BlockItems ==
  <<Until({"}"}, Choose(<< <<{";"}, <<Expect(";")>> >> >>, <<Catch("stmt", Recovered)>>) \o <<Go("block_items")>>)>>
Block == <<Expect("{"), Listed("block_items", "Run"), Expect("}"), Make("Block")>>

LetDecl ==
  <<Expect("let"), Run("pattern"), When(<<{":"}>>, <<Expect(":"), Run("any_type")>>, <<None>>), Expect("="),
    Run("expr"), Expect(";"), Make("LetDecl")>>
ForStmt == <<Expect("for"), Run("pattern"), Expect("in"), Restricted("expr"), Run("block"), Make("For")>>
ReturnStmt == <<Expect("return"), When(<<{";"}>>, <<None>>, <<Run("expr")>>), Expect(";"), Make("Return")>>
WhileStmt == <<Expect("while"), Restricted("expr"), Run("block"), Make("While")>>
IfStmt ==
  <<Expect("if"), Restricted("expr"), Run("block"),
    When(<<{"else"}>>, <<Expect("else"), Run("block")>>, <<None>>), Make("If")>>
AssignOps == {"=", "+=", "-=", "*=", "/=", "%="}
AssignStmt == <<Run("expr"), Take(AssignOps), Run("expr"), Expect(";"), Make("Assign")>>
ExprStmt == <<Run("expr"), Expect(";"), Make("ExprStmt")>>

MatchBranch ==
  <<Run("pattern"), When(<<{"if"}>>, <<Expect("if"), Run("expr")>>, <<None>>), Expect("=>"), Run("block"), Make("Branch")>>
MatchStmt ==
  <<Expect("match"), Restricted("expr"), Expect("{"), Listed("branches", "Run"), Expect("}"), Make("Match")>>

Stmt ==
  Choose(<< <<{"{"}, <<Go("block")>> >>, <<{"return"}, ReturnStmt>>, <<{"let"}, LetDecl>>, <<{"if"}, IfStmt>>,
            <<{"for"}, ForStmt>>, <<{"while"}, WhileStmt>>, <<{"match"}, MatchStmt>>,
            <<{"break"}, <<Expect("break"), Expect(";"), Make("Break")>> >>,
            <<{"defer"}, <<Expect("defer"), Run("stmt"), Make("Defer")>> >> >>, <<Try("assign", <<>>, ExprStmt)>>)
=============================================================================
