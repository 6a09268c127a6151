-------------------------------- MODULE Parser --------------------------------
(***************************************************************************)
(* The parser at work (src/src/parser).  A routine takes the parser from   *)
(* one point to another: how far it is in the tokens, the nodes the        *)
(* function has read so far, the errors accumulated, and whether the last  *)
(* call has failed.  parse_file reads one item a step.                     *)
(***************************************************************************)
EXTENDS Grammar, FiniteSets, SequencesExt

-----------------------------------------------------------------------------
\* The routines of top_level.rs and of parse_file, and the table of all of
\* them.  Includes stay among the items, which the parser keeps apart.

\* is_top_level_sync_point
Directives == {"@include", "@extern", "@sizeof", "@metadata", "@type_name", "@other"}
SyncPoints == {"fun", "mod", "type", "interface"} \cup Directives

\* A path may not be the end of the file.
IncludePath == <<Symbol, Some, When(<<{"::"}>>, <<Expect("::"), Go("include_path")>>, <<>>)>>
Include == <<Expect("@include"), Listed("include_path", "Names"), Make("Include")>>
AnyItem == Choose(<< <<{"@include"}, Include>> >>, <<Go("item")>>)

Annotations == <<When(<<{"@"}>>, <<Run("annotation"), Go("annotations")>>, <<>>)>>
Annotation == <<Expect("@")>> \o Within("[", "annotation_items", "]") \o <<Make("Annotation")>>
AnnotationItem ==
  <<Symbol, When(<<{"("}>>, Within("(", "types", ")") \o <<Make("AnnotationCall")>>, <<>>)>>
AnnotationItems == Elements("annotation_items", <<Run("annotation_item")>>, ",", {"]"})
Types == Elements("types", <<Run("type")>>, ",", {")"})

ItemError == <<Sync(SyncPoints), Report>>
ModuleItems ==
  Loop("module_items", Choose(<< <<{"@include"}, <<Catch("include", ItemError)>> >> >>, <<Catch("item", ItemError)>>), {"}"})
Module == <<Expect("mod"), Symbol, Expect("{"), Listed("module_items", "Run"), Expect("}"), Make("Module")>>

Param == <<Symbol, Expect(":"), Run("type"), Make("Param")>>
\* The end may be the mark of a variadic function.
Params == Elements("params", <<Run("param")>>, ",", {")", "+"})

Constraints == Elements("constraints", <<Run("type")>>, "+", {","})
\* A list of constraints is not empty.
TemplateArg ==
  <<Symbol,
    When(<<{":"}>>, <<Expect(":"), When(<<{","}>>, <<Fail>>, <<Listed("constraints", "Sum")>>)>>, <<None>>),
    Make("Template")>>
TemplateArgs == Elements("template_list", <<Run("template_arg")>>, ",", {">"})
Templates == <<When(<<{"<"}>>, Within("<", "template_list", ">"), <<None>>)>>

\* expect_self, after `mut`, a reference or a pointer.
ReceiverAux ==
  Choose(<< <<{"mut"}, <<Take({"mut"}), None>> >>, <<{"&", "*"}, <<Take({"&", "*"}), Optional("mut")>> >> >>,
         <<None, None>>) \o <<Take({"self"}), Make("Receiver")>>
\* After a receiver, the first of the arguments, there are more only behind a comma.
Receiver ==
  <<Try("receiver_aux",
        <<When(<<{","}>>, <<Expect(","), Go("params")>>, <<>>)>>,
        <<When(<<{","}>>, <<Expect(",")>>, <<>>), Go("params")>>)>>

\* parse_any_funsig
Funsig(arguments) ==
  <<Symbol, Go("templates"), Expect("(")>> \o arguments \o <<Expect(")"), Expect(":"), Run("type")>>
FunctionSig == Funsig(<<Listed("params", "List")>>)
VariadicSig == Funsig(<<Listed("params", "List"), Optional("+")>>)
Methodsig == Funsig(<<Listed("receiver", "List")>>)

Methoddef == <<Expect("fun")>> \o Methodsig \o <<Run("block"), Make("Method")>>
Fundef == <<Expect("fun")>> \o FunctionSig \o <<Run("block"), Make("Fundef")>>

ImplItem ==
  <<Listed("annotations", "Annotations")>> \o
  Choose(<< <<{"type"}, <<Expect("type"), Symbol, Expect("="), Run("type"), Expect(";"), Make("AssocType")>> >> >>,
         Methoddef)
ImplItems == Loop("impl_items", <<Run("impl_item")>>, {"}"})
ImplBlock ==
  <<Expect("impl"), Go("templates"), Run("type"), When(<<{"for"}>>, <<Expect("for"), Run("type")>>, <<None>>),
    Expect("{"), Listed("impl_items", "Run"), Expect("}"), Make("Impl")>>

DefField == <<Symbol, Expect(":"), Run("type"), Make("Field")>>
DefFields == Elements("def_fields", <<Run("def_field")>>, ";", {"}"})
FieldsOf(open, close) == <<Expect(open), Listed("def_fields", "Fields"), Expect(close)>>
EnumVariant ==
  <<Symbol>> \o Choose(<< <<{"{"}, FieldsOf("{", "}") \o <<Make("StructVariant")>> >>,
                          <<{"("}, Within("(", "types", ")") \o <<Make("TupleVariant")>> >> >>, <<>>)
EnumVariants == Elements("variants", <<Run("variant")>>, ",", {"}"})
EnumDef == <<Expect("enum"), Symbol, Go("templates")>> \o Within("{", "variants", "}") \o <<Make("Enum")>>
StructDef == <<Expect("struct"), Symbol, Go("templates")>> \o FieldsOf("{", "}") \o <<Make("Struct")>>

InterfaceItem ==
  Choose(<< <<{"type"}, <<Expect("type"), Run("template_arg"), Expect(";"), Make("TypeItem")>> >> >>,
         <<Expect("fun")>> \o Methodsig \o <<Expect(";"), Make("Sig")>>)
InterfaceItems == Loop("interface_items", <<Run("interface_item")>>, {"}"})
Supers == <<Run("type"), When(<<{"+"}>>, <<Expect("+"), Go("supers")>>, <<>>)>>
Interface ==
  <<Expect("interface"), Symbol, Go("templates"), When(<<{":"}>>, <<Expect(":"), Listed("supers", "Sum")>>, <<None>>),
    Expect("{"), Listed("interface_items", "Run"), Expect("}"), Make("Interface")>>

Extern ==
  <<Expect("@extern"), Expect("{"), Listed("annotations", "Annotations"), Expect("fun")>> \o VariadicSig \o
  <<Expect(";"), Expect("}"), Make("Extern")>>

\* parse_toplevel_item. A module that fails is reported at once.
Item ==
  <<Listed("annotations", "Annotations")>> \o
  Choose(<< <<{"mod"}, <<Catch("module", <<Report>>), Make("Item")>> >>, <<{"fun"}, Fundef>>, <<{"impl"}, ImplBlock>>,
            <<{"struct"}, StructDef>>, <<{"enum"}, EnumDef>>, <<{"interface"}, Interface>>,
            <<{"@extern"}, Extern>> >>, <<Fail>>)

Routines == [
  type |-> TypeExpr, any_type |-> AnyTypeExpr, any_types |-> AnyTypeArgs, types |-> Types,
  pattern |-> Pattern, named_pattern |-> NamedPattern, patterns |-> PatternList, field_patterns |-> FieldPatterns,
  field_pattern |-> FieldPattern,
  expr |-> <<Binding(0)>>, unary |-> Unary, postfix |-> Postfix, postfixes |-> Postfixes("postfixes"),
  segment |-> <<Run("primary"), Go("segment_postfixes")>>, segment_postfixes |-> SegmentPostfixes,
  primary |-> Primary, turbofish |-> Turbofish, static_call |-> StaticCall, qualified_cons |-> QualifiedCons,
  finish_qualified_path |-> FinishQualifiedPath,
  expr_args |-> Elements("expr_args", <<Free("expr")>>, ",", {")"}),
  slice_items |-> Elements("slice_items", <<Free("expr")>>, ",", {"}"}),
  struct_fields |-> Elements("struct_fields", <<Run("struct_field")>>, ",", {"}"}), struct_field |-> StructField,
  block |-> Block, block_items |-> BlockItems, stmt |-> Stmt, assign |-> AssignStmt,
  branches |-> Loop("branches", <<Run("branch")>>, {"}"}), branch |-> MatchBranch,
  include_path |-> IncludePath, include |-> Include, any_item |-> AnyItem, item |-> Item, module |-> Module,
  module_items |-> ModuleItems, annotations |-> Annotations, annotation |-> Annotation, annotation_items |-> AnnotationItems,
  annotation_item |-> AnnotationItem, params |-> Params, param |-> Param, constraints |-> Constraints,
  template_arg |-> TemplateArg, template_list |-> TemplateArgs, templates |-> Templates,
  receiver |-> Receiver, receiver_aux |-> ReceiverAux, impl_items |-> ImplItems, impl_item |-> ImplItem,
  def_fields |-> DefFields, def_field |-> DefField, variants |-> EnumVariants, variant |-> EnumVariant,
  interface_items |-> InterfaceItems, interface_item |-> InterfaceItem, supers |-> Supers]

-----------------------------------------------------------------------------
CONSTANTS
  Files,       \* records of the tokens of a file, and of what is known of it
  MaxErrors    \* bound: items that failed are kept up to it

VARIABLES
  file,
  position,    \* the number of tokens consumed
  errors,      \* how many were accumulated
  ast          \* the items read

vars == <<file, position, errors, ast>>

tokens == file.tokens

Node(kind, kids) == [node |-> kind, kids |-> kids]
Leaf(tok) == Node(tok, <<>>)
Nothing == Node("List", <<>>)
Error == Node("Error", <<>>)

\* Where a function is, and what it was called with.
Point(p, n) == [pos |-> p, nodes |-> <<>>, errors |-> n, ok |-> TRUE]
Context(restrict, min) == [restrict |-> restrict, min |-> min]
Failed(at) == [at EXCEPT !.ok = FALSE]
Reads(at, n) == [at EXCEPT !.pos = @ + n]
Adds(at, node) == [at EXCEPT !.nodes = Append(@, node)]

\* peek_n
Peek(at, n, toks) == at.pos + n < Len(tokens) /\ tokens[at.pos + n + 1] \in toks
AtEnd(at) == at.pos = Len(tokens)
IsNext(at, ahead) == \A n \in DOMAIN ahead : Peek(at, n - 1, ahead[n])

\* expect and consume, and what takes a token for a node.
Consume(i, at) ==
  CASE i.do = "expect" /\ Peek(at, 0, {i.name}) -> Reads(at, 1)
    [] i.do = "take" /\ Peek(at, 0, i.ahead[1]) -> Adds(Reads(at, 1), Leaf(tokens[at.pos + 1]))
    [] i.do = "some" /\ ~ AtEnd(at) -> at
    [] OTHER -> Failed(at)

\* The loop of parse_binop goes on while the operator binds more tightly.
Power(at) == IF AtEnd(at) THEN 0 ELSE InfixBindingPower(tokens[at.pos + 1])

Chosen(i, context, at) ==
  CASE i.do = "when" -> IF IsNext(at, i.ahead) THEN i.then ELSE i.else
    [] i.do = "until" -> IF AtEnd(at) \/ IsNext(at, i.ahead) THEN <<>> ELSE i.then
    [] i.do = "when_free" -> IF context.restrict THEN i.else ELSE i.then
    [] i.do = "when_read" -> IF Last(at.nodes).node \in i.ahead[1] THEN i.then ELSE i.else
    [] i.do = "infix" -> IF Power(at) > context.min THEN InfixOn(tokens[at.pos + 1]) ELSE <<>>

\* reinterpret_expr_as_ty: a name, or a path that ends in one.
RECURSIVE IsTypeLike(_), AsType(_)
IsTypeLike(e) == e.node = "Name" \/ (e.node = "Path" /\ IsTypeLike(e.kids[2]))
AsType(e) ==
  IF e.node = "Name" THEN Node("Type", <<e.kids[1], Nothing>>) ELSE Node("TypePath", <<e.kids[1], AsType(e.kids[2])>>)

\* apply_type_args, of a name only.
WithTypeArgs(e, args) == Node("Type", <<e.kids[1], args>>)

\* The type and the variant an expression in front of a struct literal names.
IsStructHead(e) == e.node = "QualifiedPath" \/ IsTypeLike(e)
StructHead(e) ==
  CASE e.node = "QualifiedPath" -> e.kids
    [] e.node = "Path" /\ e.kids[2].node = "Name" -> <<Node("Type", <<e.kids[1], Nothing>>), e.kids[2].kids[1]>>
    [] OTHER -> <<AsType(e), Nothing>>

\* Nodes are put under a new one, dropped, or turned into a type.
Made(i, at) ==
  CASE i.do = "make" -> [at EXCEPT !.nodes = <<Node(i.name, @)>>]
    [] i.do = "none" -> Adds(at, Nothing)
    [] i.do = "forget" -> [at EXCEPT !.nodes = Front(@)]
    [] i.do = "type_of" /\ at.nodes[1].node = "Name" -> [at EXCEPT !.nodes = <<WithTypeArgs(@[1], @[2])>>]
    [] i.do = "struct_of" /\ IsStructHead(at.nodes[1]) -> [at EXCEPT !.nodes = Append(StructHead(@[1]), @[2])]
    [] OTHER -> Failed(at)

\* synchronize: the first of the tokens outside of the brackets opened since.
Opening == {"{", "(", "["}
Closing == {"}", ")", "]"}
RECURSIVE Synchronize(_, _, _)
Synchronize(toks, depth, p) ==
  IF p = Len(tokens) \/ (depth = 0 /\ tokens[p + 1] \in toks) THEN p
  ELSE Synchronize(toks,
                   IF tokens[p + 1] \in Opening THEN depth + 1
                   ELSE IF tokens[p + 1] \in Closing /\ depth > 0 THEN depth - 1
                   ELSE depth,
                   p + 1)

Reported(at) == Adds([at EXCEPT !.errors = @ + 1], Error)

-----------------------------------------------------------------------------
RECURSIVE Exec(_, _, _)

\* A call: its nodes go to the caller.
Called(code, context, at) ==
  LET back == Exec(code, context, [at EXCEPT !.nodes = <<>>])
  IN  [back EXCEPT !.nodes = at.nodes \o @]

\* speculate puts the position back; a handler goes on from where it stopped.
Step(i, context, at) ==
  CASE i.do \in {"expect", "take", "some", "fail"} -> Consume(i, at)
    [] i.do \in {"make", "none", "forget", "type_of", "struct_of"} -> Made(i, at)
    [] i.do = "sync" -> [at EXCEPT !.pos = Synchronize(i.ahead[1], 0, @)]
    [] i.do = "report" -> Reported(at)
    [] i.do = "go" -> Exec(Routines[i.name], context, at)
    [] i.do = "run" -> Called(Routines[i.name], Context(context.restrict, 0), at)
    [] i.do = "restricted" -> Called(Routines[i.name], Context(TRUE, 0), at)
    [] i.do = "free" -> Called(Routines[i.name], Context(FALSE, 0), at)
    [] i.do = "binding" -> Called(<<Run("unary"), Infix>>, Context(context.restrict, i.n), at)
    [] i.do = "list" ->
         LET back == Exec(Routines[i.name], context, [at EXCEPT !.nodes = <<>>])
         IN  [back EXCEPT !.nodes = Append(at.nodes, Node(CHOOSE kind \in i.ahead[1] : TRUE, @))]
    [] i.do = "try" ->
         LET back == Exec(Routines[i.name], context, at)
         IN  IF back.ok THEN Exec(i.then, context, back) ELSE Exec(i.else, context, at)
    [] i.do = "catch" ->
         LET back == Called(Routines[i.name], context, at)
         IN  IF back.ok THEN back ELSE Exec(i.else, context, [back EXCEPT !.ok = TRUE, !.nodes = at.nodes])
    [] OTHER -> Exec(Chosen(i, context, at), context, at)

Exec(code, context, at) ==
  IF code = <<>> \/ ~ at.ok THEN at ELSE Exec(Tail(code), context, Step(Head(code), context, at))

-----------------------------------------------------------------------------
Init ==
  /\ file \in Files
  /\ position = 0
  /\ errors = 0
  /\ ast = <<>>

\* One round of the loop of parse_file.
Done == position = Len(tokens)
TheItem == Exec(Routines["any_item"], Context(FALSE, 0), Point(position, errors))

ReadItem(item) ==
  /\ item.ok
  /\ position' = item.pos
  /\ errors' = item.errors
  /\ ast' = ast \o item.nodes

\* Mutant: without synchronize.
RecoverInPlace(item) ==
  /\ ~ item.ok
  /\ position' = item.pos
  /\ errors' = item.errors + 1
  /\ ast' = Append(ast, Error)

RecoverFromItem(item) ==
  /\ ~ item.ok
  /\ position' = Synchronize(SyncPoints, 0, item.pos)
  /\ IF errors < MaxErrors
     THEN errors' = item.errors + 1 /\ ast' = Append(ast, Error)
     ELSE UNCHANGED <<errors, ast>>

Next ==
  /\ ~ Done
  /\ \E item \in {TheItem} : ReadItem(item) \/ RecoverFromItem(item)
  /\ UNCHANGED file

Spec == Init /\ [][Next]_vars
=============================================================================
