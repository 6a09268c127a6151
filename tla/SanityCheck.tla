----------------------------- MODULE SanityCheck -----------------------------
(***************************************************************************)
(* SanityChecker (src/src/check/thir/sanity_check.rs): the types written   *)
(* on every node of a THIR body are compared with what the node is made    *)
(* of.  A body it accepts is then executed, its type parameters replaced   *)
(* as in MIR, on values that know what they are.  Breaks and continues,    *)
(* whose targets have no types, and match guards, which no lowering        *)
(* accepts, are not executed.                                              *)
(***************************************************************************)
EXTENDS Naturals, SequencesExt

CONSTANTS
  Structs,   \* the fields of each struct, a sequence of [field, ty]
  Enums,     \* the variants of each enum, a sequence of [kind, fields]
  Callees,   \* [params, ret] of each function, over its own type parameters
  Bodies     \* [locals : their types, params : how many of them are parameters, ret, zelf,
             \*  subs : what the type parameters stand for, stmts,
             \*  intact : are the types the inferred ones?]

VARIABLES
  body,
  verdict,   \* "none", then "sane" or "insane"
  store,     \* the value of every local, and of the temporaries behind them
  todo,      \* the statements left
  wrong      \* has an expression met a value it has no meaning for?

vars == <<body, verdict, store, todo, wrong>>

-----------------------------------------------------------------------------
\* Types (TypeRef): a definition applied to types, a type parameter, Self, or
\* what is left of an error.
Ty(def, args) == [def |-> def, args |-> args, no |-> 0]
Param(i) == [def |-> "Param", args |-> <<>>, no |-> i]
Named(def) == Ty(def, <<>>)

Zelf == Named("Self")
ErrorTy == Named("Error")
NoType == Named("None")      \* Option::None

Bool == Named("bool")
Char == Named("u8")
I32 == Named("i32")
Usize == Named("usize")
Void == Named("void")
TupleTy(tys) == Ty("Tuple", tys)
SliceOf(t) == Ty("Slice", <<t>>)

RefDefs == {"Ref", "RefMut"}
PtrDefs == {"Ptr", "PtrMut"}
IsRef(t) == t.def \in RefDefs
IsPtr(t) == t.def \in PtrDefs
IsIntLike(t) == t.def \in {"bool", "u8", "i32", "usize"} \cup PtrDefs

RECURSIVE Instantiated(_, _, _), Normalized(_), ToConcrete(_, _)

\* TypeRef::instantiate: the parameters and the Self of a callee.
Instantiated(t, sub, zelf) ==
  CASE t.def = "Param" -> sub[t.no]
    [] t.def = "Self" -> zelf
    [] OTHER -> [t EXCEPT !.args = [i \in DOMAIN @ |-> Instantiated(@[i], sub, zelf)]]

\* TypeRef::with_substitution leaves Self.
Substituted(t, sub) == Instantiated(t, sub, Zelf)

\* normalize_type
Normalized(t) ==
  IF t = Zelf THEN body.zelf
  ELSE [t EXCEPT !.args = [i \in DOMAIN @ |-> Normalized(@[i])]]

\* TypeRef::to_concrete
ToConcrete(t, subs) ==
  IF t.def = "Param" THEN (IF t.no \in DOMAIN subs THEN subs[t.no] ELSE NoType)
  ELSE IF t.def \in {"Self", "Error", "None"} THEN NoType
  ELSE LET args == [i \in DOMAIN t.args |-> ToConcrete(t.args[i], subs)]
       IN  IF Contains(args, NoType) THEN NoType ELSE Ty(t.def, args)

\* ThirToMIR::ty
Concrete(t) == ToConcrete(IF t = Zelf THEN body.zelf ELSE t, body.subs)

\* StructRef::get_fields_ty and EnumRef::get_cons: what is declared, on the
\* arguments of the definition.
Declared(fields, t) == [i \in DOMAIN fields |-> [fields[i] EXCEPT !.ty = Substituted(@, t.args)]]
IsStruct(t) == t.def \in DOMAIN Structs
IsEnum(t) == t.def \in DOMAIN Enums
FieldsOf(t) == Declared(Structs[t.def], t)
GetCons(t, idx) == [Enums[t.def][idx] EXCEPT !.fields = Declared(@, t)]
NoOf(fields, field) == CHOOSE i \in DOMAIN fields : fields[i].field = field
HasField(fields, field) == \E i \in DOMAIN fields : fields[i].field = field
TypeOf(fields, field) == fields[NoOf(fields, field)].ty

\* What is given for each declared field, in the order they are declared.
AsDeclared(fields, given) ==
  IF given.fields = <<>> THEN given.args
  ELSE [i \in DOMAIN fields |-> given.args[CHOOSE j \in DOMAIN given.fields : given.fields[j] = fields[i].field]]

\* FunctionRef::params and ret_ty
ParamTypes(f) ==
  [i \in DOMAIN Callees[f.name].params |-> Instantiated(Callees[f.name].params[i], f.args, f.zelf)]
RetType(f) == Instantiated(Callees[f.name].ret, f.args, f.zelf)

\* peel_type_ref_until: the references off a type, the outermost first, until
\* it is the target.
RECURSIVE Peel(_, _, _)
Peel(t, target, refs) ==
  IF t # target /\ IsRef(t) THEN Peel(t.args[1], target, Append(refs, t.def))
  ELSE [inner |-> t, refs |-> refs]

\* from_type_ref: all of them, the innermost first.
PeelAll(t) == LET peeled == Peel(t, NoType, <<>>) IN [peeled EXCEPT !.refs = Reverse(@)]

\* wrap_type_ref: the first of refs goes on first.
WrapTypeRef(refs, t) ==
  FoldLeft(LAMBDA acc, def : IF acc = ErrorTy THEN acc ELSE Ty(def, <<acc>>), t, refs)

\* element_of_indexed
ElementOf(t) ==
  CASE IsPtr(t) \/ t.def = "Slice" -> t.args[1]
    [] IsRef(t) /\ t.args[1].def = "Slice" -> t.args[1].args[1]
    [] OTHER -> NoType

-----------------------------------------------------------------------------
\* The check: each operator says whether nothing is reported.
SameAsWritten(expected, got) == expected = got

CheckTypes(expected, got) == Normalized(expected) = Normalized(got)

\* zip: what one side has and the other has not is not looked at.
CheckZipped(expected, got) ==
  \A i \in DOMAIN expected \cap DOMAIN got : CheckTypes(expected[i], got[i])

TypesOf(es) == [i \in DOMAIN es |-> es[i].ty]

LiteralType(kind) ==
  CASE kind = "Char" -> Char
    [] kind = "Str" -> Named("str")
    [] kind = "CStr" -> Ty("Ptr", <<Char>>)
    [] kind = "Bool" -> Bool

RECURSIVE CheckExpr(_), CheckPlace(_), CheckStmts(_)

CheckExprWithExpectedType(e, t) == CheckExpr(e) /\ CheckTypes(t, e.ty)

CheckArgument(t, arg) == CheckExprWithExpectedType(arg, t)

CheckEach(es) == \A i \in DOMAIN es : CheckExpr(es[i])

CheckCall(e) ==
  /\ CheckEach(e.args)
  /\ CheckZipped(ParamTypes(e.called), TypesOf(e.args))
  /\ CheckTypes(RetType(e.called), e.ty)

\* Where no operand is compared, as long as it is not like an integer.
CheckCompare(e) ==
  /\ IsIntLike(e.args[1].ty) \/ CheckTypes(I32, e.ty)
  /\ CheckTypes(e.args[1].ty, e.args[2].ty)
  /\ CheckTypes(Bool, e.ty)

CheckArith(e) ==
  /\ CheckTypes(e.ty, e.args[1].ty)
  /\ CheckTypes(e.ty, e.args[2].ty)
  /\ IsIntLike(e.ty) \/ CheckTypes(I32, e.ty)

CheckLogic(e) ==
  CheckTypes(Bool, e.args[1].ty) /\ CheckTypes(Bool, e.args[2].ty) /\ CheckTypes(Bool, e.ty)

\* The operators on bits are not handled yet: each is reported.
CheckBinOp(e) ==
  CASE e.kind = "arith" -> CheckArith(e)
    [] e.kind = "compare" -> CheckCompare(e)
    [] e.kind = "logic" -> CheckLogic(e)
    [] e.kind = "bits" -> FALSE

CheckSlice(e) ==
  IF e.args = <<>> THEN e.ty.def = "Slice"
  ELSE /\ \A i, j \in DOMAIN e.args : CheckTypes(e.args[i].ty, e.args[j].ty)
       /\ CheckTypes(SliceOf(e.args[1].ty), e.ty)

\* The arguments of a variant: check_constructor_expr, check_constructor_pat.
CheckConstructor(cons, given, Check(_, _)) ==
  /\ cons.kind = given.kind
  /\ Len(cons.fields) = Len(given.args)
  /\ \A i \in DOMAIN cons.fields : Check(cons.fields[i].ty, AsDeclared(cons.fields, given)[i])

CheckConstructorExpr(e) ==
  CheckTypes(e.ty, e.of) /\ CheckConstructor(GetCons(e.of, e.idx), e, CheckArgument)

CheckStructLit(e) ==
  /\ CheckTypes(e.of, e.ty)
  /\ \A i \in DOMAIN e.args : CheckArgument(TypeOf(FieldsOf(e.of), e.fields[i]), e.args[i])

\* ref_slice_of, which the type of anything else is reported against, is a slice
\* of slices.
CheckMetadata(e) ==
  LET t == e.args[1].ty
  IN  IF IsRef(t) /\ t.args[1].def = "Slice" THEN CheckTypes(Usize, e.ty)
      ELSE CheckTypes(SliceOf(SliceOf(ErrorTy)), t)

CheckExpr(e) ==
  CASE e.expr \in {"SizeOf", "IntLit"} -> TRUE
    [] e.expr = "Literal" -> CheckTypes(LiteralType(e.kind), e.ty)
    [] e.expr = "Use" -> CheckPlace(e.place) /\ CheckTypes(e.ty, e.place.ty)
    [] e.expr = "AddressOf" -> CheckPlace(e.place) /\ CheckTypes(Ty(e.kind, <<e.place.ty>>), e.ty)
    [] e.expr = "Call" -> CheckCall(e)
    [] e.expr = "BinOp" -> CheckEach(e.args) /\ CheckBinOp(e)
    [] e.expr = "Neg" -> CheckEach(e.args) /\ CheckTypes(e.args[1].ty, e.ty)
    [] e.expr = "Not" -> CheckEach(e.args) /\ CheckTypes(Bool, e.args[1].ty) /\ CheckTypes(Bool, e.ty)
    [] e.expr = "Tuple" -> CheckEach(e.args) /\ CheckTypes(TupleTy(TypesOf(e.args)), e.ty)
    [] e.expr = "SliceLit" -> CheckEach(e.args) /\ CheckSlice(e)
    [] e.expr = "Constructor" -> CheckConstructorExpr(e)
    [] e.expr = "StructLit" -> CheckStructLit(e)
    [] e.expr = "Metadata" -> CheckEach(e.args) /\ CheckMetadata(e)
    [] e.expr = "Cast" -> CheckEach(e.args) /\ CheckTypes(e.of, e.ty)

\* compute_type_after_projection
AfterProjection(before, p) ==
  CASE p.proj = "Deref" -> IF before.def \in RefDefs \cup PtrDefs THEN before.args[1] ELSE NoType
    [] p.proj = "Field" ->
         IF IsStruct(before) /\ HasField(Structs[before.def], p.field)
         THEN TypeOf(FieldsOf(before), p.field) ELSE NoType
    [] p.proj = "TupleField" ->
         IF before.def = "Tuple" /\ p.no \in DOMAIN before.args THEN before.args[p.no] ELSE NoType
    [] p.proj = "Index" -> IF IsIntLike(p.at.ty) THEN ElementOf(before) ELSE NoType

AnyAnnotation(before, p) ==
  (p.proj = "Index" => CheckExpr(p.at)) /\ AfterProjection(before, p) # NoType

CheckProjection(before, p) ==
  /\ p.proj = "Index" => CheckExpr(p.at)
  /\ AfterProjection(before, p) # NoType
  /\ p.proj \in {"Field", "TupleField"} => CheckTypes(AfterProjection(before, p), p.ty)

\* The type a projection starts from: a field has its own written on it.
RECURSIVE TypeBefore(_, _)
TypeBefore(place, i) ==
  IF i = 1 THEN body.locals[place.local]
  ELSE LET p == place.projections[i - 1]
       IN  IF p.proj \in {"Field", "TupleField"} THEN p.ty ELSE AfterProjection(TypeBefore(place, i - 1), p)

CheckPlace(place) ==
  /\ \A i \in DOMAIN place.projections : CheckProjection(TypeBefore(place, i), place.projections[i])
  /\ CheckTypes(TypeBefore(place, Len(place.projections) + 1), place.ty)

RECURSIVE CheckPattern(_, _)
CheckPattern(expected, pat) ==
  LET peeled == Peel(expected, pat.ty, <<>>)
      fits == peeled.inner = pat.ty
      refs == IF fits THEN peeled.refs ELSE PeelAll(expected).refs
      CheckPart(t, part) == CheckPattern(WrapTypeRef(refs, t), part)
  IN  /\ fits \/ CheckTypes(pat.ty, expected)
      /\ CASE pat.pat \in {"Any", "Bind"} -> TRUE
           [] pat.pat = "Tuple" -> \A i \in DOMAIN pat.args : CheckPattern(pat.args[i].ty, pat.args[i])
           [] pat.pat = "Struct" ->
                /\ \A i \in DOMAIN pat.args : CheckPart(TypeOf(FieldsOf(pat.of), pat.fields[i]), pat.args[i])
                /\ CheckTypes(pat.of, pat.ty)
           [] pat.pat = "Constructor" ->
                /\ CheckTypes(pat.of, pat.ty)
                /\ CheckConstructor(GetCons(pat.of, pat.idx), pat, CheckPart)
           [] pat.pat = "IntLit" -> IsIntLike(expected) \/ CheckTypes(expected, I32)

CheckBranch(t, branch) ==
  /\ CheckPattern(t, branch.pattern)
  /\ \A guard \in branch.guard :
       CheckStmts(guard.setup) /\ CheckExprWithExpectedType(guard.cond, Bool)
  /\ CheckStmts(branch.body)

CheckStmt(s) ==
  CASE s.stmt = "Block" -> CheckStmts(s.stmts)
    [] s.stmt = "If" ->
         /\ CheckStmts(s.setup) /\ CheckExprWithExpectedType(s.cond, Bool)
         /\ CheckStmts(s.then) /\ CheckStmts(s.else)
    [] s.stmt = "While" ->
         CheckStmts(s.setup) /\ CheckExprWithExpectedType(s.cond, Bool) /\ CheckStmts(s.body)
    [] s.stmt = "Let" -> CheckExpr(s.init) /\ CheckTypes(s.init.ty, body.locals[s.local])
    [] s.stmt = "Assign" -> CheckPlace(s.place) /\ CheckExprWithExpectedType(s.rhs, s.place.ty)
    [] s.stmt = "Return" ->
         IF s.value = <<>> THEN CheckTypes(body.ret, Void) ELSE CheckExprWithExpectedType(s.value[1], body.ret)
    [] s.stmt = "Match" ->
         /\ CheckStmts(s.setup) /\ CheckExpr(s.scrutinee)
         /\ \A i \in DOMAIN s.branches : CheckBranch(s.scrutinee.ty, s.branches[i])
    [] s.stmt = "Expr" -> CheckExpr(s.value)
    [] OTHER -> TRUE

CheckStmts(stmts) == \A i \in DOMAIN stmts : CheckStmt(stmts[i])

Check ==
  /\ verdict = "none"
  /\ verdict' = IF CheckStmts(body.stmts) THEN "sane" ELSE "insane"
  /\ UNCHANGED <<body, store, todo, wrong>>

-----------------------------------------------------------------------------
\* What the body does, for one substitution.  A value tells what it is of, its
\* variant and its parts; a reference or pointer, instead of parts, where it
\* points: a local and which parts to take from there, or memory outside the
\* body (local 0), with what lies there.  Numbers are not told apart.
Addr(local, path) == [local |-> local, path |-> path, outside |-> <<>>]
Outside(v) == [local |-> 0, path |-> <<>>, outside |-> <<v>>]
Nowhere == Addr(0, <<>>)
Part(addr, i) == [addr EXCEPT !.path = Append(@, i)]

Value(def, idx, parts) == [def |-> def, idx |-> idx, parts |-> parts, at |-> <<>>]
Atom(def) == Value(def, 0, <<>>)
Pointer(def, addr) == [Atom(def) EXCEPT !.at = <<addr>>]
Wrong == Atom("Wrong")

ReadAt(addr) ==
  FoldLeft(LAMBDA v, i : v.parts[i],
           IF addr.local = 0 THEN addr.outside[1] ELSE store[addr.local], addr.path)

RECURSIVE Written(_, _, _)
Written(whole, path, v) ==
  IF path = <<>> THEN v ELSE [whole EXCEPT !.parts[path[1]] = Written(@, Tail(path), v)]

\* The types of the parts of a value.
PartTypes(v, t) ==
  LET types(fields) == [i \in DOMAIN fields |-> fields[i].ty]
  IN  CASE t.def = "Tuple" -> t.args
        [] t.def = "Slice" -> [i \in DOMAIN v.parts |-> t.args[1]]
        [] IsStruct(t) -> types(FieldsOf(t))
        [] IsEnum(t) -> types(GetCons(t, v.idx).fields)
        [] OTHER -> <<>>

RECURSIVE HasType(_, _)
HasType(v, t) ==
  /\ v.def = t.def
  /\ IF v.at # <<>> THEN HasType(ReadAt(v.at[1]), t.args[1])
     ELSE LET types == PartTypes(v, t)
          IN  Len(types) = Len(v.parts) /\ \A i \in DOMAIN types : HasType(v.parts[i], types[i])

\* The sequences of a member of each set.
OneOfEach(sets) ==
  {chosen \in [DOMAIN sets -> UNION Range(sets)] : \A i \in DOMAIN sets : chosen[i] \in sets[i]}

RECURSIVE Inhabitants(_)
Inhabitants(t) ==
  LET made(idx, types) ==
        {Value(t.def, idx, parts) : parts \in OneOfEach([i \in DOMAIN types |-> Inhabitants(types[i])])}
  IN  CASE t.def \in RefDefs \cup PtrDefs -> {Pointer(t.def, Outside(v)) : v \in Inhabitants(t.args[1])}
        [] t.def = "Slice" -> made(0, <<t.args[1]>>)
        [] IsEnum(t) -> UNION {made(idx, PartTypes(Value(t.def, idx, <<>>), t)) : idx \in DOMAIN Enums[t.def]}
        [] OTHER -> made(0, PartTypes(Atom(t.def), t))

RECURSIVE Values(_), AddressOfPlace(_)

\* No body indexes an empty slice.
Projected(addr, p) ==
  LET v == ReadAt(addr)
      element(a) == IF ReadAt(a).def = "Slice" /\ ReadAt(a).parts # <<>> THEN Part(a, 1) ELSE Nowhere
  IN  CASE p.proj = "Deref" -> IF v.at # <<>> THEN v.at[1] ELSE Nowhere
        [] p.proj = "Field" ->
             IF IsStruct(v) /\ HasField(Structs[v.def], p.field) THEN Part(addr, NoOf(Structs[v.def], p.field))
             ELSE Nowhere
        [] p.proj = "TupleField" ->
             IF v.def = "Tuple" /\ p.no \in DOMAIN v.parts THEN Part(addr, p.no) ELSE Nowhere
        [] p.proj = "Index" ->
             CASE \E i \in Values(p.at) : ~ IsIntLike(i) -> Nowhere
               [] IsPtr(v) -> v.at[1]
               [] IsRef(v) -> element(v.at[1])
               [] OTHER -> element(addr)

\* The value at a place is of the type written on it, and so at every field on
\* the way.
AddressOfPlace(place) ==
  LET typed(addr, t) == IF addr # Nowhere /\ HasType(ReadAt(addr), Concrete(t)) THEN addr ELSE Nowhere
      step(addr, p) ==
        IF addr = Nowhere THEN Nowhere
        ELSE IF p.proj \in {"Field", "TupleField"} THEN typed(Projected(addr, p), p.ty)
        ELSE Projected(addr, p)
  IN  typed(FoldLeft(step, Addr(place.local, <<>>), place.projections), place.ty)

AtPlace(place, Made(_)) ==
  LET addr == AddressOfPlace(place) IN IF addr = Nowhere THEN {Wrong} ELSE {Made(addr)}

Same(ints) == \A v, w \in Range(ints) : IsIntLike(v) /\ v.def = w.def

\* What an operation makes of the values of its operands; a call, anything of
\* the type it returns.
Results(e, args) ==
  LET unless(sense, v) == IF sense THEN {v} ELSE {Wrong}
      def == Concrete(e.of).def
  IN  CASE e.expr = "Call" ->
             LET params == ParamTypes(e.called)
             IN  IF Len(params) = Len(args) /\ \A i \in DOMAIN args : HasType(args[i], Concrete(params[i]))
                 THEN Inhabitants(Concrete(RetType(e.called))) ELSE {Wrong}
        [] e.expr = "BinOp" ->
             unless(Same(args) /\ (e.kind = "logic" => args[1].def = "bool"),
                    IF e.kind = "compare" THEN Atom("bool") ELSE args[1])
        [] e.expr = "Neg" -> unless(IsIntLike(args[1]), args[1])
        [] e.expr = "Not" -> unless(args[1].def = "bool", args[1])
        [] e.expr = "Tuple" -> {Value("Tuple", 0, args)}
        [] e.expr = "SliceLit" -> {Value("Slice", 0, args)}
        [] e.expr = "StructLit" -> {Value(def, 0, AsDeclared(Structs[def], [e EXCEPT !.args = args]))}
        [] e.expr = "Constructor" ->
             unless(e.kind = Enums[def][e.idx].kind,
                    Value(def, e.idx, AsDeclared(Enums[def][e.idx].fields, [e EXCEPT !.args = args])))
        [] e.expr = "Metadata" -> unless(IsRef(args[1]) /\ ReadAt(args[1].at[1]).def = "Slice", Atom("usize"))
        [] e.expr = "Cast" -> unless(IsIntLike(args[1]), Atom(def))

Evaluated(e) ==
  CASE e.expr = "SizeOf" -> {Atom("usize")}
    [] e.expr = "IntLit" -> {Atom(Concrete(e.ty).def)}
    [] e.expr = "Literal" ->
         {IF e.kind = "CStr" THEN Pointer("Ptr", Outside(Atom("u8"))) ELSE Atom(LiteralType(e.kind).def)}
    [] e.expr = "Use" -> AtPlace(e.place, ReadAt)
    [] e.expr = "AddressOf" -> AtPlace(e.place, LAMBDA addr : Pointer(e.kind, addr))
    [] OTHER -> UNION {IF Contains(args, Wrong) THEN {Wrong} ELSE Results(e, args) :
                         args \in OneOfEach([i \in DOMAIN e.args |-> Values(e.args[i])])}

\* A value that is not of the type written on its expression is a wrong one.
Values(e) == {IF v # Wrong /\ HasType(v, Concrete(e.ty)) THEN v ELSE Wrong : v \in Evaluated(e)}

\* wrap_ref_to_fit: the place itself, or references to it up to the target.
WrapRefToFit(target, addr, t) ==
  LET peeled == Peel(target, t, <<>>)
      refs == IF peeled.inner = t THEN peeled.refs ELSE PeelAll(t).refs
  IN  IF t = target \/ ~ IsRef(target) \/ refs = <<>> THEN ReadAt(addr)
      ELSE FoldLeft(LAMBDA v, def : Pointer(def, Outside(v)), Pointer(refs[1], addr), Tail(refs))

RECURSIVE Behind(_, _), Matched(_, _, _)
\* What all the references to a place lead to.
Behind(addr, t) ==
  IF IsRef(t) THEN Behind(ReadAt(addr).at[1], t.args[1]) ELSE [addr |-> addr, ty |-> t]

\* Is a pattern one for the values of a type?
Suits(pat, t) ==
  CASE pat.pat = "Tuple" -> t.def = "Tuple" /\ Len(t.args) = Len(pat.args)
    [] pat.pat \in {"Struct", "Constructor"} -> t.def = pat.of.def
    [] pat.pat = "IntLit" -> IsIntLike(t)
    [] OTHER -> TRUE

\* A pattern on a place: is it one for what is there, may it cover that, and
\* what does it bind then?
Matched(pat, addr, t) ==
  LET whole == Behind(addr, t)
      v == ReadAt(whole.addr)
      fields == IF IsEnum(whole.ty) THEN Enums[v.def][v.idx].fields ELSE Structs[v.def]
      no(i) == IF pat.fields = <<>> THEN i ELSE NoOf(fields, pat.fields[i])
      covers == Suits(pat, whole.ty) /\ (pat.pat = "Constructor" => v.idx = pat.idx)
      parts == IF ~ covers THEN <<>>
               ELSE [i \in DOMAIN pat.args |->
                       Matched(pat.args[i], Part(whole.addr, no(i)), PartTypes(v, whole.ty)[no(i)])]
      target == Concrete(body.locals[pat.local])
      bound == [local |-> pat.local, value |-> WrapRefToFit(target, addr, t)]
  IN  IF pat.pat = "Bind"
      THEN [suits |-> HasType(bound.value, target), covers |-> TRUE, bound |-> <<bound>>]
      ELSE [ suits |-> Suits(pat, whole.ty) /\ \A i \in DOMAIN parts : parts[i].suits,
             covers |-> covers /\ \A i \in DOMAIN parts : parts[i].covers,
             bound |-> FlattenSeq([i \in DOMAIN parts |-> parts[i].bound]) ]

-----------------------------------------------------------------------------
Running(kind) == todo # <<>> /\ todo[1].stmt = kind /\ UNCHANGED <<body, verdict>>
GoOn(stmts) == todo' = stmts \o Tail(todo) /\ UNCHANGED wrong
Fails == wrong' = TRUE /\ todo' = <<>> /\ UNCHANGED store

\* A condition, and a match, once what they need has been set up.
Test(cond, then, else) == [stmt |-> "Test", cond |-> cond, then |-> then, else |-> else]
Select(s) == [stmt |-> "Select", scrutinee |-> s.scrutinee, branches |-> s.branches]

RunBlock ==
  \/ Running("Block") /\ GoOn(todo[1].stmts) /\ UNCHANGED store
  \/ /\ Running("If")
     /\ GoOn(Append(todo[1].setup, Test(todo[1].cond, todo[1].then, todo[1].else)))
     /\ UNCHANGED store
  \/ /\ Running("While")
     /\ GoOn(Append(todo[1].setup, Test(todo[1].cond, Append(todo[1].body, todo[1]), <<>>)))
     /\ UNCHANGED store
  \/ Running("Match") /\ GoOn(Append(todo[1].setup, Select(todo[1]))) /\ UNCHANGED store

RunTest ==
  /\ Running("Test")
  /\ \E v \in Values(todo[1].cond) :
       IF v.def = "bool" THEN \E taken \in {todo[1].then, todo[1].else} : GoOn(taken) /\ UNCHANGED store
       ELSE Fails

RunExpr ==
  /\ Running("Expr")
  /\ \E v \in Values(todo[1].value) : IF v # Wrong THEN GoOn(<<>>) /\ UNCHANGED store ELSE Fails

RunLet ==
  /\ Running("Let")
  /\ \E v \in Values(todo[1].init) :
       IF HasType(v, Concrete(body.locals[todo[1].local]))
       THEN GoOn(<<>>) /\ store' = [store EXCEPT ![todo[1].local] = v]
       ELSE Fails

\* What is written outside the body is forgotten.
RunAssign ==
  /\ Running("Assign")
  /\ LET addr == AddressOfPlace(todo[1].place)
     IN  \E v \in Values(todo[1].rhs) :
           IF addr # Nowhere /\ HasType(v, Concrete(todo[1].place.ty))
           THEN /\ GoOn(<<>>)
                /\ store' = IF addr.local = 0 THEN store
                            ELSE [store EXCEPT ![addr.local] = Written(@, addr.path, v)]
           ELSE Fails

RunReturn ==
  /\ Running("Return")
  /\ \E v \in IF todo[1].value = <<>> THEN {Atom("void")} ELSE Values(todo[1].value[1]) :
       IF HasType(v, Concrete(body.ret)) THEN todo' = <<>> /\ UNCHANGED <<store, wrong>> ELSE Fails

\* Any branch that may cover the scrutinee; without one, the program diverges.
RunSelect ==
  /\ Running("Select")
  /\ LET e == todo[1].scrutinee
         branches == todo[1].branches
     IN  \E v \in Values(e) :
           LET addr == IF e.expr = "Use" THEN AddressOfPlace(e.place) ELSE Outside(v)
               matched(i) == Matched(branches[i].pattern, addr, Concrete(e.ty))
           IN  IF v = Wrong \/ \E i \in DOMAIN branches : ~ matched(i).suits THEN Fails
               ELSE IF \A i \in DOMAIN branches : ~ matched(i).covers
               THEN todo' = <<>> /\ UNCHANGED <<store, wrong>>
               ELSE \E i \in DOMAIN branches :
                      /\ matched(i).covers
                      /\ GoOn(branches[i].body)
                      /\ store' = FoldLeft(LAMBDA acc, b : [acc EXCEPT ![b.local] = b.value],
                                           store, matched(i).bound)

Init ==
  /\ body \in Bodies
  /\ verdict = "none" /\ store = <<>> /\ todo = <<>> /\ wrong = FALSE

\* A call of the body, with any arguments.
Call ==
  /\ verdict = "sane" /\ store = <<>>
  /\ \E args \in OneOfEach([i \in 1 .. body.params |-> Inhabitants(Concrete(body.locals[i]))]) :
       store' = [i \in DOMAIN body.locals |-> IF i <= body.params THEN args[i] ELSE Atom("Nothing")]
  /\ todo' = body.stmts
  /\ UNCHANGED <<body, verdict, wrong>>

Next ==
  \/ Check \/ Call
  \/ RunBlock \/ RunTest \/ RunExpr \/ RunLet \/ RunAssign \/ RunReturn \/ RunSelect

Spec == Init /\ [][Next]_vars

-----------------------------------------------------------------------------
\* sanity_check: a body it accepts never goes wrong.  Whatever its type
\* parameters stand for, every expression and place has a value of the type
\* written on it, and every local holds one of its own type, what references
\* have written to it included.
AcceptedBodiesStayTyped ==
  /\ ~ wrong
  /\ \A i \in DOMAIN store :
       store[i] # Atom("Nothing") => HasType(store[i], Concrete(body.locals[i]))

\* sanity_check never refuses a body whose types are the ones inference gives
\* it: for patterns behind references, and whether Self is written out or not.
TypedBodiesAreAccepted == body.intact => verdict # "insane"
==============================================================================
