---------------------------------- MODULE Ast ----------------------------------
(***************************************************************************)
(* The body of a function as the parser leaves it (src/src/parse_tree):    *)
(* expressions, patterns and statements, without positions.  Literals of   *)
(* every kind are Lit, the prefix and postfix operators that compute a     *)
(* value of their operand alone (Neg, Not, Metadata, As) are Unary.        *)
(***************************************************************************)
EXTENDS Naturals, Sequences, SequencesExt

Lit(name) == [expr |-> "Lit", name |-> name]
Name(name) == [expr |-> "Name", name |-> name]
Path(module, item) == [expr |-> "Path", module |-> module, item |-> item]
BinOp(op, lhs, rhs) == [expr |-> "BinOp", op |-> op, lhs |-> lhs, rhs |-> rhs]
Unary(op, inner) == [expr |-> "Unary", op |-> op, inner |-> inner]
RangeLit(start, end) == [expr |-> "RangeLit", start |-> start, end |-> end]
Call(callee, args) == [expr |-> "Call", callee |-> callee, args |-> args]
MethodCall(object, method, args) ==
  [expr |-> "MethodCall", object |-> object, method |-> method, args |-> args]
StaticCall(type, method, args) ==
  [expr |-> "StaticCall", type |-> type, method |-> method, args |-> args]
FieldInit(field, value) == [field |-> field, value |-> value]
StructLit(type, fields) ==
  [expr |-> "StructLit", type |-> type, variant |-> <<>>, fields |-> fields]
VariantLit(enum, name, fields) == [StructLit(enum, fields) EXCEPT !.variant = <<name>>]
Tuple(parts) == [expr |-> "Tuple", parts |-> parts]
FieldAccess(object, field) == [expr |-> "FieldAccess", object |-> object, field |-> field]
TupleAccess(object, index) == [expr |-> "TupleAccess", object |-> object, index |-> index]
Index(object, at) == [expr |-> "Index", object |-> object, at |-> at]
Deref(inner) == [expr |-> "Deref", inner |-> inner]
Ref(place) == [expr |-> "Ref", place |-> place]

BindPat(name, mutable) == [pat |-> "Bind", name |-> name, mutable |-> mutable]
AnyPat == [pat |-> "Any"]
IntPat(int) == [pat |-> "Int", int |-> int]
TuplePat(parts) == [pat |-> "Tuple", parts |-> parts]
\* A field of a struct pattern: `f: pattern`, or `f` alone, which binds f.
Rebind(field, pattern) == [field |-> field, of |-> <<pattern>>]
Shorthand(field) == [field |-> field, of |-> <<>>]
StructPat(type, fields) == [pat |-> "Struct", type |-> type, fields |-> fields]
VariantPat(enum, name, parts) == [pat |-> "Variant", enum |-> enum, name |-> name, parts |-> parts]

LetDecl(pattern, value) == [stmt |-> "LetDecl", pattern |-> pattern, value |-> value]
Assign(lhs, rhs) == [stmt |-> "Assign", lhs |-> lhs, rhs |-> rhs]
CompoundAssign(lhs, op, rhs) == [stmt |-> "CompoundAssign", lhs |-> lhs, op |-> op, rhs |-> rhs]
ExprStmt(e) == [stmt |-> "Expr", value |-> e]
Return(values) == [stmt |-> "Return", values |-> values]   \* at most one
Break == [stmt |-> "Break"]
Block(stmts) == [stmt |-> "Block", stmts |-> stmts]
If(cond, then, else) == [stmt |-> "If", cond |-> cond, then |-> then, else |-> else]
While(cond, body) == [stmt |-> "While", cond |-> cond, body |-> body]
For(element, iterator, body) ==
  [stmt |-> "For", element |-> element, iterator |-> iterator, body |-> body]
Branch(pattern, body) == [pattern |-> pattern, guard |-> <<>>, body |-> body]
Guarded(pattern, guard, body) == [Branch(pattern, body) EXCEPT !.guard = <<guard>>]
Match(scrutinee, branches) == [stmt |-> "Match", scrutinee |-> scrutinee, branches |-> branches]

-----------------------------------------------------------------------------
\* What a program computes, as far as two executions of it are compared: terms.
\* A literal, a parameter and the result of the n-th call are opaque; an
\* operator or an aggregate keeps its operands; a part of an opaque value is a
\* term of its own.  A store holds the values of cells, and an address is a cell
\* and a path of keys into it.

Val(kind, name, n, parts) == [kind |-> kind, name |-> name, n |-> n, parts |-> parts]

Literal(name) == Val("literal", name, 0, <<>>)
Given(n) == Val("given", "", n, <<>>)
Result(n) == Val("result", "", n, <<>>)
Nothing == Val("nothing", "", 0, <<>>)
Operation(op, operands) == Val("op", op, 0, operands)
Key(name) == Val("key", name, 0, <<>>)

\* A tuple, struct or variant: its keys and the values under them alternate.
Aggregate(name, keys, values) ==
  Val("agg", name, 0, FlattenSeq([i \in DOMAIN keys |-> <<keys[i], values[i]>>]))

Numbered(n) == [i \in 1 .. n |-> Val("key", "", i, <<>>)]

VariantKey(name, i) == Val("key", name, i, <<>>)
VariantField(name, field) == Val("key", field, 0, <<Literal(name)>>)

Address(cell, path) == [cell |-> cell, path |-> path]
Pointer(address) == Val("ref", "", address.cell, address.path)
Pointee(v) == Address(v.n, v.parts)

RECURSIVE Part(_, _)
\* The value under a key, where With is an aggregate after a store to one key.
With(v, key, new) == Val("with", "", 0, <<v, key, new>>)
Part(v, key) ==
  IF v.kind = "with" THEN IF v.parts[2] = key THEN v.parts[3] ELSE Part(v.parts[1], key)
  ELSE IF v.kind = "agg" /\ \E i \in DOMAIN v.parts : i % 2 = 1 /\ v.parts[i] = key
       THEN v.parts[1 + CHOOSE i \in DOMAIN v.parts : i % 2 = 1 /\ v.parts[i] = key]
       ELSE Val("part", "", 0, <<v, key>>)

Under(v, path) == FoldLeft(Part, v, path)

RECURSIVE Stored(_, _, _)
Stored(v, path, new) ==
  IF path = <<>> THEN new
  ELSE With(v, Head(path), Stored(Part(v, Head(path)), Tail(path), new))

Load(store, at) == Under(store[at.cell], at.path)
Save(store, at, v) == [store EXCEPT ![at.cell] = Stored(@, at.path, v)]

\* What a pointer points to, when there is something: an address that came out
\* of a call is as opaque as any other value.
Follow(store, at) ==
  LET v == Load(store, at)
  IN  IF v.kind = "ref" THEN Pointee(v) ELSE Address(at.cell, Append(at.path, Key("*")))

RECURSIVE Observed(_, _)
\* A value as a callee sees it: pointers are followed, since the cells of two
\* executions do not correspond.
Observed(store, v) ==
  IF v.kind = "ref" THEN Observed(store, Load(store, Pointee(v)))
  ELSE [v EXCEPT !.parts = [i \in DOMAIN v.parts |-> Observed(store, v.parts[i])]]
==============================================================================
