------------------------------- MODULE MirToLir -------------------------------
(***************************************************************************)
(* Lowering of a MIR body to the low-level IR                              *)
(* (src/src/codegen/mir_to_lir/build/mod.rs), with the builder of          *)
(* src/src/lir/build.rs.  Every local whose type takes room has a stack    *)
(* slot, and every statement is a walk over memory: values live in         *)
(* registers only within one statement.                                    *)
(*                                                                         *)
(*   place       [local, projs]                                            *)
(*   projection  [proj : "Deref" | "Field" | "TupleField" | "Index" |      *)
(*                "Downcast", name, index, variant, by : the operand]      *)
(*   operand     [op : "Int" | "Bool" | "Null" | "Place", ...]             *)
(*   rvalue      [rv : "Use" | "Ref" | "BinOp" | "Neg" | "LNot" | ...]     *)
(*                                                                         *)
(* The builder is [defs : the layout of every value, insts, value : the    *)
(* last value, 0 for None, ok : no assertion of the builder failed].       *)
(*                                                                         *)
(* How values lie in memory is src/src/layout.  A type is a term; its      *)
(* layout has a size and an alignment in bytes and, by kind:               *)
(*   "zst"        nothing                                                  *)
(*   "int", "ptr" one scalar                                               *)
(*   "aggregate"  fields, each at an offset, in the order of the source,   *)
(*                the only ordering strategy there is                      *)
(*   "union"      a tag at offset 0, and one of several payloads           *)
(* Floats and niches, which the code refuses with todo!, are left out.     *)
(***************************************************************************)
EXTENDS Integers, Sequences, SequencesExt, FiniteSetsExt

CONSTANTS
  PtrBytes,      \* db.target_width(), in bytes
  BitsPerByte,   \* 8 for every target; fewer make the bounds of a width near
  Locals,        \* the locals of the body, in order
  TyOf,          \* their types
  Layouts        \* the answers of the query layout_of, for the types of the body

-----------------------------------------------------------------------------
\* Types.  The fields of a struct or of a struct-like variant have names; those
\* of a tuple or of any other variant are numbered.
IntTy(bytes, signed) == [ty |-> "int", bytes |-> bytes, signed |-> signed]
BoolTy == [ty |-> "bool"]
VoidTy == [ty |-> "void"]
PtrTo(t) == [ty |-> "ptr", to |-> t]
SliceTy == [ty |-> "slice"]
TupleTy(parts) == [ty |-> "tuple", parts |-> parts]
StructTy(names, parts) == [ty |-> "struct", names |-> names, parts |-> parts]
EnumTy(variants) == [ty |-> "enum", variants |-> variants]
TupleLike(parts) == [names |-> <<>>, parts |-> parts]
StructLike(names, parts) == [names |-> names, parts |-> parts]

UsizeTy == IntTy(PtrBytes, FALSE)
TagTy == IntTy(1, FALSE)

-----------------------------------------------------------------------------
AlignUp(n, align) == IF n % align = 0 THEN n ELSE n + (align - (n % align))

Zst == [kind |-> "zst", size |-> 0, align |-> 1]
IntLayout(bytes) == [kind |-> "int", size |-> bytes, align |-> bytes]
PtrLayout == [kind |-> "ptr", size |-> PtrBytes, align |-> PtrBytes]

IsZst(layout) == layout.kind = "zst"
IsScalar(layout) == layout.kind \in {"int", "ptr"}

Largest(layouts, least, measure) == Max({least} \cup {layouts[i][measure] : i \in DOMAIN layouts})

End(fields) == IF fields = <<>> THEN 0 ELSE Last(fields).offset + Last(fields).layout.size

\* aggregate_layout
AggregateFields(layouts) ==
  FoldLeft(LAMBDA fields, l : Append(fields, [offset |-> AlignUp(End(fields), l.align), layout |-> l]),
           <<>>, layouts)

\* finish_aggregate
AggregateOf(layouts) ==
  LET align == Largest(layouts, 1, "align")
      fields == AggregateFields(layouts)
  IN  IF layouts = <<>> THEN Zst
      ELSE [kind |-> "aggregate", size |-> AlignUp(End(fields), align), align |-> align, fields |-> fields]

TagBytes(variants) ==
  IF variants <= 2 ^ BitsPerByte THEN 1 ELSE IF variants <= 2 ^ (2 * BitsPerByte) THEN 2 ELSE 4

\* Mutant: the payload follows the tag at once.
PayloadAfterTag(tag, align) == tag

PayloadOffset(tag, align) == AlignUp(tag, align)

\* always_tagged_layout; an enum without payload is its tag.
TaggedUnion(variants) ==
  LET tag == TagBytes(Len(variants))
      align == Largest(variants, 1, "align")
      payload == AlignUp(Largest(variants, 0, "size"), align)
      offset == PayloadOffset(tag, align)
      global == Max({tag, align})
  IN  IF payload = 0 THEN IntLayout(tag)
      ELSE [ kind |-> "union", size |-> AlignUp(offset + payload, global), align |-> global,
             variants |-> variants, payload_offset |-> offset, tag |-> tag ]

UnionOf(variants) ==
  IF variants = <<>> THEN Zst
  ELSE IF Len(variants) = 1 THEN variants[1]
  ELSE TaggedUnion(variants)

RECURSIVE LayoutOf(_)
LayoutOf(t) ==
  LET all(types) == [i \in DOMAIN types |-> LayoutOf(types[i])]
  IN  CASE t.ty = "int" -> IntLayout(t.bytes)
        [] t.ty = "bool" -> IntLayout(1)
        [] t.ty = "void" -> Zst
        [] t.ty = "ptr" -> PtrLayout
        [] t.ty = "slice" -> AggregateOf(<<PtrLayout, IntLayout(PtrBytes)>>)   \* fat_ptr_layout_for
        [] t.ty \in {"tuple", "struct"} -> AggregateOf(all(t.parts))
        [] t.ty = "enum" -> UnionOf([v \in DOMAIN t.variants |-> AggregateOf(all(t.variants[v].parts))])

ASSUME LayoutsAreThoseOfTheTypes == \A t \in DOMAIN Layouts : Layouts[t] = LayoutOf(t)

-----------------------------------------------------------------------------
\* MIR.
Proj(kind, name, index, variant, by) ==
  [proj |-> kind, name |-> name, index |-> index, variant |-> variant, by |-> by]
Deref == Proj("Deref", "", 0, 0, <<>>)
Field(name) == Proj("Field", name, 0, 0, <<>>)
TupleField(i) == Proj("TupleField", "", i, 0, <<>>)
Downcast(v) == Proj("Downcast", "", 0, v, <<>>)
Index(op) == Proj("Index", "", 0, 0, <<op>>)

Place(l, projs) == [local |-> l, projs |-> projs]

Num(n, t) == [op |-> "Int", value |-> n, ty |-> t]
Bool(b) == [op |-> "Bool", value |-> b]
Null(t) == [op |-> "Null", to |-> t]
Copy(p) == [op |-> "Place", place |-> p]   \* Move lowers to the same

Use(op) == [rv |-> "Use", ops |-> <<op>>]
Ref(p) == [rv |-> "Ref", ops |-> <<>>, place |-> p]
BinOp(sym, l, r) == [rv |-> "BinOp", ops |-> <<l, r>>, sym |-> sym]
Neg(op) == [rv |-> "Neg", ops |-> <<op>>]
LNot(op) == [rv |-> "LNot", ops |-> <<op>>]
Discriminant(p) == [rv |-> "Discriminant", ops |-> <<>>, place |-> p]
SizeOf(t) == [rv |-> "SizeOf", ops |-> <<>>, ty |-> t]
Constructor(t, v, names, ops) == [rv |-> "Constructor", ops |-> ops, ty |-> t, variant |-> v, names |-> names]
StructLit(t, names, ops) == [rv |-> "StructLit", ops |-> ops, ty |-> t, names |-> names]
Tuple(t, ops) == [rv |-> "Tuple", ops |-> ops, ty |-> t]
Cast(op, t) == [rv |-> "Cast", ops |-> <<op>>, ty |-> t]

\* get_proj_kinds: a downcast goes with the projection after it, and is no step
\* of its own.
ProjKinds(projs) ==
  LET steps == SelectSeq([i \in DOMAIN projs |-> i], LAMBDA i : projs[i].proj # "Downcast")
      variant(i) == IF i > 1 /\ projs[i - 1].proj = "Downcast" THEN projs[i - 1].variant ELSE 0
  IN  [k \in DOMAIN steps |-> [projs[steps[k]] EXCEPT !.variant = variant(steps[k])]]

FieldIndex(t, name) == CHOOSE i \in DOMAIN t.names : t.names[i] = name

\* What a step takes a field of: the type itself, or a variant of it.
Into(t, step) == IF step.variant = 0 THEN t ELSE t.variants[step.variant]

FieldAt(t, step) == IF step.proj = "Field" THEN FieldIndex(Into(t, step), step.name) ELSE step.index

\* The type a projection leads to, which MIR keeps in every place.
StepTy(t, step) ==
  CASE step.proj \in {"Deref", "Index"} -> t.to
    [] step.proj \in {"Field", "TupleField"} -> Into(t, step).parts[FieldAt(t, step)]

PlaceTy(p) == FoldLeft(StepTy, TyOf[p.local], ProjKinds(p.projs))

OperandTy(op) ==
  CASE op.op = "Int" -> op.ty
    [] op.op = "Bool" -> BoolTy
    [] op.op = "Null" -> PtrTo(op.to)
    [] op.op = "Place" -> PlaceTy(op.place)

IsSigned(t) == t.ty = "int" /\ t.signed

-----------------------------------------------------------------------------
\* The builder.
PushValue(b, layout, inst) ==
  [b EXCEPT !.defs = Append(@, layout), !.insts = Append(@, inst), !.value = Len(b.defs) + 1]

PushVoid(b, inst) == [b EXCEPT !.insts = Append(@, inst)]

Check(b, holds) == [b EXCEPT !.ok = @ /\ holds]

LayoutOfValue(b, id) == b.defs[id]

\* The store the entry block makes of parameters has the same form.
Store(b, ptr, value) ==
  PushVoid(Check(b, LayoutOfValue(b, ptr) = PtrLayout), [lir |-> "Store", ptr |-> ptr, value |-> value])

Load(b, ptr, layout) == PushValue(b, layout, [lir |-> "Load", ptr |-> ptr, layout |-> layout])

ConstInt(b, layout, n) ==
  PushValue(Check(b, layout.kind = "int"), layout, [lir |-> "Int", value |-> n, layout |-> layout])

FieldPtr(b, ptr, layout, i) ==
  PushValue(Check(b, layout.kind = "aggregate" /\ i \in DOMAIN layout.fields), PtrLayout,
            [lir |-> "FieldPtr", ptr |-> ptr, layout |-> layout, field |-> i])

UnionPayloadPtr(b, ptr, layout) ==
  PushValue(b, PtrLayout, [lir |-> "UnionPayloadPtr", ptr |-> ptr, layout |-> layout])

IndexPtr(b, ptr, elem, index) ==
  PushValue(b, PtrLayout, [lir |-> "IndexPtr", ptr |-> ptr, elem |-> elem, index |-> index])

MakeAggregate(b, layout, fields) ==
  PushValue(Check(b, layout.kind = "aggregate"), layout,
            [lir |-> "MakeAggregate", layout |-> layout, fields |-> fields])

SetDiscriminant(b, ptr, layout, v) ==
  PushVoid(Check(b, layout.kind = "union" /\ v <= Len(layout.variants)),
           [lir |-> "SetDiscriminant", ptr |-> ptr, layout |-> layout, variant |-> v])

GetDiscriminant(b, ptr, layout) ==
  PushValue(Check(b, layout.kind = "union"), IntLayout(layout.tag),
            [lir |-> "GetDiscriminant", ptr |-> ptr, layout |-> layout])

Arith(b, op, signed, l, r) ==
  PushValue(Check(b, LayoutOfValue(b, l) = LayoutOfValue(b, r) /\ LayoutOfValue(b, l).kind = "int"),
            LayoutOfValue(b, l), [lir |-> "Arith", op |-> op, signed |-> signed, left |-> l, right |-> r])

Cmp(b, op, signed, l, r) ==
  PushValue(Check(b, LayoutOfValue(b, l) = LayoutOfValue(b, r) /\ IsScalar(LayoutOfValue(b, l))),
            IntLayout(1), [lir |-> "Cmp", op |-> op, signed |-> signed, left |-> l, right |-> r])

Not(b, value) ==
  PushValue(Check(b, LayoutOfValue(b, value) = IntLayout(1)), IntLayout(1), [lir |-> "Not", value |-> value])

CastTo(b, kind, value, layout) ==
  PushValue(Check(b, IsScalar(LayoutOfValue(b, value))), layout,
            [lir |-> "Cast", cast |-> kind, value |-> value, layout |-> layout])

-----------------------------------------------------------------------------
\* MTLBCtx::lower: the slots, one for every local that takes room, are the first
\* values of the body.
HasSlot(l) == ~ IsZst(Layouts[TyOf[l]])

Slots == SelectSeq(Locals, HasSlot)

SlotOf(l) == CHOOSE i \in DOMAIN Slots : Slots[i] = l

EmptyBlock == [defs |-> [i \in DOMAIN Slots |-> PtrLayout], insts |-> <<>>, value |-> 0, ok |-> TRUE]

RECURSIVE LowerOperand(_, _)

\* apply_proj.  at is [b, ptr, ty]: the code so far, the value that is the
\* address of the place, and the type of what is there.
ApplyIndex(base, elem, index) == IndexPtr(base, base.value, elem, index)

ProjPtr(b, ptr, ty, layout, step) ==
  CASE step.proj = "Deref" -> Load(b, ptr, layout)
    [] step.proj \in {"Field", "TupleField"} /\ step.variant = 0 ->
         FieldPtr(b, ptr, layout, FieldAt(ty, step))
    [] step.proj \in {"Field", "TupleField"} /\ step.variant # 0 ->
         LET payload == UnionPayloadPtr(Check(b, layout.kind = "union"), ptr, layout)
         IN  FieldPtr(payload, payload.value, layout.variants[step.variant], FieldAt(ty, step))
    [] step.proj = "Index" ->
         LET index == LowerOperand(b, step.by[1])
         IN  ApplyIndex(Load(index, ptr, layout), Layouts[ty.to], index.value)

AtLast(b, ty) == [b |-> b, ptr |-> b.value, ty |-> ty]

ApplyProj(at, step) ==
  AtLast(ProjPtr(at.b, at.ptr, at.ty, Layouts[at.ty], step), StepTy(at.ty, step))

\* lower_place_as_ptr
AtPtr(at) == [at.b EXCEPT !.value = at.ptr]

LowerPlaceAsPtr(b, p) ==
  AtPtr(FoldLeft(ApplyProj, [b |-> b, ptr |-> SlotOf(p.local), ty |-> TyOf[p.local]], ProjKinds(p.projs)))

LoadLast(b, layout) == Load(b, b.value, layout)

LowerPlace(b, p) == LoadLast(LowerPlaceAsPtr(b, p), Layouts[PlaceTy(p)])

\* lower_operand: a local without a slot has no value.
LowerOperand(b, op) ==
  CASE op.op = "Int" -> ConstInt(b, Layouts[op.ty], op.value)
    [] op.op = "Bool" -> ConstInt(b, IntLayout(1), IF op.value THEN 1 ELSE 0)
    [] op.op = "Null" -> PushValue(b, PtrLayout, [lir |-> "Null"])
    [] op.op = "Place" -> IF HasSlot(op.place.local) THEN LowerPlace(b, op.place) ELSE [b EXCEPT !.value = 0]

\* The operands one after the other, and the values of those that have one.
Collect(values, b) == [b |-> b, values |-> IF b.value = 0 THEN values ELSE Append(values, b.value)]

LowerOperands(b, ops) ==
  FoldLeft(LAMBDA done, op : Collect(done.values, LowerOperand(done.b, op)), [b |-> b, values |-> <<>>], ops)

-----------------------------------------------------------------------------
StoreLast(b, ptr) == Store(b, ptr, b.value)

\* The only argument of a variant that is a scalar, a union or has one field is
\* stored as it is.
StoreVariant(args, variant, ptr) ==
  IF args.values = <<>> THEN args.b
  ELSE IF variant.kind # "aggregate" \/ Len(variant.fields) = 1 THEN Store(args.b, ptr, args.values[1])
  ELSE StoreLast(MakeAggregate(args.b, variant, args.values), ptr)

StorePayload(payload, variant, ops) ==
  IF IsZst(variant) THEN payload ELSE StoreVariant(LowerOperands(payload, ops), variant, payload.value)

\* Mutant: the arguments are stored in the order they are written.
AsWritten(names, rv) == rv.ops

\* Named arguments go in the order of the declaration.
InSourceOrder(names, rv) ==
  IF names = <<>> THEN rv.ops
  ELSE [i \in DOMAIN names |-> rv.ops[CHOOSE k \in DOMAIN rv.names : rv.names[k] = names[i]]]

\* lower_rvalue_into: a constructor writes its payload, then its tag, in place.
LowerConstructor(b, rv, ptr, layout) ==
  SetDiscriminant(
    StorePayload(UnionPayloadPtr(Check(b, layout.kind = "union"), ptr, layout),
                 layout.variants[rv.variant], InSourceOrder(rv.ty.variants[rv.variant].names, rv)),
    ptr, layout, rv.variant)

\* The comparisons there are no instructions for are made of those there are.
LowerBinOp(b, sym, signed, l, r) ==
  LET equal == Cmp(b, "Eq", signed, l, r)
      less == Cmp(b, "Lt", signed, l, r)
      greater == Cmp(b, "Lt", signed, r, l)
  IN  CASE sym \in {"+", "-", "*", "/", "%"} -> Arith(b, sym, signed, l, r)
        [] sym = "==" -> equal
        [] sym = "!=" -> Not(equal, equal.value)
        [] sym = "<" -> less
        [] sym = ">=" -> Not(less, less.value)
        [] sym = ">" -> greater
        [] sym = "<=" -> Not(greater, greater.value)

\* lower_cast
LowerCast(b, value, from, to) ==
  LET fromL == Layouts[from]
      toL == Layouts[to]
      as(kind) == CastTo(b, kind, value, toL)
  IN  CASE fromL.kind = "int" /\ toL.kind = "ptr" -> as("IntToPtr")
        [] fromL.kind = "ptr" /\ toL.kind = "int" -> as("PtrToInt")
        [] fromL.kind = "int" /\ toL.kind = "int" /\ toL.size < fromL.size -> as("IntTruncate")
        [] fromL.kind = "int" /\ toL.kind = "int" /\ toL.size > fromL.size ->
             as(IF IsSigned(from) THEN "SExt" ELSE "ZExt")
        [] OTHER -> [b EXCEPT !.value = value]

Negated(b, value) == Arith(b, "-", TRUE, b.value, value)

LowerRValueOf(b, values, rv) ==
  CASE rv.rv = "Use" -> b
    [] rv.rv = "BinOp" -> LowerBinOp(b, rv.sym, IsSigned(OperandTy(rv.ops[1])), values[1], values[2])
    [] rv.rv = "Neg" -> Negated(ConstInt(b, LayoutOfValue(b, values[1]), 0), values[1])
    [] rv.rv = "LNot" -> Not(b, values[1])
    [] rv.rv = "SizeOf" -> ConstInt(b, IntLayout(PtrBytes), Layouts[rv.ty].size)
    [] rv.rv \in {"StructLit", "Tuple"} -> MakeAggregate(b, Layouts[rv.ty], values)
    [] rv.rv = "Cast" -> IF values = <<>> THEN b ELSE LowerCast(b, values[1], OperandTy(rv.ops[1]), rv.ty)

LowerRValueWith(args, rv) == LowerRValueOf(args.b, args.values, rv)

LowerRValue(b, rv) ==
  CASE rv.rv = "Ref" -> IF HasSlot(rv.place.local) THEN LowerPlaceAsPtr(b, rv.place) ELSE [b EXCEPT !.value = 0]
    [] rv.rv = "Discriminant" ->
         LET ptr == LowerPlaceAsPtr(b, rv.place) IN GetDiscriminant(ptr, ptr.value, Layouts[PlaceTy(rv.place)])
    [] OTHER -> LowerRValueWith(LowerOperands(b, IF rv.rv = "StructLit" THEN InSourceOrder(rv.ty.names, rv) ELSE rv.ops), rv)

StoreIfAny(b, ptr) == IF b.value = 0 THEN b ELSE StoreLast(b, ptr)

LowerInto(b, rv) ==
  IF rv.rv = "Constructor" THEN LowerConstructor(b, rv, b.value, Layouts[rv.ty])
  ELSE StoreIfAny(LowerRValue(b, rv), b.value)

\* lower_stmt: what is assigned to a local without a slot is not computed.
LowerStmt(b, dest, rv) == IF HasSlot(dest.local) THEN LowerInto(LowerPlaceAsPtr(b, dest), rv) ELSE b

\* A call, as far as its caller is concerned: the arguments that have a value,
\* and the result, if it takes room, into the slot of its local.
CheckArgs(args, params) ==
  LET agree == \A i \in DOMAIN args.values \cap DOMAIN params :
                 LayoutOfValue(args.b, args.values[i]) = Layouts[params[i]]
  IN  [args EXCEPT !.b = Check(@, agree)]

CallArgs(b, f, ops) == CheckArgs(LowerOperands(b, ops), f.params)

StoreResult(b, f, dest) ==
  LET result == PushValue(b, Layouts[f.ret], [lir |-> "Result"])
  IN  IF IsZst(Layouts[f.ret]) THEN b
      ELSE IF HasSlot(dest) THEN StoreLast(result, SlotOf(dest))
      ELSE result
===============================================================================
