--------------------------------- MODULE Llvm ---------------------------------
(***************************************************************************)
(* The LLVM code of the low-level IR (src/src/codegen/lir_to_llvm/mod.rs), *)
(* instruction by instruction, and what LLVM makes of it, as far as the    *)
(* emitted instructions go.                                                *)
(*                                                                         *)
(* Memory is an object per stack slot, a sequence of bytes.  A byte is     *)
(* <<"", n, 0>>, a digit; <<"undef", 0, 0>>; or <<obj, offset, k>>, the    *)
(* k-th byte of a pointer.  A value in a register is its type and bytes,   *)
(* the least significant first; an i1 is one byte.                         *)
(***************************************************************************)
EXTENDS MirToLir

Base == 2 ^ BitsPerByte

Undef == <<"undef", 0, 0>>
Digit(n) == <<"", n, 0>>
IsDigit(byte) == byte[1] = ""

Bytes(n, byte) == [i \in 1 .. n |-> byte]

-----------------------------------------------------------------------------
\* The types of LLVM and their natural layout.
I1 == [llvm |-> "i1"]
IntType(bytes) == [llvm |-> "int", bytes |-> bytes]
PtrType == [llvm |-> "ptr"]
ByteArray(n) == [llvm |-> "array", bytes |-> n]
StructType(types) == [llvm |-> "struct", types |-> types]

RECURSIVE TypeSize(_), TypeAlign(_)

TypeAlign(t) ==
  CASE t.llvm \in {"i1", "array"} -> 1
    [] t.llvm = "int" -> t.bytes
    [] t.llvm = "ptr" -> PtrBytes
    [] t.llvm = "struct" -> Max({1} \cup {TypeAlign(t.types[i]) : i \in DOMAIN t.types})

TypeOffsets(types) ==
  LET next(acc, t) == LET at == AlignUp(acc.end, TypeAlign(t))
                      IN  [offsets |-> Append(acc.offsets, at), end |-> at + TypeSize(t)]
  IN  FoldLeft(next, [offsets |-> <<>>, end |-> 0], types)

TypeSize(t) ==
  CASE t.llvm = "i1" -> 1
    [] t.llvm \in {"int", "array"} -> t.bytes
    [] t.llvm = "ptr" -> PtrBytes
    [] t.llvm = "struct" -> AlignUp(TypeOffsets(t.types).end, TypeAlign(t))

RECURSIVE LowerLayout(_)
\* lower_layout, of a layout that takes room: fields that take none are left out
\* of the struct, and a union is an array of bytes.
LowerLayout(layout) ==
  CASE layout.kind = "int" -> IntType(layout.size)
    [] layout.kind = "ptr" -> PtrType
    [] layout.kind = "union" -> ByteArray(layout.size)
    [] layout.kind = "aggregate" ->
         LET kept == SelectSeq(layout.fields, LAMBDA f : ~ IsZst(f.layout))
         IN  StructType([i \in DOMAIN kept |-> LowerLayout(kept[i].layout)])

RECURSIVE Significant(_)
\* The bytes of a type that are part of its value, the others being padding.
Significant(t) ==
  IF t.llvm # "struct" THEN 1 .. TypeSize(t)
  ELSE UNION {{TypeOffsets(t.types).offsets[i] + k : k \in Significant(t.types[i])} : i \in DOMAIN t.types}

-----------------------------------------------------------------------------
\* Values.
Value(t, bytes) == [type |-> t, bytes |-> [i \in DOMAIN bytes |-> IF i \in Significant(t) THEN bytes[i] ELSE Undef]]

Digits(n, bytes) == [i \in 1 .. bytes |-> Digit((n \div Base ^ (i - 1)) % Base)]

Range1(t) == IF t.llvm = "i1" THEN 2 ELSE Base ^ t.bytes

FromInt(t, n) == Value(t, Digits(n % Range1(t), TypeSize(t)))

FromPtr(obj, offset) == Value(PtrType, [k \in 1 .. PtrBytes |-> <<obj, offset, k>>])

Unsigned(v) ==
  FoldLeft(LAMBDA n, i : n * Base + v.bytes[i][2], 0, Reverse([i \in DOMAIN v.bytes |-> i]))

Signed(v) == LET n == Unsigned(v) IN IF 2 * n >= Range1(v.type) THEN n - Range1(v.type) ELSE n

ObjOf(ptr) == ptr.bytes[1][1]
OffsetOf(ptr) == ptr.bytes[1][2]

\* A pointer there are n bytes behind.
Points(m, ptr, n) ==
  /\ \A k \in DOMAIN ptr.bytes : ptr.bytes[k] = <<ObjOf(ptr), OffsetOf(ptr), k>>
  /\ ObjOf(ptr) \in DOMAIN m.mem
  /\ OffsetOf(ptr) \in 0 .. (Len(m.mem[ObjOf(ptr)]) - n)

\* A load and a store take their pointer to be aligned for their type.
Accesses(m, ptr, t) == Points(m, ptr, TypeSize(t)) /\ OffsetOf(ptr) % TypeAlign(t) = 0

-----------------------------------------------------------------------------
\* The machine: [vals : the values so far, mem, ok : no panic of the code
\* generator, no access out of bounds or misaligned].
Defines(m, v) == [m EXCEPT !.vals = Append(@, v)]

Fails(m) == [m EXCEPT !.ok = FALSE, !.vals = Append(@, FromInt(I1, 0))]

BuildStore(m, ptr, v) ==
  LET n == Len(v.bytes)
      at == OffsetOf(ptr)
  IN  IF ~ Accesses(m, ptr, v.type) THEN [m EXCEPT !.ok = FALSE]
      ELSE [m EXCEPT !.mem[ObjOf(ptr)] =
              [i \in DOMAIN @ |-> IF i \in (at + 1) .. (at + n) THEN v.bytes[i - at] ELSE @[i]]]

BuildLoad(m, ptr, t) ==
  LET n == TypeSize(t)
  IN  IF ~ Accesses(m, ptr, t) THEN Fails(m)
      ELSE Defines(m, Value(t, SubSeq(m.mem[ObjOf(ptr)], OffsetOf(ptr) + 1, OffsetOf(ptr) + n)))

BuildGep(m, ptr, offset) ==
  IF Points(m, ptr, 0) THEN Defines(m, FromPtr(ObjOf(ptr), OffsetOf(ptr) + offset)) ELSE Fails(m)

\* insertvalue of every field that takes room, at the index of its place in the
\* layout; the values are those of the operands that have one.
InsertValue(s, i, v) ==
  LET at == TypeOffsets(s.type.types).offsets[i]
  IN  [s EXCEPT !.bytes = [k \in DOMAIN @ |-> IF k \in (at + 1) .. (at + Len(v.bytes)) THEN v.bytes[k - at] ELSE @[k]]]

BuildAggregate(m, layout, fields) ==
  LET t == LowerLayout(layout)
      zero == Value(t, Bytes(TypeSize(t), Digit(0)))
      some == SelectSeq([i \in DOMAIN layout.fields |-> i], LAMBDA i : ~ IsZst(layout.fields[i].layout))
  IN  IF \E i \in ToSet(some) : i \notin DOMAIN fields \/ i \notin DOMAIN t.types THEN Fails(m)
      ELSE Defines(m, FoldLeft(LAMBDA s, i : InsertValue(s, i, m.vals[fields[i]]), zero, some))

\* Division of integers, towards zero.
Quotient(x, y) ==
  LET abs(n) == IF n < 0 THEN -n ELSE n
      q == abs(x) \div abs(y)
  IN  IF (x < 0) = (y < 0) THEN q ELSE -q

BuildArith(op, signed, l, r) ==
  LET x == IF signed THEN Signed(l) ELSE Unsigned(l)
      y == IF signed THEN Signed(r) ELSE Unsigned(r)
  IN  FromInt(l.type, CASE op = "+" -> x + y [] op = "-" -> x - y [] op = "*" -> x * y
                        [] op = "/" -> Quotient(x, y) [] op = "%" -> x - y * Quotient(x, y))

\* Pointers are compared as integers of their size: within an object, they are
\* in the order of their offsets.
IsAddress(v) == ~ IsDigit(v.bytes[1])

BuildCmp(op, signed, l, r) ==
  LET holds == CASE op = "Eq" -> l.bytes = r.bytes
                 [] op = "Lt" /\ IsAddress(l) -> OffsetOf(l) < OffsetOf(r)
                 [] op = "Lt" /\ ~ IsAddress(l) /\ signed -> Signed(l) < Signed(r)
                 [] op = "Lt" /\ ~ IsAddress(l) /\ ~ signed -> Unsigned(l) < Unsigned(r)
  IN  FromInt(I1, IF holds THEN 1 ELSE 0)

\* Every bit is inverted: the bits of an i8, too, when it holds a boolean.
BuildNot(v) == FromInt(v.type, Range1(v.type) - 1 - Unsigned(v))

\* A pointer and the integer of its size have the same bytes.
BuildCast(kind, v, t) ==
  CASE kind = "SExt" -> FromInt(t, Signed(v))
    [] kind \in {"ZExt", "IntTruncate"} -> FromInt(t, Unsigned(v))
    [] kind \in {"IntToPtr", "PtrToInt"} -> Value(t, v.bytes)

\* lower_inst.  result is the value the callee returned, for the result of a
\* call.
LowerInst(m, inst, result) ==
  LET v(id) == m.vals[id]
  IN  CASE inst.lir = "Store" -> BuildStore(m, v(inst.ptr), v(inst.value))
        [] inst.lir = "Load" -> BuildLoad(m, v(inst.ptr), LowerLayout(inst.layout))
        [] inst.lir = "Int" -> Defines(m, FromInt(LowerLayout(inst.layout), inst.value))
        [] inst.lir = "Null" -> Defines(m, Value(PtrType, Digits(0, PtrBytes)))
        [] inst.lir = "FieldPtr" -> BuildGep(m, v(inst.ptr), inst.layout.fields[inst.field].offset)
        [] inst.lir = "UnionPayloadPtr" -> BuildGep(m, v(inst.ptr), inst.layout.payload_offset)
        [] inst.lir = "IndexPtr" ->
             BuildGep(m, v(inst.ptr), Signed(v(inst.index)) * TypeSize(LowerLayout(inst.elem)))
        [] inst.lir = "SetDiscriminant" ->
             BuildStore(m, v(inst.ptr), FromInt(IntType(inst.layout.tag), inst.variant - 1))
        [] inst.lir = "GetDiscriminant" -> BuildLoad(m, v(inst.ptr), IntType(inst.layout.tag))
        [] inst.lir = "MakeAggregate" -> BuildAggregate(m, inst.layout, inst.fields)
        [] inst.lir = "Arith" -> Defines(m, BuildArith(inst.op, inst.signed, v(inst.left), v(inst.right)))
        [] inst.lir = "Cmp" -> Defines(m, BuildCmp(inst.op, inst.signed, v(inst.left), v(inst.right)))
        [] inst.lir = "Not" -> Defines(m, BuildNot(v(inst.value)))
        [] inst.lir = "Cast" -> Defines(m, BuildCast(inst.cast, v(inst.value), LowerLayout(inst.layout)))
        [] inst.lir = "Result" -> Defines(m, result)

\* The allocas of the entry: values of the slots, in order.
Allocas == [i \in DOMAIN Slots |-> FromPtr(Slots[i], 0)]

AllocaSize(l) == TypeSize(LowerLayout(Layouts[TyOf[l]]))

\* The instructions of b on memory.
Run(b, mem, result) ==
  FoldLeft(LAMBDA m, inst : LowerInst(m, inst, result), [vals |-> Allocas, mem |-> mem, ok |-> b.ok], b.insts)

\* terminate_block: a condition is whatever is not zero, a switch compares with
\* each of its cases.
BranchTaken(cond) == IF \E k \in DOMAIN cond.bytes : cond.bytes[k] # Digit(0) THEN 1 ELSE 0

SwitchTaken(on, cases) ==
  LET hit == {n \in cases : FromInt(on.type, n).bytes = on.bytes}
  IN  IF hit = {} THEN -1 ELSE CHOOSE n \in hit : TRUE
===============================================================================
