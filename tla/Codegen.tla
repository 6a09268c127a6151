-------------------------------- MODULE Codegen --------------------------------
(***************************************************************************)
(* An execution of a body, twice: as MIR says, on a store of values, and   *)
(* as its LLVM code does, on bytes.  The path an execution takes through a *)
(* body is any sequence of statements and terminators; each is lowered by  *)
(* itself, as lower_block does, for nothing but the slots is shared.       *)
(*                                                                         *)
(* MIR is given the meaning its names have.  A place is an object and a    *)
(* path in it; references and pointers hold one.  The heap is memory some  *)
(* callee allocated: an array of elements.                                 *)
(***************************************************************************)
EXTENDS Llvm

CONSTANTS
  HeapTy,     \* the type of the heap, a tuple of equal types
  Params,     \* the values of the parameters: each maps a local to a value
  Stmts,      \* [dest, rvalue]
  Conds,      \* the operands of branches
  Switches,   \* [on : operand, cases : set of numbers]
  Calls,      \* [fn : [params, ret, results : set of values], args, dest]
  Returns,    \* [ty, value : operand]
  MaxSteps    \* bound on the length of an execution

VARIABLES
  store,   \* the values of the objects, as MIR has them
  mem,     \* their bytes
  ok,      \* the code generator did not panic, no access was out of bounds
  took,    \* what the last terminator did: as MIR says, and in LLVM
  left     \* the steps the execution may still take; 0 once it has returned,
           \* MaxSteps + 1 before it begins

vars == <<store, mem, ok, took, left>>

Objects == ToSet(Slots) \cup {"heap"}

ObjTy == [o \in Objects |-> IF o = "heap" THEN HeapTy ELSE TyOf[o]]

-----------------------------------------------------------------------------
\* Values of MIR.
Unset == [is |-> "unset"]
Nowhere == [is |-> "nowhere"]
IntV(n) == [is |-> "int", n |-> n]
BoolV(b) == [is |-> "bool", b |-> b]
NullV == [is |-> "null"]
PtrV(obj, path) == [is |-> "ptr", obj |-> obj, path |-> path]
Parts(parts) == [is |-> "parts", parts |-> parts]
Variant(v, parts) == [is |-> "variant", variant |-> v, parts |-> parts]

RECURSIVE UnsetOf(_), IsSet(_)

UnsetOf(t) ==
  IF t.ty \in {"tuple", "struct"} THEN Parts([i \in DOMAIN t.parts |-> UnsetOf(t.parts[i])]) ELSE Unset

IsSet(v) ==
  /\ v.is \notin {"unset", "nowhere"}
  /\ v.is \in {"parts", "variant"} => \A i \in DOMAIN v.parts : IsSet(v.parts[i])

\* A step into a value: to the field of a variant, or of no variant.
Step(v, i) == [variant |-> v, index |-> i]

PartAt(v, step) ==
  IF \/ v.is = "parts" /\ step.variant = 0
     \/ v.is = "variant" /\ step.variant = v.variant
  THEN v.parts[step.index] ELSE Nowhere

RECURSIVE Put(_, _, _)
Put(v, path, new) ==
  IF path = <<>> THEN new
  ELSE [v EXCEPT !.parts[path[1].index] = Put(@, Tail(path), new)]

PartTy(t, step) == Into(t, step).parts[step.index]

PathOffset(t, path) ==
  FoldLeft(LAMBDA acc, step :
             LET layout == Layouts[acc.ty]
             IN  [ ty |-> PartTy(acc.ty, step),
                   offset |-> acc.offset + IF step.variant = 0 THEN layout.fields[step.index].offset
                                           ELSE layout.payload_offset + layout.variants[step.variant].fields[step.index].offset ],
           [ty |-> t, offset |-> 0], path).offset

TypeAt(addr) == FoldLeft(PartTy, ObjTy[addr.obj], addr.path)

At(addr) == IF addr.obj = "nowhere" THEN Nowhere ELSE FoldLeft(PartAt, store[addr.obj], addr.path)

-----------------------------------------------------------------------------
\* What MIR says.
Wrap(n, t) ==
  LET m == n % (Base ^ t.bytes) IN IF t.signed /\ 2 * m >= Base ^ t.bytes THEN m - Base ^ t.bytes ELSE m

RECURSIVE Meaning(_)

NoAddress == [obj |-> "nowhere", path |-> <<>>]

\* The element at index n from the one a pointer points to.
Moved(ptr, n) ==
  IF n = 0 THEN [obj |-> ptr.obj, path |-> ptr.path]
  ELSE IF ptr.obj = "heap" /\ Len(ptr.path) = 1 /\ ptr.path[1].index + n \in DOMAIN HeapTy.parts
  THEN [obj |-> "heap", path |-> <<Step(0, ptr.path[1].index + n)>>]
  ELSE NoAddress

\* One step on the way to the place p designates; value is what is at addr.
Follow(addr, value, step, n) ==
  CASE step.proj = "Deref" -> IF value.is = "ptr" THEN Moved(value, 0) ELSE NoAddress
    [] step.proj = "Index" -> IF value.is = "ptr" /\ n.is = "int" THEN Moved(value, n.n) ELSE NoAddress
    [] OTHER -> IF value.is \notin {"parts", "variant"} THEN NoAddress
                ELSE [addr EXCEPT !.path =
                        Append(@, Step(step.variant, FieldAt(TypeAt(addr), step)))]

Resolve(p) ==
  FoldLeft(LAMBDA addr, step : Follow(addr, At(addr), step, IF step.by = <<>> THEN Nowhere ELSE Meaning(step.by[1])),
           [obj |-> p.local, path |-> <<>>], ProjKinds(p.projs))

Exists(p) == At(Resolve(p)).is # "nowhere"

Meaning(op) ==
  CASE op.op = "Int" -> IntV(op.value)
    [] op.op = "Bool" -> BoolV(op.value)
    [] op.op = "Null" -> NullV
    [] op.op = "Place" -> IF ~ HasSlot(op.place.local) THEN Parts(<<>>)
                          ELSE At(Resolve(op.place))

Compare(sym, x, y) ==
  CASE sym = "==" -> x = y [] sym = "!=" -> x # y [] sym = "<" -> x < y
    [] sym = "<=" -> x <= y [] sym = ">" -> x > y [] sym = ">=" -> x >= y

Compute(sym, x, y) ==
  CASE sym = "+" -> x + y [] sym = "-" -> x - y [] sym = "*" -> x * y
    [] sym = "/" -> Quotient(x, y) [] sym = "%" -> x - y * Quotient(x, y)

IsArith(sym) == sym \in {"+", "-", "*", "/", "%"}

\* An address is an offset into an object, or into none.
Address(v) == IF v.is = "ptr" THEN <<v.obj, PathOffset(ObjTy[v.obj], v.path)>> ELSE <<"", 0>>

IsAddressed(v) == v.is \in {"ptr", "null"}

\* Numbers compare, addresses are the same or not, and those into one object
\* have an order.
Comparable(sym, v, w) ==
  \/ v.is = "int" /\ w.is = "int"
  \/ IsAddressed(v) /\ IsAddressed(w) /\ (sym \in {"==", "!="} \/ Address(v)[1] = Address(w)[1])

Compares(sym, v, w) ==
  CASE v.is = "int" -> Compare(sym, v.n, w.n)
    [] v.is # "int" /\ Address(v)[1] = Address(w)[1] -> Compare(sym, Address(v)[2], Address(w)[2])
    [] OTHER -> sym = "!="

\* The executions with a meaning: what is read has a value, divisions have a
\* result, and only numbers are computed with.
HasMeaning(rv) ==
  /\ \A i \in DOMAIN rv.ops : IsSet(Meaning(rv.ops[i]))
  /\ rv.rv \in {"Ref", "Discriminant"} /\ HasSlot(rv.place.local) => Exists(rv.place)
  /\ rv.rv = "Discriminant" => At(Resolve(rv.place)).is = "variant"
  /\ rv.rv = "Neg" \/ (rv.rv = "BinOp" /\ IsArith(rv.sym)) =>
       \A i \in DOMAIN rv.ops : Meaning(rv.ops[i]).is = "int"
  /\ rv.rv = "BinOp" /\ ~ IsArith(rv.sym) => Comparable(rv.sym, Meaning(rv.ops[1]), Meaning(rv.ops[2]))
  /\ rv.rv = "BinOp" /\ rv.sym \in {"/", "%"} =>
       LET x == Meaning(rv.ops[1]).n
           y == Meaning(rv.ops[2]).n
       IN  y # 0 /\ Wrap(Quotient(x, y), OperandTy(rv.ops[1])) = Quotient(x, y)
  /\ rv.rv = "Cast" /\ Layouts[rv.ty].size # Layouts[OperandTy(rv.ops[1])].size => Meaning(rv.ops[1]).is = "int"

\* Named arguments, in the order of the declaration.
Declared(names, rv, args) ==
  IF names = <<>> THEN args
  ELSE [i \in DOMAIN names |-> args[CHOOSE k \in DOMAIN rv.names : rv.names[k] = names[i]]]

Result(rv) ==
  LET arg(i) == Meaning(rv.ops[i])
      args == [i \in DOMAIN rv.ops |-> arg(i)]
  IN  CASE rv.rv = "Use" -> arg(1)
        [] rv.rv = "Ref" -> PtrV(Resolve(rv.place).obj, Resolve(rv.place).path)
        [] rv.rv = "BinOp" -> IF IsArith(rv.sym)
                              THEN IntV(Wrap(Compute(rv.sym, arg(1).n, arg(2).n), OperandTy(rv.ops[1])))
                              ELSE BoolV(Compares(rv.sym, arg(1), arg(2)))
        [] rv.rv = "Neg" -> IntV(Wrap(-arg(1).n, OperandTy(rv.ops[1])))
        [] rv.rv = "LNot" -> BoolV(~ arg(1).b)
        [] rv.rv = "Discriminant" -> IntV(At(Resolve(rv.place)).variant - 1)
        [] rv.rv = "SizeOf" -> IntV(Layouts[rv.ty].size)
        [] rv.rv = "Constructor" -> Variant(rv.variant, Declared(rv.ty.variants[rv.variant].names, rv, args))
        [] rv.rv = "StructLit" -> Parts(Declared(rv.ty.names, rv, args))
        [] rv.rv = "Tuple" -> Parts(args)
        [] rv.rv = "Cast" -> IF arg(1).is = "int" /\ rv.ty.ty = "int" THEN IntV(Wrap(arg(1).n, rv.ty)) ELSE arg(1)

Written(dest, v) ==
  LET addr == Resolve(dest)
  IN  IF HasSlot(dest.local) THEN [store EXCEPT ![addr.obj] = Put(@, addr.path, v)] ELSE store

-----------------------------------------------------------------------------
\* The bytes of a value, those that do not matter being Undef.
Overlay(bytes, at, part) ==
  [i \in DOMAIN bytes |-> IF i \in (at + 1) .. (at + Len(part)) THEN part[i - at] ELSE bytes[i]]

RECURSIVE Image(_, _)

FieldImages(bytes, base, layout, types, values) ==
  FoldLeft(LAMBDA acc, i : Overlay(acc, base + layout.fields[i].offset, Image(values[i], types[i])),
           bytes, [i \in DOMAIN types |-> i])

Image(v, t) ==
  LET layout == Layouts[t]
      blank == Bytes(layout.size, Undef)
  IN  CASE v.is = "unset" -> blank
        [] v.is = "int" -> Digits(v.n % (Base ^ layout.size), layout.size)
        [] v.is = "bool" -> <<Digit(IF v.b THEN 1 ELSE 0)>>
        [] v.is = "null" -> Digits(0, PtrBytes)
        [] v.is = "ptr" -> FromPtr(v.obj, PathOffset(ObjTy[v.obj], v.path)).bytes
        [] v.is = "parts" -> FieldImages(blank, 0, layout, t.parts, v.parts)
        [] v.is = "variant" ->
             LET tagged == Overlay(blank, 0, Digits(v.variant - 1, layout.tag))
             IN  IF v.parts = <<>> THEN tagged
                 ELSE FieldImages(tagged, layout.payload_offset, layout.variants[v.variant],
                                  t.variants[v.variant].parts, v.parts)

Shows(bytes, v, t) == LET image == Image(v, t)
                      IN  \A i \in DOMAIN image : image[i] # Undef => i \in DOMAIN bytes /\ bytes[i] = image[i]

\* A value as a caller or a callee hands it over.
Passed(v, t) == Value(LowerLayout(Layouts[t]), SubSeq(Image(v, t), 1, TypeSize(LowerLayout(Layouts[t]))))

-----------------------------------------------------------------------------
NothingTaken == <<0, 0>>

Init ==
  /\ store = [o \in Objects |-> UnsetOf(ObjTy[o])]
  /\ mem = [o \in Objects |-> Bytes(IF o = "heap" THEN Layouts[HeapTy].size ELSE AllocaSize(o), Undef)]
  /\ ok = TRUE
  /\ took = NothingTaken
  /\ left = MaxSteps + 1

\* The entry block stores the parameters into their slots.
Enter ==
  \E params \in Params :
    /\ left = MaxSteps + 1
    /\ store' = [o \in Objects |-> IF o \in DOMAIN params THEN params[o] ELSE store[o]]
    /\ mem' = [o \in Objects |->
                 IF o \in DOMAIN params THEN Overlay(mem[o], 0, Passed(params[o], TyOf[o]).bytes) ELSE mem[o]]
    /\ left' = MaxSteps
    /\ UNCHANGED <<ok, took>>

Running == left \in 1 .. MaxSteps

Executes(run) == mem' = run.mem /\ ok' = (ok /\ run.ok)

Assign ==
  \E stmt \in Stmts :
    /\ Running
    /\ HasSlot(stmt.dest.local) => Exists(stmt.dest) \/ stmt.dest.projs = <<>>
    /\ HasMeaning(stmt.rvalue)
    /\ Executes(Run(LowerStmt(EmptyBlock, stmt.dest, stmt.rvalue), mem, <<>>))
    /\ store' = Written(stmt.dest, Result(stmt.rvalue))
    /\ took' = NothingTaken
    /\ left' = left - 1

Branch ==
  \E cond \in Conds :
    LET b == LowerOperand(EmptyBlock, cond)
        run == Run(b, mem, <<>>)
    IN  /\ Running
        /\ IsSet(Meaning(cond))
        /\ Executes(run)
        /\ took' = <<IF Meaning(cond).b THEN 1 ELSE 0, BranchTaken(run.vals[b.value])>>
        /\ left' = left - 1
        /\ UNCHANGED store

Switch ==
  \E switch \in Switches :
    LET b == LowerOperand(EmptyBlock, switch.on)
        run == Run(b, mem, <<>>)
        on == Meaning(switch.on)
    IN  /\ Running
        /\ on.is = "int"
        /\ Executes(run)
        /\ took' = <<IF on.n \in switch.cases THEN on.n ELSE -1, SwitchTaken(run.vals[b.value], switch.cases)>>
        /\ left' = left - 1
        /\ UNCHANGED store

Call ==
  \E call \in Calls :
    \E result \in call.fn.results :
      LET args == CallArgs(EmptyBlock, call.fn, call.args)
          run == Run(StoreResult(args.b, call.fn, call.dest), mem,
                     IF IsZst(Layouts[call.fn.ret]) THEN <<>> ELSE Passed(result, call.fn.ret))
          passed(i) == Shows(run.vals[args.values[i]].bytes, Meaning(call.args[i]), call.fn.params[i])
      IN  /\ Running
          /\ \A i \in DOMAIN call.args : IsSet(Meaning(call.args[i]))
          /\ Executes(run)
          /\ took' = <<1, IF \A i \in DOMAIN args.values : passed(i) THEN 1 ELSE 0>>
          /\ store' = Written(Place(call.dest, <<>>), result)
          /\ left' = left - 1

Return ==
  \E return \in Returns :
    LET b == LowerOperand(EmptyBlock, return.value)
        run == Run(Check(b, LayoutOfValue(b, b.value) = Layouts[return.ty]), mem, <<>>)
    IN  /\ Running
        /\ IsSet(Meaning(return.value))
        /\ Executes(run)
        /\ took' = <<1, IF Shows(run.vals[b.value].bytes, Meaning(return.value), return.ty) THEN 1 ELSE 0>>
        /\ left' = 0
        /\ UNCHANGED store

Next == Enter \/ Assign \/ Branch \/ Switch \/ Call \/ Return

Spec == Init /\ [][Next]_vars

-----------------------------------------------------------------------------
(* The bytes of every object are those of its value, at the offsets of its  *)
(* layout: what one statement writes, through a place, a pointer, a whole   *)
(* struct or a variant, any other one reads, whichever way it goes about it.*)
MemoryHoldsTheStore == \A o \in Objects : Shows(mem[o], store[o], ObjTy[o])

(* Branches, switches, calls and returns see the values MIR computed, and   *)
(* neither the code generator nor the code runs into what must not happen.  *)
RunsTheSameWay == ok /\ took[1] = took[2]
===============================================================================
