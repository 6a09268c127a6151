--------------------------------- MODULE Mir ---------------------------------
(***************************************************************************)
(* The mid-level IR of src/src/mir: places, operands, rvalues, statements, *)
(* terminators and bodies as values, and what each of them reads and       *)
(* writes.  Types are abstracted to one question, whether the type of a    *)
(* local is Copy.                                                          *)
(*                                                                         *)
(*   projection  [kind : "Deref" | "Field" | "Downcast" | "Index",         *)
(*                name : the field or variant, index : the index operand]  *)
(*   place       [local, projections : Seq(projection)]                    *)
(*   operand     [kind : "Const" | "Move" | "Copy", place]                 *)
(*   rvalue      [kind : "Use" | "Ref" | "Discriminant",                   *)
(*                ops : Seq(operand), place, mut : BOOLEAN]                *)
(*   statement   [dest : place, rvalue]                                    *)
(*   terminator  [kind, ops : Seq(operand), dest, targets : Seq(block)]    *)
(*   body        [entry, params, blocks : [Blocks -> [stmts, term]]]       *)
(*                                                                         *)
(* "Use" stands for every rvalue that is built from operands only: Use,    *)
(* BinOp, UnaryOp, Metadata, Cast, Tuple, StructLit, Constructor, SizeOf.  *)
(* "Ref" stands for Ref and AddressOf.                                     *)
(***************************************************************************)
EXTENDS Dataflow, Sequences, SequencesExt

CONSTANTS
  Locals,
  CopyLocals,
  CellPaths,   \* for each local, the paths of the cells it is made of
  Bodies,      \* the bodies to check
  MaxNesting   \* how deep an index nests in the index of a place

\* The locals of a body are in a Vec.
ASSUME LocalsAssumption == IsFiniteSet(Locals) /\ CopyLocals \subseteq Locals

ASSUME NestingAssumption == MaxNesting \in Nat

-----------------------------------------------------------------------------
\* Constructors.
NoPlace == <<>>
Deref == [kind |-> "Deref"]
Field(f) == [kind |-> "Field", name |-> f]
Downcast(v) == [kind |-> "Downcast", name |-> v]
Index(op) == [kind |-> "Index", index |-> op]

Place(l, projections) == [local |-> l, projections |-> projections]
LocalPlace(l) == Place(l, <<>>)

Const == [kind |-> "Const", place |-> NoPlace]
Move(p) == [kind |-> "Move", place |-> p]
Copy(p) == [kind |-> "Copy", place |-> p]

Use(ops) == [kind |-> "Use", ops |-> ops, place |-> NoPlace, mut |-> FALSE]
Ref(p, mut) == [kind |-> "Ref", ops |-> <<>>, place |-> p, mut |-> mut]
Discriminant(p) == [kind |-> "Discriminant", ops |-> <<>>, place |-> p, mut |-> FALSE]

Assign(dest, rvalue) == [dest |-> dest, rvalue |-> rvalue]

NoLocal == "none"
Term(kind, ops, dest, targets) ==
  [kind |-> kind, ops |-> ops, dest |-> dest, targets |-> targets]
Goto(next) == Term("Goto", <<>>, NoLocal, <<next>>)
Branch(cond, then, else) == Term("Branch", <<cond>>, NoLocal, <<then, else>>)
Switch(discriminant, targets) == Term("Switch", <<discriminant>>, NoLocal, targets)
Call(arguments, dest, next) == Term("Call", arguments, dest, <<next>>)
Return(ops) == Term("Return", ops, NoLocal, <<>>)
Diverge == Term("Diverge", <<>>, NoLocal, <<>>)

-----------------------------------------------------------------------------
\* Mir::compute_successors.
Succs(term) == ToSet(term.targets)

GraphOf(mir) ==
  [entry |-> mir.entry, succs |-> [b \in Blocks |-> Succs(mir.blocks[b].term)]]

IsPlaceOf(op) == op.kind \in {"Move", "Copy"}

\* IterOperand for MIRPlace: the index operands of a place, outermost level.
IndexOperands(p) ==
  LET indexed == SelectSeq(p.projections, LAMBDA proj : proj.kind = "Index")
  IN  [i \in DOMAIN indexed |-> indexed[i].index]

\* MIRRValue::inner_place, and IterOperand for MIRRValue.
HasInnerPlace(rv) == rv.kind \in {"Ref", "Discriminant"}

RValueOperands(rv) == IF HasInnerPlace(rv) THEN IndexOperands(rv.place) ELSE rv.ops

PlacesOf(ops) == {op.place : op \in {o \in ops : IsPlaceOf(o)}}

IndicesOf(ops) == UNION {ToSet(IndexOperands(p)) : p \in PlacesOf(ops)}

\* for_all_operands: the operands of a sequence and the index operands of their
\* places, at every depth.
AllOperandsIn(ops) ==
  LET level[depth \in 0 .. MaxNesting] ==
        IF depth = 0 THEN ToSet(ops) ELSE IndicesOf(level[depth - 1])
  IN  UNION {level[depth] : depth \in 0 .. MaxNesting}

\* The part of a projection list before the first index.
Tracked(projections) ==
  LET n == CHOOSE k \in 0 .. Len(projections) :
             /\ \A i \in 1 .. k : projections[i].kind # "Index"
             /\ k < Len(projections) => projections[k + 1].kind = "Index"
  IN  SubSeq(projections, 1, n)

-----------------------------------------------------------------------------
\* MIROperand::bitset_uses of every operand: the bases of all the places.
OperandsUses(ops) == {p.local : p \in PlacesOf(AllOperandsIn(ops))}

\* MIRPlace::bitset_uses: the base and the locals of the index operands.
PlaceUses(p) == {p.local} \cup OperandsUses(IndexOperands(p))

RValueUses(rv) == IF HasInnerPlace(rv) THEN PlaceUses(rv.place) ELSE OperandsUses(rv.ops)

TermUses(term) == OperandsUses(term.ops)

TermDefs(term) == IF term.kind = "Call" THEN {term.dest} ELSE {}

\* MIRBasicBlock::bitset_defs: the base of every destination, projected or not.
BlockDefs(block) ==
  TermDefs(block.term) \cup {block.stmts[i].dest.local : i \in DOMAIN block.stmts}

DefinedBefore(block, i) == {block.stmts[j].dest.local : j \in 1 .. (i - 1)}

BlockUsesOfTerm(block) == TermUses(block.term) \ DefinedBefore(block, Len(block.stmts) + 1)

\* MIRBasicBlock::bitset_uses: the locals read before the block defines them.
BlockUses(block) ==
  (UNION {RValueUses(block.stmts[i].rvalue) \ DefinedBefore(block, i) : i \in DOMAIN block.stmts})
    \cup (TermUses(block.term) \ DefinedBefore(block, Len(block.stmts) + 1))

-----------------------------------------------------------------------------
\* What the types of src/src/mir promise of a body: its parts are in Vecs, its
\* local and block ids are the ones of the body, and an index nests no deeper
\* than the instance allows for.
IsVec(v) == v \in Seq(ToSet(v))

NestsWithin(ops) == IndicesOf(AllOperandsIn(ops)) \subseteq AllOperandsIn(ops)

WellFormedStmt(stmt) ==
  /\ stmt.dest.local \in Locals
  /\ RValueUses(stmt.rvalue) \subseteq Locals
  /\ NestsWithin(RValueOperands(stmt.rvalue))
  /\ NestsWithin(IndexOperands(stmt.dest))

WellFormedTerm(term) ==
  /\ TermUses(term) \cup TermDefs(term) \subseteq Locals
  /\ NestsWithin(term.ops)
  /\ Succs(term) \subseteq Blocks

WellFormed(body) ==
  /\ body.entry \in Blocks
  /\ ToSet(body.params) \subseteq Locals
  /\ \A b \in Blocks : LET block == body.blocks[b]
                       IN  /\ IsVec(block.stmts)
                           /\ \A i \in DOMAIN block.stmts : WellFormedStmt(block.stmts[i])
                           /\ WellFormedTerm(block.term)

ASSUME BodiesAssumption == \A body \in Bodies : WellFormed(body)

-----------------------------------------------------------------------------
\* The memory a MIR place designates once it is compiled: apply_proj of
\* src/src/codegen/mir_to_lir/build/mod.rs walks the projections from the slot
\* of the local, loading a pointer at every Deref and every Index.  It is the
\* reference the static checks are compared with.  A cell is a local and a path
\* inside it; the pointer of a place that can be dereferenced is a cell of its
\* own, next to the cells it points to.
PointerCell == [kind |-> "Pointer"]

Cell(l, path) == [local |-> l, path |-> path]

CellsOf(l) == {Cell(l, path) : path \in CellPaths[l]}

Cells == UNION {CellsOf(l) : l \in Locals}

\* The cells a place overlaps.  An index designates some element, so the region
\* of an element is the one of everything that is indexed.
Region(p) ==
  {c \in CellsOf(p.local) : LET path == Tracked(p.projections)
                            IN  IsPrefix(path, c.path) \/ IsPrefix(c.path, path)}

\* The pointers that must be followed to reach a place.
PointersTo(p) ==
  {Cell(p.local, Append(SubSeq(p.projections, 1, i - 1), PointerCell)) :
     i \in {k \in DOMAIN p.projections : p.projections[k].kind \in {"Deref", "Index"}}}
    \cap Cells

Needs(p) == Region(p) \cup PointersTo(p)

\* A place inside an indexed one.
IsElement(p) == \E i \in DOMAIN p.projections : p.projections[i].kind = "Index"

\* Assigning one element gives neither the others nor the pointer a value.
Fills(p) == IF IsElement(p) THEN {} ELSE Region(p)
==============================================================================
