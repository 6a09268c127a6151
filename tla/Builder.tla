------------------------------- MODULE Builder -------------------------------
(***************************************************************************)
(* MIRBuilder (src/src/mir/builder.rs): the only way the compiler writes a *)
(* MIR body, block by block.  A builder is a record                        *)
(*   [blocks : Seq([stmts, term]), current, finalized : set of blocks,     *)
(*    ok : BOOLEAN]                                                        *)
(* in which a block is its index in the arena, block 1 being the entry.    *)
(* Every operation that answers None or asserts has callers that unwrap    *)
(* it: ok turns FALSE and stays so, the compiler has panicked.             *)
(*                                                                         *)
(* A statement is [label, locals], the label standing for what it computes *)
(* and locals for the locals it mentions; a terminator is                  *)
(* [kind, label, locals, targets].                                         *)
(***************************************************************************)
EXTENDS Naturals, Sequences, SequencesExt

\* A vector of the code.
IsVec(v) == v \in Seq(ToSet(v))

Stmt(label, locals) == [label |-> label, locals |-> locals]

Terminator(kind, label, locals, targets) ==
  [kind |-> kind, label |-> label, locals |-> locals, targets |-> targets]
Goto(next) == Terminator("Goto", "", <<>>, <<next>>)
Branch(label, then, else) == Terminator("Branch", label, <<>>, <<then, else>>)
Switch(label, targets) == Terminator("Switch", label, <<>>, targets)
Call(label, next) == Terminator("Call", label, <<>>, <<next>>)
Return(label) == Terminator("Return", label, <<>>, <<>>)
Diverge == Terminator("Diverge", "", <<>>, <<>>)

EntryBlock == 1

EmptyBlock == [stmts |-> <<>>, term |-> Diverge]

NewBuilder == [blocks |-> <<EmptyBlock>>, current |-> EntryBlock, finalized |-> {}, ok |-> TRUE]

Panicked(b) == [b EXCEPT !.ok = FALSE]

\* The block new_block would allocate for the i-th call from here.
FreshBlock(b, i) == Len(b.blocks) + i

NewBlocks(b, n) == [b EXCEPT !.blocks = @ \o [i \in 1 .. n |-> EmptyBlock]]

IsTerminated(b) == b.current \in b.finalized

Terminate(b, term) ==
  IF IsTerminated(b) THEN Panicked(b)
  ELSE [b EXCEPT !.finalized = @ \cup {b.current}, !.blocks[b.current].term = term]

SwitchToBlock(b, block) ==
  IF block \in b.finalized THEN Panicked(b) ELSE [b EXCEPT !.current = block]

EmitAll(b, stmts) ==
  IF stmts # <<>> /\ IsTerminated(b) THEN Panicked(b)
  ELSE [b EXCEPT !.blocks[b.current].stmts = @ \o stmts]

\* new_block, switch_to_block and terminate for each of some blocks without
\* statements, and back to the current block.
NewEnds(b, terms) ==
  LET n == Len(terms)
  IN  [b EXCEPT !.blocks = @ \o [i \in 1 .. n |-> [EmptyBlock EXCEPT !.term = terms[i]]],
                !.finalized = @ \cup {FreshBlock(b, i) : i \in 1 .. n}]

CanFinalize(b) == b.finalized = DOMAIN b.blocks

\* What the lowering hands over: every jump leads to a block, none to the entry,
\* and no cycle is made of gotos only.
IsWellFormed(blocks) ==
  /\ IsVec(blocks)
  /\ EntryBlock \in DOMAIN blocks
  /\ \A i \in DOMAIN blocks :
       LET block == blocks[i]
           term == block.term
       IN  /\ IsVec(block.stmts)
           /\ \A stmt \in ToSet(block.stmts) :
                stmt = Stmt(stmt.label, stmt.locals) /\ IsVec(stmt.locals)
           /\ term = Terminator(term.kind, term.label, term.locals, term.targets)
           /\ IsVec(term.locals) /\ IsVec(term.targets)
           /\ ToSet(term.targets) \subseteq DOMAIN blocks \ {EntryBlock}
           /\ term.kind = "Goto" => Len(term.targets) = 1
  /\ \A cycle \in (SUBSET DOMAIN blocks) \ {{}} :
       \E i \in cycle :
          blocks[i].term.kind = "Goto" => blocks[i].term.targets[1] \notin cycle

-----------------------------------------------------------------------------
\* Running a body: a position is [block, line], the terminator being the line
\* after the statements.
At(block, line) == [block |-> block, line |-> line]

AtTerminator(blocks, pos) == pos.line = Len(blocks[pos.block].stmts) + 1

Positions(blocks) ==
  UNION {{At(i, line) : line \in 1 .. (Len(blocks[i].stmts) + 1)} : i \in DOMAIN blocks}

\* Where a goto leads, when the position is at one.
Jumped(blocks, pos) ==
  IF AtTerminator(blocks, pos) /\ blocks[pos.block].term.kind = "Goto"
  THEN At(blocks[pos.block].term.targets[1], 1)
  ELSE pos

\* The position execution next does something observable at: gotos are silent.
Settle(blocks, pos) ==
  LET settle[p \in Positions(blocks)] ==
        IF Jumped(blocks, p) = p THEN p ELSE settle[Jumped(blocks, p)]
  IN  settle[pos]

\* What a body does at a settled position, and the number of ways to go on.
Offer(blocks, pos) ==
  LET block == blocks[pos.block]
  IN  IF AtTerminator(blocks, pos)
      THEN [does |-> block.term.kind, label |-> block.term.label,
            locals |-> block.term.locals, ways |-> Len(block.term.targets)]
      ELSE [does |-> "Stmt", label |-> block.stmts[pos.line].label,
            locals |-> block.stmts[pos.line].locals, ways |-> 1]

After(blocks, pos, way) ==
  Settle(blocks,
         IF AtTerminator(blocks, pos)
         THEN At(blocks[pos.block].term.targets[way], 1)
         ELSE [pos EXCEPT !.line = @ + 1])
==============================================================================
