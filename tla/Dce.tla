--------------------------------- MODULE Dce ---------------------------------
(***************************************************************************)
(* DeadCodeElimination (src/src/mir/passes/dead_code_elimination.rs): the  *)
(* reachable part of a body is copied into a new builder, chains of blocks *)
(* joined by a goto becoming one block, locals renumbered in the order     *)
(* they are met.  Then the body and its copy are run side by side.         *)
(***************************************************************************)
EXTENDS Builder, FiniteSets, Functions

CONSTANT Bodies   \* records [params : Seq(local), blocks : Seq([stmts, term])]

\* The parameters of a function are as many locals.
IsBody(body) == IsVec(body.params) /\ IsInjective(body.params) /\ IsWellFormed(body.blocks)

ASSUME BodiesAssumption == \A body \in Bodies : IsBody(body)

VARIABLES
  mir,
  local_map,   \* the old local of every new one: new_local numbers from 1
  merge_next,  \* the block each merged block continues with
  heads,       \* the blocks the paths begin with
  begun,       \* the heads whose paths are copied, or being copied
  cursor,      \* the place in the path that is being copied, Nowhere between two
  placed,      \* history variable: where the copy of each old block begins
  b,           \* the builder of the copy
  phase,       \* "start", "copy", then "run" or "panicked"
  old_pos,
  new_pos      \* where the body and its copy are in their execution

vars ==
  <<mir, local_map, merge_next, heads, begun, cursor, placed, b, phase, old_pos, new_pos>>

Nowhere == At(0, 0)

-----------------------------------------------------------------------------
Targets(blocks, i) == ToSet(blocks[i].term.targets)

WithTargets(blocks, s) == s \cup UNION {Targets(blocks, i) : i \in s}

\* Mir::compute_reachable, from the entry.
Reachable(blocks) ==
  LET grow[s \in SUBSET DOMAIN blocks] ==
        IF WithTargets(blocks, s) = s THEN s ELSE grow[WithTargets(blocks, s)]
  IN  grow[{EntryBlock}]

\* merge_next: the reachable block a block ends by jumping to, when nothing
\* else reachable jumps there.  A function on the blocks that have one.
MergeNext(blocks) ==
  LET live == Reachable(blocks)
      preds == [j \in live |-> {i \in live : j \in Targets(blocks, i)}]
      merged == {i \in live : /\ blocks[i].term.kind = "Goto"
                              /\ Cardinality(preds[blocks[i].term.targets[1]]) = 1}
  IN  [i \in merged |-> blocks[i].term.targets[1]]

\* compute_paths: a path begins at every reachable block no other merges into,
\* and follows merge_next.
HeadsOf(blocks) == Reachable(blocks) \ Range(MergeNext(blocks))

\* get_bb: the block of the copy the path of a head goes to, the builder's entry
\* for the entry, else the next new block in the order of the BTreeSet.
CopyOf(hs, head) ==
  IF head = EntryBlock THEN EntryBlock
  ELSE 1 + Cardinality({h \in hs \ {EntryBlock} : h <= head})

-----------------------------------------------------------------------------
AddLocalInFront(map, l) == IF Contains(map, l) THEN map ELSE <<l>> \o map

\* add_and_get_local_to_mapping.
AddLocal(map, l) == IF Contains(map, l) THEN map ELSE Append(map, l)

\* The same over the locals a piece of code mentions, one after the other.
WithLocals(map, locals) ==
  LET n == Len(locals)
      after[i \in 1 .. (n + 1)] == IF i = 1 THEN map ELSE AddLocal(after[i - 1], locals[i - 1])
  IN  after[n + 1]

Renamed(map, locals) ==
  [i \in DOMAIN locals |-> CHOOSE n \in DOMAIN map : map[n] = locals[i]]

CopyStmt(map, stmt) == Stmt(stmt.label, Renamed(map, stmt.locals))

CopyTargets(hs, targets) == [i \in DOMAIN targets |-> CopyOf(hs, targets[i])]

CopyTerminatorReversed(map, hs, term) ==
  Terminator(term.kind, term.label, Renamed(map, term.locals), Reverse(CopyTargets(hs, term.targets)))

CopyTerminator(map, hs, term) ==
  Terminator(term.kind, term.label, Renamed(map, term.locals), CopyTargets(hs, term.targets))

-----------------------------------------------------------------------------
Init ==
  /\ mir \in Bodies
  /\ local_map = <<>>
  /\ merge_next = <<>>
  /\ heads = {}
  /\ begun = {}
  /\ cursor = Nowhere
  /\ placed = <<>>
  /\ b = NewBuilder
  /\ phase = "start"
  /\ old_pos = At(EntryBlock, 1)
  /\ new_pos = At(EntryBlock, 1)

\* add_parameters, the graph of the body, its paths and their blocks.
Prepare ==
  /\ phase = "start"
  /\ local_map' = WithLocals(<<>>, mir.params)
  /\ merge_next' = MergeNext(mir.blocks)
  /\ heads' = HeadsOf(mir.blocks)
  /\ b' = NewBlocks(NewBuilder, Cardinality(heads' \ {EntryBlock}))
  /\ placed' = [i \in DOMAIN mir.blocks |-> Nowhere]
  /\ phase' = "copy"
  /\ UNCHANGED <<mir, begun, cursor, old_pos, new_pos>>

\* A builder that panicked ends the compilation.
GoOn == phase' = IF b'.ok THEN phase ELSE "panicked"

\* The loop of compute_path_bodies takes the next path.
BeginPath ==
  /\ phase = "copy"
  /\ cursor = Nowhere
  /\ \E head \in heads \ begun :
        /\ \A h \in heads \ begun : head <= h
        /\ begun' = begun \cup {head}
        /\ b' = SwitchToBlock(b, CopyOf(heads, head))
        /\ cursor' = At(head, 1)
        /\ placed' = [placed EXCEPT ![head] = At(CopyOf(heads, head), 1)]
  /\ GoOn
  /\ UNCHANGED <<mir, local_map, merge_next, heads, old_pos, new_pos>>

Copying == phase = "copy" /\ cursor # Nowhere

\* copy_stmt and emit.
CopyOneStmt ==
  /\ Copying
  /\ ~ AtTerminator(mir.blocks, cursor)
  /\ LET stmt == mir.blocks[cursor.block].stmts[cursor.line]
     IN  /\ local_map' = WithLocals(local_map, stmt.locals)
         /\ b' = EmitAll(b, <<CopyStmt(local_map', stmt)>>)
  /\ cursor' = [cursor EXCEPT !.line = @ + 1]
  /\ GoOn
  /\ UNCHANGED <<mir, merge_next, heads, begun, placed, old_pos, new_pos>>

\* The path goes on with the block the last one merges with.
NextOfPath ==
  /\ Copying
  /\ AtTerminator(mir.blocks, cursor)
  /\ cursor.block \in DOMAIN merge_next
  /\ LET next == merge_next[cursor.block]
     IN  /\ cursor' = At(next, 1)
         /\ placed' = [placed EXCEPT ![next] = At(b.current, Len(b.blocks[b.current].stmts) + 1)]
  /\ UNCHANGED <<mir, local_map, merge_next, heads, begun, b, phase, old_pos, new_pos>>

\* copy_terminator and terminate, at the end of the path; a jump to a block that
\* heads no path has no entry in path_heads.
EndPath ==
  /\ Copying
  /\ AtTerminator(mir.blocks, cursor)
  /\ cursor.block \notin DOMAIN merge_next
  /\ LET term == mir.blocks[cursor.block].term
     IN  /\ local_map' = WithLocals(local_map, term.locals)
         /\ b' = IF ToSet(term.targets) \subseteq heads
                 THEN Terminate(b, CopyTerminator(local_map', heads, term))
                 ELSE Panicked(b)
  /\ cursor' = Nowhere
  /\ GoOn
  /\ UNCHANGED <<mir, merge_next, heads, begun, placed, old_pos, new_pos>>

Finalize ==
  /\ phase = "copy"
  /\ cursor = Nowhere
  /\ begun = heads
  /\ phase' = IF CanFinalize(b) THEN "run" ELSE "panicked"
  /\ IF CanFinalize(b)
     THEN /\ old_pos' = Settle(mir.blocks, old_pos)
          /\ new_pos' = Settle(b.blocks, new_pos)
     ELSE UNCHANGED <<old_pos, new_pos>>
  /\ UNCHANGED <<mir, local_map, merge_next, heads, begun, cursor, placed, b>>

\* The new locals of an offer of the copy, as the old ones they stand for.
Original(offer) == [offer EXCEPT !.locals = [i \in DOMAIN @ |-> local_map[@[i]]]]

OldOffer == Offer(mir.blocks, old_pos)
NewOffer == Original(Offer(b.blocks, new_pos))

\* Both bodies do what they offer and take the same way out of it.
RunAlong(way) ==
  /\ phase = "run"
  /\ OldOffer = NewOffer
  /\ way \in 1 .. OldOffer.ways
  /\ old_pos' = After(mir.blocks, old_pos, way)
  /\ new_pos' = After(b.blocks, new_pos, way)
  /\ UNCHANGED <<mir, local_map, merge_next, heads, begun, cursor, placed, b, phase>>

Pass == Prepare \/ BeginPath \/ CopyOneStmt \/ NextOfPath \/ EndPath \/ Finalize

Next == Pass \/ \E way \in 1 .. OldOffer.ways : RunAlong(way)

Spec == Init /\ [][Next]_vars

-----------------------------------------------------------------------------
\* The pass never panics: every jump it copies goes to the head of a path, and
\* every block it allocates, the entry included, is written exactly once.
NeverPanics == phase # "panicked"

\* The copy does what the body does: after any run they have in common, they
\* offer the same statement or terminator, on corresponding locals, with the
\* same number of ways out.  Each old local has one new one.
SameBehaviour == phase = "run" => OldOffer = NewOffer /\ IsInjective(local_map)

\* Parameters keep their order: callers pass them by position.
ParametersComeFirst ==
  phase \in {"copy", "run"} => SubSeq(local_map, 1, Len(mir.params)) = mir.params
==============================================================================
