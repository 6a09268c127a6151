----------------------------- MODULE UseAfterMove -----------------------------
(***************************************************************************)
(* MIRInitAnalysis (src/src/mir/analysis/init_tracking.rs),                *)
(* check_use_after_move (src/src/check/mir/use_after_move.rs) on a body,   *)
(* and the executions of that body they must account for.                  *)
(*                                                                         *)
(* The analysis says which places are initialised, moved out of, or maybe  *)
(* either, at the entry of every block.  Its state is a set of facts       *)
(* <<key, "init">> and <<key, "uninit">>: the two bit sets of an IdInitMap *)
(* side by side, joined by union.                                          *)
(*                                                                         *)
(* The check replays every block from the state the initialisation         *)
(* analysis computed for its entry and reports the places that are not     *)
(* definitely initialised.  An execution walks the control-flow graph with *)
(* the set of memory cells that hold a value: a move empties the cells of  *)
(* its place, an assignment fills them.  Branch conditions are abstracted, *)
(* so a branch may go either way.                                          *)
(***************************************************************************)
EXTENDS Mir

VARIABLES
  mir,
  analysis,   \* the MIRInitOut of the body: affected and init_in
  diags,      \* what the check reported
  code,       \* the lines of the body with the cells they touch
  pc,         \* the site the execution is at
  present,    \* the cells that hold a value
  misuses     \* the sites at which an absent cell was used

vars == <<mir, analysis, diags, code, pc, present, misuses>>

-----------------------------------------------------------------------------
\* The analysis.

AsMoveKey(p) == [base |-> p.local, projections |-> Tracked(p.projections)]

RootKey(l) == [base |-> l, projections |-> <<>>]

\* k itself or an extension of k: what moving or assigning k affects.
Covers(k, other) == k.base = other.base /\ IsPrefix(k.projections, other.projections)

-----------------------------------------------------------------------------
\* record_place: the key of a place whose local is not Copy.
KeysOfPlaces(places) == {AsMoveKey(p) : p \in {q \in places : q.local \notin CopyLocals}}

\* record_operand: of the places of the operands, at every depth.
KeysOfOperands(ops) == KeysOfPlaces(PlacesOf(AllOperandsIn(ops)))

InnerPlaces(rv) == IF HasInnerPlace(rv) THEN {rv.place} ELSE {}

KeysOfStmt(stmt) ==
  KeysOfPlaces({stmt.dest} \cup InnerPlaces(stmt.rvalue))
    \cup KeysOfOperands(IndexOperands(stmt.dest))
    \cup KeysOfOperands(RValueOperands(stmt.rvalue))

\* compute_move_key_set.
MoveKeys(body) ==
  {RootKey(l) : l \in Locals \ CopyLocals}
    \cup (UNION {(UNION {KeysOfStmt(body.blocks[b].stmts[i]) : i \in DOMAIN body.blocks[b].stmts})
                    \cup KeysOfOperands(body.blocks[b].term.ops) : b \in Blocks})

\* affected_masks: what moving or assigning a tracked key affects.
AffectedMasks(body) ==
  LET keys == MoveKeys(body)
  IN  [k \in keys |-> {other \in keys : Covers(k, other)}]

-----------------------------------------------------------------------------
\* mark_init and mark_uninit, of some keys one after the other: a key that is
\* not tracked leaves the state alone.
Affected(affected, keys) == UNION {affected[k] : k \in keys \cap DOMAIN affected}

MarkInit(affected, state, keys) ==
  (state \ (Affected(affected, keys) \X {"uninit"})) \cup (Affected(affected, keys) \X {"init"})

MarkUninit(affected, state, keys) ==
  (state \ (Affected(affected, keys) \X {"init"})) \cup (Affected(affected, keys) \X {"uninit"})

QueryInitOrNot(affected, state, k) ==
  IF k \notin DOMAIN affected \/ \A o \in affected[k] : <<o, "uninit">> \notin state THEN "Init"
  ELSE "Uninit"

\* MIRInitOut::query: an untracked key counts as initialised, a key for which
\* both facts or neither hold as maybe initialised.
Query(affected, state, k) ==
  LET only(what, never) == \A o \in affected[k] : <<o, what>> \in state /\ <<o, never>> \notin state
  IN  IF k \notin DOMAIN affected \/ only("init", "uninit") THEN "Init"
      ELSE IF only("uninit", "init") THEN "Uninit"
      ELSE "Maybe"

-----------------------------------------------------------------------------
MovedKeys(ops) == {AsMoveKey(op.place) : op \in {o \in AllOperandsIn(ops) : o.kind = "Move"}}

StmtOpsOfDest(stmt) ==
  [moved |-> MovedKeys(IndexOperands(stmt.dest)), init |-> {AsMoveKey(stmt.dest)}]

\* compute_block_ops: moves of the destination's index operands and of the
\* rvalue's operands, then the destination becomes initialised.
StmtOps(stmt) ==
  [ moved |-> MovedKeys(IndexOperands(stmt.dest)) \cup MovedKeys(RValueOperands(stmt.rvalue)),
    init |-> {AsMoveKey(stmt.dest)} ]

TermOps(term) == [moved |-> MovedKeys(term.ops), init |-> {RootKey(l) : l \in TermDefs(term)}]

\* The operations of a block, by line; the terminator is the last line.
LastLine(block) == Len(block.stmts) + 1

BlockOps(block) ==
  [i \in 1 .. LastLine(block) |->
     IF i = LastLine(block) THEN TermOps(block.term) ELSE StmtOps(block.stmts[i])]

\* apply_ops.
ApplyLine(affected, state, ops) ==
  MarkInit(affected, MarkUninit(affected, state, ops.moved), ops.init)

ApplyOps(affected, state, block) ==
  LET n == LastLine(block)
      ops == BlockOps(block)
      before[i \in 1 .. (n + 1)] ==
        IF i = 1 THEN state ELSE ApplyLine(affected, before[i - 1], ops[i - 1])
  IN  before[n + 1]

EntryWithoutParams(body, affected) == (DOMAIN affected) \X {"uninit"}

\* MIRInitAnalysis::run: everything starts uninitialised but the parameters.
EntryState(body, affected) ==
  MarkInit(affected, (DOMAIN affected) \X {"uninit"}, {RootKey(l) : l \in ToSet(body.params)})

FactsOf(affected) == (DOMAIN affected) \X ({"init"} \cup {"uninit"})

InitProblem(body, affected) ==
  [ graph |-> GraphOf(body),
    direction |-> "Forward",
    seed |-> EntryState(body, affected),
    transfer |-> [b \in Blocks |-> [s \in SUBSET FactsOf(affected) |->
                                      ApplyOps(affected, s, body.blocks[b])]] ]

InitIn(body, affected) == LeastSolution(InitProblem(body, affected), FactsOf(affected)).ins

-----------------------------------------------------------------------------
\* The check.  A line is a statement or the terminator; its accesses are the
\* inner place of a reference or discriminant, then the operands of the
\* rvalue, then the index operands of the destination.
StmtLine(stmt) ==
  [ accesses |-> (IF HasInnerPlace(stmt.rvalue) THEN <<Copy(stmt.rvalue.place)>> ELSE <<>>)
                    \o RValueOperands(stmt.rvalue) \o IndexOperands(stmt.dest),
    writes |-> {stmt.dest} ]

TermLine(term) ==
  [accesses |-> term.ops, writes |-> {LocalPlace(l) : l \in TermDefs(term)}]

Lines(block) ==
  [i \in 1 .. LastLine(block) |->
     IF i = LastLine(block) THEN TermLine(block.term) ELSE StmtLine(block.stmts[i])]

\* MIROperand::check, of some operands one after the other: what is moved is
\* forgotten.
AfterAccessesKept(affected, state, ops) == state
AfterAccesses(affected, state, ops) ==
  MarkUninit(affected, state, {AsMoveKey(op.place) : op \in {o \in ops : o.kind = "Move"}})

AfterLine(affected, state, line) ==
  MarkInit(affected, AfterAccesses(affected, state, ToSet(line.accesses)),
           {AsMoveKey(p) : p \in line.writes})

\* The state of the replay of a block before its line i, and after the first j
\* accesses of the line.
ReplayTo(affected, entry, block, i) ==
  LET lines == Lines(block)
      before[k \in 1 .. (LastLine(block) + 1)] ==
        IF k = 1 THEN entry ELSE AfterLine(affected, before[k - 1], lines[k - 1])
  IN  before[i]

ReplayWithin(affected, entry, block, i, j) ==
  AfterAccesses(affected, ReplayTo(affected, entry, block, i),
                {Lines(block)[i].accesses[k] : k \in 1 .. j})

\* MIRPlace::check: query the place before it is moved.
Verdict(affected, entry, block, i, j) ==
  Query(affected, ReplayWithin(affected, entry, block, i, j - 1),
        AsMoveKey(Lines(block)[i].accesses[j].place))

SitesOf(b, lines) ==
  UNION {{[blk |-> b, line |-> i, access |-> j] :
            j \in {k \in DOMAIN lines[i].accesses : IsPlaceOf(lines[i].accesses[k])}} :
         i \in DOMAIN lines}

Sites(body) == UNION {SitesOf(b, Lines(body.blocks[b])) : b \in Blocks}

\* The sites the check reports: [site, verdict], "Maybe" for `Use after move
\* (maybe)' and "Uninit" for `Use after move'.
Diagnostics(body, aff, ins) ==
  LET verdict(s) == Verdict(aff, ins[s.blk], body.blocks[s.blk], s.line, s.access)
  IN  {[site |-> s, verdict |-> verdict(s)] : s \in {t \in Sites(body) : verdict(t) # "Init"}}

-----------------------------------------------------------------------------
\* The lines of a block with places replaced by the cells they stand for.
CellAccess(op) ==
  [ needs |-> IF IsPlaceOf(op) THEN Needs(op.place) ELSE {},
    empties |-> IF op.kind = "Move" THEN Region(op.place) ELSE {} ]

CellLine(line) ==
  [ accesses |-> [j \in DOMAIN line.accesses |-> CellAccess(line.accesses[j])],
    needs |-> UNION {PointersTo(p) : p \in line.writes},
    fills |-> UNION {Fills(p) : p \in line.writes} ]

CodeOf(body) ==
  [b \in Blocks |-> [i \in 1 .. LastLine(body.blocks[b]) |-> CellLine(Lines(body.blocks[b])[i])]]

-----------------------------------------------------------------------------
Start(b) == [blk |-> b, line |-> 1, access |-> 1]
Halted(why) == [blk |-> why, line |-> 0, access |-> 0]
Unchecked == Halted("unchecked")
Stopped == Halted("stopped")

Init ==
  /\ mir \in Bodies
  /\ analysis = <<>>
  /\ diags = {}
  /\ code = <<>>
  /\ pc = Unchecked
  /\ present = {}
  /\ misuses = {}

\* check_use_after_move on the whole body; the body then runs with the cells of
\* its parameters filled.
Check ==
  /\ pc = Unchecked
  /\ LET affected == AffectedMasks(mir)
         init_in == InitIn(mir, affected)
     IN  /\ analysis' = [affected |-> affected, init_in |-> init_in]
         /\ diags' = Diagnostics(mir, affected, init_in)
  /\ code' = CodeOf(mir)
  /\ pc' = Start(mir.entry)
  /\ present' = UNION {CellsOf(l) : l \in ToSet(mir.params)}
  /\ UNCHANGED <<mir, misuses>>

Running == pc \notin {Unchecked, Stopped}

CurrentLine == code[pc.blk][pc.line]

\* Read one place of the current line, and empty it when it is moved.
Access ==
  /\ Running
  /\ pc.access \in DOMAIN CurrentLine.accesses
  /\ LET access == CurrentLine.accesses[pc.access]
     IN  /\ present' = present \ access.empties
         /\ misuses' = IF access.needs \subseteq present THEN misuses ELSE misuses \cup {pc}
  /\ pc' = [pc EXCEPT !.access = @ + 1]
  /\ UNCHANGED <<mir, analysis, diags, code>>

\* The accesses of the line are done: store its result, through the pointers
\* that lead to the destination.
Store ==
  /\ Running
  /\ pc.access \notin DOMAIN CurrentLine.accesses
  /\ present' = present \cup CurrentLine.fills
  /\ misuses' = IF CurrentLine.needs \subseteq present THEN misuses ELSE misuses \cup {pc}
  /\ UNCHANGED <<mir, analysis, diags, code>>

Statement ==
  /\ Store
  /\ pc.line # LastLine(mir.blocks[pc.blk])
  /\ pc' = [blk |-> pc.blk, line |-> pc.line + 1, access |-> 1]

\* The terminator: stop, or continue at any of its targets.
Jump ==
  /\ Store
  /\ pc.line = LastLine(mir.blocks[pc.blk])
  /\ LET targets == Succs(mir.blocks[pc.blk].term)
     IN  pc' \in IF targets = {} THEN {Stopped} ELSE {Start(b) : b \in targets}

Next == Check \/ Access \/ Statement \/ Jump

Spec == Init /\ [][Next]_vars

-----------------------------------------------------------------------------
\* The places a body names.
PlacesIn(stmt) ==
  {stmt.dest} \cup InnerPlaces(stmt.rvalue)
    \cup PlacesOf(AllOperandsIn(RValueOperands(stmt.rvalue)))
    \cup PlacesOf(AllOperandsIn(IndexOperands(stmt.dest)))

PlacesNamed(body) ==
  UNION {(UNION {PlacesIn(body.blocks[b].stmts[i]) : i \in DOMAIN body.blocks[b].stmts})
           \cup PlacesOf(AllOperandsIn(body.blocks[b].term.ops)) : b \in Blocks}

\* The lists of a body are Vecs, and its keys are in one HashSet.  An index is
\* an integer, hence Copy, and move_or_copy never moves it.
ASSUME PlacesAssumption ==
  \A body \in Bodies :
    /\ IsFiniteSet(MoveKeys(body))
    /\ \A p \in PlacesNamed(body) :
         /\ p.local \in Locals
         /\ IsVec(p.projections)
         /\ \A op \in ToSet(IndexOperands(p)) : op.kind # "Move"
    /\ \A b \in Blocks :
         /\ \A i \in 1 .. LastLine(body.blocks[b]) : IsVec(Lines(body.blocks[b])[i].accesses)
         /\ \A i \in DOMAIN body.blocks[b].stmts :
              /\ IsVec(RValueOperands(body.blocks[b].stmts[i].rvalue))
              /\ IsVec(IndexOperands(body.blocks[b].stmts[i].dest))

\* The cells of an instance: the check leaves Copy locals alone, so they have
\* none; every other place has some, and is no part of one.
ASSUME CellsAssumption ==
  /\ \A l \in CopyLocals : CellsOf(l) = {}
  /\ \A c \in Cells : IsVec(c.path)
  /\ \A body \in Bodies : \A p \in PlacesNamed(body) :
       /\ PointerCell \notin ToSet(p.projections)
       /\ p.local \notin CopyLocals => Region(p) # {}
       /\ \A c \in Region(p) : IsPrefix(Tracked(p.projections), c.path)

-----------------------------------------------------------------------------
Dests(body) ==
  UNION {{body.blocks[b].stmts[i].dest : i \in DOMAIN body.blocks[b].stmts} : b \in Blocks}

\* No statement assigns one element; none assigns through a pointer at all.
StoresWhole(body) == \A p \in Dests(body) : ~ IsElement(p)

StoresDirectly(body) ==
  StoresWhole(body)
    /\ \A p \in Dests(body) : \A i \in DOMAIN p.projections : p.projections[i].kind # "Deref"

\* A body the check accepts never uses a place that was moved out of or never
\* given a value, on any path; the base of a destination is not checked.
AcceptedBodiesUseNoMovedPlace == diags = {} /\ StoresDirectly(mir) => misuses = {}

\* A definite report is never wrong: whenever an execution arrives at a site
\* reported as `Use after move', part of the place is gone.
DefiniteReportsAreReal ==
  [site |-> pc, verdict |-> "Uninit"] \in diags =>
    ~ (CurrentLine.accesses[pc.access].needs \subseteq present)

\* The key whose bits stand for a cell: the longest tracked one above it.
IsAbove(k, c) == k.base = c.local /\ IsPrefix(k.projections, c.path)

OwnerKey(body, c) ==
  CHOOSE k \in MoveKeys(body) :
    /\ IsAbove(k, c)
    /\ \A o \in MoveKeys(body) : IsAbove(o, c) => Len(o.projections) <= Len(k.projections)

\* At every entry of a block, in every execution, the analysis allows for the
\* state each cell is really in: the join over the predecessors lost nothing.
\* Assigning one element makes the analysis take all of them for initialised.
InitInCoversExecutions ==
  Running /\ pc = Start(pc.blk) =>
    \A c \in Cells :
      IF c \in present THEN <<OwnerKey(mir, c), "init">> \in analysis.init_in[pc.blk]
      ELSE StoresWhole(mir) => <<OwnerKey(mir, c), "uninit">> \in analysis.init_in[pc.blk]

\* The replay of the check and the block operations of the analysis are two
\* encodings of one transfer function: they agree on the effect of every block
\* an execution enters.
ReplayAgreesWithTransfer ==
  Running /\ pc = Start(pc.blk) =>
    LET block == mir.blocks[pc.blk]
        entry == analysis.init_in[pc.blk]
    IN  ReplayTo(analysis.affected, entry, block, LastLine(block) + 1)
          = ApplyOps(analysis.affected, entry, block)
==============================================================================
