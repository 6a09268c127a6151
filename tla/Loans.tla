-------------------------------- MODULE Loans --------------------------------
(***************************************************************************)
(* The borrow check of a body: liveness (src/src/mir/analysis/liveness.rs  *)
(* and live_in_per_stmt of the check), MIRLoanAnalysis                     *)
(* (src/src/mir/analysis/loans.rs) and check_loans                         *)
(* (src/src/check/mir/loans.rs), with the executions of the body they must *)
(* account for.                                                            *)
(*                                                                         *)
(* A loan is one statement that takes a reference; its holder is the local *)
(* the reference is stored in.  An execution remembers the loan each       *)
(* holder got last and the holders whose referent was accessed in a        *)
(* conflicting way since: reading such a holder is what the check exists   *)
(* to prevent.  Branch conditions are abstracted.                          *)
(***************************************************************************)
EXTENDS Mir

VARIABLES
  mir,
  live,      \* the liveness of the body: ins and outs
  diags,     \* the lines the check reports a conflict at
  replay,    \* the loans the check has in its state at each line
  pc,
  held,      \* for each local, the loans its current value came from
  stale,     \* the locals whose loan was violated since they got it
  dead,      \* the locals the analysis called dead and nobody assigned since
  misuses    \* the lines at which an execution read a stale holder

vars == <<mir, live, diags, replay, pc, held, stale, dead, misuses>>

-----------------------------------------------------------------------------
\* Liveness.

\* The gen/kill transfer of a block, backwards.
LivenessProblem(body) ==
  LET uses == [b \in Blocks |-> BlockUses(body.blocks[b])]
      defs == [b \in Blocks |-> BlockDefs(body.blocks[b])]
  IN  [ graph |-> GraphOf(body),
        direction |-> "Backward",
        seed |-> {},
        transfer |-> [b \in Blocks |->
                        [out \in SUBSET Locals |-> (out \ defs[b]) \cup uses[b]]] ]

\* live_in and live_out of every block, as ins and outs.
LivenessOf(body) == LeastSolution(LivenessProblem(body), Locals)

\* The locals live before each statement and before the terminator of a block:
\* element i is for line i, the terminator being the last line.
LiveInPerStmt(block, live_out) ==
  LET n == Len(block.stmts)
      before[i \in 1 .. (n + 1)] ==
        IF i = n + 1
        THEN (live_out \ TermDefs(block.term)) \cup TermUses(block.term)
        ELSE (before[i + 1] \ {block.stmts[i].dest.local}) \cup RValueUses(block.stmts[i].rvalue)
  IN  before

-----------------------------------------------------------------------------
\* MIRLoanAnalysis::collect_loans.
LoansOf(body) ==
  UNION {{[at |-> [blk |-> b, line |-> i], place |-> body.blocks[b].stmts[i].rvalue.place,
           mut |-> body.blocks[b].stmts[i].rvalue.mut,
           holder |-> body.blocks[b].stmts[i].dest.local] :
            i \in {j \in DOMAIN body.blocks[b].stmts : body.blocks[b].stmts[j].rvalue.kind = "Ref"}} :
         b \in Blocks}

LoansTakenOn(loans, locals) == {loan \in loans : loan.place.local \in locals}

\* project_liveness: a loan is live where its holder is.
LoansHeldBy(loans, locals) == {loan \in loans : loan.holder \in locals}

\* Two projections that lead to disjoint parts of the same value.
Diverging(a, b) ==
  a.kind = b.kind /\ a.kind \in {"Field", "Downcast"} /\ a.name # b.name

PlacesConflict(p, q) ==
  /\ p.local = q.local
  /\ \A i \in DOMAIN p.projections \cap DOMAIN q.projections :
        ~ Diverging(p.projections[i], q.projections[i])

ViolatesByMove(op, loan) == op.kind = "Move" /\ PlacesConflict(loan.place, op.place)

\* check_access: a move violates any loan, a copy only a mutable one.
Violates(op, loan) ==
  /\ IsPlaceOf(op)
  /\ PlacesConflict(loan.place, op.place)
  /\ op.kind = "Move" \/ loan.mut

OperandsConflict(state, ops) ==
  \E op \in AllOperandsIn(ops) : \E loan \in state : Violates(op, loan)

\* check_rvalue_conflicts.
RValueConflicts(state, rv) ==
  \/ OperandsConflict(state, RValueOperands(rv))
  \/ /\ rv.kind = "Ref"
     /\ \E loan \in state : PlacesConflict(rv.place, loan.place) /\ (rv.mut \/ loan.mut)

-----------------------------------------------------------------------------
\* check_stmt up to its conflicts: the loans whose holder is overwritten here
\* or no longer needed are dropped first.
Retained(state, stmt, live_here) ==
  {loan \in state : loan.holder # stmt.dest.local /\ loan.holder \in live_here}

\* The state check_block comes to each line with.
EnteringStates(body, loans, liveness, b) ==
  LET block == body.blocks[b]
      live_in == LiveInPerStmt(block, liveness.outs[b])
      entering[i \in 1 .. (Len(block.stmts) + 1)] ==
        IF i = 1 THEN LoansHeldBy(loans, liveness.ins[b])
        ELSE Retained(entering[i - 1], block.stmts[i - 1], live_in[i - 1])
               \cup {loan \in loans : loan.at = [blk |-> b, line |-> i - 1]}
  IN  entering

\* The state it looks for the conflicts of each line with.
ReplayStates(body, loans, liveness, b) ==
  LET block == body.blocks[b]
      live_in == LiveInPerStmt(block, liveness.outs[b])
      entering == EnteringStates(body, loans, liveness, b)
  IN  [i \in 1 .. (Len(block.stmts) + 1) |->
         IF i <= Len(block.stmts) THEN Retained(entering[i], block.stmts[i], live_in[i])
         ELSE LoansHeldBy(entering[i], live_in[i])]

ReportedAt(body, states, b, i) ==
  IF i <= Len(body.blocks[b].stmts)
  THEN RValueConflicts(states[b][i], body.blocks[b].stmts[i].rvalue)
  ELSE OperandsConflict(states[b][i], body.blocks[b].term.ops)

At(b, i) == [blk |-> b, line |-> i]

\* check_loans on the whole body.
ReportedLines(body, states) ==
  UNION {{At(b, i) : i \in {j \in DOMAIN states[b] : ReportedAt(body, states, b, j)}} : b \in Blocks}

-----------------------------------------------------------------------------
Unchecked == At("unchecked", 0)
Stopped == At("stopped", 0)

Init ==
  /\ mir \in Bodies
  /\ live = <<>>
  /\ diags = {}
  /\ replay = <<>>
  /\ pc = Unchecked
  /\ held = [l \in Locals |-> {}]
  /\ stale = {}
  /\ dead = {}
  /\ misuses = {}

Check ==
  /\ pc = Unchecked
  /\ live' = LivenessOf(mir)
  /\ replay' = [b \in Blocks |-> ReplayStates(mir, LoansOf(mir), live', b)]
  /\ diags' = ReportedLines(mir, replay')
  /\ pc' = At(mir.entry, 1)
  /\ UNCHANGED <<mir, held, stale, dead, misuses>>

Running == pc \notin {Unchecked, Stopped}

CurrentBlock == mir.blocks[pc.blk]

AtTerminator == pc.line = Len(CurrentBlock.stmts) + 1

LiveHere == LiveInPerStmt(CurrentBlock, live.outs[pc.blk])[pc.line]

\* The cells a place is made of, when an index may be any element.
SamePart(proj, part) == proj.kind = part.kind /\ (proj.kind = "Index" \/ proj = part)

Designates(p) ==
  {c \in CellsOf(p.local) :
     \A i \in DOMAIN p.projections \cap DOMAIN c.path : SamePart(p.projections[i], c.path[i])}

Overlap(p, q) == Designates(p) \cap Designates(q) # {}

\* The places a body reads, moves or borrows.
AccessedIn(stmt) ==
  PlacesOf(AllOperandsIn(RValueOperands(stmt.rvalue)))
    \cup (IF stmt.rvalue.kind = "Ref" THEN {stmt.rvalue.place} ELSE {})

AccessedPlaces(body) ==
  UNION {(UNION {AccessedIn(body.blocks[b].stmts[i]) : i \in DOMAIN body.blocks[b].stmts})
           \cup PlacesOf(AllOperandsIn(body.blocks[b].term.ops)) : b \in Blocks}

\* The cells of an instance are fine enough for its bodies: no place is a part
\* of a cell.
ASSUME CellsAssumption ==
  \A body \in Bodies : \A p \in AccessedPlaces(body) : \A c \in Designates(p) :
    DOMAIN p.projections \subseteq DOMAIN c.path

\* The loans an access to the operands ops, or a new reference, invalidates:
\* an overlap in memory, unless both only read.
Hits(ops, loan) ==
  \E op \in {o \in AllOperandsIn(ops) : IsPlaceOf(o)} :
     Overlap(op.place, loan.place) /\ (op.kind = "Move" \/ loan.mut)

RefHits(rv, loan) ==
  rv.kind = "Ref" /\ Overlap(rv.place, loan.place) /\ (rv.mut \/ loan.mut)

\* Executing a line: reads of locals, loans it violates, and the local it
\* assigns, which holds the loan it takes, if any, from now on.
ExecuteLine(reads, violated(_), assigned, taken) ==
  LET broken == {l \in Locals \ assigned : \E loan \in held[l] : violated(loan)}
  IN  /\ misuses' = IF reads \cap stale = {} THEN misuses ELSE misuses \cup {pc}
      /\ held' = [l \in Locals |-> IF l \in assigned THEN taken ELSE held[l]]
      /\ stale' = (stale \cup broken) \ assigned
      /\ dead' = (dead \cup (Locals \ LiveHere)) \ assigned
      /\ UNCHANGED <<mir, live, diags, replay>>

\* Assigning through a pointer reads the pointer and replaces no local.
DestReads(p) ==
  IF p.projections = <<>> THEN {}
  ELSE (IF PointersTo(p) # {} THEN {p.local} ELSE {}) \cup OperandsUses(IndexOperands(p))

Statement ==
  /\ Running
  /\ ~ AtTerminator
  /\ LET stmt == CurrentBlock.stmts[pc.line]
         violated(loan) == Hits(RValueOperands(stmt.rvalue), loan) \/ RefHits(stmt.rvalue, loan)
     IN  ExecuteLine(RValueUses(stmt.rvalue) \cup DestReads(stmt.dest), violated,
                     IF stmt.dest.projections = <<>> THEN {stmt.dest.local} ELSE {},
                     {loan \in LoansOf(mir) : loan.at = pc})
  /\ pc' = At(pc.blk, pc.line + 1)

Terminator ==
  /\ Running
  /\ AtTerminator
  /\ LET term == CurrentBlock.term
         violated(loan) == Hits(term.ops, loan)
     IN  /\ ExecuteLine(TermUses(term), violated, TermDefs(term), {})
         /\ pc' \in IF Succs(term) = {} THEN {Stopped} ELSE {At(b, 1) : b \in Succs(term)}

Next == Check \/ Statement \/ Terminator

Spec == Init /\ [][Next]_vars

-----------------------------------------------------------------------------
\* The locals a projected destination is reached through.  Liveness takes such
\* an assignment for one of the whole local and does not look at its indices,
\* so it promises nothing about them.
ReachedThrough(p) == IF p.projections = <<>> THEN {} ELSE PlaceUses(p)

ReachedLocals(body) ==
  UNION {UNION {ReachedThrough(body.blocks[b].stmts[i].dest) :
                  i \in DOMAIN body.blocks[b].stmts} : b \in Blocks}

Holders(body) == {loan.holder : loan \in LoansOf(body)}

\* A body the check accepts never reads a reference after its referent was
\* moved, reborrowed mutably, or read while the reference was a mutable one,
\* unless a destination goes through a local that holds a reference.
AcceptedBodiesReadNoStaleReference ==
  diags = {} /\ Holders(mir) \cap ReachedLocals(mir) = {} => misuses = {}

ReadsHere ==
  IF AtTerminator THEN TermUses(CurrentBlock.term)
  ELSE RValueUses(CurrentBlock.stmts[pc.line].rvalue) \cup DestReads(CurrentBlock.stmts[pc.line].dest)

\* A local the analysis calls dead is not read before it is assigned again.
DeadLocalsAreNotRead == Running => ReadsHere \cap dead \subseteq ReachedLocals(mir)

\* Whatever path led here, a loan in force whose holder is still needed is in
\* the state of the check: neither the projection of the liveness to the block
\* entries nor the retention from line to line loses one.
HeldLoansAreReplayed ==
  Running =>
    \A l \in LiveHere \ ReachedLocals(mir) : \A loan \in held[l] :
      loan \in replay[pc.blk][pc.line] \/
      (~ AtTerminator /\ CurrentBlock.stmts[pc.line].dest.local = l)
==============================================================================
