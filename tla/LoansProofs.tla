------------------------------ MODULE LoansProofs ------------------------------
(***************************************************************************)
(* The borrow check accounts for every execution, for all bodies: what     *)
(* liveness calls dead is not read, the loans in force are in the state of *)
(* the check at every line, and a body without a report reads no stale     *)
(* reference.                                                              *)
(*                                                                         *)
(* The argument joins three parts.  LivenessOf solves its equations        *)
(* (DataflowProofs), and the scan of a block from line to line stays below *)
(* them.  So what an execution holds and still needs follows the state of  *)
(* the check from line to line and from block to block.  And two places    *)
(* that overlap in memory conflict for the check.                          *)
(***************************************************************************)
EXTENDS Loans, DataflowProofs

-----------------------------------------------------------------------------
\* Liveness.

LEMMA BlockTyped ==
  ASSUME NEW body, WellFormed(body), NEW b \in Blocks
  PROVE  LET block == body.blocks[b]
         IN  /\ Len(block.stmts) \in Nat
             /\ DOMAIN block.stmts = 1 .. Len(block.stmts)
             /\ \A i \in 1 .. Len(block.stmts) :
                   /\ block.stmts[i].dest.local \in Locals
                   /\ RValueUses(block.stmts[i].rvalue) \in SUBSET Locals
             /\ TermUses(block.term) \in SUBSET Locals
             /\ TermDefs(block.term) \in SUBSET Locals
             /\ Succs(block.term) \in SUBSET Blocks
BY DEF WellFormed, WellFormedStmt, WellFormedTerm, IsVec

LEMMA LivenessIsProblem ==
  ASSUME NEW body, WellFormed(body)
  PROVE  /\ IsProblem(LivenessProblem(body), Locals)
         /\ IsMonotone(LivenessProblem(body), Locals)
<1> DEFINE p == LivenessProblem(body)
<1>1. p.graph = GraphOf(body) /\ p.seed = {}
  BY DEF LivenessProblem
<1>2. p.graph \in Graphs
  BY <1>1, BlockTyped DEF GraphOf, Graphs, WellFormed
<1>3. p.transfer = [b \in Blocks |->
                      [out \in SUBSET Locals |->
                         (out \ BlockDefs(body.blocks[b])) \cup BlockUses(body.blocks[b])]]
  BY DEF LivenessProblem
<1>4. ASSUME NEW b \in Blocks PROVE BlockUses(body.blocks[b]) \in SUBSET Locals
  <2> DEFINE block == body.blocks[b]
  <2>1. /\ DOMAIN block.stmts = 1 .. Len(block.stmts)
        /\ \A i \in 1 .. Len(block.stmts) : RValueUses(block.stmts[i].rvalue) \in SUBSET Locals
        /\ TermUses(block.term) \in SUBSET Locals
    BY BlockTyped
  <2> HIDE DEF block
  <2>2. BlockUses(block) \in SUBSET Locals
    BY <2>1 DEF BlockUses
  <2> QED
    BY <2>2 DEF block
<1> HIDE DEF p
<1>5. p.transfer \in [Blocks -> [SUBSET Locals -> SUBSET Locals]]
  BY <1>3, <1>4
<1>6. ASSUME NEW b \in Blocks, NEW X \in SUBSET Locals
      PROVE  p.transfer[b][X] = (X \ BlockDefs(body.blocks[b])) \cup BlockUses(body.blocks[b])
  BY <1>3
<1>7. IsMonotone(p, Locals)
  BY <1>6 DEF IsMonotone
<1>8. IsProblem(p, Locals)
  BY <1>1, <1>2, <1>5 DEF IsProblem
<1> QED
  BY <1>7, <1>8 DEF p

\* live_in and live_out solve the equations of liveness.
LEMMA LivenessSolves ==
  ASSUME NEW body, WellFormed(body), NEW b \in Blocks
  PROVE  LET s == LivenessOf(body)
         IN  /\ s.outs[b] \in SUBSET Locals
             /\ \A c \in Succs(body.blocks[b].term) : s.ins[c] \subseteq s.outs[b]
             /\ s.ins[b] = (s.outs[b] \ BlockDefs(body.blocks[b])) \cup BlockUses(body.blocks[b])
<1> DEFINE p == LivenessProblem(body)
           s == LeastSolution(p, Locals)
<1>1. IsProblem(p, Locals) /\ IsMonotone(p, Locals)
  BY LivenessIsProblem
<1>2. p.direction = "Backward" /\ p.seed = {} /\ p.graph.succs[b] = Succs(body.blocks[b].term)
  BY DEF LivenessProblem, GraphOf
<1>3. \A X \in SUBSET Locals :
        p.transfer[b][X] = (X \ BlockDefs(body.blocks[b])) \cup BlockUses(body.blocks[b])
  BY DEF LivenessProblem
<1> HIDE DEF p
<1>4. /\ s.ins[b] \in SUBSET Locals /\ s.outs[b] \in SUBSET Locals
      /\ s.outs[b] = FromSuccs(p, s.ins, b)
      /\ s.ins[b] = p.transfer[b][s.outs[b]] \cup SeedAt(p, b)
  BY <1>1, <1>2, LocalsAssumption, LeastSolutionSolves
<1> HIDE DEF s
<1>5. SeedAt(p, b) = {}
  BY <1>2 DEF SeedAt
<1>6. \A c \in Succs(body.blocks[b].term) : s.ins[c] \subseteq s.outs[b]
  BY <1>2, <1>4 DEF FromSuccs
<1> QED
  BY <1>3, <1>4, <1>5, <1>6 DEF s, p, LivenessOf

\* live_in_per_stmt line by line.
LiveLines(block, out, L) ==
  /\ L \in [1 .. (Len(block.stmts) + 1) -> SUBSET Locals]
  /\ L[Len(block.stmts) + 1] = (out \ TermDefs(block.term)) \cup TermUses(block.term)
  /\ \A i \in 1 .. Len(block.stmts) :
        L[i] = (L[i + 1] \ {block.stmts[i].dest.local}) \cup RValueUses(block.stmts[i].rvalue)

LEMMA LiveInPerStmtIs ==
  ASSUME NEW body, WellFormed(body), NEW b \in Blocks, NEW out \in SUBSET Locals
  PROVE  LiveLines(body.blocks[b], out, LiveInPerStmt(body.blocks[b], out))
<1> DEFINE block == body.blocks[b]
           n == Len(block.stmts)
           base == (out \ TermDefs(block.term)) \cup TermUses(block.term)
           back(X, i) == (X \ {block.stmts[i].dest.local}) \cup RValueUses(block.stmts[i].rvalue)
           step == [i \in 1 .. n |-> [X \in SUBSET Locals |-> back(X, i)]]
           Is(f) == f = [i \in 1 .. (n + 1) |-> IF i = n + 1 THEN base ELSE back(f[i + 1], i)]
<1>1. n \in Nat /\ base \in SUBSET Locals
  BY BlockTyped
<1>2. step \in [1 .. n -> [SUBSET Locals -> SUBSET Locals]]
  <2>1. \A i \in 1 .. n : \A X \in SUBSET Locals : back(X, i) \in SUBSET Locals
    BY BlockTyped
  <2> HIDE DEF block, n, back
  <2> QED
    BY <2>1
<1>3. \A i \in 1 .. n : \A X \in SUBSET Locals : step[i][X] = back(X, i)
  OBVIOUS
<1>4. LiveInPerStmt(block, out) = CHOOSE f : Is(f)
  BY DEF LiveInPerStmt
<1> HIDE DEF block, n, base, step, back
<1>5. PICK g \in [1 .. (n + 1) -> SUBSET Locals] : ChainsDown(n, base, step, g)
  BY <1>1, <1>2, ChainDown
<1>6. Is(g)
  <2>1. \A i \in 1 .. (n + 1) : g[i] = IF i = n + 1 THEN base ELSE back(g[i + 1], i)
    BY <1>1, <1>3, <1>5 DEF ChainsDown
  <2> QED
    BY <2>1
<1> DEFINE L == LiveInPerStmt(block, out)
<1>7. Is(L)
  BY <1>4, <1>6
<1> HIDE DEF L
<1>8. \A i \in 1 .. (n + 1) : L[i] = IF i = n + 1 THEN base ELSE back(L[i + 1], i)
  <2> DEFINE h == [i \in 1 .. (n + 1) |-> IF i = n + 1 THEN base ELSE back(L[i + 1], i)]
  <2>1. \A i \in 1 .. (n + 1) : h[i] = IF i = n + 1 THEN base ELSE back(L[i + 1], i)
    OBVIOUS
  <2>2. L = h
    BY <1>7
  <2> HIDE DEF h
  <2> QED
    BY <2>1, <2>2
<1>9. L[n + 1] = base /\ \A i \in 1 .. n : L[i] = back(L[i + 1], i)
  BY <1>1, <1>8
<1>10. L \in [1 .. (n + 1) -> SUBSET Locals]
  <2> DEFINE T == {k \in Nat : k <= n => L[n + 1 - k] \in SUBSET Locals}
  <2>1. 0 \in T
    BY <1>1, <1>9
  <2>2. ASSUME NEW k \in Nat, k \in T PROVE k + 1 \in T
    <3> SUFFICES ASSUME k + 1 <= n PROVE L[n + 1 - (k + 1)] \in SUBSET Locals
      BY <1>1
    <3> DEFINE i == n - k
    <3>1. i \in 1 .. n /\ i + 1 = n + 1 - k /\ n + 1 - (k + 1) = i
      BY <1>1
    <3>2. L[i + 1] \in SUBSET Locals
      BY <2>2, <3>1, <1>1
    <3>3. step[i][L[i + 1]] \in SUBSET Locals
      BY <3>1, <3>2, <1>2
    <3> QED
      BY <3>1, <3>2, <3>3, <1>3, <1>9
  <2> HIDE DEF T
  <2>3. \A k \in Nat : k \in T
    BY <2>1, <2>2, NatInd
  <2>4. ASSUME NEW i \in 1 .. (n + 1) PROVE L[i] \in SUBSET Locals
    <3>1. n + 1 - i \in Nat /\ n + 1 - i <= n /\ n + 1 - (n + 1 - i) = i
      BY <1>1
    <3> QED
      BY <3>1, <2>3 DEF T
  <2>5. DOMAIN L = 1 .. (n + 1) /\ L = [i \in DOMAIN L |-> L[i]]
    BY <1>7
  <2> QED
    BY <2>4, <2>5
<1> QED
  BY <1>9, <1>10 DEF L, block, n, base, back, LiveLines

\* The scan of a block from live_out never finds more live at its first line
\* than live_in has.
LEMMA LiveAtEntry ==
  ASSUME NEW body, WellFormed(body), NEW b \in Blocks
  PROVE  LiveInPerStmt(body.blocks[b], LivenessOf(body).outs[b])[1] \subseteq LivenessOf(body).ins[b]
<1> DEFINE block == body.blocks[b]
           n == Len(block.stmts)
           out == LivenessOf(body).outs[b]
           L == LiveInPerStmt(block, out)
           T == {k \in Nat : k <= n =>
                   \A l \in L[1] : l \in BlockUses(block) \/
                                   (l \notin DefinedBefore(block, k + 1) /\ l \in L[k + 1])}
<1>1. out \in SUBSET Locals
  BY LivenessSolves
<1>2. LivenessOf(body).ins[b] = (out \ BlockDefs(block)) \cup BlockUses(block)
  BY LivenessSolves
<1>3. n \in Nat /\ DOMAIN block.stmts = 1 .. n
  BY BlockTyped
<1>4. /\ L[n + 1] = (out \ TermDefs(block.term)) \cup TermUses(block.term)
      /\ \A i \in 1 .. n : L[i] = (L[i + 1] \ {block.stmts[i].dest.local})
                                     \cup RValueUses(block.stmts[i].rvalue)
  <2>1. LiveLines(block, out, L)
    BY <1>1, LiveInPerStmtIs
  <2> HIDE DEF block, out, L
  <2> QED
    BY <2>1 DEF LiveLines
<1> HIDE DEF block, out, L, n
<1>5. 0 \in T
  BY DEF DefinedBefore
<1>6. ASSUME NEW k \in Nat, k \in T PROVE k + 1 \in T
  <2> SUFFICES ASSUME k + 1 <= n, NEW l \in L[1], l \notin BlockUses(block)
               PROVE  l \notin DefinedBefore(block, k + 2) /\ l \in L[k + 2]
    BY <1>3
  <2>1. k + 1 \in 1 .. n /\ k <= n /\ k + 1 + 1 = k + 2
    BY <1>3
  <2>2. l \notin DefinedBefore(block, k + 1) /\ l \in L[k + 1]
    BY <1>6, <2>1
  <2>3. l \notin RValueUses(block.stmts[k + 1].rvalue)
    BY <2>1, <2>2, <1>3 DEF BlockUses
  <2>4. l \in L[k + 2] /\ l # block.stmts[k + 1].dest.local
    BY <1>4, <2>1, <2>2, <2>3
  <2>5. l \notin DefinedBefore(block, k + 2)
    <3> SUFFICES ASSUME NEW j \in 1 .. (k + 2 - 1), l = block.stmts[j].dest.local PROVE FALSE
      BY DEF DefinedBefore
    <3>1. j = k + 1 \/ j \in 1 .. (k + 1 - 1)
      OBVIOUS
    <3> QED
      BY <3>1, <2>2, <2>4 DEF DefinedBefore
  <2> QED
    BY <2>4, <2>5
<1> HIDE DEF T
<1>7. n \in T
  BY <1>3, <1>5, <1>6, NatInd
<1>8. ASSUME NEW l \in L[1], l \notin BlockUses(block) PROVE l \in out /\ l \notin BlockDefs(block)
  <2>1. l \notin DefinedBefore(block, n + 1) /\ l \in L[n + 1]
    BY <1>7, <1>8, <1>3 DEF T
  <2>2. l \notin TermUses(block.term)
    BY <2>1, <1>3, <1>8 DEF BlockUses, n
  <2>3. l \in out /\ l \notin TermDefs(block.term)
    BY <2>1, <2>2, <1>4
  <2>4. \A i \in 1 .. n : l # block.stmts[i].dest.local
    BY <2>1, <1>3 DEF DefinedBefore
  <2> QED
    BY <2>3, <2>4, <1>3 DEF BlockDefs
<1> QED
  BY <1>2, <1>8 DEF L, out, block

\* What is needed at the entry of a successor is needed after the terminator.
LEMMA LiveAtSuccessor ==
  ASSUME NEW body, WellFormed(body), NEW b \in Blocks, NEW c \in Succs(body.blocks[b].term)
  PROVE  LiveInPerStmt(body.blocks[c], LivenessOf(body).outs[c])[1] \subseteq LivenessOf(body).outs[b]
<1>1. c \in Blocks
  BY BlockTyped
<1>2. LivenessOf(body).ins[c] \subseteq LivenessOf(body).outs[b]
  BY LivenessSolves
<1> QED
  BY <1>1, <1>2, LiveAtEntry

-----------------------------------------------------------------------------
\* The state of the check.

\* The state check_block comes to each line with, line by line.
LEMMA EnteringStatesIs ==
  ASSUME NEW body, WellFormed(body), NEW b \in Blocks, NEW loans, NEW liveness
  PROVE  LET block == body.blocks[b]
             n == Len(block.stmts)
             live_in == LiveInPerStmt(block, liveness.outs[b])
             E == EnteringStates(body, loans, liveness, b)
         IN  /\ E[1] = LoansHeldBy(loans, liveness.ins[b])
             /\ \A i \in 1 .. n :
                   E[i + 1] = Retained(E[i], block.stmts[i], live_in[i])
                                \cup {loan \in loans : loan.at = At(b, i)}
<1> DEFINE block == body.blocks[b]
           n == Len(block.stmts)
           live_in == LiveInPerStmt(block, liveness.outs[b])
           base == LoansHeldBy(loans, liveness.ins[b])
           next(X, i) == Retained(X, block.stmts[i], live_in[i])
                           \cup {loan \in loans : loan.at = [blk |-> b, line |-> i]}
           step == [i \in 1 .. n |-> [X \in SUBSET loans |-> next(X, i)]]
           Is(f) == f = [i \in 1 .. (n + 1) |-> IF i = 1 THEN base ELSE next(f[i - 1], i - 1)]
<1>1. n \in Nat /\ base \in SUBSET loans
  BY BlockTyped DEF LoansHeldBy
<1>2. step \in [1 .. n -> [SUBSET loans -> SUBSET loans]]
  <2>1. \A i \in 1 .. n : \A X \in SUBSET loans : next(X, i) \in SUBSET loans
    BY DEF Retained
  <2> HIDE DEF block, n, next
  <2> QED
    BY <2>1
<1>3. \A i \in 1 .. n : \A X \in SUBSET loans : step[i][X] = next(X, i)
  OBVIOUS
<1>4. EnteringStates(body, loans, liveness, b) = CHOOSE f : Is(f)
  BY DEF EnteringStates
<1>5. \A X : \A i : next(X, i) = Retained(X, block.stmts[i], live_in[i])
                                    \cup {loan \in loans : loan.at = At(b, i)}
  BY DEF At
<1> HIDE DEF base, step, next, n, block, live_in
<1>6. PICK g \in [1 .. (n + 1) -> SUBSET loans] : ChainsUp(n, base, step, g)
  BY <1>1, <1>2, ChainUp
<1>7. Is(g)
  <2>1. ASSUME NEW i \in 1 .. (n + 1)
        PROVE  g[i] = IF i = 1 THEN base ELSE next(g[i - 1], i - 1)
    <3>1. CASE i = 1
      BY <3>1, <1>6 DEF ChainsUp
    <3>2. CASE i # 1
      <4>1. i - 1 \in 1 .. n /\ i - 1 + 1 = i /\ g[i - 1] \in SUBSET loans
        BY <3>2, <1>1
      <4> QED
        BY <4>1, <3>2, <1>3, <1>6 DEF ChainsUp
    <3> QED
      BY <3>1, <3>2
  <2> QED
    BY <2>1
<1> DEFINE E == EnteringStates(body, loans, liveness, b)
<1>8. Is(E)
  BY <1>4, <1>7
<1> HIDE DEF E
<1>9. \A i \in 1 .. (n + 1) : E[i] = IF i = 1 THEN base ELSE next(E[i - 1], i - 1)
  <2> DEFINE h == [i \in 1 .. (n + 1) |-> IF i = 1 THEN base ELSE next(E[i - 1], i - 1)]
  <2>1. \A i \in 1 .. (n + 1) : h[i] = IF i = 1 THEN base ELSE next(E[i - 1], i - 1)
    OBVIOUS
  <2>2. E = h
    BY <1>8
  <2> HIDE DEF h
  <2> QED
    BY <2>1, <2>2
<1>10. E[1] = base
  BY <1>1, <1>9
<1>11. ASSUME NEW i \in 1 .. n PROVE E[i + 1] = next(E[i], i)
  <2>1. i + 1 \in 1 .. (n + 1) /\ i + 1 # 1 /\ i + 1 - 1 = i
    BY <1>1
  <2> QED
    BY <2>1, <1>9
<1> QED
  BY <1>5, <1>10, <1>11 DEF E, base, n, block, live_in

\* The loans a body takes, and the places the loans are taken on.
LEMMA LoansAre ==
  ASSUME NEW body, NEW loan \in LoansOf(body)
  PROVE  \E b \in Blocks : \E i \in DOMAIN body.blocks[b].stmts :
            /\ loan.at = At(b, i)
            /\ body.blocks[b].stmts[i].rvalue.kind = "Ref"
            /\ loan.place = body.blocks[b].stmts[i].rvalue.place
            /\ loan.mut = body.blocks[b].stmts[i].rvalue.mut
            /\ loan.holder = body.blocks[b].stmts[i].dest.local
BY DEF LoansOf, At

LEMMA LoansTakenAt ==
  ASSUME NEW body, NEW loan \in LoansOf(body), NEW b, NEW i, loan.at = At(b, i)
  PROVE  loan.holder = body.blocks[b].stmts[i].dest.local
<1>1. PICK c \in Blocks : \E j \in DOMAIN body.blocks[c].stmts :
         loan.at = At(c, j) /\ loan.holder = body.blocks[c].stmts[j].dest.local
  BY LoansAre
<1>2. PICK j \in DOMAIN body.blocks[c].stmts :
         loan.at = At(c, j) /\ loan.holder = body.blocks[c].stmts[j].dest.local
  BY <1>1
<1>3. c = b /\ j = i
  BY <1>2 DEF At
<1> QED
  BY <1>2, <1>3

LEMMA AccessedHere ==
  ASSUME NEW body, NEW b \in Blocks
  PROVE  /\ \A i \in DOMAIN body.blocks[b].stmts :
              AccessedIn(body.blocks[b].stmts[i]) \subseteq AccessedPlaces(body)
         /\ PlacesOf(AllOperandsIn(body.blocks[b].term.ops)) \subseteq AccessedPlaces(body)
BY DEF AccessedPlaces

LEMMA LoanPlaces ==
  ASSUME NEW body, NEW loan \in LoansOf(body)
  PROVE  loan.place \in AccessedPlaces(body)
<1>1. PICK b \in Blocks : \E j \in DOMAIN body.blocks[b].stmts :
         /\ body.blocks[b].stmts[j].rvalue.kind = "Ref"
         /\ loan.place = body.blocks[b].stmts[j].rvalue.place
  BY LoansAre
<1>2. PICK i \in DOMAIN body.blocks[b].stmts :
         /\ body.blocks[b].stmts[i].rvalue.kind = "Ref"
         /\ loan.place = body.blocks[b].stmts[i].rvalue.place
  BY <1>1
<1>3. loan.place \in AccessedIn(body.blocks[b].stmts[i])
  BY <1>2 DEF AccessedIn
<1> QED
  BY <1>3, AccessedHere

\* Places that share a cell differ in no field: the check sees the conflict.
LEMMA OverlapConflicts ==
  ASSUME NEW body \in Bodies, NEW p \in AccessedPlaces(body), NEW q \in AccessedPlaces(body),
         Overlap(p, q)
  PROVE  PlacesConflict(p, q) /\ PlacesConflict(q, p)
<1>1. PICK c : c \in Designates(p) /\ c \in Designates(q)
  BY DEF Overlap
<1>2. DOMAIN p.projections \subseteq DOMAIN c.path /\ DOMAIN q.projections \subseteq DOMAIN c.path
  BY <1>1, CellsAssumption
<1>3. c.local = p.local /\ c.local = q.local
  BY <1>1 DEF Designates, CellsOf, Cell
<1>4. ASSUME NEW i \in DOMAIN p.projections \cap DOMAIN q.projections
      PROVE  ~ Diverging(p.projections[i], q.projections[i]) /\
             ~ Diverging(q.projections[i], p.projections[i])
  <2>1. SamePart(p.projections[i], c.path[i]) /\ SamePart(q.projections[i], c.path[i])
    BY <1>1, <1>2 DEF Designates
  <2> QED
    BY <2>1 DEF SamePart, Diverging
<1> QED
  BY <1>3, <1>4 DEF PlacesConflict

\* What an execution takes for a violation of a loan, the check reports.
LEMMA HitsConflict ==
  ASSUME NEW body \in Bodies, NEW ops, PlacesOf(AllOperandsIn(ops)) \subseteq AccessedPlaces(body),
         NEW state, NEW loan \in state, loan \in LoansOf(body), Hits(ops, loan)
  PROVE  OperandsConflict(state, ops)
<1>1. PICK op \in AllOperandsIn(ops) :
         IsPlaceOf(op) /\ Overlap(op.place, loan.place) /\ (op.kind = "Move" \/ loan.mut)
  BY DEF Hits
<1>2. op.place \in AccessedPlaces(body)
  BY <1>1 DEF PlacesOf
<1>3. PlacesConflict(loan.place, op.place)
  BY <1>1, <1>2, LoanPlaces, OverlapConflicts
<1>4. Violates(op, loan)
  BY <1>1, <1>3 DEF Violates
<1> QED
  BY <1>4 DEF OperandsConflict

LEMMA RefHitsConflict ==
  ASSUME NEW body \in Bodies, NEW rv, rv.kind = "Ref" => rv.place \in AccessedPlaces(body),
         NEW state, NEW loan \in state, loan \in LoansOf(body), RefHits(rv, loan)
  PROVE  RValueConflicts(state, rv)
<1>1. rv.kind = "Ref" /\ Overlap(rv.place, loan.place) /\ (rv.mut \/ loan.mut)
  BY DEF RefHits
<1>2. PlacesConflict(rv.place, loan.place)
  BY <1>1, LoanPlaces, OverlapConflicts
<1> QED
  BY <1>1, <1>2 DEF RValueConflicts

-----------------------------------------------------------------------------
\* The inductive invariant.

\* What is live at a line, and the state the check comes to it with.
LiveAt(body, liveness, b, i) == LiveInPerStmt(body.blocks[b], liveness.outs[b])[i]

EnteringAt(body, liveness, b, i) == EnteringStates(body, LoansOf(body), liveness, b)[i]

ResultsKept ==
  pc # Unchecked =>
    /\ live = LivenessOf(mir)
    /\ replay = [b \in Blocks |-> ReplayStates(mir, LoansOf(mir), live, b)]
    /\ diags = ReportedLines(mir, replay)

InBody ==
  Running =>
    /\ pc.blk \in Blocks
    /\ pc.line \in 1 .. (Len(mir.blocks[pc.blk].stmts) + 1)
    /\ pc = At(pc.blk, pc.line)

HoldersHold ==
  /\ held \in [Locals -> SUBSET LoansOf(mir)]
  /\ \A l \in Locals : \A loan \in held[l] : loan.holder = l
  /\ stale \subseteq Holders(mir)

Fresh ==
  pc = Unchecked => misuses = {} /\ stale = {} /\ dead = {} /\ held = [l \in Locals |-> {}]

DeadStayDead == Running => dead \cap LiveAt(mir, live, pc.blk, pc.line) \subseteq ReachedLocals(mir)

HeldAreEntering ==
  Running =>
    \A l \in LiveAt(mir, live, pc.blk, pc.line) \ ReachedLocals(mir) : \A loan \in held[l] :
      loan \in EnteringAt(mir, live, pc.blk, pc.line)

NothingStaleIsLive ==
  diags = {} /\ Holders(mir) \cap ReachedLocals(mir) = {} =>
    misuses = {} /\ (Running => stale \cap LiveAt(mir, live, pc.blk, pc.line) = {})

Inv ==
  /\ mir \in Bodies
  /\ ResultsKept
  /\ InBody
  /\ HoldersHold
  /\ Fresh
  /\ DeadStayDead
  /\ HeldAreEntering
  /\ NothingStaleIsLive

-----------------------------------------------------------------------------
LEMMA ReplayIs ==
  ASSUME mir \in Bodies, ResultsKept, InBody, Running
  PROVE  LET stmts == mir.blocks[pc.blk].stmts
         IN  /\ pc.line <= Len(stmts) =>
                  replay[pc.blk][pc.line]
                    = Retained(EnteringAt(mir, live, pc.blk, pc.line), stmts[pc.line], LiveAt(mir, live, pc.blk, pc.line))
             /\ pc.line = Len(stmts) + 1 =>
                  replay[pc.blk][pc.line]
                    = LoansHeldBy(EnteringAt(mir, live, pc.blk, pc.line), LiveAt(mir, live, pc.blk, pc.line))
             /\ ReportedAt(mir, replay, pc.blk, pc.line) => pc \in diags
<1>1. /\ replay = [b \in Blocks |-> ReplayStates(mir, LoansOf(mir), live, b)]
      /\ diags = ReportedLines(mir, replay)
  BY DEF ResultsKept, Running
<1>2. pc.blk \in Blocks /\ pc.line \in 1 .. (Len(mir.blocks[pc.blk].stmts) + 1)
      /\ pc = At(pc.blk, pc.line)
  BY DEF InBody
<1>3. Len(mir.blocks[pc.blk].stmts) \in Nat
  BY <1>2, BodiesAssumption, BlockTyped
<1>4. replay[pc.blk] = ReplayStates(mir, LoansOf(mir), live, pc.blk)
  BY <1>1, <1>2
<1>5. DOMAIN replay[pc.blk] = 1 .. (Len(mir.blocks[pc.blk].stmts) + 1)
  BY <1>4 DEF ReplayStates
<1>6. replay[pc.blk][pc.line] =
         IF pc.line <= Len(mir.blocks[pc.blk].stmts)
         THEN Retained(EnteringAt(mir, live, pc.blk, pc.line), mir.blocks[pc.blk].stmts[pc.line],
                       LiveAt(mir, live, pc.blk, pc.line))
         ELSE LoansHeldBy(EnteringAt(mir, live, pc.blk, pc.line), LiveAt(mir, live, pc.blk, pc.line))
  BY <1>2, <1>4 DEF ReplayStates, EnteringAt, LiveAt
<1>7. ReportedAt(mir, replay, pc.blk, pc.line) => pc \in diags
  BY <1>1, <1>2, <1>5 DEF ReportedLines
<1>8. pc.line = Len(mir.blocks[pc.blk].stmts) + 1 => ~ (pc.line <= Len(mir.blocks[pc.blk].stmts))
  <2>1. \A n \in Nat : ~ (n + 1 <= n)
    OBVIOUS
  <2> DEFINE n == Len(mir.blocks[pc.blk].stmts)
  <2>2. n \in Nat
    BY <1>3
  <2> HIDE DEF n
  <2>3. pc.line = n + 1 => ~ (pc.line <= n)
    BY <2>1, <2>2
  <2> QED
    BY <2>3 DEF n
<1> QED
  BY <1>6, <1>7, <1>8

\* What the analyses say around a statement.
LEMMA AroundStatement ==
  ASSUME mir \in Bodies, ResultsKept, InBody, Running, ~ AtTerminator
  PROVE  LET stmt == CurrentBlock.stmts[pc.line]
             here == LiveAt(mir, live, pc.blk, pc.line)
         IN  /\ pc.line \in 1 .. Len(CurrentBlock.stmts)
             /\ here = (LiveAt(mir, live, pc.blk, pc.line + 1) \ {stmt.dest.local}) \cup RValueUses(stmt.rvalue)
             /\ EnteringAt(mir, live, pc.blk, pc.line + 1)
                  = Retained(EnteringAt(mir, live, pc.blk, pc.line), stmt, here)
                      \cup {loan \in LoansOf(mir) : loan.at = pc}
             /\ ReachedThrough(stmt.dest) \subseteq ReachedLocals(mir)
<1>1. /\ pc.blk \in Blocks /\ pc.line \in 1 .. (Len(CurrentBlock.stmts) + 1)
      /\ pc = At(pc.blk, pc.line)
  BY DEF InBody, CurrentBlock
<1>2. WellFormed(mir)
  BY BodiesAssumption
<1>3. Len(CurrentBlock.stmts) \in Nat /\ DOMAIN CurrentBlock.stmts = 1 .. Len(CurrentBlock.stmts)
  BY <1>1, <1>2, BlockTyped DEF CurrentBlock
<1>4. pc.line \in 1 .. Len(CurrentBlock.stmts)
  BY <1>1, <1>3 DEF AtTerminator
<1>5. live.outs[pc.blk] \in SUBSET Locals
  BY <1>1, <1>2, LivenessSolves DEF ResultsKept, Running
<1>6. LiveAt(mir, live, pc.blk, pc.line)
        = (LiveAt(mir, live, pc.blk, pc.line + 1) \ {CurrentBlock.stmts[pc.line].dest.local})
             \cup RValueUses(CurrentBlock.stmts[pc.line].rvalue)
  <2> DEFINE out == live.outs[pc.blk]
             b == pc.blk
             L == LiveInPerStmt(mir.blocks[b], out)
  <2>1. out \in SUBSET Locals /\ b \in Blocks
    BY <1>1, <1>5
  <2>2. pc.line \in 1 .. Len(mir.blocks[b].stmts)
    BY <1>4 DEF CurrentBlock
  <2>3. LiveLines(mir.blocks[b], out, L)
    BY <2>1, <1>2, LiveInPerStmtIs
  <2> HIDE DEF L, out, b
  <2>4. L[pc.line] = (L[pc.line + 1] \ {mir.blocks[b].stmts[pc.line].dest.local})
                        \cup RValueUses(mir.blocks[b].stmts[pc.line].rvalue)
    BY <2>2, <2>3 DEF LiveLines
  <2> QED
    BY <2>4 DEF LiveAt, CurrentBlock, L, out, b
<1>7. EnteringAt(mir, live, pc.blk, pc.line + 1)
        = Retained(EnteringAt(mir, live, pc.blk, pc.line), CurrentBlock.stmts[pc.line], LiveAt(mir, live, pc.blk, pc.line))
            \cup {loan \in LoansOf(mir) : loan.at = pc}
  BY <1>1, <1>2, <1>4, EnteringStatesIs DEF EnteringAt, LiveAt, CurrentBlock
<1>8. ReachedThrough(CurrentBlock.stmts[pc.line].dest) \subseteq ReachedLocals(mir)
  BY <1>1, <1>3, <1>4 DEF ReachedLocals, CurrentBlock
<1> QED
  BY <1>4, <1>6, <1>7, <1>8

\* ... and around a terminator, at each of its targets.
LEMMA AroundTerminator ==
  ASSUME mir \in Bodies, ResultsKept, InBody, Running, AtTerminator
  PROVE  LET term == CurrentBlock.term
             here == LiveAt(mir, live, pc.blk, pc.line)
         IN  /\ TermUses(term) \subseteq here
             /\ TermDefs(term) \subseteq Locals
             /\ \A b \in Succs(term) :
                  /\ b \in Blocks
                  /\ 1 \in 1 .. (Len(mir.blocks[b].stmts) + 1)
                  /\ LiveAt(mir, live, b, 1) \subseteq here \cup TermDefs(term)
                  /\ \A loan \in LoansOf(mir) : loan.holder \in LiveAt(mir, live, b, 1) => loan \in EnteringAt(mir, live, b, 1)
<1>1. /\ pc.blk \in Blocks /\ pc.line = Len(CurrentBlock.stmts) + 1
  BY DEF InBody, AtTerminator
<1>2. WellFormed(mir) /\ live = LivenessOf(mir)
  BY BodiesAssumption DEF ResultsKept, Running
<1>3. live.outs[pc.blk] \in SUBSET Locals
  BY <1>1, <1>2, LivenessSolves
<1>4. LiveAt(mir, live, pc.blk, pc.line)
        = (live.outs[pc.blk] \ TermDefs(CurrentBlock.term)) \cup TermUses(CurrentBlock.term)
  <2>1. LiveLines(mir.blocks[pc.blk], live.outs[pc.blk],
                  LiveInPerStmt(mir.blocks[pc.blk], live.outs[pc.blk]))
    BY <1>1, <1>2, <1>3, LiveInPerStmtIs
  <2> QED
    BY <1>1, <2>1 DEF LiveLines, LiveAt, CurrentBlock
<1>5. TermDefs(CurrentBlock.term) \subseteq Locals /\ Succs(CurrentBlock.term) \subseteq Blocks
  BY <1>1, <1>2, BlockTyped DEF CurrentBlock
<1>6. ASSUME NEW b \in Succs(CurrentBlock.term)
      PROVE  /\ b \in Blocks
             /\ 1 \in 1 .. (Len(mir.blocks[b].stmts) + 1)
             /\ LiveAt(mir, live, b, 1) \subseteq live.outs[pc.blk]
             /\ \A loan \in LoansOf(mir) : loan.holder \in LiveAt(mir, live, b, 1) => loan \in EnteringAt(mir, live, b, 1)
  <2>1. b \in Blocks
    BY <1>5
  <2>2. 1 \in 1 .. (Len(mir.blocks[b].stmts) + 1)
    BY <2>1, <1>2, BlockTyped
  <2>3. LiveAt(mir, live, b, 1) \subseteq live.outs[pc.blk]
    BY <1>1, <1>2, LiveAtSuccessor DEF LiveAt, CurrentBlock
  <2>4. LiveAt(mir, live, b, 1) \subseteq live.ins[b]
    BY <2>1, <1>2, LiveAtEntry DEF LiveAt
  <2>5. EnteringAt(mir, live, b, 1) = LoansHeldBy(LoansOf(mir), live.ins[b])
    BY <2>1, <1>2, EnteringStatesIs DEF EnteringAt
  <2> QED
    BY <2>1, <2>2, <2>3, <2>4, <2>5 DEF LoansHeldBy
<1> QED
  BY <1>4, <1>5, <1>6

-----------------------------------------------------------------------------
\* The invariant is inductive.
LEMMA InitInv == Init => Inv
<1> SUFFICES ASSUME Init PROVE Inv
  OBVIOUS
<1>1. pc = Unchecked /\ ~ Running
  BY DEF Init, Running
<1>2. HoldersHold /\ Fresh
  BY DEF Init, HoldersHold, Fresh
<1> QED
  BY <1>1, <1>2 DEF Init, Inv, ResultsKept, InBody, DeadStayDead, HeldAreEntering,
                    NothingStaleIsLive

\* A line of a block is neither of the two special sites.
LEMMA LinesAreSites ==
  ASSUME NEW b, NEW i, i # 0
  PROVE  At(b, i) # Unchecked /\ At(b, i) # Stopped
BY DEF At, Unchecked, Stopped

LEMMA CheckKeeps ==
  ASSUME Inv, Check
  PROVE  Inv'
<1>1. mir' = mir /\ held' = held /\ stale' = stale /\ dead' = dead /\ misuses' = misuses
      /\ pc = Unchecked /\ pc' = At(mir.entry, 1)
  BY DEF Check
<1>2. mir \in Bodies /\ WellFormed(mir)
  BY BodiesAssumption DEF Inv
<1>3. mir.entry \in Blocks /\ Len(mir.blocks[mir.entry].stmts) \in Nat
  BY <1>2, BlockTyped DEF WellFormed
<1>4. misuses = {} /\ stale = {} /\ dead = {} /\ held = [l \in Locals |-> {}]
  BY <1>1 DEF Inv, Fresh
<1>5. pc' # Unchecked /\ pc'.blk = mir.entry /\ pc'.line = 1
  BY <1>1, LinesAreSites DEF At
<1>6. ResultsKept'
  BY <1>1 DEF ResultsKept, Check
<1>7. InBody'
  <2>1. 1 \in 1 .. (Len(mir.blocks[mir.entry].stmts) + 1)
    BY <1>3
  <2> QED
    BY <1>1, <1>3, <1>5, <2>1 DEF InBody
<1>8. HoldersHold'
  BY <1>1 DEF Inv, HoldersHold
<1>9. Fresh'
  BY <1>5 DEF Fresh
<1>10. DeadStayDead' /\ NothingStaleIsLive'
  BY <1>1, <1>4 DEF DeadStayDead, NothingStaleIsLive
<1>11. HeldAreEntering'
  <2>1. LiveAt(mir, live', mir.entry, 1) \subseteq Locals
    <3>1. live' = LivenessOf(mir)
      BY DEF Check
    <3>2. live'.outs[mir.entry] \in SUBSET Locals
      BY <1>2, <1>3, <3>1, LivenessSolves
    <3>3. LiveLines(mir.blocks[mir.entry], live'.outs[mir.entry],
                    LiveInPerStmt(mir.blocks[mir.entry], live'.outs[mir.entry]))
      BY <1>2, <1>3, <3>2, LiveInPerStmtIs
    <3>4. 1 \in 1 .. (Len(mir.blocks[mir.entry].stmts) + 1)
      BY <1>3
    <3> QED
      BY <3>3, <3>4, <1>1 DEF LiveLines, LiveAt
  <2>2. \A l \in LiveAt(mir, live', mir.entry, 1) : held'[l] = {}
    BY <2>1, <1>1, <1>4
  <2>3. \A l \in LiveAt(mir', live', pc'.blk, pc'.line) : held'[l] = {}
    BY <2>2, <1>5, <1>1 DEF LiveAt
  <2> QED
    BY <2>3 DEF HeldAreEntering
<1> QED
  BY <1>1, <1>2, <1>6, <1>7, <1>8, <1>9, <1>10, <1>11 DEF Inv

LEMMA StatementKeeps ==
  ASSUME Inv, Statement
  PROVE  Inv'
<1> DEFINE stmt == CurrentBlock.stmts[pc.line]
           here == LiveAt(mir, live, pc.blk, pc.line)
           after == LiveAt(mir, live, pc.blk, pc.line + 1)
           reached == ReachedLocals(mir)
           assigned == IF stmt.dest.projections = <<>> THEN {stmt.dest.local} ELSE {}
           taken == {loan \in LoansOf(mir) : loan.at = pc}
           violated(loan) == Hits(RValueOperands(stmt.rvalue), loan) \/ RefHits(stmt.rvalue, loan)
           broken == {l \in Locals \ assigned : \E loan \in held[l] : violated(loan)}
           reads == RValueUses(stmt.rvalue) \cup DestReads(stmt.dest)
<1>1. /\ misuses' = IF reads \cap stale = {} THEN misuses ELSE misuses \cup {pc}
      /\ held' = [l \in Locals |-> IF l \in assigned THEN taken ELSE held[l]]
      /\ stale' = (stale \cup broken) \ assigned
      /\ dead' = (dead \cup (Locals \ here)) \ assigned
      /\ mir' = mir /\ live' = live /\ diags' = diags /\ replay' = replay
      /\ pc' = At(pc.blk, pc.line + 1)
  BY DEF Statement, ExecuteLine, LiveHere, LiveAt, CurrentBlock
<1>2. /\ mir \in Bodies /\ ResultsKept /\ InBody /\ HoldersHold /\ DeadStayDead
      /\ HeldAreEntering /\ NothingStaleIsLive /\ Running /\ ~ AtTerminator
  BY DEF Inv, Statement
<1>3. /\ pc.line \in 1 .. Len(CurrentBlock.stmts)
      /\ here = (after \ {stmt.dest.local}) \cup RValueUses(stmt.rvalue)
      /\ EnteringAt(mir, live, pc.blk, pc.line + 1) = Retained(EnteringAt(mir, live, pc.blk, pc.line), stmt, here) \cup taken
      /\ ReachedThrough(stmt.dest) \subseteq reached
  BY <1>2, AroundStatement
<1>4. /\ pc.blk \in Blocks /\ pc = At(pc.blk, pc.line)
      /\ Len(CurrentBlock.stmts) \in Nat /\ DOMAIN CurrentBlock.stmts = 1 .. Len(CurrentBlock.stmts)
      /\ WellFormed(mir)
  BY <1>2, BodiesAssumption, BlockTyped DEF InBody, CurrentBlock
<1>5. /\ replay[pc.blk][pc.line] = Retained(EnteringAt(mir, live, pc.blk, pc.line), stmt, here)
      /\ RValueConflicts(replay[pc.blk][pc.line], stmt.rvalue) => pc \in diags
  <2>1. pc.line <= Len(mir.blocks[pc.blk].stmts)
    <3>1. \A n \in Nat : \A i \in 1 .. n : i <= n
      OBVIOUS
    <3> QED
      BY <1>3, <1>4, <3>1 DEF CurrentBlock
  <2>2. ReportedAt(mir, replay, pc.blk, pc.line)
          = RValueConflicts(replay[pc.blk][pc.line], stmt.rvalue)
    BY <2>1 DEF ReportedAt, CurrentBlock
  <2> QED
    BY <1>2, <2>1, <2>2, ReplayIs DEF CurrentBlock
<1>6. /\ pc' # Unchecked /\ pc'.blk = pc.blk /\ pc'.line = pc.line + 1
      /\ pc.line + 1 \in 1 .. (Len(mir.blocks[pc.blk].stmts) + 1)
  <2>1. pc.line + 1 \in 1 .. (Len(CurrentBlock.stmts) + 1) /\ pc.line + 1 # 0
    BY <1>3, <1>4
  <2> QED
    BY <1>1, <2>1, LinesAreSites DEF At, CurrentBlock
<1>7. /\ LiveAt(mir', live', pc'.blk, pc'.line) = after
      /\ EnteringAt(mir', live', pc'.blk, pc'.line) = EnteringAt(mir, live, pc.blk, pc.line + 1)
      /\ ReachedLocals(mir') = reached /\ Holders(mir') = Holders(mir)
      /\ LoansOf(mir') = LoansOf(mir)
  BY <1>1, <1>6 DEF LiveAt, EnteringAt
\* A local needed after the statement was needed before it, unless the
\* statement assigns it or goes through it.
<1>8. \A l \in after : l \in here \/ l \in assigned \/ l \in reached
  <2>1. stmt.dest.projections # <<>> => stmt.dest.local \in reached
    BY <1>3 DEF ReachedThrough, PlaceUses
  <2> HIDE DEF here, after, reached, stmt
  <2> QED
    BY <2>1, <1>3
<1>9. RValueUses(stmt.rvalue) \subseteq here /\ DestReads(stmt.dest) \subseteq reached
  <2>1. DestReads(stmt.dest) \subseteq ReachedThrough(stmt.dest)
    BY DEF DestReads, ReachedThrough, PlaceUses
  <2> HIDE DEF here, after, reached, stmt
  <2> QED
    BY <2>1, <1>3
<1>10. \A loan \in taken : loan.holder = stmt.dest.local
  BY <1>4, LoansTakenAt DEF CurrentBlock
<1>11. stmt.dest.local \in Locals
  BY <1>3, <1>4, BlockTyped DEF CurrentBlock
<1>12. ResultsKept' /\ InBody' /\ Fresh'
  BY <1>1, <1>2, <1>4, <1>6 DEF ResultsKept, Running, InBody, Fresh
<1>13. HoldersHold'
  <2>1. /\ held \in [Locals -> SUBSET LoansOf(mir)] /\ stale \subseteq Holders(mir)
        /\ \A l \in Locals : \A loan \in held[l] : loan.holder = l
    BY <1>2 DEF HoldersHold
  <2>2. held' \in [Locals -> SUBSET LoansOf(mir)]
    <3>1. taken \in SUBSET LoansOf(mir)
      OBVIOUS
    <3> HIDE DEF taken, assigned
    <3> QED
      BY <1>1, <2>1, <3>1
  <2>3. \A l \in Locals : \A loan \in held'[l] : loan.holder = l
    <3>1. \A l \in assigned : l = stmt.dest.local
      OBVIOUS
    <3> HIDE DEF taken, assigned, stmt
    <3> QED
      BY <1>1, <1>10, <2>1, <3>1
  <2>4. broken \subseteq Holders(mir)
    <3> SUFFICES ASSUME NEW l \in Locals, NEW loan \in held[l] PROVE l \in Holders(mir)
      OBVIOUS
    <3> QED
      BY <2>1 DEF Holders
  <2>5. stale' \subseteq Holders(mir)
    <3> HIDE DEF broken, assigned
    <3> QED
      BY <1>1, <2>1, <2>4
  <2> QED
    BY <1>7, <2>2, <2>3, <2>5 DEF HoldersHold
<1>14. DeadStayDead'
  <2>1. dead \cap here \subseteq reached
    BY <1>2 DEF DeadStayDead
  <2>2. dead' \cap after \subseteq reached
    <3> HIDE DEF here, after, reached, assigned
    <3> QED
      BY <1>1, <1>8, <2>1
  <2> QED
    BY <1>7, <2>2 DEF DeadStayDead
<1>15. \A l \in here \ reached : \A loan \in held[l] : loan \in EnteringAt(mir, live, pc.blk, pc.line)
  BY <1>2 DEF HeldAreEntering
\* A loan whose holder is needed on both sides is retained.
<1>16. ASSUME NEW l \in after \ reached, l \notin assigned, l \in Locals, NEW loan \in held[l]
       PROVE  /\ l \in here /\ loan \in LoansOf(mir)
              /\ loan \in Retained(EnteringAt(mir, live, pc.blk, pc.line), stmt, here)
  <2>1. l \in here
    <3> HIDE DEF here, after, reached, assigned
    <3> QED
      BY <1>8, <1>16
  <2>2. loan \in EnteringAt(mir, live, pc.blk, pc.line)
    <3> HIDE DEF here, after, reached, assigned
    <3> QED
      BY <1>15, <1>16, <2>1
  <2>3. loan.holder = l /\ loan \in LoansOf(mir)
    BY <1>2, <1>16 DEF HoldersHold
  <2>4. l # stmt.dest.local
    <3>1. stmt.dest.projections # <<>> => stmt.dest.local \in reached
      BY <1>3 DEF ReachedThrough, PlaceUses
    <3> QED
      BY <3>1, <1>16
  <2> QED
    BY <2>1, <2>2, <2>3, <2>4 DEF Retained
<1>17. HeldAreEntering'
  <2>1. ASSUME NEW l \in after \ reached, NEW loan \in held'[l]
        PROVE  loan \in EnteringAt(mir, live, pc.blk, pc.line + 1)
    <3>1. l \in Locals
      <4>1. LiveLines(CurrentBlock, live.outs[pc.blk], LiveInPerStmt(CurrentBlock, live.outs[pc.blk]))
        <5>1. live.outs[pc.blk] \in SUBSET Locals
          BY <1>2, <1>4, LivenessSolves DEF ResultsKept, Running
        <5> QED
          BY <5>1, <1>4, LiveInPerStmtIs DEF CurrentBlock
      <4>2. after \subseteq Locals
        BY <4>1, <1>6 DEF LiveLines, LiveAt, CurrentBlock
      <4> QED
        BY <4>2, <2>1
    <3>2. CASE l \in assigned
      <4>1. loan \in taken
        BY <1>1, <2>1, <3>1, <3>2
      <4> QED
        BY <4>1, <1>3
    <3>3. CASE l \notin assigned
      <4>1. loan \in held[l]
        BY <1>1, <2>1, <3>1, <3>3
      <4> QED
        BY <4>1, <1>3, <1>16, <3>1, <3>3
    <3> QED
      BY <3>2, <3>3
  <2> QED
    BY <1>7, <2>1 DEF HeldAreEntering
<1>18. NothingStaleIsLive'
  <2> SUFFICES ASSUME diags = {}, Holders(mir) \cap reached = {}
               PROVE  misuses' = {} /\ stale' \cap after = {}
    BY <1>1, <1>7 DEF NothingStaleIsLive
  <2>1. misuses = {} /\ stale \cap here = {} /\ stale \subseteq Holders(mir)
    BY <1>2 DEF NothingStaleIsLive, HoldersHold
  <2>2. reads \cap stale = {}
    <3> HIDE DEF here, reached
    <3> QED
      BY <1>9, <2>1
  <2>3. misuses' = {}
    <3> HIDE DEF reads
    <3> QED
      BY <1>1, <2>1, <2>2
  <2>4. ASSUME NEW l \in stale', l \in after PROVE FALSE
    <3>1. l \in Holders(mir) /\ l \notin reached
      <4>1. stale' \subseteq Holders(mir)
        BY <1>13, <1>7 DEF HoldersHold
      <4> QED
        BY <4>1, <2>4
    <3>2. l \notin assigned /\ (l \in stale \/ l \in broken)
      BY <1>1, <2>4
    <3>3. l \in here
      BY <1>8, <2>4, <3>1, <3>2
    <3>4. l \in broken
      BY <2>1, <3>2, <3>3
    <3>5. PICK loan \in held[l] : violated(loan)
      BY <3>4
    <3>6. loan \in LoansOf(mir) /\ loan \in replay[pc.blk][pc.line]
      BY <1>5, <1>16, <2>4, <3>1, <3>2, <3>4
    <3>7. AccessedIn(stmt) \subseteq AccessedPlaces(mir)
      BY <1>3, <1>4, AccessedHere DEF CurrentBlock
    <3>8. RValueConflicts(replay[pc.blk][pc.line], stmt.rvalue)
      <4>1. CASE Hits(RValueOperands(stmt.rvalue), loan)
        <5>1. PlacesOf(AllOperandsIn(RValueOperands(stmt.rvalue))) \subseteq AccessedPlaces(mir)
          BY <3>7 DEF AccessedIn
        <5> QED
          BY <5>1, <4>1, <1>2, <3>6, HitsConflict DEF RValueConflicts
      <4>2. CASE RefHits(stmt.rvalue, loan)
        <5>1. stmt.rvalue.kind = "Ref" => stmt.rvalue.place \in AccessedPlaces(mir)
          BY <3>7 DEF AccessedIn
        <5> QED
          BY <5>1, <4>2, <1>2, <3>6, RefHitsConflict
      <4> QED
        BY <3>5, <4>1, <4>2
    <3> QED
      BY <3>8, <1>5
  <2> QED
    BY <2>3, <2>4
<1> QED
  BY <1>1, <1>2, <1>12, <1>13, <1>14, <1>17, <1>18 DEF Inv

LEMMA TerminatorKeeps ==
  ASSUME Inv, Terminator
  PROVE  Inv'
<1> DEFINE term == CurrentBlock.term
           here == LiveAt(mir, live, pc.blk, pc.line)
           reached == ReachedLocals(mir)
           assigned == TermDefs(term)
           broken == {l \in Locals \ assigned : \E loan \in held[l] : Hits(term.ops, loan)}
           reads == TermUses(term)
<1>1. /\ misuses' = IF reads \cap stale = {} THEN misuses ELSE misuses \cup {pc}
      /\ held' = [l \in Locals |-> IF l \in assigned THEN {} ELSE held[l]]
      /\ stale' = (stale \cup broken) \ assigned
      /\ dead' = (dead \cup (Locals \ here)) \ assigned
      /\ mir' = mir /\ live' = live /\ diags' = diags /\ replay' = replay
      /\ pc' \in IF Succs(term) = {} THEN {Stopped} ELSE {At(b, 1) : b \in Succs(term)}
  BY DEF Terminator, ExecuteLine, LiveHere, LiveAt, CurrentBlock
<1>2. /\ mir \in Bodies /\ ResultsKept /\ InBody /\ HoldersHold /\ DeadStayDead
      /\ HeldAreEntering /\ NothingStaleIsLive /\ Running /\ AtTerminator
  BY DEF Inv, Terminator
<1>3. /\ reads \subseteq here /\ assigned \subseteq Locals
      /\ \A b \in Succs(term) :
           /\ b \in Blocks
           /\ 1 \in 1 .. (Len(mir.blocks[b].stmts) + 1)
           /\ LiveAt(mir, live, b, 1) \subseteq here \cup assigned
           /\ \A loan \in LoansOf(mir) : loan.holder \in LiveAt(mir, live, b, 1)
                                           => loan \in EnteringAt(mir, live, b, 1)
  BY <1>2, AroundTerminator
<1>4. pc' # Unchecked /\ (Running' => \E b \in Succs(term) : pc' = At(b, 1))
  <2>1. \A b : At(b, 1) # Unchecked
    BY LinesAreSites
  <2>2. Stopped # Unchecked
    BY DEF Stopped, Unchecked, At
  <2> QED
    BY <1>1, <2>1, <2>2 DEF Running
<1>5. /\ replay[pc.blk][pc.line] = LoansHeldBy(EnteringAt(mir, live, pc.blk, pc.line), here)
      /\ OperandsConflict(replay[pc.blk][pc.line], term.ops) => pc \in diags
  <2>1. pc.line = Len(mir.blocks[pc.blk].stmts) + 1 /\ Len(mir.blocks[pc.blk].stmts) \in Nat
    BY <1>2, BodiesAssumption, BlockTyped DEF AtTerminator, CurrentBlock, InBody
  <2>2. ~ (pc.line <= Len(mir.blocks[pc.blk].stmts))
    <3>1. \A n \in Nat : ~ (n + 1 <= n)
      OBVIOUS
    <3> QED
      BY <2>1, <3>1
  <2>3. ReportedAt(mir, replay, pc.blk, pc.line)
          = OperandsConflict(replay[pc.blk][pc.line], term.ops)
    BY <2>2 DEF ReportedAt, CurrentBlock
  <2> QED
    BY <1>2, <2>1, <2>3, ReplayIs
<1>6. /\ held \in [Locals -> SUBSET LoansOf(mir)] /\ stale \subseteq Holders(mir)
      /\ \A l \in Locals : \A loan \in held[l] : loan.holder = l
  BY <1>2 DEF HoldersHold
<1>7. ResultsKept' /\ Fresh'
  BY <1>1, <1>2, <1>4 DEF ResultsKept, Running, Fresh
<1>8. HoldersHold'
  <2>1. held' \in [Locals -> SUBSET LoansOf(mir)]
    <3> HIDE DEF assigned
    <3> QED
      BY <1>1, <1>6
  <2>2. \A l \in Locals : \A loan \in held'[l] : loan.holder = l
    <3> HIDE DEF assigned
    <3> QED
      BY <1>1, <1>6
  <2>3. broken \subseteq Holders(mir)
    <3> SUFFICES ASSUME NEW l \in Locals, NEW loan \in held[l] PROVE l \in Holders(mir)
      OBVIOUS
    <3> QED
      BY <1>6 DEF Holders
  <2>4. stale' \subseteq Holders(mir)
    <3> HIDE DEF broken, assigned
    <3> QED
      BY <1>1, <1>6, <2>3
  <2> QED
    BY <1>1, <2>1, <2>2, <2>4 DEF HoldersHold
\* What an accepted body holds when the terminator is done.
<1>9. ASSUME diags = {}, Holders(mir) \cap reached = {}
      PROVE  misuses' = {} /\ \A l \in here : l \in stale' => l \in assigned
  <2>1. misuses = {} /\ stale \cap here = {}
    BY <1>2, <1>9 DEF NothingStaleIsLive
  <2>2. misuses' = {}
    <3> HIDE DEF reads, here
    <3> QED
      BY <1>1, <1>3, <2>1
  <2>3. ASSUME NEW l \in here, l \in stale', l \notin assigned PROVE FALSE
    <3>1. l \in broken /\ l \in Locals
      BY <1>1, <2>1, <2>3
    <3>2. PICK loan \in held[l] : Hits(term.ops, loan)
      BY <3>1
    <3>3. loan \in LoansOf(mir) /\ loan.holder = l
      BY <1>6, <3>1
    <3>4. l \notin reached
      BY <1>9, <3>3 DEF Holders
    <3>5. loan \in EnteringAt(mir, live, pc.blk, pc.line)
      BY <1>2, <2>3, <3>4 DEF HeldAreEntering
    <3>6. loan \in replay[pc.blk][pc.line]
      BY <1>5, <2>3, <3>3, <3>5 DEF LoansHeldBy
    <3>7. PlacesOf(AllOperandsIn(term.ops)) \subseteq AccessedPlaces(mir)
      BY <1>2, AccessedHere DEF InBody, CurrentBlock
    <3>8. OperandsConflict(replay[pc.blk][pc.line], term.ops)
      <4> HIDE DEF term
      <4> QED
        BY <1>2, <3>2, <3>3, <3>6, <3>7, HitsConflict
    <3> QED
      BY <3>8, <1>5, <1>9
  <2> QED
    BY <2>2, <2>3
<1>10. CASE ~ Running'
  <2>1. NothingStaleIsLive'
    BY <1>1, <1>9, <1>10 DEF NothingStaleIsLive
  <2>2. InBody' /\ DeadStayDead' /\ HeldAreEntering'
    BY <1>10 DEF InBody, DeadStayDead, HeldAreEntering
  <2> QED
    BY <1>1, <1>2, <1>7, <1>8, <2>1, <2>2 DEF Inv
<1>11. CASE Running'
  <2>1. PICK b \in Succs(term) : pc' = At(b, 1)
    BY <1>4, <1>11
  <2>2. pc'.blk = b /\ pc'.line = 1
    BY <2>1 DEF At
  <2> DEFINE after == LiveAt(mir, live, b, 1)
  <2>3. /\ LiveAt(mir', live', pc'.blk, pc'.line) = after
        /\ EnteringAt(mir', live', pc'.blk, pc'.line) = EnteringAt(mir, live, b, 1)
        /\ ReachedLocals(mir') = reached /\ Holders(mir') = Holders(mir)
    BY <1>1, <2>2
  <2>4. /\ b \in Blocks /\ 1 \in 1 .. (Len(mir.blocks[b].stmts) + 1)
        /\ after \subseteq here \cup assigned
        /\ \A loan \in LoansOf(mir) : loan.holder \in after => loan \in EnteringAt(mir, live, b, 1)
    BY <1>3
  <2>5. InBody'
    BY <1>1, <2>1, <2>2, <2>4 DEF InBody
  <2>6. DeadStayDead'
    <3>1. dead \cap here \subseteq reached
      BY <1>2 DEF DeadStayDead
    <3>2. dead' \cap after \subseteq reached
      <4> HIDE DEF here, after, reached, assigned
      <4> QED
        BY <1>1, <2>4, <3>1
    <3> QED
      BY <2>3, <3>2 DEF DeadStayDead
  <2>7. HeldAreEntering'
    <3>1. ASSUME NEW l \in after \ reached, NEW loan \in held'[l]
          PROVE  loan \in EnteringAt(mir, live, b, 1)
      <4>1. l \in Locals
        <5>1. live.outs[b] \in SUBSET Locals /\ WellFormed(mir)
          BY <1>2, <2>4, BodiesAssumption, LivenessSolves DEF ResultsKept, Running
        <5>2. LiveLines(mir.blocks[b], live.outs[b], LiveInPerStmt(mir.blocks[b], live.outs[b]))
          BY <5>1, <2>4, LiveInPerStmtIs
        <5>3. after \subseteq Locals
          BY <5>2, <2>4 DEF LiveLines, LiveAt
        <5> QED
          BY <5>3, <3>1
      <4>2. loan \in held[l]
        BY <1>1, <3>1, <4>1
      <4>3. loan \in LoansOf(mir) /\ loan.holder = l
        BY <1>6, <4>1, <4>2
      <4> QED
        BY <2>4, <3>1, <4>3
    <3> QED
      BY <2>3, <3>1 DEF HeldAreEntering
  <2>8. NothingStaleIsLive'
    <3> SUFFICES ASSUME diags = {}, Holders(mir) \cap reached = {}
                 PROVE  misuses' = {} /\ stale' \cap after = {}
      BY <1>1, <2>3 DEF NothingStaleIsLive
    <3>1. misuses' = {} /\ \A l \in here : l \in stale' => l \in assigned
      BY <1>9
    <3> HIDE DEF here, after, assigned
    <3> QED
      BY <3>1, <1>1, <2>4
  <2> QED
    BY <1>1, <1>2, <1>7, <1>8, <2>5, <2>6, <2>7, <2>8 DEF Inv
<1> QED
  BY <1>10, <1>11

LEMMA StepInv == Inv /\ [Next]_vars => Inv'
<1> SUFFICES ASSUME Inv, [Next]_vars PROVE Inv'
  OBVIOUS
<1>1. CASE UNCHANGED vars
  BY <1>1 DEF vars, Inv, ResultsKept, InBody, HoldersHold, Fresh, DeadStayDead,
              HeldAreEntering, NothingStaleIsLive, Running
<1> QED
  BY <1>1, CheckKeeps, StatementKeeps, TerminatorKeeps DEF Next

\* The invariant holds throughout every execution of every body.
THEOREM Invariance == Spec => []Inv
BY InitInv, StepInv, PTL DEF Spec

-----------------------------------------------------------------------------
\* What the invariant says of a state.
LEMMA InvMeans ==
  ASSUME Inv
  PROVE  /\ AcceptedBodiesReadNoStaleReference
         /\ DeadLocalsAreNotRead
         /\ HeldLoansAreReplayed
<1>1. AcceptedBodiesReadNoStaleReference
  BY DEF Inv, NothingStaleIsLive, AcceptedBodiesReadNoStaleReference
<1>2. /\ mir \in Bodies /\ ResultsKept /\ InBody /\ HoldersHold /\ DeadStayDead /\ HeldAreEntering
      /\ LiveHere = LiveAt(mir, live, pc.blk, pc.line)
  BY DEF Inv, LiveHere, LiveAt, CurrentBlock
<1>3. DeadLocalsAreNotRead
  <2> SUFFICES ASSUME Running PROVE ReadsHere \cap dead \subseteq ReachedLocals(mir)
    BY DEF DeadLocalsAreNotRead
  <2>1. ReadsHere \subseteq LiveHere \cup ReachedLocals(mir)
    <3>1. CASE AtTerminator
      BY <1>2, <3>1, AroundTerminator DEF ReadsHere
    <3>2. CASE ~ AtTerminator
      <4> DEFINE stmt == CurrentBlock.stmts[pc.line]
      <4>1. RValueUses(stmt.rvalue) \subseteq LiveHere /\ ReachedThrough(stmt.dest) \subseteq ReachedLocals(mir)
        BY <1>2, <3>2, AroundStatement
      <4>2. DestReads(stmt.dest) \subseteq ReachedThrough(stmt.dest)
        BY DEF DestReads, ReachedThrough, PlaceUses
      <4>3. ReadsHere = RValueUses(stmt.rvalue) \cup DestReads(stmt.dest)
        BY <3>2 DEF ReadsHere
      <4> HIDE DEF stmt
      <4> QED
        BY <4>1, <4>2, <4>3
    <3> QED
      BY <3>1, <3>2
  <2> QED
    BY <1>2, <2>1 DEF DeadStayDead
<1>4. HeldLoansAreReplayed
  <2> SUFFICES ASSUME Running, NEW l \in LiveHere \ ReachedLocals(mir), NEW loan \in held[l],
                      ~ AtTerminator => CurrentBlock.stmts[pc.line].dest.local # l
               PROVE  loan \in replay[pc.blk][pc.line]
    BY DEF HeldLoansAreReplayed
  <2>1. loan \in EnteringAt(mir, live, pc.blk, pc.line)
    BY <1>2 DEF HeldAreEntering
  <2>2. l \in Locals
    <3>1. live.outs[pc.blk] \in SUBSET Locals /\ WellFormed(mir) /\ pc.blk \in Blocks
          /\ pc.line \in 1 .. (Len(mir.blocks[pc.blk].stmts) + 1)
      BY <1>2, BodiesAssumption, LivenessSolves DEF ResultsKept, Running, InBody
    <3>2. LiveLines(mir.blocks[pc.blk], live.outs[pc.blk],
                    LiveInPerStmt(mir.blocks[pc.blk], live.outs[pc.blk]))
      BY <3>1, LiveInPerStmtIs
    <3>3. LiveHere \subseteq Locals
      BY <3>1, <3>2 DEF LiveLines, LiveHere, CurrentBlock
    <3> QED
      BY <3>3
  <2>3. loan.holder = l
    BY <1>2, <2>2 DEF HoldersHold
  <2>4. CASE AtTerminator
    <3>1. replay[pc.blk][pc.line] = LoansHeldBy(EnteringAt(mir, live, pc.blk, pc.line), LiveHere)
      BY <1>2, <2>4, ReplayIs DEF AtTerminator, CurrentBlock
    <3> QED
      BY <2>1, <2>3, <3>1 DEF LoansHeldBy
  <2>5. CASE ~ AtTerminator
    <3>1. pc.line <= Len(CurrentBlock.stmts)
      <4>1. pc.line \in 1 .. Len(CurrentBlock.stmts) /\ Len(CurrentBlock.stmts) \in Nat
        BY <1>2, <2>5, BodiesAssumption, AroundStatement, BlockTyped DEF InBody, CurrentBlock
      <4>2. \A n \in Nat : \A i \in 1 .. n : i <= n
        OBVIOUS
      <4> QED
        BY <4>1, <4>2
    <3>2. replay[pc.blk][pc.line]
            = Retained(EnteringAt(mir, live, pc.blk, pc.line), CurrentBlock.stmts[pc.line], LiveHere)
      BY <1>2, <3>1, ReplayIs DEF CurrentBlock
    <3> QED
      BY <2>1, <2>3, <2>5, <3>2 DEF Retained
  <2> QED
    BY <2>4, <2>5
<1> QED
  BY <1>1, <1>3, <1>4

\* A body check_loans reports nothing on never reads a reference whose referent
\* was moved, mutably borrowed or read against it, on any path.
THEOREM BorrowCheckIsSound == Spec => []AcceptedBodiesReadNoStaleReference
BY Invariance, InvMeans, PTL

\* Liveness calls no local dead that an execution still reads.
THEOREM LivenessIsSound == Spec => []DeadLocalsAreNotRead
BY Invariance, InvMeans, PTL

\* No path loses a loan that is in force and still needed.
THEOREM NoLoanIsLost == Spec => []HeldLoansAreReplayed
BY Invariance, InvMeans, PTL
==============================================================================
