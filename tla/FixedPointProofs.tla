--------------------------- MODULE FixedPointProofs ---------------------------
(***************************************************************************)
(* For every graph, lattice of facts and transfer function: the worklist   *)
(* engine keeps its types, leaves a block only when the equations hold     *)
(* there, and never rises above a solution when the transfer is monotone.  *)
(* The order of the ranks plays no part in these arguments.  Then, that    *)
(* the depth-first search of RpoRanks yields a reverse postorder, whatever *)
(* the graph, and that the engine ends on the solution the analyses are    *)
(* stated with.                                                            *)
(***************************************************************************)
EXTENDS RpoRanks, DataflowProofs, SequenceTheorems

-----------------------------------------------------------------------------
\* The two joins of the engine stay inside the lattice.
LEMMA JoinsTyped ==
  ASSUME NEW p \in ProblemSpace, NEW b \in Blocks,
         NEW f \in [Blocks -> SUBSET Facts]
  PROVE  /\ FromPreds(p, f, b) \in SUBSET Facts
         /\ FromSuccs(p, f, b) \in SUBSET Facts
         /\ SeedAt(p, b) \in SUBSET Facts
         /\ p.graph.succs[b] \in SUBSET Blocks
         /\ Preds(p.graph, b) \in SUBSET Blocks
<1>1. p.graph \in Graphs /\ p.seed \in SUBSET Facts
  BY DEF ProblemSpace
<1>2. p.graph.succs[b] \in SUBSET Blocks
  BY <1>1 DEF Graphs
<1>3. Preds(p.graph, b) \in SUBSET Blocks
  BY DEF Preds
<1>4. \A a \in Blocks : f[a] \in SUBSET Facts
  OBVIOUS
<1>5. FromPreds(p, f, b) \in SUBSET Facts
  BY <1>3, <1>4 DEF FromPreds
<1>6. FromSuccs(p, f, b) \in SUBSET Facts
  BY <1>2, <1>4 DEF FromSuccs
<1>7. SeedAt(p, b) \in SUBSET Facts
  BY <1>1 DEF SeedAt
<1> QED
  BY <1>2, <1>3, <1>5, <1>6, <1>7

\* A transfer function maps facts to facts.
LEMMA TransferTyped ==
  ASSUME NEW p \in ProblemSpace, NEW b \in Blocks, NEW X \in SUBSET Facts
  PROVE  p.transfer[b][X] \in SUBSET Facts
BY DEF ProblemSpace

\* The call sets up its maps and the full worklist with the right types.
LEMMA InitTyped == Init => TypeOK
BY DEF Init, TypeOK

\* One turn of the loop, in either direction, keeps the types.
LEMMA StepTyped == TypeOK /\ [Next]_vars => TypeOK'
<1> SUFFICES ASSUME TypeOK, [Next]_vars PROVE TypeOK'
  OBVIOUS
<1> USE DEF TypeOK
<1>1. problem \in ProblemSpace
  BY ProblemsAssumption
<1>2. ASSUME NEW b \in Blocks, Forward(b) PROVE TypeOK'
  <2> DEFINE new_in == block_in[b] \cup FromPreds(problem, block_out, b) \cup SeedAt(problem, b)
             new_out == block_out[b] \cup problem.transfer[b][new_in]
  <2>1. new_in \in SUBSET Facts
    BY <1>1, JoinsTyped
  <2>2. new_out \in SUBSET Facts
    BY <1>1, <2>1, TransferTyped
  <2>3. block_in' = [block_in EXCEPT ![b] = new_in] /\ block_out' = [block_out EXCEPT ![b] = new_out]
    BY <1>2 DEF Forward, Inflow
  <2>4. block_in' \in [Blocks -> SUBSET Facts] /\ block_out' \in [Blocks -> SUBSET Facts]
    BY <2>1, <2>2, <2>3
  <2>5. worklist' \in SUBSET Blocks
    BY <1>1, <1>2, JoinsTyped DEF Forward, Woken
  <2> QED
    BY <1>2, <2>4, <2>5 DEF Forward
<1>3. ASSUME NEW b \in Blocks, Backward(b) PROVE TypeOK'
  <2> DEFINE new_out == block_out[b] \cup FromSuccs(problem, block_in, b)
             new_in == block_in[b] \cup problem.transfer[b][new_out] \cup SeedAt(problem, b)
  <2>1. new_out \in SUBSET Facts
    BY <1>1, JoinsTyped
  <2>2. new_in \in SUBSET Facts
    BY <1>1, <2>1, TransferTyped, JoinsTyped
  <2>3. block_in' = [block_in EXCEPT ![b] = new_in] /\ block_out' = [block_out EXCEPT ![b] = new_out]
    BY <1>3 DEF Backward
  <2>4. block_in' \in [Blocks -> SUBSET Facts] /\ block_out' \in [Blocks -> SUBSET Facts]
    BY <2>1, <2>2, <2>3
  <2>5. worklist' \in SUBSET Blocks
    BY <1>1, <1>3, JoinsTyped DEF Backward, Woken
  <2> QED
    BY <1>3, <2>4, <2>5 DEF Backward
<1>4. CASE RankBlocks
  BY <1>4 DEF RankBlocks, RankOrders
<1>5. CASE UNCHANGED vars
  BY <1>5 DEF vars
<1> QED
  BY <1>2, <1>3, <1>4, <1>5 DEF Next, Iterate

\* The engine's variables keep their types: every value it reads from block_in
\* and block_out is a lattice value of the right domain.
THEOREM TypeCorrect == Spec => []TypeOK
BY InitTyped, StepTyped, PTL DEF Spec

-----------------------------------------------------------------------------
\* One forward step keeps every block off the worklist solved: the popped
\* block because it was just recomputed, its successors because they are woken
\* when its block_out grew.
LEMMA ForwardSettles ==
  ASSUME TypeOK, SettledOffWorklist, NEW b \in Blocks, Forward(b)
  PROVE  SettledOffWorklist'
<1> DEFINE new_in == block_in[b] \cup FromPreds(problem, block_out, b) \cup SeedAt(problem, b)
           new_out == block_out[b] \cup problem.transfer[b][new_in]
<1>1. problem \in ProblemSpace /\ problem' = problem /\ problem.direction = "Forward"
  BY ProblemsAssumption DEF TypeOK, Forward
<1>2. block_in \in [Blocks -> SUBSET Facts] /\ block_out \in [Blocks -> SUBSET Facts]
  BY DEF TypeOK
<1>3. block_in' = [block_in EXCEPT ![b] = new_in] /\ block_out' = [block_out EXCEPT ![b] = new_out]
  BY DEF Forward, Inflow
<1>4. worklist' = (worklist \ {b}) \cup (IF new_out # block_out[b] THEN problem.graph.succs[b] ELSE {})
  BY DEF Forward, Inflow, Woken
<1> SUFFICES ASSUME NEW c \in Blocks, c \notin worklist'
             PROVE  SolvedAt(problem, block_in', block_out', c)
  BY <1>1 DEF SettledOffWorklist
<1>5. c \notin problem.graph.succs[b] \/ block_out' = block_out
  BY <1>2, <1>3, <1>4
<1>6. FromPreds(problem, block_out', c) = FromPreds(problem, block_out, c)
  <2>1. \A a \in Preds(problem.graph, c) : block_out'[a] = block_out[a]
    BY <1>2, <1>3, <1>5 DEF Preds
  <2> QED
    BY <2>1 DEF FromPreds
<1>7. CASE c = b
  <2>1. block_in'[c] = new_in /\ block_out'[c] = new_out
    BY <1>2, <1>3, <1>7
  <2>2. FromPreds(problem, block_out', c) \cup SeedAt(problem, c) \subseteq block_in'[c]
    BY <1>6, <1>7, <2>1
  <2>3. problem.transfer[c][block_in'[c]] \subseteq block_out'[c]
    BY <1>7, <2>1
  <2> QED
    BY <1>1, <2>2, <2>3 DEF SolvedAt
<1>8. CASE c # b
  <2>1. c \notin worklist
    BY <1>4, <1>8
  <2>2. SolvedAt(problem, block_in, block_out, c)
    BY <2>1 DEF SettledOffWorklist
  <2>3. block_in'[c] = block_in[c] /\ block_out'[c] = block_out[c]
    BY <1>2, <1>3, <1>8
  <2> QED
    BY <1>1, <1>6, <2>2, <2>3 DEF SolvedAt
<1> QED
  BY <1>7, <1>8

\* The same for a backward step, with predecessors and successors exchanged.
LEMMA BackwardSettles ==
  ASSUME TypeOK, SettledOffWorklist, NEW b \in Blocks, Backward(b)
  PROVE  SettledOffWorklist'
<1> DEFINE new_out == block_out[b] \cup FromSuccs(problem, block_in, b)
           new_in == block_in[b] \cup problem.transfer[b][new_out] \cup SeedAt(problem, b)
<1>1. problem \in ProblemSpace /\ problem' = problem /\ problem.direction # "Forward"
  BY ProblemsAssumption DEF TypeOK, Backward
<1>2. block_in \in [Blocks -> SUBSET Facts] /\ block_out \in [Blocks -> SUBSET Facts]
  BY DEF TypeOK
<1>3. block_in' = [block_in EXCEPT ![b] = new_in] /\ block_out' = [block_out EXCEPT ![b] = new_out]
  BY DEF Backward
<1>4. worklist' = (worklist \ {b}) \cup (IF new_in # block_in[b] THEN Preds(problem.graph, b) ELSE {})
  BY DEF Backward, Woken
<1> SUFFICES ASSUME NEW c \in Blocks, c \notin worklist'
             PROVE  SolvedAt(problem, block_in', block_out', c)
  BY <1>1 DEF SettledOffWorklist
<1>5. b \notin problem.graph.succs[c] \/ block_in' = block_in
  BY <1>2, <1>3, <1>4 DEF Preds
<1>6. FromSuccs(problem, block_in', c) = FromSuccs(problem, block_in, c)
  <2>1. \A a \in problem.graph.succs[c] : block_in'[a] = block_in[a]
    <3>1. problem.graph.succs[c] \in SUBSET Blocks
      BY <1>1, <1>2, JoinsTyped
    <3> QED
      BY <1>2, <1>3, <1>5, <3>1
  <2> QED
    BY <2>1 DEF FromSuccs
<1>7. CASE c = b
  <2>1. block_in'[c] = new_in /\ block_out'[c] = new_out
    BY <1>2, <1>3, <1>7
  <2>2. FromSuccs(problem, block_in', c) \subseteq block_out'[c]
    BY <1>6, <1>7, <2>1
  <2>3. problem.transfer[c][block_out'[c]] \cup SeedAt(problem, c) \subseteq block_in'[c]
    BY <1>7, <2>1
  <2> QED
    BY <1>1, <2>2, <2>3 DEF SolvedAt
<1>8. CASE c # b
  <2>1. c \notin worklist
    BY <1>4, <1>8
  <2>2. SolvedAt(problem, block_in, block_out, c)
    BY <2>1 DEF SettledOffWorklist
  <2>3. block_in'[c] = block_in[c] /\ block_out'[c] = block_out[c]
    BY <1>2, <1>3, <1>8
  <2> QED
    BY <1>1, <1>6, <2>2, <2>3 DEF SolvedAt
<1> QED
  BY <1>7, <1>8

LEMMA StepSettles == TypeOK /\ SettledOffWorklist /\ [Next]_vars => SettledOffWorklist'
<1> SUFFICES ASSUME TypeOK, SettledOffWorklist, [Next]_vars
             PROVE  SettledOffWorklist'
  OBVIOUS
<1>1. ASSUME NEW b \in Blocks, Forward(b) PROVE SettledOffWorklist'
  BY <1>1, ForwardSettles
<1>2. ASSUME NEW b \in Blocks, Backward(b) PROVE SettledOffWorklist'
  BY <1>2, BackwardSettles
<1>3. CASE RankBlocks \/ UNCHANGED vars
  BY <1>3 DEF RankBlocks, vars, SettledOffWorklist, SolvedAt, FromPreds, FromSuccs, SeedAt
<1> QED
  BY <1>1, <1>2, <1>3 DEF Next, Iterate

\* No block is forgotten: whatever is not waiting in the worklist satisfies
\* its equations, for every graph and every transfer function.
THEOREM Settled == Spec => []SettledOffWorklist
<1>1. Init => SettledOffWorklist
  BY DEF Init, SettledOffWorklist
<1> QED
  BY <1>1, StepSettles, TypeCorrect, PTL DEF Spec

\* When the loop breaks, the result is a solution at every block.
THEOREM EndsSolved == Spec => []SolvedAtEnd
<1>1. SettledOffWorklist => SolvedAtEnd
  BY DEF SettledOffWorklist, SolvedAtEnd
<1> QED
  BY <1>1, Settled, PTL

-----------------------------------------------------------------------------
\* The engine's state is below one given solution.
Below(s) ==
  \A b \in Blocks : block_in[b] \subseteq s.ins[b] /\ block_out[b] \subseteq s.outs[b]

\* The joins are monotone in the values they join.
LEMMA JoinsMonotone ==
  ASSUME NEW p \in ProblemSpace, NEW b \in Blocks,
         NEW f \in [Blocks -> SUBSET Facts], NEW g \in [Blocks -> SUBSET Facts],
         \A a \in Blocks : f[a] \subseteq g[a]
  PROVE  /\ FromPreds(p, f, b) \subseteq FromPreds(p, g, b)
         /\ FromSuccs(p, f, b) \subseteq FromSuccs(p, g, b)
<1>1. p.graph.succs[b] \in SUBSET Blocks /\ Preds(p.graph, b) \in SUBSET Blocks
  BY JoinsTyped
<1> QED
  BY <1>1 DEF FromPreds, FromSuccs

\* A step from below a solution stays below it.
LEMMA StepBelow ==
  ASSUME TypeOK, Monotone(problem), NEW s \in Solutions(problem), Below(s),
         NEW b \in Blocks, Forward(b) \/ Backward(b)
  PROVE  Below(s)'
<1>1. problem \in ProblemSpace
  BY ProblemsAssumption DEF TypeOK
<1>2. /\ block_in \in [Blocks -> SUBSET Facts] /\ block_out \in [Blocks -> SUBSET Facts]
      /\ s.ins \in [Blocks -> SUBSET Facts] /\ s.outs \in [Blocks -> SUBSET Facts]
      /\ SolvedAt(problem, s.ins, s.outs, b)
  BY DEF TypeOK, Solutions
<1>3. /\ FromPreds(problem, block_out, b) \subseteq FromPreds(problem, s.outs, b)
      /\ FromSuccs(problem, block_in, b) \subseteq FromSuccs(problem, s.ins, b)
  BY <1>1, <1>2, JoinsMonotone DEF Below
<1>4. CASE Forward(b)
  <2> DEFINE new_in == block_in[b] \cup FromPreds(problem, block_out, b) \cup SeedAt(problem, b)
             new_out == block_out[b] \cup problem.transfer[b][new_in]
  <2>1. new_in \in SUBSET Facts
    BY <1>1, <1>2, JoinsTyped
  <2>2. /\ FromPreds(problem, s.outs, b) \cup SeedAt(problem, b) \subseteq s.ins[b]
        /\ problem.transfer[b][s.ins[b]] \subseteq s.outs[b]
    BY <1>2, <1>4 DEF SolvedAt, Forward
  <2>3. new_in \subseteq s.ins[b]
    BY <1>3, <2>2 DEF Below
  <2>4. problem.transfer[b][new_in] \subseteq problem.transfer[b][s.ins[b]]
    BY <1>2, <2>1, <2>3 DEF Monotone
  <2>5. new_out \subseteq s.outs[b]
    BY <2>2, <2>4 DEF Below
  <2>6. block_in' = [block_in EXCEPT ![b] = new_in] /\ block_out' = [block_out EXCEPT ![b] = new_out]
    BY <1>4 DEF Forward, Inflow
  <2> HIDE DEF new_in, new_out
  <2> QED
    BY <1>2, <2>3, <2>5, <2>6 DEF Below
<1>5. CASE Backward(b)
  <2> DEFINE new_out == block_out[b] \cup FromSuccs(problem, block_in, b)
             new_in == block_in[b] \cup problem.transfer[b][new_out] \cup SeedAt(problem, b)
  <2>1. new_out \in SUBSET Facts
    BY <1>1, <1>2, JoinsTyped
  <2>2. /\ FromSuccs(problem, s.ins, b) \subseteq s.outs[b]
        /\ problem.transfer[b][s.outs[b]] \cup SeedAt(problem, b) \subseteq s.ins[b]
    BY <1>2, <1>5 DEF SolvedAt, Backward
  <2>3. new_out \subseteq s.outs[b]
    BY <1>3, <2>2 DEF Below
  <2>4. problem.transfer[b][new_out] \subseteq problem.transfer[b][s.outs[b]]
    BY <1>2, <2>1, <2>3 DEF Monotone
  <2>5. new_in \subseteq s.ins[b]
    BY <2>2, <2>4 DEF Below
  <2>6. block_in' = [block_in EXCEPT ![b] = new_in] /\ block_out' = [block_out EXCEPT ![b] = new_out]
    BY <1>5 DEF Backward
  <2> HIDE DEF new_in, new_out
  <2> QED
    BY <1>2, <2>3, <2>5, <2>6 DEF Below
<1> QED
  BY <1>4, <1>5

LEMMA StepStaysBelow == TypeOK /\ BelowEverySolution /\ [Next]_vars => BelowEverySolution'
<1> SUFFICES ASSUME TypeOK, BelowEverySolution, [Next]_vars,
                    Monotone(problem'), NEW s \in Solutions(problem')
             PROVE  Below(s)'
  BY DEF BelowEverySolution, Below, Monotone
<1>1. problem' = problem
  BY DEF Next, Iterate, RankBlocks, Forward, Backward, vars
<1>2. Monotone(problem) /\ s \in Solutions(problem)
  BY <1>1
<1>3. Below(s)
  BY <1>2 DEF BelowEverySolution, Below
<1>4. ASSUME NEW b \in Blocks, Forward(b) \/ Backward(b) PROVE Below(s)'
  BY <1>2, <1>3, <1>4, StepBelow
<1>5. CASE RankBlocks \/ UNCHANGED vars
  BY <1>3, <1>5 DEF RankBlocks, vars, Below
<1> QED
  BY <1>4, <1>5 DEF Next, Iterate

\* With a monotone transfer the engine is below every solution of the
\* equations at all times, so the solution it ends on is the least one.
THEOREM Least == Spec => []BelowEverySolution
<1>1. Init => BelowEverySolution
  BY DEF Init, BelowEverySolution
<1> QED
  BY <1>1, StepStaysBelow, TypeCorrect, PTL DEF Spec

-----------------------------------------------------------------------------
\* The depth-first search.  SearchInv is its inductive invariant: the stack is a
\* trail of blocks that wait for their descendants, with the successors to try
\* between them; what is in the postorder only has successors that were met.
Entries == [blk : Blocks, processed : BOOLEAN]
Height == Len(stack)

\* Where the search stands.  A block whose entry is processed is on the trail:
\* it waits for its descendants.
TrailOK ==
  /\ \A i \in 1 .. Height : stack[i].processed =>
       stack[i].blk \in visited /\ \A k \in 1 .. Len(postorder) : postorder[k] # stack[i].blk
  /\ \A i, j \in 1 .. Height :
       stack[i].processed /\ stack[j].processed /\ stack[i].blk = stack[j].blk => i = j
  /\ \A i, j \in 1 .. Height :
       i < j /\ stack[i].processed => stack[j].blk \in Reachable(problem.graph, stack[i].blk)
  /\ \A i \in 1 .. Height : stack[i].processed =>
       \A s \in problem.graph.succs[stack[i].blk] :
         s \in visited \/ \E j \in 1 .. Height : i < j /\ stack[j].blk = s

\* What is in the postorder is done with, once and for all.
DoneOK ==
  /\ \A k \in 1 .. Len(postorder) : postorder[k] \in visited
  /\ \A k, m \in 1 .. Len(postorder) : postorder[k] = postorder[m] => k = m
  /\ \A b \in visited :
       \/ \E k \in 1 .. Len(postorder) : postorder[k] = b
       \/ \E i \in 1 .. Height : stack[i].processed /\ stack[i].blk = b
  /\ \A k \in 1 .. Len(postorder) : \A s \in problem.graph.succs[postorder[k]] :
       /\ s \in visited
       /\ \/ \E m \in 1 .. Len(postorder) : m < k /\ postorder[m] = s
          \/ postorder[k] \in Reachable(problem.graph, s)

\* The search begins and ends with the entry.
FromEntry ==
  /\ \A b \in visited : b \in Reachable(problem.graph, problem.graph.entry)
  /\ \A i \in 1 .. Height : stack[i].blk \in Reachable(problem.graph, problem.graph.entry)
  /\ stack # <<>> =>
       /\ stack[1].blk = problem.graph.entry
       /\ ~ stack[1].processed => Height = 1 /\ visited = {}
  /\ stack = <<>> => postorder # <<>> /\ postorder[Len(postorder)] = problem.graph.entry

SearchTyped ==
  /\ problem \in Problems
  /\ stack \in Seq(Entries)
  /\ visited \in SUBSET Blocks
  /\ postorder \in Seq(Blocks)

SearchInv == SearchTyped /\ TrailOK /\ DoneOK /\ FromEntry

-----------------------------------------------------------------------------
LEMMA GraphTyped ==
  ASSUME problem \in Problems
  PROVE  /\ problem.graph.entry \in Blocks
         /\ \A b \in Blocks : problem.graph.succs[b] \in SUBSET Blocks
BY ProblemsAssumption DEF ProblemSpace, Graphs

\* Reachability is the reflexive and transitive closure of the edges.
LEMMA ReachTyped ==
  ASSUME NEW g, NEW a, NEW b \in Reachable(g, a)
  PROVE  b \in Blocks
BY DEF Reachable

LEMMA ReachSelf ==
  ASSUME NEW g, NEW a \in Blocks
  PROVE  a \in Reachable(g, a)
BY DEF Reachable

LEMMA ReachStep ==
  ASSUME NEW g, NEW a \in Blocks, NEW b \in Reachable(g, a), NEW s \in Blocks, s \in g.succs[b]
  PROVE  s \in Reachable(g, a)
<1> SUFFICES ASSUME NEW S \in SUBSET Blocks, a \in S, Closed(g, S)
             PROVE  s \in S
  BY DEF Reachable
<1>1. b \in S
  BY DEF Reachable
<1> QED
  BY <1>1 DEF Closed

LEMMA ReachTrans ==
  ASSUME NEW g, NEW a \in Blocks, NEW b \in Reachable(g, a), NEW c \in Reachable(g, b)
  PROVE  c \in Reachable(g, a)
BY DEF Reachable

-----------------------------------------------------------------------------
LEMMA FrontProps ==
  ASSUME NEW S, NEW s \in Seq(S), s # <<>>
  PROVE  /\ Front(s) \in Seq(S) /\ Len(Front(s)) = Len(s) - 1 /\ Len(s) \in Nat \ {0}
         /\ \A i \in 1 .. Len(s) - 1 : Front(s)[i] = s[i]
<1> DEFINE n == Len(s) - 1
           f == SubSeq(s, 1, n)
<1>1. n \in Nat /\ Len(s) = n + 1 /\ \A i \in 1 .. n : s[i] \in S
  BY EmptySeq
<1>2. /\ f \in Seq(S) /\ Len(f) = IF 1 <= n THEN n - 1 + 1 ELSE 0
      /\ \A i \in 1 .. n - 1 + 1 : f[i] = s[1 + i - 1]
  BY <1>1, SubSeqProperties
<1>3. Front(s) = f
  BY DEF Front
<1> HIDE DEF n, f
<1>4. Len(f) = n /\ \A i \in 1 .. n : f[i] = s[i]
  BY <1>1, <1>2
<1>5. n = Len(s) - 1 /\ Len(s) \in Nat \ {0}
  BY <1>1
<1> QED
  BY <1>2, <1>3, <1>4, <1>5

\* A sequence without repetitions of all the elements of a finite set.
LEMMA ListsAll ==
  ASSUME NEW S, IsFiniteSet(S), NEW f \in SetToSeqs(S)
  PROVE  /\ f \in Seq(S) /\ Len(f) = Cardinality(S) /\ Cardinality(S) \in Nat
         /\ \A i, j \in 1 .. Len(f) : f[i] = f[j] => i = j
         /\ \A x \in S : \E i \in 1 .. Len(f) : f[i] = x
<1> DEFINE n == Cardinality(S)
<1>1. n \in Nat
  BY FS_CardinalityType
<1>2. f \in [1 .. n -> S] /\ \A i, j \in 1 .. n : i # j => f[i] # f[j]
  BY DEF SetToSeqs
<1>3. f \in Seq(S) /\ Len(f) = n
  BY <1>1, <1>2
<1>4. f \in Injection(1 .. n, S)
  BY <1>2 DEF Injection, IsInjective
<1>5. Cardinality(1 .. n) = n
  BY <1>1, FS_Interval
<1>6. f \in Surjection(1 .. n, S)
  BY <1>4, <1>5, FS_Injection
<1>7. \A x \in S : \E i \in 1 .. n : f[i] = x
  BY <1>6 DEF Surjection
<1> QED
  BY <1>1, <1>2, <1>3, <1>7

LEMMA SearchBegins == EngineInit => SearchInv
<1> SUFFICES ASSUME EngineInit PROVE SearchInv
  OBVIOUS
<1>1. problem \in Problems /\ problem.graph.entry \in Blocks
  BY GraphTyped DEF EngineInit, Init
<1>2. /\ stack \in Seq(Entries) /\ Len(stack) = 1 /\ ~ stack[1].processed /\ stack # <<>>
      /\ stack[1].blk = problem.graph.entry
  BY <1>1 DEF EngineInit, Entry, Entries
<1>3. visited = {} /\ postorder \in Seq(Blocks) /\ Len(postorder) = 0
  BY EmptySeq DEF EngineInit
<1>4. SearchTyped /\ TrailOK /\ DoneOK
  BY <1>1, <1>2, <1>3 DEF SearchTyped, TrailOK, DoneOK, Height
<1>5. problem.graph.entry \in Reachable(problem.graph, problem.graph.entry)
  BY <1>1, ReachSelf
<1>6. FromEntry
  BY <1>2, <1>3, <1>5 DEF FromEntry, Height
<1> QED
  BY <1>4, <1>6 DEF SearchInv

\* The stack without its top.
LEMMA Popped ==
  ASSUME SearchInv, stack # <<>>, stack' = Front(stack)
  PROVE  /\ stack' \in Seq(Entries) /\ Height \in Nat \ {0} /\ Height' = Height - 1
         /\ \A i \in 1 .. Height' : i \in 1 .. Height /\ i < Height /\ stack'[i] = stack[i]
         /\ Height \in 1 .. Height /\ Top = stack[Height] /\ Top \in Entries
         /\ stack' = <<>> <=> Height = 1
<1>1. /\ Front(stack) \in Seq(Entries) /\ Len(Front(stack)) = Len(stack) - 1
      /\ Len(stack) \in Nat \ {0}
      /\ \A i \in 1 .. Len(stack) - 1 : Front(stack)[i] = stack[i]
  BY FrontProps DEF SearchInv, SearchTyped
<1>2. Height \in 1 .. Height /\ Top = stack[Height] /\ Top \in Entries
  BY <1>1 DEF Height, Top, SearchInv, SearchTyped
<1>3. stack' = <<>> <=> Height = 1
  BY <1>1, EmptySeq DEF Height
<1> QED
  BY <1>1, <1>2, <1>3 DEF Height

LEMMA SkipKeeps ==
  ASSUME SearchInv, Skip
  PROVE  SearchInv'
<1> DEFINE n == Height
<1>1. /\ stack' \in Seq(Entries) /\ n \in Nat \ {0} /\ Height' = n - 1
      /\ \A i \in 1 .. Height' : i \in 1 .. n /\ i < n /\ stack'[i] = stack[i]
      /\ n \in 1 .. n /\ Top = stack[n] /\ Top \in Entries
      /\ stack' = <<>> <=> n = 1
  BY Popped DEF Skip
<1>2. /\ ~ stack[n].processed /\ stack[n].blk \in visited
      /\ problem' = problem /\ visited' = visited /\ postorder' = postorder
  BY <1>1 DEF Skip, vars
<1>3. /\ stack[1].blk = problem.graph.entry
      /\ ~ stack[1].processed => n = 1 /\ visited = {}
  BY DEF Skip, SearchInv, FromEntry
<1>4. n # 1
  BY <1>2, <1>3
<1> HIDE DEF n
<1>5. SearchTyped'
  BY <1>1, <1>2 DEF SearchInv, SearchTyped
<1>6. TrailOK'
  <2>1. \A i \in 1 .. Height' : stack'[i].processed =>
          \A s \in problem'.graph.succs[stack'[i].blk] :
            s \in visited' \/ \E j \in 1 .. Height' : i < j /\ stack'[j].blk = s
    <3>1. \A i \in 1 .. n - 1 : stack[i].processed =>
            \A s \in problem.graph.succs[stack[i].blk] :
              s \in visited \/ \E j \in 1 .. n - 1 : i < j /\ stack[j].blk = s
      BY <1>1, <1>2 DEF SearchInv, TrailOK, n
    <3> QED
      BY <1>1, <1>2, <3>1
  <2>2. \A i \in 1 .. Height' : stack'[i].processed =>
          /\ stack'[i].blk \in visited'
          /\ \A k \in 1 .. Len(postorder') : postorder'[k] # stack'[i].blk
    BY <1>1, <1>2 DEF SearchInv, TrailOK, n
  <2>3. \A i, j \in 1 .. Height' :
          stack'[i].processed /\ stack'[j].processed /\ stack'[i].blk = stack'[j].blk => i = j
    BY <1>1, <1>2 DEF SearchInv, TrailOK, n
  <2>4. \A i, j \in 1 .. Height' :
          i < j /\ stack'[i].processed => stack'[j].blk \in Reachable(problem'.graph, stack'[i].blk)
    BY <1>1, <1>2 DEF SearchInv, TrailOK, n
  <2> QED
    BY <2>1, <2>2, <2>3, <2>4 DEF TrailOK
<1>7. DoneOK'
  <2>1. \A b \in visited :
          \/ \E k \in 1 .. Len(postorder) : postorder[k] = b
          \/ \E i \in 1 .. n - 1 : stack[i].processed /\ stack[i].blk = b
    BY <1>1, <1>2 DEF SearchInv, DoneOK, n
  <2> QED
    BY <1>1, <1>2, <2>1 DEF SearchInv, DoneOK, n
<1>8. FromEntry'
  <2>1. 1 \in 1 .. Height' /\ stack'[1] = stack[1] /\ stack' # <<>>
    BY <1>1, <1>4
  <2>2. ~ stack'[1].processed => Height' = 1 /\ visited' = {}
    BY <1>2, <1>3, <1>4, <2>1
  <2> QED
    BY <1>1, <1>2, <1>3, <2>1, <2>2 DEF SearchInv, FromEntry, n
<1> QED
  BY <1>5, <1>6, <1>7, <1>8 DEF SearchInv

LEMMA FinishKeeps ==
  ASSUME SearchInv, Finish
  PROVE  SearchInv'
<1> DEFINE n == Height
           b == stack[n].blk
           p == Len(postorder)
           g == problem.graph
<1>1. /\ stack' \in Seq(Entries) /\ n \in Nat \ {0} /\ Height' = n - 1
      /\ \A i \in 1 .. Height' : i \in 1 .. n /\ i < n /\ stack'[i] = stack[i]
      /\ n \in 1 .. n /\ Top = stack[n] /\ Top \in Entries
      /\ stack' = <<>> <=> n = 1
  BY Popped DEF Finish
<1>2. stack[n].processed /\ b \in Blocks /\ problem' = problem /\ visited' = visited
  BY <1>1 DEF Finish, vars, Entries
<1>3. /\ postorder' \in Seq(Blocks) /\ Len(postorder') = p + 1 /\ p \in Nat
      /\ \A k \in 1 .. p : postorder'[k] = postorder[k]
      /\ postorder'[p + 1] = b /\ postorder' # <<>>
  <2>1. postorder \in Seq(Blocks) /\ postorder' = Append(postorder, b)
    BY <1>1 DEF Finish, SearchInv, SearchTyped
  <2> HIDE DEF b
  <2> QED
    BY <1>2, <2>1, AppendProperties, LenProperties
<1>4. /\ b \in visited
      /\ \A k \in 1 .. p : postorder[k] # b /\ postorder[k] \in visited
  BY <1>1, <1>2 DEF SearchInv, TrailOK, DoneOK
<1>5. \A s \in g.succs[b] :
        /\ s \in visited
        /\ (\E m \in 1 .. p : postorder[m] = s) \/ b \in Reachable(g, s)
  <2>1. SUFFICES ASSUME NEW s \in g.succs[b]
                 PROVE  /\ s \in visited
                        /\ (\E m \in 1 .. p : postorder[m] = s) \/ b \in Reachable(g, s)
    OBVIOUS
  <2>2. s \in visited
    BY <1>1, <1>2 DEF SearchInv, TrailOK
  <2>3. \/ \E k \in 1 .. p : postorder[k] = s
        \/ \E i \in 1 .. n : stack[i].processed /\ stack[i].blk = s
    BY <2>2 DEF SearchInv, DoneOK
  <2>4. ASSUME NEW i \in 1 .. n, stack[i].processed, stack[i].blk = s
        PROVE  b \in Reachable(g, s)
    <3>1. CASE i = n
      BY <1>2, <2>4, <3>1, ReachSelf
    <3>2. CASE i # n
      <4>1. i < n
        BY <1>1, <3>2
      <4> QED
        BY <1>1, <2>4, <4>1 DEF SearchInv, TrailOK
    <3> QED
      BY <3>1, <3>2
  <2> QED
    BY <2>2, <2>3, <2>4
<1>6. n = Height /\ b = stack[n].blk /\ p = Len(postorder) /\ g = problem.graph
  OBVIOUS
<1> HIDE DEF n, b, p, g
<1>7. SearchTyped'
  BY <1>1, <1>2, <1>3 DEF SearchInv, SearchTyped
<1>8. TrailOK'
  <2>1. \A i \in 1 .. n - 1 : stack[i].processed => stack[i].blk # b
    BY <1>1, <1>2, <1>6 DEF SearchInv, TrailOK
  <2>2. \A i \in 1 .. n - 1 : stack[i].processed =>
          \A s \in problem.graph.succs[stack[i].blk] :
            s \in visited \/ \E j \in 1 .. n - 1 : i < j /\ stack[j].blk = s
    BY <1>1, <1>4, <1>6 DEF SearchInv, TrailOK
  <2>3. \A i \in 1 .. n - 1 : stack[i].processed =>
          stack[i].blk \in visited /\ \A k \in 1 .. p : postorder[k] # stack[i].blk
    BY <1>1, <1>6 DEF SearchInv, TrailOK
  <2>4. \A i \in 1 .. n - 1 : stack[i].processed =>
          \A k \in 1 .. p + 1 : postorder'[k] # stack[i].blk
    BY <1>3, <2>1, <2>3
  <2>5. \A i, j \in 1 .. n - 1 :
          /\ stack[i].processed /\ stack[j].processed /\ stack[i].blk = stack[j].blk => i = j
          /\ i < j /\ stack[i].processed => stack[j].blk \in Reachable(g, stack[i].blk)
    BY <1>1, <1>6 DEF SearchInv, TrailOK
  <2>6. \A i \in 1 .. Height' : stack'[i].processed =>
          stack'[i].blk \in visited' /\ \A k \in 1 .. Len(postorder') : postorder'[k] # stack'[i].blk
    BY <1>1, <1>2, <1>3, <2>3, <2>4
  <2>7. \A i, j \in 1 .. Height' :
          /\ stack'[i].processed /\ stack'[j].processed /\ stack'[i].blk = stack'[j].blk => i = j
          /\ i < j /\ stack'[i].processed => stack'[j].blk \in Reachable(problem'.graph, stack'[i].blk)
    BY <1>1, <1>2, <1>6, <2>5
  <2>8. \A i \in 1 .. Height' : stack'[i].processed =>
          \A s \in problem'.graph.succs[stack'[i].blk] :
            s \in visited' \/ \E j \in 1 .. Height' : i < j /\ stack'[j].blk = s
    BY <1>1, <1>2, <2>2
  <2> QED
    BY <2>6, <2>7, <2>8 DEF TrailOK
<1>9. DoneOK'
  <2>1. \A k \in 1 .. p + 1 : k \in 1 .. p \/ k = p + 1
    BY <1>3
  <2>2. \A k \in 1 .. p + 1 : postorder'[k] \in visited
    BY <1>3, <1>4, <2>1
  <2>3. \A k, m \in 1 .. p + 1 : postorder'[k] = postorder'[m] => k = m
    BY <1>3, <1>4, <1>6, <2>1 DEF SearchInv, DoneOK
  <2>4. \A c \in visited :
          \/ \E k \in 1 .. p + 1 : postorder'[k] = c
          \/ \E i \in 1 .. n - 1 : stack[i].processed /\ stack[i].blk = c
    <3>1. SUFFICES ASSUME NEW c \in visited
                   PROVE  \/ \E k \in 1 .. p + 1 : postorder'[k] = c
                          \/ \E i \in 1 .. n - 1 : stack[i].processed /\ stack[i].blk = c
      OBVIOUS
    <3>2. \/ \E k \in 1 .. p : postorder[k] = c
          \/ \E i \in 1 .. n : stack[i].processed /\ stack[i].blk = c
      BY <1>6 DEF SearchInv, DoneOK
    <3>3. p + 1 \in 1 .. p + 1 /\ \A k \in 1 .. p : k \in 1 .. p + 1
      BY <1>3
    <3>4. \A i \in 1 .. n : i \in 1 .. n - 1 \/ i = n
      BY <1>1
    <3> QED
      BY <1>3, <1>6, <3>2, <3>3, <3>4
  <2>5. \A k \in 1 .. p + 1 : \A s \in g.succs[postorder'[k]] :
          /\ s \in visited
          /\ \/ \E m \in 1 .. p + 1 : m < k /\ postorder'[m] = s
             \/ postorder'[k] \in Reachable(g, s)
    <3>1. ASSUME NEW k \in 1 .. p, NEW s \in g.succs[postorder[k]]
          PROVE  /\ s \in visited
                 /\ \/ \E m \in 1 .. p : m < k /\ postorder[m] = s
                    \/ postorder[k] \in Reachable(g, s)
      BY <1>6 DEF SearchInv, DoneOK
    <3>2. \A m \in 1 .. p : m \in 1 .. p + 1 /\ m < p + 1
      BY <1>3
    <3> QED
      BY <1>3, <1>5, <2>1, <3>1, <3>2
  <2> QED
    BY <1>1, <1>2, <1>3, <1>6, <2>2, <2>3, <2>4, <2>5 DEF DoneOK
<1>10. FromEntry'
  <2>1. stack[1].blk = problem.graph.entry /\ (~ stack[1].processed => n = 1 /\ visited = {})
    BY <1>6 DEF Finish, SearchInv, FromEntry
  <2>2. stack' # <<>> => n # 1 /\ stack'[1] = stack[1] /\ stack[1].processed
    BY <1>1, <1>2, <2>1
  <2>3. stack' = <<>> => postorder'[Len(postorder')] = problem.graph.entry
    BY <1>1, <1>3, <1>6, <2>1
  <2> QED
    BY <1>1, <1>2, <1>3, <1>6, <2>1, <2>2, <2>3 DEF SearchInv, FromEntry
<1> QED
  BY <1>7, <1>8, <1>9, <1>10 DEF SearchInv

\* The stack after a first visit: the top is processed, and the successors
\* that were not seen lie above it.
LEMMA Pushed ==
  ASSUME SearchInv, Visit
  PROVE  LET n == Height
             b == stack[n].blk
             new == problem.graph.succs[b] \ (visited \cup {b})
         IN  /\ n \in Nat \ {0} /\ Top = stack[n] /\ b \in Blocks
             /\ stack' \in Seq(Entries) /\ Height' \in Nat /\ n <= Height'
             /\ \A i \in 1 .. n - 1 : stack'[i] = stack[i] /\ i \in 1 .. n
             /\ stack'[n].blk = b /\ stack'[n].processed
             /\ \A i \in (n + 1) .. Height' : ~ stack'[i].processed /\ stack'[i].blk \in new
             /\ \A s \in new : \E i \in (n + 1) .. Height' : stack'[i].blk = s
<1> DEFINE n == Height
           b == stack[n].blk
           new == problem.graph.succs[b] \ (visited \cup {b})
           front == Front(stack)
<1>1. /\ front \in Seq(Entries) /\ Len(front) = n - 1 /\ n \in Nat \ {0} /\ Top = stack[n]
      /\ \A i \in 1 .. n - 1 : front[i] = stack[i]
      /\ Top \in Entries
  <2>1. stack \in Seq(Entries) /\ stack # <<>>
    BY DEF Visit, SearchInv, SearchTyped
  <2>2. /\ front \in Seq(Entries) /\ Len(front) = Len(stack) - 1 /\ Len(stack) \in Nat \ {0}
        /\ \A i \in 1 .. Len(stack) - 1 : front[i] = stack[i]
    BY <2>1, FrontProps
  <2> QED
    BY <2>1, <2>2 DEF Height, Top
<1>2. b \in Blocks /\ Entry(b, TRUE) \in Entries /\ ~ Top.processed /\ Top.blk = b
  BY <1>1 DEF Entries, Entry, Visit
<1>3. new \in SUBSET Blocks /\ IsFiniteSet(new)
  <2>1. new \in SUBSET Blocks
    BY <1>2, GraphTyped DEF SearchInv, SearchTyped
  <2> QED
    BY <2>1, BlocksAssumption, FS_Subset
<1>4. PICK order \in SetToSeqs(new) :
        stack' = Append(front, Entry(b, TRUE)) \o [i \in DOMAIN order |-> Entry(order[i], FALSE)]
  BY <1>1 DEF Visit
<1> HIDE DEF front, new
<1>5. /\ order \in Seq(new) /\ Len(order) \in Nat
      /\ \A x \in new : \E i \in 1 .. Len(order) : order[i] = x
  BY <1>3, ListsAll
<1> DEFINE m == Len(order)
           above == [i \in DOMAIN order |-> Entry(order[i], FALSE)]
           base == Append(front, Entry(b, TRUE))
<1>6. /\ above \in Seq(Entries) /\ Len(above) = m
      /\ \A i \in 1 .. m : above[i] = Entry(order[i], FALSE) /\ order[i] \in new
  <2>1. DOMAIN order = 1 .. m /\ \A i \in 1 .. m : order[i] \in new
    BY <1>5
  <2>2. \A i \in 1 .. m : Entry(order[i], FALSE) \in Entries
    BY <1>3, <2>1 DEF Entry, Entries
  <2>3. above = [i \in 1 .. m |-> Entry(order[i], FALSE)]
    BY <2>1
  <2>4. above \in [1 .. m -> Entries] /\ \A i \in 1 .. m : above[i] = Entry(order[i], FALSE)
    BY <2>2, <2>3
  <2>5. m \in Nat
    BY <1>5
  <2> HIDE DEF m, above
  <2>6. above \in Seq(Entries) /\ Len(above) = m
    BY <2>4, <2>5
  <2> QED
    BY <2>1, <2>4, <2>6
<1>7. /\ base \in Seq(Entries) /\ Len(base) = n
      /\ \A i \in 1 .. n - 1 : base[i] = stack[i]
      /\ base[n] = Entry(b, TRUE)
  <2> DEFINE e == Entry(b, TRUE)
  <2>1. front \in Seq(Entries) /\ e \in Entries
    BY <1>1, <1>2
  <2> HIDE DEF e
  <2>2. /\ Append(front, e) \in Seq(Entries) /\ Len(Append(front, e)) = Len(front) + 1
        /\ \A i \in 1 .. Len(front) : Append(front, e)[i] = front[i]
        /\ Append(front, e)[Len(front) + 1] = e
    BY <2>1, AppendProperties
  <2>3. n = Len(front) + 1 /\ n - 1 = Len(front)
    BY <1>1
  <2> QED
    BY <1>1, <2>2, <2>3 DEF e
<1> HIDE DEF m, above, base
<1>8. /\ stack' \in Seq(Entries) /\ Height' = n + m /\ m \in Nat
      /\ \A i \in 1 .. n + m : stack'[i] = IF i <= n THEN base[i] ELSE above[i - n]
  <2>1. stack' = base \o above
    BY <1>4 DEF base, above
  <2>2. /\ base \o above \in Seq(Entries) /\ Len(base \o above) = Len(base) + Len(above)
        /\ \A i \in 1 .. Len(base) + Len(above) : (base \o above)[i] =
               IF i <= Len(base) THEN base[i] ELSE above[i - Len(base)]
    BY <1>6, <1>7, ConcatProperties
  <2> QED
    BY <1>5, <1>6, <1>7, <2>1, <2>2 DEF Height, m
<1>9. \A i \in 1 .. n - 1 : stack'[i] = stack[i] /\ i \in 1 .. n
  BY <1>1, <1>7, <1>8
<1>10. stack'[n].blk = b /\ stack'[n].processed
  BY <1>1, <1>7, <1>8 DEF Entry
<1>11. \A i \in (n + 1) .. (n + m) : ~ stack'[i].processed /\ stack'[i].blk \in new
  <2>1. \A i \in (n + 1) .. (n + m) : i \in 1 .. n + m /\ ~ (i <= n) /\ i - n \in 1 .. m
    BY <1>1, <1>8
  <2> QED
    BY <1>6, <1>8, <2>1 DEF Entry
<1>12. \A s \in new : \E i \in (n + 1) .. (n + m) : stack'[i].blk = s
  <2>1. SUFFICES ASSUME NEW s \in new PROVE \E i \in (n + 1) .. (n + m) : stack'[i].blk = s
    OBVIOUS
  <2>2. PICK i \in 1 .. m : order[i] = s
    BY <1>5 DEF m
  <2>3. n + i \in (n + 1) .. (n + m) /\ n + i \in 1 .. n + m /\ ~ (n + i <= n) /\ (n + i) - n = i
    BY <1>1, <1>8
  <2>4. stack'[n + i].blk = s
    BY <1>6, <1>8, <2>2, <2>3 DEF Entry
  <2> QED
    BY <2>3, <2>4
<1> QED
  BY <1>1, <1>2, <1>8, <1>9, <1>10, <1>11, <1>12 DEF new

LEMMA VisitKeeps ==
  ASSUME SearchInv, Visit
  PROVE  SearchInv'
<1> DEFINE n == Height
           b == stack[n].blk
           g == problem.graph
           new == g.succs[b] \ (visited \cup {b})
<1>1. /\ n \in Nat \ {0} /\ Top = stack[n] /\ b \in Blocks
      /\ stack' \in Seq(Entries) /\ Height' \in Nat /\ n <= Height'
      /\ \A i \in 1 .. n - 1 : stack'[i] = stack[i] /\ i \in 1 .. n
      /\ stack'[n].blk = b /\ stack'[n].processed
      /\ \A i \in (n + 1) .. Height' : ~ stack'[i].processed /\ stack'[i].blk \in new
      /\ \A s \in new : \E i \in (n + 1) .. Height' : stack'[i].blk = s
  BY Pushed
<1>2. /\ ~ stack[n].processed /\ b \notin visited /\ stack # <<>>
      /\ visited' = visited \cup {b} /\ problem' = problem /\ postorder' = postorder
  BY <1>1 DEF Visit, vars
<1>3. n = Height /\ b = stack[n].blk /\ g = problem.graph /\ n \in 1 .. n /\ n \in 1 .. Height'
  BY <1>1
<1>4. new \subseteq g.succs[b] /\ new \subseteq Blocks /\ g.succs[b] \subseteq visited \cup {b} \cup new
  BY <1>1, GraphTyped DEF SearchInv, SearchTyped
<1> HIDE DEF n, b, g, new
<1>5. \A i \in 1 .. Height' :
        \/ i \in 1 .. n - 1 /\ i < n /\ i # n /\ i \in 1 .. n /\ stack'[i] = stack[i]
        \/ i = n
        \/ i \in (n + 1) .. Height' /\ n < i /\ ~ stack'[i].processed
  BY <1>1
<1>6. SearchTyped'
  BY <1>1, <1>2 DEF SearchInv, SearchTyped
<1>7. TrailOK'
  <2>1. \A i \in 1 .. Height' : stack'[i].processed =>
          stack'[i].blk \in visited' /\ \A k \in 1 .. Len(postorder') : postorder'[k] # stack'[i].blk
    <3>1. \A k \in 1 .. Len(postorder) : postorder[k] # b
      BY <1>2 DEF SearchInv, DoneOK
    <3>2. \A i \in 1 .. n - 1 : stack[i].processed =>
            stack[i].blk \in visited /\ \A k \in 1 .. Len(postorder) : postorder[k] # stack[i].blk
      BY <1>1, <1>3 DEF SearchInv, TrailOK
    <3> QED
      BY <1>1, <1>2, <1>5, <3>1, <3>2
  <2>2. \A i, j \in 1 .. Height' :
          stack'[i].processed /\ stack'[j].processed /\ stack'[i].blk = stack'[j].blk => i = j
    <3>1. \A i \in 1 .. n - 1 : stack[i].processed => stack[i].blk # b
      BY <1>1, <1>2, <1>3 DEF SearchInv, TrailOK
    <3>2. \A i, j \in 1 .. n - 1 :
            stack[i].processed /\ stack[j].processed /\ stack[i].blk = stack[j].blk => i = j
      BY <1>1, <1>3 DEF SearchInv, TrailOK
    <3> QED
      BY <1>1, <1>5, <3>1, <3>2
  <2>3. \A i, j \in 1 .. Height' :
          i < j /\ stack'[i].processed => stack'[j].blk \in Reachable(g, stack'[i].blk)
    <3>1. SUFFICES ASSUME NEW i \in 1 .. Height', NEW j \in 1 .. Height', i < j, stack'[i].processed
                   PROVE  stack'[j].blk \in Reachable(g, stack'[i].blk)
      OBVIOUS
    <3>2. i < n => stack'[i] = stack[i] /\ stack[i].blk \in Blocks /\ b \in Reachable(g, stack[i].blk)
      <4>1. \A k \in 1 .. n : stack[k] \in Entries
        BY <1>3 DEF SearchInv, SearchTyped, Height
      <4> QED
        BY <1>1, <1>3, <1>5, <3>1, <4>1 DEF SearchInv, TrailOK, Entries
    <3>3. i <= n
      BY <1>1, <1>5, <3>1
    <3>4. \A s \in new : s \in Reachable(g, b)
      BY <1>1, <1>4, ReachSelf, ReachStep
    <3>5. CASE j < n
      <4>1. i \in 1 .. n /\ j \in 1 .. n /\ stack'[j] = stack[j] /\ i < n /\ stack'[i] = stack[i]
        BY <1>1, <1>5, <3>1, <3>5
      <4> QED
        BY <1>3, <3>1, <4>1 DEF SearchInv, TrailOK
    <3>6. CASE j = n
      BY <1>1, <3>1, <3>2, <3>6
    <3>7. CASE j > n
      <4>1. stack'[j].blk \in Reachable(g, b)
        BY <1>1, <1>5, <3>4, <3>7
      <4>2. CASE i = n
        BY <1>1, <4>1, <4>2
      <4>3. CASE i < n
        BY <3>2, <4>1, <4>3, ReachTrans
      <4> QED
        BY <1>1, <3>3, <4>2, <4>3
    <3> QED
      BY <1>1, <3>5, <3>6, <3>7
  <2>4. \A i \in 1 .. Height' : stack'[i].processed =>
          \A s \in g.succs[stack'[i].blk] :
            s \in visited' \/ \E j \in 1 .. Height' : i < j /\ stack'[j].blk = s
    <3>1. SUFFICES ASSUME NEW i \in 1 .. Height', stack'[i].processed, NEW s \in g.succs[stack'[i].blk],
                          s \notin visited'
                   PROVE  \E j \in 1 .. Height' : i < j /\ stack'[j].blk = s
      OBVIOUS
    <3>2. CASE i < n
      <4>1. i \in 1 .. n /\ stack'[i] = stack[i]
        BY <1>1, <1>5, <3>2
      <4>2. PICK j \in 1 .. n : i < j /\ stack[j].blk = s
        BY <1>2, <1>3, <3>1, <4>1 DEF SearchInv, TrailOK
      <4>3. j # n
        BY <1>2, <1>3, <3>1, <4>2
      <4>4. j \in 1 .. n - 1 /\ j \in 1 .. Height'
        BY <1>1, <4>2, <4>3
      <4> QED
        BY <1>1, <4>2, <4>4
    <3>3. CASE i = n
      <4>1. s \in new
        BY <1>1, <1>2, <1>4, <3>1, <3>3
      <4>2. PICK j \in (n + 1) .. Height' : stack'[j].blk = s
        BY <1>1, <4>1
      <4>3. j \in 1 .. Height' /\ i < j
        BY <1>1, <3>3, <4>2
      <4> QED
        BY <4>2, <4>3
    <3> QED
      BY <1>1, <1>5, <3>1, <3>2, <3>3
  <2> QED
    BY <1>2, <1>3, <2>1, <2>2, <2>3, <2>4 DEF TrailOK
<1>8. DoneOK'
  <2>1. \A c \in visited' :
          \/ \E k \in 1 .. Len(postorder) : postorder[k] = c
          \/ \E i \in 1 .. Height' : stack'[i].processed /\ stack'[i].blk = c
    <3>1. SUFFICES ASSUME NEW c \in visited', \A k \in 1 .. Len(postorder) : postorder[k] # c
                   PROVE  \E i \in 1 .. Height' : stack'[i].processed /\ stack'[i].blk = c
      OBVIOUS
    <3>2. CASE c = b
      BY <1>1, <1>3, <3>2
    <3>3. CASE c # b
      <4>1. PICK i \in 1 .. n : stack[i].processed /\ stack[i].blk = c
        BY <1>2, <1>3, <3>1, <3>3 DEF SearchInv, DoneOK
      <4>2. i \in 1 .. n - 1 /\ i \in 1 .. Height'
        BY <1>1, <1>2, <4>1
      <4> QED
        BY <1>1, <4>1, <4>2
    <3> QED
      BY <3>2, <3>3
  <2>2. \A k \in 1 .. Len(postorder) : postorder[k] \in visited'
    BY <1>2 DEF SearchInv, DoneOK
  <2>3. \A k \in 1 .. Len(postorder) : \A s \in g.succs[postorder[k]] :
          /\ s \in visited'
          /\ \/ \E m \in 1 .. Len(postorder) : m < k /\ postorder[m] = s
             \/ postorder[k] \in Reachable(g, s)
    BY <1>2, <1>3 DEF SearchInv, DoneOK
  <2> QED
    BY <1>2, <1>3, <2>1, <2>2, <2>3 DEF SearchInv, DoneOK
<1>9. FromEntry'
  <2>1. b \in Reachable(g, g.entry) /\ g.entry \in Blocks
    BY <1>3, GraphTyped DEF SearchInv, SearchTyped, FromEntry
  <2>2. \A s \in new : s \in Reachable(g, g.entry)
    BY <1>1, <1>4, <2>1, ReachStep
  <2>3. \A i \in 1 .. Height' : stack'[i].blk \in Reachable(g, g.entry)
    <3>1. \A i \in 1 .. n - 1 : stack[i].blk \in Reachable(g, g.entry)
      BY <1>1, <1>3 DEF SearchInv, FromEntry
    <3> QED
      BY <1>1, <1>5, <2>1, <2>2, <3>1
  <2>4. stack[1].blk = g.entry /\ (~ stack[1].processed => n = 1 /\ visited = {})
    BY <1>2, <1>3 DEF SearchInv, FromEntry
  <2>5. stack'[1].blk = g.entry /\ stack'[1].processed
    <3>1. CASE n = 1
      BY <1>1, <1>3, <2>4, <3>1
    <3>2. CASE n # 1
      BY <1>1, <2>4, <3>2
    <3> QED
      BY <3>1, <3>2
  <2>6. stack' # <<>>
    BY <1>1, <1>3, EmptySeq DEF Height
  <2>7. \A c \in visited' : c \in Reachable(g, g.entry)
    BY <1>2, <1>3, <2>1 DEF SearchInv, FromEntry
  <2> QED
    BY <1>2, <1>3, <2>3, <2>5, <2>6, <2>7 DEF FromEntry
<1> QED
  BY <1>6, <1>7, <1>8, <1>9 DEF SearchInv

LEMMA SearchKeeps == SearchInv /\ [EngineNext]_<<vars, searchVars>> => SearchInv'
<1> SUFFICES ASSUME SearchInv, [EngineNext]_<<vars, searchVars>>
             PROVE  SearchInv'
  OBVIOUS
<1>1. CASE Finish
  BY <1>1, FinishKeeps
<1>2. CASE Skip
  BY <1>2, SkipKeeps
<1>3. CASE Visit
  BY <1>3, VisitKeeps
<1>4. CASE UNCHANGED <<problem, searchVars>>
  BY <1>4 DEF SearchInv, SearchTyped, TrailOK, DoneOK, FromEntry, Height, searchVars
<1>5. Number => UNCHANGED <<problem, searchVars>>
  BY DEF Number
<1>6. Loop => UNCHANGED <<problem, searchVars>>
  BY DEF Loop, Iterate, Forward, Backward
<1> QED
  BY <1>1, <1>2, <1>3, <1>4, <1>5, <1>6 DEF EngineNext, vars

-----------------------------------------------------------------------------
LEMMA ReverseProps ==
  ASSUME NEW S, NEW s \in Seq(S)
  PROVE  /\ Reverse(s) \in Seq(S) /\ Len(Reverse(s)) = Len(s)
         /\ \A i \in 1 .. Len(s) : Reverse(s)[i] = s[(Len(s) - i) + 1]
<1> DEFINE n == Len(s)
<1>1. n \in Nat /\ s \in [1 .. n -> S]
  OBVIOUS
<1>2. \A i \in 1 .. n : (n - i) + 1 \in 1 .. n
  BY <1>1
<1>3. Reverse(s) = [i \in 1 .. n |-> s[(n - i) + 1]]
  BY DEF Reverse
<1> HIDE DEF n
<1>4. Reverse(s) \in [1 .. n -> S]
  BY <1>1, <1>2, <1>3
<1>5. Reverse(s) \in Seq(S) /\ Len(Reverse(s)) = n
  BY <1>1, <1>3, <1>4
<1> QED
  BY <1>3, <1>5 DEF n

\* When the stack is empty the search has met what the entry reaches.
LEMMA SearchEnds ==
  ASSUME SearchInv, stack = <<>>
  PROVE  /\ visited = Reachable(problem.graph, problem.graph.entry)
         /\ \A b \in Blocks : b \in visited <=> \E k \in 1 .. Len(postorder) : postorder[k] = b
         /\ Len(postorder) \in Nat \ {0} /\ postorder[Len(postorder)] = problem.graph.entry
<1> DEFINE g == problem.graph
<1>1. Height = 0 /\ Len(postorder) \in Nat \ {0} /\ postorder[Len(postorder)] = g.entry
  BY EmptySeq DEF SearchInv, SearchTyped, FromEntry, Height
<1>2. \A b \in visited : \E k \in 1 .. Len(postorder) : postorder[k] = b
  <2>1. \A i \in 1 .. Height : FALSE
    BY <1>1
  <2> QED
    BY <2>1 DEF SearchInv, DoneOK
<1>3. \A k \in 1 .. Len(postorder) : postorder[k] \in visited /\ g.succs[postorder[k]] \subseteq visited
  BY DEF SearchInv, DoneOK
<1>4. visited \in SUBSET Blocks /\ Closed(g, visited) /\ g.entry \in visited
  <2>1. visited \in SUBSET Blocks
    BY DEF SearchInv, SearchTyped
  <2>2. Closed(g, visited)
    BY <1>2, <1>3 DEF Closed
  <2> QED
    BY <1>1, <1>3, <2>1, <2>2
<1>5. Reachable(g, g.entry) \subseteq visited
  BY <1>4 DEF Reachable
<1>6. visited \subseteq Reachable(g, g.entry)
  BY DEF SearchInv, FromEntry
<1> QED
  BY <1>1, <1>2, <1>3, <1>5, <1>6

\* A numbering that follows a sequence without repetitions of all the blocks.
LEMMA RanksAre ==
  ASSUME NEW order \in Seq(Blocks),
         \A i, j \in 1 .. Len(order) : order[i] = order[j] => i = j,
         \A b \in Blocks : \E i \in 1 .. Len(order) : order[i] = b
  PROVE  /\ Len(order) = Cardinality(Blocks)
         /\ \A i \in 1 .. Len(order) : RankOf(order, order[i]) = i - 1
<1>1. Len(order) \in Nat /\ order \in [1 .. Len(order) -> Blocks]
  OBVIOUS
<1>2. order \in Injection(1 .. Len(order), Blocks)
  BY <1>1 DEF Injection, IsInjective
<1>3. order \in Surjection(1 .. Len(order), Blocks)
  BY <1>1 DEF Surjection
<1>4. Cardinality(1 .. Len(order)) = Len(order)
  BY <1>1, FS_Interval
<1>5. Len(order) = Cardinality(Blocks)
  BY <1>2, <1>3, <1>4, FS_Injection, BlocksAssumption
<1>6. ASSUME NEW i \in 1 .. Len(order) PROVE RankOf(order, order[i]) = i - 1
  <2>1. DOMAIN order = 1 .. Len(order)
    OBVIOUS
  <2>2. RankFromOne(order, order[i]) = i
    BY <2>1 DEF RankFromOne
  <2> QED
    BY <2>2 DEF RankOf
<1> QED
  BY <1>5, <1>6

\* The list Number takes the ranks from.
Listed(rest) == Reverse(postorder) \o rest

\* What the list is: n blocks of the search, last first, then the others.
ListsBlocks(order, n) ==
  /\ order \in Seq(Blocks) /\ n \in Nat \ {0} /\ n <= Len(order) /\ Len(order) \in Nat
  /\ \A k \in 1 .. n : (n - k) + 1 \in 1 .. n /\ order[(n - k) + 1] = postorder[k]
  /\ \A i \in 1 .. Len(order) : i > n => order[i] \notin visited
  /\ \A i, j \in 1 .. Len(order) : order[i] = order[j] => i = j
  /\ \A b \in Blocks : \E i \in 1 .. Len(order) : order[i] = b

LEMMA ListOfAll ==
  ASSUME SearchInv, stack = <<>>, NEW rest \in SetToSeqs(Blocks \ ToSet(postorder))
  PROVE  ListsBlocks(Listed(rest), Len(postorder))
<1> DEFINE n == Len(postorder)
           order == Listed(rest)
           r == Reverse(postorder)
           m == Len(rest)
           left == Blocks \ ToSet(postorder)
<1>1. n \in Nat \ {0} /\ postorder \in Seq(Blocks)
  BY SearchEnds DEF SearchInv, SearchTyped
<1>2. \A b : b \in ToSet(postorder) <=> \E k \in 1 .. n : postorder[k] = b
  <2>1. DOMAIN postorder = 1 .. n
    BY <1>1
  <2> QED
    BY <2>1 DEF ToSet
<1>3. IsFiniteSet(left) /\ left \subseteq Blocks
  BY BlocksAssumption, FS_Subset
<1>4. /\ rest \in Seq(left) /\ m \in Nat
      /\ \A i, j \in 1 .. m : rest[i] = rest[j] => i = j
      /\ \A x \in left : \E i \in 1 .. m : rest[i] = x
  <2>1. rest \in SetToSeqs(left)
    OBVIOUS
  <2> HIDE DEF left
  <2>2. /\ rest \in Seq(left)
        /\ \A i, j \in 1 .. Len(rest) : rest[i] = rest[j] => i = j
        /\ \A x \in left : \E i \in 1 .. Len(rest) : rest[i] = x
    BY <1>3, <2>1, ListsAll
  <2> QED
    BY <2>2
<1>5. r \in Seq(Blocks) /\ Len(r) = n /\ \A i \in 1 .. n : r[i] = postorder[(n - i) + 1]
  BY <1>1, ReverseProps
<1>6. rest \in Seq(Blocks) /\ \A i \in 1 .. m : rest[i] \in left
  BY <1>3, <1>4
<1>7. order = r \o rest
  BY DEF Listed
<1> HIDE DEF n, order, r, m, left
<1>8. /\ order \in Seq(Blocks) /\ Len(order) = n + m
      /\ \A i \in 1 .. n + m : order[i] = IF i <= n THEN r[i] ELSE rest[i - n]
  <2>1. /\ r \o rest \in Seq(Blocks) /\ Len(r \o rest) = Len(r) + Len(rest)
        /\ \A i \in 1 .. Len(r) + Len(rest) :
             (r \o rest)[i] = IF i <= Len(r) THEN r[i] ELSE rest[i - Len(r)]
    BY <1>5, <1>6, ConcatProperties
  <2> QED
    BY <1>5, <1>7, <2>1 DEF m
<1>9. \A k \in 1 .. n : /\ (n - k) + 1 \in 1 .. n /\ (n - ((n - k) + 1)) + 1 = k
                        /\ k \in 1 .. n + m /\ k <= n
  BY <1>1, <1>4
<1>10. \A i \in 1 .. n : order[i] = postorder[(n - i) + 1] /\ order[i] \in ToSet(postorder)
  <2>1. ASSUME NEW i \in 1 .. n
        PROVE  order[i] = postorder[(n - i) + 1] /\ order[i] \in ToSet(postorder)
    <3>1. order[i] = r[i] /\ (n - i) + 1 \in 1 .. n
      BY <1>8, <1>9
    <3>2. order[i] = postorder[(n - i) + 1]
      BY <1>5, <3>1
    <3> QED
      BY <1>2, <3>1, <3>2
  <2> QED
    BY <2>1
<1>11. \A i \in 1 .. n + m : i > n => i - n \in 1 .. m /\ order[i] = rest[i - n] /\ order[i] \notin ToSet(postorder)
  <2>1. ASSUME NEW i \in 1 .. n + m, i > n
        PROVE  i - n \in 1 .. m /\ order[i] = rest[i - n]
    BY <1>1, <1>4, <1>8, <2>1
  <2> QED
    BY <1>6, <2>1 DEF left
<1>12. \A i, j \in 1 .. n + m : order[i] = order[j] => i = j
  <2>1. SUFFICES ASSUME NEW i \in 1 .. n + m, NEW j \in 1 .. n + m, order[i] = order[j]
                 PROVE  i = j
    OBVIOUS
  <2>2. CASE i \in 1 .. n /\ j \in 1 .. n
    <3>1. postorder[(n - i) + 1] = postorder[(n - j) + 1]
      BY <1>10, <2>1, <2>2
    <3>2. (n - i) + 1 = (n - j) + 1
      BY <1>9, <2>2, <3>1 DEF SearchInv, DoneOK, n
    <3> QED
      BY <1>1, <2>2, <3>2
  <2>3. CASE i > n /\ j > n
    <3>1. i - n \in 1 .. m /\ j - n \in 1 .. m /\ rest[i - n] = rest[j - n]
      BY <1>11, <2>1, <2>3
    <3>2. i - n = j - n
      BY <1>4, <3>1
    <3> QED
      BY <1>1, <1>4, <3>2
  <2>4. ~ (i \in 1 .. n /\ j > n) /\ ~ (i > n /\ j \in 1 .. n)
    BY <1>10, <1>11, <2>1
  <2>5. (i \in 1 .. n \/ i > n) /\ (j \in 1 .. n \/ j > n)
    BY <1>1, <1>4
  <2> QED
    BY <2>2, <2>3, <2>4, <2>5
<1>13. ASSUME NEW b \in Blocks PROVE \E i \in 1 .. n + m : order[i] = b
  <2>1. CASE b \in ToSet(postorder)
    <3>1. PICK k \in 1 .. n : postorder[k] = b
      BY <1>2, <2>1
    <3>2. (n - k) + 1 \in 1 .. n /\ (n - k) + 1 \in 1 .. n + m /\ order[(n - k) + 1] = b
      BY <1>9, <1>10, <3>1
    <3> QED
      BY <3>2
  <2>2. CASE b \notin ToSet(postorder)
    <3>1. PICK i \in 1 .. m : rest[i] = b
      BY <1>4, <2>2 DEF left
    <3>2. n + i \in 1 .. n + m /\ ~ (n + i <= n) /\ (n + i) - n = i
      BY <1>1, <1>4
    <3>3. order[n + i] = b
      BY <1>8, <3>1, <3>2
    <3> QED
      BY <3>2, <3>3
  <2> QED
    BY <2>1, <2>2
<1>14. \A b \in Blocks : b \in visited <=> b \in ToSet(postorder)
  BY <1>2, SearchEnds DEF n
<1>15. \A i \in 1 .. n + m : i > n => order[i] \notin visited
  BY <1>8, <1>11, <1>14 DEF SearchInv, SearchTyped
<1>16. Len(order) = n + m /\ n <= Len(order) /\ Len(order) \in Nat
  BY <1>1, <1>4, <1>8
<1>17. \A k \in 1 .. n : (n - k) + 1 \in 1 .. n /\ order[(n - k) + 1] = postorder[k]
  BY <1>9, <1>10
<1>18. ListsBlocks(order, n)
  BY <1>1, <1>8, <1>12, <1>13, <1>15, <1>16, <1>17 DEF ListsBlocks
<1> QED
  BY <1>18 DEF order, n

LEMMA NumberMaps ==
  ASSUME SearchInv, Number
  PROVE  RankBlocks
<1> DEFINE n == Len(postorder)
           g == problem.graph
           live == Reachable(g, g.entry)
<1>1. stack = <<>>
  BY DEF Number
<1>2. PICK rest \in SetToSeqs(Blocks \ ToSet(postorder)) :
        ranks' = [b \in Blocks |-> RankOf(Reverse(postorder) \o rest, b)]
  BY DEF Number
<1> DEFINE order == Listed(rest)
           rank == [b \in Blocks |-> RankOf(order, b)]
<1>3. ranks' = rank
  BY <1>2 DEF Listed
<1>4. ListsBlocks(order, n)
  BY <1>1, ListOfAll
<1> HIDE DEF order, rank, n
<1> USE DEF ListsBlocks
<1>5. /\ Len(order) = Cardinality(Blocks)
      /\ \A i \in 1 .. Len(order) : order[i] \in Blocks /\ rank[order[i]] = i - 1
  <2>1. /\ Len(order) = Cardinality(Blocks)
        /\ \A i \in 1 .. Len(order) : RankOf(order, order[i]) = i - 1
    BY <1>4, RanksAre
  <2>2. \A i \in 1 .. Len(order) : order[i] \in Blocks
    BY <1>4
  <2> QED
    BY <2>1, <2>2 DEF rank
<1>6. /\ visited = live /\ postorder[n] = g.entry
      /\ \A b \in Blocks : b \in visited <=> \E k \in 1 .. n : postorder[k] = b
  BY <1>1, SearchEnds DEF n
<1> HIDE DEF g, live
<1>7. rank \in [Blocks -> 0 .. (Cardinality(Blocks) - 1)]
  <2>1. ASSUME NEW b \in Blocks PROVE rank[b] \in 0 .. (Cardinality(Blocks) - 1)
    <3>1. PICK i \in 1 .. Len(order) : order[i] = b
      BY <1>4
    <3>2. i - 1 \in 0 .. (Len(order) - 1)
      BY <1>4
    <3> QED
      BY <1>5, <3>1, <3>2
  <2> QED
    BY <2>1 DEF rank
<1>8. \A a, b \in Blocks : rank[a] = rank[b] => a = b
  <2>1. SUFFICES ASSUME NEW a \in Blocks, NEW b \in Blocks, rank[a] = rank[b] PROVE a = b
    OBVIOUS
  <2>2. PICK i \in 1 .. Len(order) : order[i] = a
    BY <1>4
  <2>3. PICK j \in 1 .. Len(order) : order[j] = b
    BY <1>4
  <2>4. i - 1 = j - 1
    BY <1>5, <2>1, <2>2, <2>3
  <2>5. i = j
    BY <1>4, <2>4
  <2> QED
    BY <2>2, <2>3, <2>5
<1>9. \A k \in 1 .. n : rank[postorder[k]] = n - k
  <2>1. ASSUME NEW k \in 1 .. n PROVE rank[postorder[k]] = n - k
    <3>1. (n - k) + 1 \in 1 .. Len(order) /\ ((n - k) + 1) - 1 = n - k
      BY <1>4
    <3>2. order[(n - k) + 1] = postorder[k]
      BY <1>4
    <3>3. rank[order[(n - k) + 1]] = ((n - k) + 1) - 1
      BY <1>5, <3>1
    <3> QED
      BY <3>1, <3>2, <3>3
  <2> QED
    BY <2>1
<1>10. rank[g.entry] = 0
  <2>1. n \in 1 .. n /\ n - n = 0
    BY <1>4
  <2> QED
    BY <1>6, <1>9, <2>1
<1>11. \A b \in Blocks \ live : rank[b] >= n
  <2>1. SUFFICES ASSUME NEW b \in Blocks \ live PROVE rank[b] >= n
    OBVIOUS
  <2>2. PICK i \in 1 .. Len(order) : order[i] = b
    BY <1>4
  <2>3. rank[b] = i - 1
    BY <1>5, <2>2
  <2>4. i > n
    <3>1. SUFFICES ASSUME i \in 1 .. n PROVE FALSE
      BY <1>4
    <3>2. (n - i) + 1 \in 1 .. n /\ (n - ((n - i) + 1)) + 1 = i
      BY <1>4, <3>1
    <3>3. order[i] = postorder[(n - i) + 1]
      BY <1>4, <3>2
    <3> QED
      BY <1>6, <2>1, <2>2, <3>2, <3>3
  <2> QED
    BY <1>4, <2>3, <2>4
<1>12. ASSUME NEW a \in live
       PROVE  /\ a \in Blocks
              /\ \E k \in 1 .. n : postorder[k] = a
  BY <1>6 DEF SearchInv, SearchTyped
<1>13. \A a \in live, b \in Blocks \ live : rank[a] < rank[b]
  <2>1. SUFFICES ASSUME NEW a \in live, NEW b \in Blocks \ live PROVE rank[a] < rank[b]
    OBVIOUS
  <2>2. PICK k \in 1 .. n : postorder[k] = a
    BY <1>12
  <2>3. rank[a] = n - k /\ n - k < n /\ n - k \in Nat
    <3>1. n \in Nat /\ k \in 1 .. n
      BY <1>4, <2>2
    <3>2. n - k < n /\ n - k \in Nat
      BY <3>1
    <3> QED
      BY <1>9, <2>2, <3>2
  <2>4. rank[b] >= n /\ rank[b] \in 0 .. (Cardinality(Blocks) - 1)
    BY <1>7, <1>11
  <2> QED
    BY <1>4, <1>5, <2>3, <2>4
<1>14. \A a \in live : \A b \in g.succs[a] : rank[a] < rank[b] \/ a \in Reachable(g, b)
  <2>1. SUFFICES ASSUME NEW a \in live, NEW b \in g.succs[a], a \notin Reachable(g, b)
                 PROVE  rank[a] < rank[b]
    OBVIOUS
  <2>2. PICK k \in 1 .. n : postorder[k] = a
    BY <1>12
  <2>3. PICK m \in 1 .. n : m < k /\ postorder[m] = b
    BY <2>1, <2>2 DEF SearchInv, DoneOK, n, g
  <2>4. rank[a] = n - k /\ rank[b] = n - m
    BY <1>9, <2>2, <2>3
  <2> QED
    BY <1>4, <2>3, <2>4
<1>15. IsReversePostorder(g, rank)
  BY <1>8, <1>10, <1>13, <1>14 DEF IsReversePostorder, live
<1>16. ranks' \in RankOrders(problem.graph)
  BY <1>3, <1>7, <1>15 DEF RankOrders, g
<1> QED
  BY <1>16 DEF Number, RankBlocks

\* Whatever order the HashSets list the successors in, the depth-first search of
\* Mir::rpo_ranks numbers the blocks in a reverse postorder of the graph: the
\* engine is the FixedPoint the theorems above are about.
THEOREM SearchRanks == EngineSpec => ImplementsFixedPoint
<1>1. EngineInit => Init
  BY DEF EngineInit
<1>2. SearchInv /\ [EngineNext]_<<vars, searchVars>> => [Next]_vars
  <2>1. SearchInv /\ Number => Next
    BY NumberMaps DEF Next
  <2>2. Loop => Next
    BY DEF Loop, Next
  <2>3. Finish \/ Skip \/ Visit => UNCHANGED vars
    BY DEF Finish, Skip, Visit
  <2> QED
    BY <2>1, <2>2, <2>3 DEF EngineNext
<1> QED
  BY <1>1, <1>2, SearchBegins, SearchKeeps, PTL DEF EngineSpec, ImplementsFixedPoint

\* So the engine with its search settles what it takes off the worklist, ends on
\* a solution of the equations, and is never above one.
THEOREM EngineCorrect ==
  EngineSpec => [](TypeOK /\ SettledOffWorklist /\ SolvedAtEnd /\ BelowEverySolution)
<1>1. Init => SettledOffWorklist /\ BelowEverySolution
  BY DEF Init, SettledOffWorklist, BelowEverySolution
<1>2. SettledOffWorklist => SolvedAtEnd
  BY DEF SettledOffWorklist, SolvedAtEnd
<1> QED
  BY <1>1, <1>2, InitTyped, StepTyped, StepSettles, StepStaysBelow, SearchRanks, PTL
     DEF ImplementsFixedPoint

-----------------------------------------------------------------------------
\* The state the loop breaks in is a solution, and below every solution; the
\* one the analyses are stated with is a solution below every other one.
LEMMA SettledIsLeast ==
  ASSUME TypeOK, SettledOffWorklist, BelowEverySolution
  PROVE  ComputesLeastSolution
<1> SUFFICES ASSUME worklist = {}, Monotone(problem)
             PROVE  [ins |-> block_in, outs |-> block_out] = LeastSolution(problem, Facts)
  BY DEF ComputesLeastSolution
<1> DEFINE s == [ins |-> block_in, outs |-> block_out]
           t == LeastSolution(problem, Facts)
<1>1. problem \in ProblemSpace /\ IsProblem(problem, Facts) /\ IsMonotone(problem, Facts)
  BY ProblemsAssumption DEF TypeOK, ProblemSpace, IsProblem, Monotone, IsMonotone
<1>2. s \in Assignments(Facts) /\ s.ins = block_in /\ s.outs = block_out
  BY DEF TypeOK, Assignments
<1>3. t \in Assignments(Facts)
  BY <1>1, FactsAssumption, LeastSolutionInOrbit DEF Orbit
<1>4. t \in Solutions(problem)
  <2>1. ASSUME NEW b \in Blocks PROVE SolvedAt(problem, t.ins, t.outs, b)
    <3>1. IF problem.direction = "Forward"
          THEN /\ t.ins[b] = FromPreds(problem, t.outs, b) \cup SeedAt(problem, b)
               /\ t.outs[b] = problem.transfer[b][t.ins[b]]
          ELSE /\ t.outs[b] = FromSuccs(problem, t.ins, b)
               /\ t.ins[b] = problem.transfer[b][t.outs[b]] \cup SeedAt(problem, b)
      BY <1>1, FactsAssumption, LeastSolutionSolves
    <3> HIDE DEF t
    <3> QED
      BY <3>1 DEF SolvedAt
  <2> HIDE DEF t
  <2> QED
    BY <2>1, <1>3 DEF Solutions, Assignments
<1> HIDE DEF s, t
<1>5. Under(s, t)
  BY <1>2, <1>4 DEF BelowEverySolution, Under
<1>6. Under(Sweep(problem, s), s)
  <2>1. ASSUME NEW b \in Blocks
        PROVE  /\ Sweep(problem, s).ins[b] \subseteq s.ins[b]
               /\ Sweep(problem, s).outs[b] \subseteq s.outs[b]
    <3>1. SolvedAt(problem, s.ins, s.outs, b)
      BY <1>2 DEF SettledOffWorklist
    <3> DEFINE u == Sweep(problem, s)
    <3>2. /\ IF problem.direction = "Forward"
             THEN /\ u.ins[b] = FromPreds(problem, s.outs, b) \cup SeedAt(problem, b)
                  /\ u.outs[b] = problem.transfer[b][u.ins[b]]
             ELSE /\ u.outs[b] = FromSuccs(problem, s.ins, b)
                  /\ u.ins[b] = problem.transfer[b][u.outs[b]] \cup SeedAt(problem, b)
          /\ u \in Assignments(Facts)
      BY <1>1, <1>2, SweepIs
    <3> HIDE DEF u
    <3>3. /\ u.ins[b] \in SUBSET Facts /\ s.ins[b] \in SUBSET Facts
          /\ u.outs[b] \in SUBSET Facts /\ s.outs[b] \in SUBSET Facts
      BY <1>2, <3>2 DEF Assignments
    <3>4. \A X, Y \in SUBSET Facts :
            X \subseteq Y => problem.transfer[b][X] \subseteq problem.transfer[b][Y]
      BY <1>1 DEF IsMonotone
    <3>5. CASE problem.direction = "Forward"
      <4>1. u.ins[b] \subseteq s.ins[b]
        BY <3>1, <3>2, <3>5 DEF SolvedAt
      <4>2. problem.transfer[b][u.ins[b]] \subseteq problem.transfer[b][s.ins[b]]
        BY <4>1, <3>3, <3>4
      <4>3. u.outs[b] \subseteq s.outs[b]
        BY <4>2, <3>1, <3>2, <3>5 DEF SolvedAt
      <4> QED
        BY <4>1, <4>3 DEF u
    <3>6. CASE problem.direction # "Forward"
      <4>1. u.outs[b] \subseteq s.outs[b]
        BY <3>1, <3>2, <3>6 DEF SolvedAt
      <4>2. problem.transfer[b][u.outs[b]] \subseteq problem.transfer[b][s.outs[b]]
        BY <4>1, <3>3, <3>4
      <4>3. u.ins[b] \subseteq s.ins[b]
        BY <4>2, <3>1, <3>2, <3>6 DEF SolvedAt
      <4> QED
        BY <4>1, <4>3 DEF u
    <3> QED
      BY <3>5, <3>6
  <2> QED
    BY <2>1 DEF Under
<1>7. Under(t, s)
  BY <1>1, <1>2, <1>6, FactsAssumption, LeastSolutionIsLeast DEF t
<1>8. \A b \in Blocks : s.ins[b] = t.ins[b] /\ s.outs[b] = t.outs[b]
  BY <1>5, <1>7 DEF Under
<1>9. /\ s.ins \in [Blocks -> SUBSET Facts] /\ s.outs \in [Blocks -> SUBSET Facts]
      /\ t.ins \in [Blocks -> SUBSET Facts] /\ t.outs \in [Blocks -> SUBSET Facts]
      /\ s = [ins |-> s.ins, outs |-> s.outs] /\ t = [ins |-> t.ins, outs |-> t.outs]
  BY <1>2, <1>3 DEF Assignments
<1>10. s.ins = t.ins /\ s.outs = t.outs
  BY <1>8, <1>9
<1> QED
  BY <1>9, <1>10 DEF s, t

\* With monotone transfers, fixed_point_iter_bottom returns the least solution
\* of the equations, however the HashSets order the search that ranks the
\* blocks.
THEOREM EngineComputesLeast == EngineSpec => []ComputesLeastSolution
BY EngineCorrect, SettledIsLeast, PTL
===============================================================================
