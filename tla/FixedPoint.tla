------------------------------ MODULE FixedPoint ------------------------------
(***************************************************************************)
(* Mir::fixed_point_iter_bottom (src/src/mir/analysis/lattice.rs): the     *)
(* worklist engine under the liveness and the initialisation analyses.     *)
(*                                                                         *)
(* The lattices the compiler instantiates it with (BitSet, IdInitMap) are  *)
(* sets of facts ordered by inclusion, with bottom the empty set, so a     *)
(* lattice value is a subset of Facts here.  A problem is one call of the  *)
(* engine: the graph, the direction, the entry seed (None is {}), and the  *)
(* transfer function of every block.                                       *)
(***************************************************************************)
EXTENDS Dataflow

CONSTANTS Facts, Problems

ProblemSpace ==
  [ graph : Graphs,
    direction : {"Forward", "Backward"},
    seed : SUBSET Facts,
    transfer : [Blocks -> [SUBSET Facts -> SUBSET Facts]] ]

ASSUME ProblemsAssumption == Problems \subseteq ProblemSpace

\* A BitSet is made for a number of facts that is known beforehand.
ASSUME FactsAssumption == IsFiniteSet(Facts)

VARIABLES
  problem,     \* the arguments of the call
  ranks,       \* the result of rpo_ranks, NoRanks before
  block_in,
  block_out,
  worklist     \* the blocks of the BTreeSet; its order is the one of ranks

vars == <<problem, ranks, block_in, block_out, worklist>>

NoRanks == <<>>

-----------------------------------------------------------------------------
Init ==
  /\ problem \in Problems
  /\ ranks = NoRanks
  /\ block_in = [b \in Blocks |-> {}]
  /\ block_out = [b \in Blocks |-> {}]
  /\ worklist = Blocks

\* The call of rpo_ranks, as far as the loop depends on it: RpoRanks has the
\* search.
RankBlocks ==
  /\ ranks = NoRanks
  /\ ranks' \in RankOrders(problem.graph)
  /\ UNCHANGED <<problem, block_in, block_out, worklist>>

PopsFirst(b) == b \in worklist /\ \A c \in worklist : ranks[b] <= ranks[c]

PopsLast(b) == b \in worklist /\ \A c \in worklist : ranks[c] <= ranks[b]

\* What a forward step joins into block_in: the predecessors, the seed and the
\* old value.
InflowWithoutSeed(b) == block_in[b] \cup FromPreds(problem, block_out, b)
Inflow(b) == block_in[b] \cup FromPreds(problem, block_out, b) \cup SeedAt(problem, b)

\* The blocks that go back on the worklist when a value may have grown.
WokenAlways(grown, neighbours) == neighbours
WokenNever(grown, neighbours) == {}
Woken(grown, neighbours) == IF grown THEN neighbours ELSE {}

\* pop_first, join the predecessors, the seed and the old value into block_in,
\* transfer into block_out, and wake the successors when block_out grew.
Forward(b) ==
  LET new_in == Inflow(b)
      new_out == block_out[b] \cup problem.transfer[b][new_in]
  IN  /\ ranks # NoRanks
      /\ problem.direction = "Forward"
      /\ PopsFirst(b)
      /\ block_in' = [block_in EXCEPT ![b] = new_in]
      /\ block_out' = [block_out EXCEPT ![b] = new_out]
      /\ worklist' = (worklist \ {b}) \cup Woken(new_out # block_out[b], problem.graph.succs[b])
      /\ UNCHANGED <<problem, ranks>>

\* pop_last, join the successors into block_out, transfer and seed block_in,
\* and wake the predecessors when block_in grew.
Backward(b) ==
  LET new_out == block_out[b] \cup FromSuccs(problem, block_in, b)
      new_in == block_in[b] \cup problem.transfer[b][new_out] \cup SeedAt(problem, b)
  IN  /\ ranks # NoRanks
      /\ problem.direction = "Backward"
      /\ PopsLast(b)
      /\ block_out' = [block_out EXCEPT ![b] = new_out]
      /\ block_in' = [block_in EXCEPT ![b] = new_in]
      /\ worklist' = (worklist \ {b}) \cup Woken(new_in # block_in[b], Preds(problem.graph, b))
      /\ UNCHANGED <<problem, ranks>>

Iterate == \E b \in Blocks : Forward(b) \/ Backward(b)

Next == RankBlocks \/ Iterate

\* The loop runs until it breaks: nothing suspends it.
Spec == Init /\ [][Next]_vars /\ WF_vars(Next)

-----------------------------------------------------------------------------
\* The variables hold what their Rust types promise.
TypeOK ==
  /\ problem \in Problems
  /\ ranks \in {NoRanks} \cup [Blocks -> 0 .. (Cardinality(Blocks) - 1)]
  /\ block_in \in [Blocks -> SUBSET Facts]
  /\ block_out \in [Blocks -> SUBSET Facts]
  /\ worklist \in SUBSET Blocks

\* ins and outs satisfy the data-flow inequations of p at block b.
SolvedAt(p, ins, outs, b) ==
  IF p.direction = "Forward"
  THEN /\ FromPreds(p, outs, b) \cup SeedAt(p, b) \subseteq ins[b]
       /\ p.transfer[b][ins[b]] \subseteq outs[b]
  ELSE /\ FromSuccs(p, ins, b) \subseteq outs[b]
       /\ p.transfer[b][outs[b]] \cup SeedAt(p, b) \subseteq ins[b]

\* A block that is not waiting in the worklist is up to date with its
\* neighbours: a missed wake-up in fixed_point_iter_bottom breaks this.
SettledOffWorklist ==
  \A b \in Blocks \ worklist : SolvedAt(problem, block_in, block_out, b)

\* When the loop breaks, the result solves the equations at every block, the
\* unreachable ones included.
SolvedAtEnd ==
  worklist = {} => \A b \in Blocks : SolvedAt(problem, block_in, block_out, b)

Monotone(p) ==
  \A b \in Blocks : \A X, Y \in SUBSET Facts :
     X \subseteq Y => p.transfer[b][X] \subseteq p.transfer[b][Y]

Solutions(p) ==
  {s \in [ins : [Blocks -> SUBSET Facts], outs : [Blocks -> SUBSET Facts]] :
      \A b \in Blocks : SolvedAt(p, s.ins, s.outs, b)}

\* With a monotone transfer the engine never claims more than any solution
\* does, so what it returns is the least one: no spurious diagnostic comes from
\* the iteration order.
BelowEverySolution ==
  Monotone(problem) =>
    \A s \in Solutions(problem) : \A b \in Blocks :
      block_in[b] \subseteq s.ins[b] /\ block_out[b] \subseteq s.outs[b]

\* With gen and kill transfers the engine ends on the solution Dataflow states
\* the analyses with, the least one, whatever the order of the worklist.
ComputesLeastSolution ==
  worklist = {} /\ Monotone(problem) =>
    [ins |-> block_in, outs |-> block_out] = LeastSolution(problem, Facts)

\* The loop breaks, whatever the transfer functions do (block_in and block_out
\* only grow, by join_assign).
Terminates == <>(worklist = {})
==============================================================================
