------------------------------- MODULE Dataflow -------------------------------
(***************************************************************************)
(* The control-flow graph of one MIR function body, as the analyses of     *)
(* src/src/mir see it: blocks, the successors their terminators name, and  *)
(* the orders the compiler derives from them.  A graph is a record         *)
(*     [entry |-> block, succs |-> [block -> set of blocks]].              *)
(*                                                                         *)
(* With it the abstract specification of a run of fixed_point_iter_bottom: *)
(* the least solution of the data-flow equations of a problem, reached     *)
(* from the empty facts by applying all the equations at once until        *)
(* nothing changes. FixedPoint shows that the worklist engine returns it;  *)
(* the analyses are stated with it.                                        *)
(***************************************************************************)
EXTENDS Naturals, FiniteSets

CONSTANT Blocks

\* The blocks of a body are in a Vec.
ASSUME BlocksAssumption == IsFiniteSet(Blocks)

Graphs == [entry : Blocks, succs : [Blocks -> SUBSET Blocks]]

\* Mir::compute_predecessors: the inverse of the successor map.
Preds(g, b) == {a \in Blocks : b \in g.succs[a]}

Closed(g, S) == \A a \in S : g.succs[a] \subseteq S

\* Mir::compute_reachable: the blocks met by following successors.
Reachable(g, from) ==
  {b \in Blocks : \A S \in SUBSET Blocks : from \in S /\ Closed(g, S) => b \in S}

-----------------------------------------------------------------------------
\* What a caller of Mir::rpo_ranks relies on: a numbering of all the blocks in
\* which the entry comes first, the reachable blocks come before the others,
\* and an edge between reachable blocks goes upwards unless it closes a cycle.
IsReversePostorder(g, rank) ==
  LET live == Reachable(g, g.entry)
  IN  /\ \A a, b \in Blocks : rank[a] = rank[b] => a = b
      /\ rank[g.entry] = 0
      /\ \A a \in live, b \in Blocks \ live : rank[a] < rank[b]
      /\ \A a \in live : \A b \in g.succs[a] :
            rank[a] < rank[b] \/ a \in Reachable(g, b)

RankOrders(g) ==
  {rank \in [Blocks -> 0 .. (Cardinality(Blocks) - 1)] : IsReversePostorder(g, rank)}

-----------------------------------------------------------------------------
\* The equations.
SeedAt(p, b) == IF b = p.graph.entry THEN p.seed ELSE {}

FromPreds(p, outs, b) == UNION {outs[a] : a \in Preds(p.graph, b)}

FromSuccs(p, ins, b) == UNION {ins[a] : a \in p.graph.succs[b]}

\* One application of the equations at every block.
Sweep(p, s) ==
  IF p.direction = "Forward"
  THEN LET ins == [b \in Blocks |-> FromPreds(p, s.outs, b) \cup SeedAt(p, b)]
       IN  [ins |-> ins, outs |-> [b \in Blocks |-> p.transfer[b][ins[b]]]]
  ELSE LET outs == [b \in Blocks |-> FromSuccs(p, s.ins, b)]
       IN  [ins |-> [b \in Blocks |-> p.transfer[b][outs[b]] \cup SeedAt(p, b)], outs |-> outs]

\* What a run may hold at the entries and the exits of the blocks.
Assignments(facts) == [ins : [Blocks -> SUBSET facts], outs : [Blocks -> SUBSET facts]]

NoFacts == [ins |-> [b \in Blocks |-> {}], outs |-> [b \in Blocks |-> {}]]

\* For monotone transfers; another one need not settle.
LeastSolution(p, facts) ==
  LET settle[s \in Assignments(facts)] ==
        IF Sweep(p, s) = s THEN s ELSE settle[Sweep(p, s)]
  IN  settle[NoFacts]
==============================================================================
