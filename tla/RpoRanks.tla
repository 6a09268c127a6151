------------------------------- MODULE RpoRanks -------------------------------
(***************************************************************************)
(* Mir::rpo_ranks (src/src/mir/analysis/lattice.rs) in front of the loop   *)
(* of FixedPoint: the iterative depth-first search that numbers the blocks *)
(* for the worklist.  The successors are a HashSet, so the order in which  *)
(* they are pushed is any order.                                           *)
(***************************************************************************)
EXTENDS FixedPoint, SequencesExt

VARIABLES
  stack,       \* entries [blk, processed]; the top is the last element
  visited,
  postorder

searchVars == <<stack, visited, postorder>>

Entry(blk, processed) == [blk |-> blk, processed |-> processed]

EngineInit ==
  /\ Init
  /\ stack = <<Entry(problem.graph.entry, FALSE)>>
  /\ visited = {}
  /\ postorder = <<>>

Top == stack[Len(stack)]

\* The second visit of a block: its descendants are done.
Finish ==
  /\ stack # <<>>
  /\ Top.processed
  /\ postorder' = Append(postorder, Top.blk)
  /\ stack' = Front(stack)
  /\ UNCHANGED <<vars, visited>>

\* A block that was pushed twice before its first visit.
Skip ==
  /\ stack # <<>>
  /\ ~ Top.processed
  /\ Top.blk \in visited
  /\ stack' = Front(stack)
  /\ UNCHANGED <<vars, visited, postorder>>

\* The first visit: come back later, and push the unvisited successors.
Visit ==
  /\ stack # <<>>
  /\ ~ Top.processed
  /\ Top.blk \notin visited
  /\ LET seen == visited \cup {Top.blk}
     IN  /\ visited' = seen
         /\ \E order \in SetToSeqs(problem.graph.succs[Top.blk] \ seen) :
              stack' = Append(Front(stack), Entry(Top.blk, TRUE)) \o
                         [i \in DOMAIN order |-> Entry(order[i], FALSE)]
  /\ UNCHANGED <<vars, postorder>>

\* The rank of a block in an order, from 0.
RankFromOne(order, b) == CHOOSE i \in DOMAIN order : order[i] = b
RankFromTheEnd(order, b) == Len(order) - RankFromOne(order, b)
RankOf(order, b) == RankFromOne(order, b) - 1

\* The reverse of the postorder is numbered from 0, and the blocks the search
\* did not meet follow it.
Number ==
  /\ stack = <<>>
  /\ ranks = NoRanks
  /\ \E rest \in SetToSeqs(Blocks \ ToSet(postorder)) :
       LET order == Reverse(postorder) \o rest
       IN  ranks' = [b \in Blocks |-> RankOf(order, b)]
  /\ UNCHANGED <<problem, block_in, block_out, worklist, searchVars>>

Loop == Iterate /\ UNCHANGED searchVars

EngineNext == Finish \/ Skip \/ Visit \/ Number \/ Loop

\* The call runs until the loop breaks: nothing suspends it.
EngineSpec == EngineInit /\ [][EngineNext]_<<vars, searchVars>> /\ WF_<<vars, searchVars>>(EngineNext)

-----------------------------------------------------------------------------
\* The engine is a FixedPoint: whatever order the HashSets list the successors
\* in, the search ends with a reverse postorder of the graph.
ImplementsFixedPoint == Init /\ [][Next]_vars
==============================================================================
