------------------------------- MODULE Pipeline -------------------------------
(***************************************************************************)
(* A function body on its way from the typed IR to the optimised MIR       *)
(* (src/src/check/fundef.rs): Lowering, then Dce on its result, and then   *)
(* the source, the MIR and the optimised MIR run side by side.  The pass   *)
(* is also given bodies of its own, with locals and with shapes the        *)
(* programs do not produce.                                                *)
(***************************************************************************)
EXTENDS Lowering, Dce

VARIABLE rest   \* what remains of the execution of the source

pipelineVars == <<lowerVars, vars, rest>>

-----------------------------------------------------------------------------
\* A configuration is what remains to be executed: a sequence of statements, of
\* tests of a loop whose setup is done, of matches that have come to a node of their
\* trees, and of one Diverges after a call that does not come back.  A loop that is
\* running is in the sequence itself, after the rest of its body, or as its test,
\* after the rest of its setup.
Test(loop) == [stmt |-> "Test", while |-> loop]
Diverges == [stmt |-> "Diverges", label |-> ""]
Deciding(match, at) == [stmt |-> "Deciding", match |-> match, at |-> at]

\* The node such a match is at.
NodeOf(s) == s.match.tree[s.at]

IsAt(s, node) == s.stmt = "Deciding" /\ NodeOf(s).node = node

\* The loop s is, or is the test of.
LoopOf(s) == IF s.stmt = "Test" THEN s.while ELSE s

IsLoop(s, loop) == s.stmt \in {"While", "Test"} /\ LoopOf(s).loop = loop

\* What is left when control leaves the statements up to a running loop.
FromLoop(left, loop) ==
  LET at == CHOOSE i \in DOMAIN left :
              IsLoop(left[i], loop) /\ \A j \in 1 .. (i - 1) : ~ IsLoop(left[j], loop)
  IN  <<LoopOf(left[at])>> \o SubSeq(left, at + 1, Len(left))

\* A statement that does nothing observable is executed first.
IsSilent(left) ==
  /\ left # <<>>
  /\ Head(left).stmt \in {"Block", "While", "Match", "Break", "Continue"} \/ IsAt(Head(left), "Leaf")

Unfolded(left) ==
  LET s == Head(left)
      after == Tail(left)
  IN  CASE s.stmt = "Block" -> s.stmts \o after
        [] s.stmt = "While" -> s.setup \o <<Test(s)>> \o after
        [] s.stmt = "Match" -> <<Deciding(s, 1)>> \o after
        [] s.stmt = "Deciding" -> s.match.arms[NodeOf(s).arm] \o after
        [] s.stmt = "Break" -> Tail(FromLoop(after, s.loop))
        [] s.stmt = "Continue" -> FromLoop(after, s.loop)

\* What any other configuration does next, and the ways to go on.
Does(what, label, ways) == [does |-> what, label |-> label, ways |-> ways]

SourceOffer(void, left) ==
  IF left = <<>> THEN Does(IF void THEN "Return" ELSE "Diverge", "", 0)
  ELSE LET s == Head(left)
       IN  CASE s.stmt = "Act" -> Does("Stmt", s.label, 1)
             [] s.stmt \in {"Call", "Never"} -> Does("Call", s.label, 1)
             [] s.stmt = "Diverges" -> Does("Diverge", "", 0)
             [] s.stmt = "Return" -> Does("Return", s.label, 0)
             [] s.stmt \in {"If", "IfElse"} -> Does("Branch", s.label, 2)
             [] s.stmt = "Test" -> Does("Branch", s.while.label, 2)
             [] IsAt(s, "Fail") -> Does("Diverge", "", 0)
             [] IsAt(s, "Cases") -> Does("Switch", NodeOf(s).label, Len(NodeOf(s).ways))

SourceAfter(left, way) ==
  LET s == Head(left)
      next == CASE s.stmt = "Never" -> <<Diverges>>
                [] s.stmt = "If" -> IF way = 1 THEN s.then ELSE <<>>
                [] s.stmt = "IfElse" -> IF way = 1 THEN s.then ELSE s.else
                [] s.stmt = "Test" -> IF way = 1 THEN s.while.body \o <<s.while>> ELSE <<>>
                [] IsAt(s, "Cases") ->
                     IF NodeOf(s).ways[way] = Uncovered THEN <<Diverges>>
                     ELSE <<Deciding(s.match, NodeOf(s).ways[way])>>
                [] OTHER -> <<>>
  IN  next \o Tail(left)

-----------------------------------------------------------------------------
FromSource ==
  /\ LowerInit
  /\ rest = program.root
  /\ mir = <<>> /\ local_map = <<>> /\ merge_next = <<>> /\ heads = {} /\ begun = {}
  /\ cursor = Nowhere /\ placed = <<>>
  /\ b = NewBuilder
  /\ phase = "waiting"
  /\ old_pos = At(EntryBlock, 1) /\ new_pos = At(EntryBlock, 1)

FromBody ==
  /\ Init
  /\ program = Program(TRUE, <<>>) /\ todo = <<>> /\ loops = <<>>
  /\ builder = NewBuilder
  /\ status = "bypassed"
  /\ rest = <<>>

PipelineInit == FromSource \/ FromBody

Lower == LowerNext /\ UNCHANGED <<vars, rest>>

\* dce(db, mir(db, f).func).
HandOver ==
  /\ status = "done"
  /\ phase = "waiting"
  /\ mir' = [params |-> <<>>, blocks |-> builder.blocks]
  /\ phase' = "start"
  /\ UNCHANGED <<lowerVars, local_map, merge_next, heads, begun, cursor, placed, b, old_pos, new_pos, rest>>

Optimise == Pass /\ UNCHANGED <<lowerVars, rest>>

\* A body compiled from a program runs, and its source with it.
Runs == phase = "run" /\ status = "done"

Silently ==
  /\ Runs /\ IsSilent(rest)
  /\ rest' = Unfolded(rest)
  /\ UNCHANGED <<lowerVars, vars>>

Step(way) ==
  /\ Runs => ~ IsSilent(rest)
  /\ RunAlong(way)
  /\ rest' = IF Runs THEN SourceAfter(rest, way) ELSE rest
  /\ UNCHANGED lowerVars

Run == phase = "run" /\ (Silently \/ \E way \in 1 .. OldOffer.ways : Step(way))

PipelineNext == Lower \/ HandOver \/ Optimise \/ Run

PipelineSpec == PipelineInit /\ [][PipelineNext]_pipelineVars

-----------------------------------------------------------------------------
\* Neither the lowering nor the pass panics: no statement is written into a
\* finished block, no block is finished twice or not at all, and every jump the
\* pass copies goes to the head of a path.
CompilerNeverPanics == LoweringNeverPanics /\ NeverPanics

\* What the pass relies on: a loop does not go back to the entry block, nor into
\* a circle of blocks that only jump.
LoweredBodiesAreWellFormed == phase = "start" => IsWellFormed(mir.blocks)

Observed(offer) == [does |-> offer.does, label |-> offer.label, ways |-> offer.ways]

\* What runs is what was written: after every run they have in common, the
\* source, the MIR and the optimised MIR do the same thing next.
CompilationPreservesExecution ==
  Runs /\ ~ IsSilent(rest) =>
    /\ Observed(OldOffer) = SourceOffer(program.void, rest)
    /\ Observed(NewOffer) = SourceOffer(program.void, rest)
==============================================================================
